----------------------------- MODULE TlsStream -----------------------------
(***************************************************************************)
(* The TLS stream over rustls (hclient-tls-rustls/src/stream.rs, and the   *)
(* handshake that drives it in lib.rs).  rustls is a machine with an       *)
(* outgoing queue and a bounded plaintext buffer; the stream moves records *)
(* between it and a transport whose every call may answer Pending.  A      *)
(* record is a number: data is numbered from 1, and the others are named.  *)
(***************************************************************************)
EXTENDS Naturals, Sequences, SequencesExt, FiniteSetsExt

CONSTANTS
  MaxOut,      \* records the caller writes
  MaxIn,       \* data records the peer sends
  PlainLimit,  \* records rustls keeps decrypted before it signals backpressure
  Scratch,     \* records one transport read carries
  TlsRoom      \* records the transport takes before it blocks

VARIABLE tls

ASSUME TlsAssumption ==
  /\ MaxOut \in Nat /\ MaxIn \in Nat
  /\ PlainLimit \in Nat /\ Scratch \in Nat /\ TlsRoom \in Nat

\* A record rustls answers by itself: the server's handshake flight, which ends
\* the handshake, and a key update after it; and the answer.
Asks == 0

\* The close_notify of either side comes after every data record.
CloseOut == MaxOut + 1
CloseIn == MaxIn + 1

\* The data records of s, in their order.
Datas(s, max) ==
  LET first[i \in 0..Len(s)] ==
        IF i = 0 THEN <<>>
        ELSE IF s[i] \in 1..max THEN Append(first[i - 1], s[i]) ELSE first[i - 1]
  IN  first[Len(s)]

\* out, handed: what rustls still has to send and what the transport took;
\* flushed says that the transport passed it on.  net, carry, plain, got: the
\* peer's records on the wire, in Pending, decrypted, and read by the caller.
\* waits is what the last poll, if it answered Pending, left its waker for.
TlsInit ==
  tls = [pc |-> "handshake", shaking |-> TRUE,
         given |-> 0, out |-> <<0>>, handed |-> <<>>, flushed |-> TRUE, room |-> TlsRoom,
         closing |-> FALSE, fin |-> FALSE,
         sent |-> <<>>, net |-> <<>>, hung |-> FALSE,
         carry |-> <<>>, plain |-> <<>>, got |-> <<>>, closed |-> FALSE, eof |-> FALSE,
         told |-> "no", waits |-> "none"]

\* flush_outgoing: write_tls until rustls wants no more, each write taking what
\* the transport has room for and no more leaving rustls's queue; then the
\* transport's own flush, which answers as f says.
FlushOutgoing(t, f) ==
  LET n == Min({t.room, Len(t.out)})
      rest == SubSeq(t.out, n + 1, Len(t.out))
  IN  [t EXCEPT !.handed = @ \o SubSeq(t.out, 1, n), !.out = rest, !.room = @ - n,
                !.flushed = IF rest # <<>> THEN @ /\ n = 0 ELSE f,
                !.waits = IF rest # <<>> THEN "room" ELSE IF f THEN "none" ELSE "flush"]

FlushDone(t) == t.waits = "none"

\* A transport whose flush has nothing to do answers at once.
FlushAnswers(t) == IF t.out = <<>> /\ t.flushed THEN {TRUE} ELSE BOOLEAN

\* rustls takes one record: data is decrypted, what it has to answer is queued,
\* unless its own close_notify was.
Takes(t, r) ==
  IF r = Asks
  THEN [t EXCEPT !.out = IF t.closing THEN @ ELSE Append(@, 0), !.shaking = FALSE]
  ELSE IF r = CloseIn THEN [t EXCEPT !.closed = TRUE]
  ELSE [t EXCEPT !.plain = Append(@, r)]

\* feed: record by record until the bytes are used up or the plaintext buffer is
\* full.  taken is how many were taken.
Feed(t, rs) ==
  LET step(a, r) == IF Len(a.t.plain) >= PlainLimit THEN a
                    ELSE [t |-> Takes(a.t, r), taken |-> a.taken + 1]
      fed[i \in 0..Len(rs)] ==
        IF i = 0 THEN [t |-> t, taken |-> 0] ELSE step(fed[i - 1], rs[i])
  IN  fed[Len(rs)]

\* pump_incoming with what is left of the last read: no transport read.
PumpCarried(t) ==
  LET fed == Feed(t, t.carry)
  IN  [fed.t EXCEPT !.carry = SubSeq(@, fed.taken + 1, Len(@))]

\* pump_incoming with a transport read of n records; none is the end of the
\* stream, which rustls is told as well.
PumpRead(t, n) ==
  LET rs == SubSeq(t.net, 1, n)
      fed == Feed([t EXCEPT !.net = SubSeq(@, n + 1, Len(@))], rs)
  IN  IF n = 0 THEN [t EXCEPT !.eof = TRUE]
      ELSE [fed.t EXCEPT !.carry = SubSeq(rs, fed.taken + 1, n)]

Readable(t) == {n \in 0..Min({Scratch, Len(t.net)}) : n > 0 \/ (t.net = <<>> /\ t.hung)}

\* What pump_incoming answers in state t: the new state, or Pending with the
\* waker left for the transport's read.
Pumped(t) ==
  IF t.carry # <<>> THEN {PumpCarried(t)}
  ELSE IF Readable(t) = {} THEN {[t EXCEPT !.waits = "read"]}
  ELSE {PumpRead(t, n) : n \in Readable(t)}

\* One pass of the handshake's loop; what the transport has may change between
\* two passes.  End of stream while handshaking is an error.
HandshakePass ==
  /\ tls.pc = "handshake"
  /\ \E f \in FlushAnswers(tls) :
       LET t == FlushOutgoing(tls, f)
       IN  IF ~FlushDone(t) THEN tls' = t
           ELSE IF ~t.shaking THEN tls' = [t EXCEPT !.pc = "idle"]
           ELSE \E p \in Pumped(t) :
                  tls' = IF p.eof THEN [p EXCEPT !.pc = "failed"] ELSE p

\* poll_read's loop: what is decrypted first, then what rustls says of the end,
\* then the flush, then the transport.
ReadPass ==
  /\ tls.pc \in {"idle", "reading"} /\ tls.told = "no"
  /\ IF tls.plain # <<>>
     THEN \E n \in 1..Len(tls.plain) :
            tls' = [tls EXCEPT !.got = @ \o SubSeq(tls.plain, 1, n), !.pc = "idle",
                               !.plain = SubSeq(@, n + 1, Len(@)), !.waits = "none"]
     ELSE IF tls.closed \/ tls.eof
     THEN tls' = [tls EXCEPT !.told = IF tls.closed THEN "clean" ELSE "cut",
                             !.pc = "idle", !.waits = "none"]
     ELSE \E f \in FlushAnswers(tls) :
            LET t == FlushOutgoing(tls, f)
            IN  IF ~FlushDone(t) THEN tls' = [t EXCEPT !.pc = "idle"]
                ELSE \E p \in Pumped(t) :
                       tls' = [p EXCEPT !.pc = IF p.waits = "read" THEN "idle" ELSE "reading"]

\* A mutation: the flush comes after the write, so that a caller told Pending
\* writes the same record again.
TlsPollWriteTwice ==
  /\ tls.pc = "idle" /\ ~tls.closing /\ tls.given < MaxOut
  /\ \E f \in BOOLEAN :
       LET t == FlushOutgoing([tls EXCEPT !.out = Append(@, tls.given + 1)], f)
       IN  tls' = IF FlushDone(t) THEN [t EXCEPT !.given = @ + 1] ELSE t

\* poll_write of the next record: what an earlier call left is flushed first,
\* and a Pending takes nothing of this call's data; once rustls has the data the
\* answer is Ready however far the flush came.  rustls refuses data only while its
\* queue is full, and a finished flush has just emptied it: the branch for that is
\* never taken.
TlsPollWrite ==
  /\ tls.pc = "idle" /\ ~tls.closing /\ tls.given < MaxOut
  /\ \E f \in FlushAnswers(tls) :
       LET t == FlushOutgoing(tls, f)
           w == [t EXCEPT !.out = Append(@, tls.given + 1), !.given = @ + 1]
       IN  IF ~FlushDone(t) THEN tls' = t
           ELSE \E g \in BOOLEAN : tls' = [FlushOutgoing(w, g) EXCEPT !.waits = "none"]

TlsPollFlush ==
  /\ tls.pc = "idle"
  /\ \E f \in FlushAnswers(tls) : tls' = FlushOutgoing(tls, f)

\* poll_shutdown: the close_notify is queued once; the transport's own half
\* close follows when it has gone out.
TlsPollShutdown ==
  /\ tls.pc = "idle" /\ ~tls.fin
  /\ LET c == IF tls.closing THEN tls
              ELSE [tls EXCEPT !.closing = TRUE, !.out = Append(@, CloseOut)]
     IN  \E f \in FlushAnswers(c) :
           LET t == FlushOutgoing(c, f)
           IN  tls' = IF FlushDone(t) THEN [t EXCEPT !.fin = TRUE] ELSE t

\* The peer: its flight first, then data with key updates between, then a
\* close_notify or nothing, then the end of the connection; and it reads what
\* the transport took.
TlsPeerMoves ==
  \/ /\ ~tls.hung /\ CloseIn \notin Range(tls.sent)
     /\ \E r \in IF tls.sent = <<>> THEN {Asks}
                 ELSE {Len(Datas(tls.sent, MaxIn)) + 1, CloseIn}
                      \cup (IF Last(tls.sent) = 1 THEN {Asks} ELSE {}) :
          tls' = [tls EXCEPT !.sent = Append(@, r), !.net = Append(@, r)]
  \/ ~tls.hung /\ tls' = [tls EXCEPT !.hung = TRUE]
  \/ tls.room < TlsRoom /\ tls' = [tls EXCEPT !.room = TlsRoom]

TlsNext ==
  \/ HandshakePass \/ ReadPass \/ TlsPollWrite \/ TlsPollFlush \/ TlsPollShutdown
  \/ TlsPeerMoves

-----------------------------------------------------------------------------

TlsTypeOK ==
  /\ tls.pc \in {"handshake", "idle", "reading", "failed"}
  /\ tls.out \in Seq(0..CloseOut) /\ tls.handed \in Seq(0..CloseOut)
  /\ tls.told \in {"no", "clean", "cut"} /\ tls.waits \in {"none", "room", "flush", "read"}

\* Every Pending of the transport comes between two steps that may neither lose
\* nor repeat a record.  What the caller wrote is on its way once and in order,
\* and the half-close follows the close_notify; what the peer sent is read in
\* order, or is still held somewhere; a caller is told of a clean end only after
\* a close_notify and everything before it, and of a cut only without one; and a
\* poll waits for the transport's read only when the stream holds nothing that
\* could be read or sent (flush_outgoing, pump_incoming, poll_read, poll_write).
TlsHolds ==
  /\ TlsTypeOK
  /\ Datas(tls.handed \o tls.out, MaxOut) = [i \in 1..tls.given |-> i]
  /\ tls.fin => tls.out = <<>> /\ tls.flushed /\ CloseOut \in Range(tls.handed)
  /\ Datas(tls.got \o tls.plain \o tls.carry \o tls.net, MaxIn) = Datas(tls.sent, MaxIn)
  /\ tls.told = "clean" => CloseIn \in Range(tls.sent) /\ tls.got = Datas(tls.sent, MaxIn)
  /\ tls.told = "cut" => CloseIn \notin Range(tls.sent) /\ tls.got = Datas(tls.sent, MaxIn)
  /\ tls.waits = "read" => tls.plain = <<>> /\ tls.carry = <<>> /\ tls.out = <<>>
                           /\ ~tls.closed /\ ~tls.eof
=============================================================================
