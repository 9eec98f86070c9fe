----------------------------- MODULE LinkProofs -----------------------------
(***************************************************************************)
(* The links under a request, for any number of messages, writes and       *)
(* datagrams and any bounds: the tunnels and handshakes of the proxies,    *)
(* and the keep-alives of HTTP/2 connections and WebSockets.  PartsMove of *)
(* TransportProofs says what a step of the composition is to each of them, *)
(* to the browser and URLSession proved there, and to the seams and        *)
(* WinHTTP proved in SeamProofs.                                           *)
(***************************************************************************)
EXTENDS TransportProofs, SeamProofs, SequenceTheorems

------------------------------------------------------------------------------
(* The versions a tunnel is asked for over (dial.rs).                      *)

H3Offered(t) == "h3" \in t.takes \cap t.lends

\* What an attempt has asked for: the version it is in, and, where HTTP/2 does
\* not follow, HTTP/3 before it gives up.
TunnelTried(t) ==
  /\ t.pc = "h3" => "h3" \in t.tried
  /\ t.pc = "h2" => "h2" \in t.tried /\ H2Follows(t)
  /\ t.pc = "ended" /\ t.outcome \in {"h3_error", "h2_error", "unsupported"} =>
       /\ H2Follows(t) => "h2" \in t.tried
       /\ H3Offered(t) /\ ~H2Follows(t) => "h3" \in t.tried

TriedInv ==
  /\ tNow \in 0 .. TunnelMaxTime
  /\ tunnel \in TunnelType
  /\ TunnelTried(tunnel)

LEMMA TriedBegins == DialInit => TriedInv
<1>1. TunnelMaxTime \in Nat
  BY TunnelBoundsOK
<1> QED
  BY <1>1 DEF DialInit, TriedInv, TunnelTried, NoTunnel, TunnelType

LEMMA TriedHolds ==
  TriedInv => /\ tNow \in 0 .. TunnelMaxTime
              /\ tunnel.pc \in {"idle", "h3", "h2", "ended"}
              /\ BothVersionsAreTried
BY DEF TriedInv, TunnelTried, TunnelType, BothVersionsAreTried, H3Offered

\* Giving HTTP/3 up leaves every version tried that there was to try.
LEMMA AfterH3Tried ==
  ASSUME NEW t \in TunnelType, NEW failed \in BOOLEAN,
         H3Offered(t) /\ ~H2Follows(t) => "h3" \in t.tried
  PROVE  AfterH3(t, failed) \in TunnelType /\ TunnelTried(AfterH3(t, failed))
<1>1. CASE H2Follows(t)
  <2> DEFINE u == [t EXCEPT !.pc = "h2", !.tried = t.tried \cup {"h2"}]
  <2>1. t.tried \cup {"h2"} \in SUBSET Versions
    BY DEF TunnelType, Versions
  <2>2. AfterH3(t, failed) = u
    BY <1>1 DEF AfterH3
  <2>3. /\ u \in TunnelType /\ u.pc = "h2" /\ u.tried = t.tried \cup {"h2"}
        /\ u.takes = t.takes /\ u.lends = t.lends
    BY <2>1 DEF TunnelType
  <2>4. TunnelTried(u)
    BY <1>1, <2>3 DEF TunnelTried, H2Follows
  <2> QED
    BY <2>2, <2>3, <2>4
<1>2. CASE ~H2Follows(t)
  <2> DEFINE o == IF failed THEN "h3_error" ELSE "unsupported"
             u == [t EXCEPT !.pc = "ended", !.outcome = o]
  <2>1. AfterH3(t, failed) = u
        /\ o \in {"none", "open", "h3_error", "h2_error", "unsupported", "timeout"}
    BY <1>2 DEF AfterH3
  <2> HIDE DEF o
  <2>2. /\ u \in TunnelType /\ u.pc = "ended" /\ u.tried = t.tried
        /\ u.takes = t.takes /\ u.lends = t.lends
    BY <2>1 DEF TunnelType
  <2>3. TunnelTried(u)
    BY <1>2, <2>2 DEF TunnelTried, H2Follows, H3Offered
  <2> QED
    BY <2>1, <2>2, <2>3
<1> QED
  BY <1>1, <1>2

LEMMA AskTunnelTries ==
  ASSUME TriedInv, NEW r \in TunnelRequests, AskTunnel(r)
  PROVE  TriedInv'
<1> DEFINE t == [NoTunnel EXCEPT !.takes = r.takes, !.lends = r.lends,
                                 !.due = tNow + r.bound, !.pc = "h3"]
           left == tNow + H3Budget(r, r.bound)
           h == [t EXCEPT !.tried = {"h3"}, !.h3Left = r.bound, !.h3Due = left]
<1>1. tNow \in 0 .. TunnelMaxTime /\ tNow' = tNow
      /\ tunnel' = IF AsksH3(r) THEN h ELSE AfterH3(t, FALSE)
  BY DEF AskTunnel, TriedInv
<1>a. tNow \in Nat /\ tNow' \in 0 .. TunnelMaxTime
  BY <1>1, TunnelBoundsOK
<1>2. r.bound \in Nat /\ r.takes \in SUBSET Versions /\ r.lends \in SUBSET Versions
  BY TunnelBoundsOK DEF TunnelRequests, Versions
<1>3. tNow + r.bound \in Nat
  BY <1>a, <1>2
<1>4. t \in TunnelType /\ t.takes = r.takes /\ t.lends = r.lends
  BY <1>2, <1>3 DEF NoTunnel, TunnelType
<1>5. H3Budget(r, r.bound) \in Nat
  <2>1. H3TunnelBeforeH2 \in Nat
    BY TunnelBoundsOK
  <2>2. r.bound \div 2 \in Nat
    BY <1>2
  <2> QED
    BY <1>2, <2>1, <2>2 DEF H3Budget, Min2
<1>6. left \in Nat
  BY <1>a, <1>5
<1>7. CASE AsksH3(r)
  <2> HIDE DEF t, left
  <2>1. {"h3"} \in SUBSET Versions
    BY DEF Versions
  <2>2. h \in TunnelType /\ h.tried = {"h3"} /\ h.pc = t.pc
    BY <1>2, <1>4, <1>6, <2>1 DEF TunnelType
  <2>3. t.pc = "h3"
    BY DEF t, NoTunnel
  <2>4. TunnelTried(h)
    BY <2>2, <2>3 DEF TunnelTried
  <2> HIDE DEF h
  <2> QED
    BY <1>1, <1>a, <1>7, <2>2, <2>4 DEF TriedInv
<1>8. CASE ~AsksH3(r)
  <2>1. H3Offered(t) => H2Follows(t)
    BY <1>4, <1>8 DEF AsksH3, H3Offered, H2Follows
  <2> HIDE DEF t
  <2>2. tunnel' = AfterH3(t, FALSE)
    BY <1>1, <1>8
  <2> QED
    BY <1>a, <1>4, <2>1, <2>2, AfterH3Tried DEF TriedInv
<1> QED
  BY <1>7, <1>8

LEMMA TriedStep == TriedInv /\ [DialNext]_dialVars => TriedInv'
<1> SUFFICES ASSUME TriedInv, [DialNext]_dialVars PROVE TriedInv'
  OBVIOUS
<1>0. tNow \in 0 .. TunnelMaxTime /\ tunnel \in TunnelType /\ TunnelTried(tunnel)
  BY DEF TriedInv
<1>1. CASE UNCHANGED dialVars
  BY <1>0, <1>1 DEF dialVars, TriedInv
<1>2. CASE \E r \in TunnelRequests : AskTunnel(r)
  BY <1>2, AskTunnelTries
<1>3. CASE H3TunnelOpens \/ TunnelTimesOut
  <2>1. PICK o \in {"open", "timeout"} : tunnel' = [tunnel EXCEPT !.pc = "ended", !.outcome = o]
    BY <1>3 DEF H3TunnelOpens, TunnelTimesOut
  <2>2. tunnel' \in TunnelType /\ tunnel'.pc = "ended" /\ tunnel'.outcome = o
    BY <1>0, <2>1 DEF TunnelType
  <2>3. tNow' = tNow
    BY <1>3 DEF H3TunnelOpens, TunnelTimesOut
  <2> QED
    BY <1>0, <2>2, <2>3 DEF TriedInv, TunnelTried
<1>4. CASE H2TunnelEnds
  <2>1. PICK o \in {"open", "h2_error"} : tunnel' = [tunnel EXCEPT !.pc = "ended", !.outcome = o]
    BY <1>4 DEF H2TunnelEnds
  <2>2. /\ tunnel' \in TunnelType /\ tunnel'.pc = "ended" /\ tunnel'.tried = tunnel.tried
        /\ tunnel'.takes = tunnel.takes /\ tunnel'.lends = tunnel.lends
    BY <1>0, <2>1 DEF TunnelType
  <2>3. tNow' = tNow /\ "h2" \in tunnel.tried /\ H2Follows(tunnel)
    BY <1>0, <1>4 DEF H2TunnelEnds, TunnelTried
  <2> QED
    BY <1>0, <2>2, <2>3 DEF TriedInv, TunnelTried, H2Follows
<1>5. CASE H3TunnelFails
  <2>1. tunnel.pc = "h3" /\ tNow' = tNow /\ tunnel' = AfterH3(tunnel, TRUE)
    BY <1>5 DEF H3TunnelFails
  <2>2. "h3" \in tunnel.tried
    BY <1>0, <2>1 DEF TunnelTried
  <2> QED
    BY <1>0, <2>1, <2>2, AfterH3Tried DEF TriedInv
<1>6. CASE ForgetTunnelFailures
  BY <1>0, <1>6 DEF ForgetTunnelFailures, TriedInv
<1>7. CASE TunnelTick
  <2>1. tNow' \in 0 .. TunnelMaxTime /\ tunnel' = tunnel
    BY <1>0, <1>7, TunnelBoundsOK DEF TunnelTick
  <2> QED
    BY <1>0, <2>1 DEF TriedInv
<1> QED
  BY <1>1, <1>2, <1>3, <1>4, <1>5, <1>6, <1>7 DEF DialNext

------------------------------------------------------------------------------
(* The write half of an HTTP/3 tunnel (dial.rs).                           *)

WriterStates == {"idle", "busy", "finishing", "shut"}

WriterType ==
  [state : WriterStates, accepted : Nat, sent : Nat, lost : Nat, told : Nat, fin : BOOLEAN]

\* Every accepted write is in flight, sent, or lost and answered for.
WriteAccounted(w) ==
  /\ w \in WriterType
  /\ w.accepted = w.sent + w.lost + (IF w.state = "busy" THEN 1 ELSE 0)
  /\ w.told = w.lost
  /\ w.fin => w.state = "shut"

WriterInv == WriteAccounted(writer)

LEMMA WriterBegins ==
  WriterInit => WriterInv
BY DEF WriterInit, NoWriter, WriterInv, WriteAccounted, WriterType, WriterStates

\* A settled operation leaves the account balanced, and nothing in flight.
LEMMA WriteSettles ==
  ASSUME NEW w, WriteAccounted(w)
  PROVE  /\ WriteAccounted(SettleWell(w)) /\ SettleWell(w).state \in {"idle", "shut"}
         /\ SettleWell(w).accepted = w.accepted
         /\ w.state \in {"busy", "finishing"} => WriteAccounted(SettleBadly(w))
<1>0. /\ w \in WriterType /\ w.state \in WriterStates /\ w.accepted \in Nat /\ w.sent \in Nat /\ w.lost \in Nat
      /\ w.told \in Nat /\ w.fin \in BOOLEAN
  BY DEF WriteAccounted, WriterType
<1>1. w.sent + 1 \in Nat /\ w.lost + 1 \in Nat /\ w.told + 1 \in Nat /\ "idle" \in WriterStates /\ "shut" \in WriterStates
  BY <1>0 DEF WriterStates
<1>2. CASE w.state = "busy"
  <2> DEFINE g == SettleWell(w)
             b == SettleBadly(w)
  <2>1. g = [w EXCEPT !.state = "idle", !.sent = w.sent + 1]
    BY <1>2 DEF SettleWell
  <2>2. b = [w EXCEPT !.state = "idle", !.lost = w.lost + 1, !.told = w.told + 1]
    BY <1>2 DEF SettleBadly
  <2> HIDE DEF g, b
  <2>3. g \in WriterType /\ b \in WriterType
    BY <1>0, <1>1, <2>1, <2>2 DEF WriterType
  <2>4. /\ g.state = "idle" /\ g.sent = w.sent + 1 /\ g.accepted = w.accepted /\ g.lost = w.lost
        /\ g.told = w.told /\ g.fin = w.fin
    BY <1>0, <2>1 DEF WriterType
  <2>5. /\ b.state = "idle" /\ b.sent = w.sent /\ b.accepted = w.accepted /\ b.lost = w.lost + 1
        /\ b.told = w.told + 1 /\ b.fin = w.fin
    BY <1>0, <2>2 DEF WriterType
  <2>6. w.accepted = w.sent + w.lost + 1 /\ w.told = w.lost /\ ~w.fin
    BY <1>2 DEF WriteAccounted
  <2>7. WriteAccounted(g) /\ WriteAccounted(b)
    BY <1>0, <2>3, <2>4, <2>5, <2>6 DEF WriteAccounted
  <2> QED
    BY <2>4, <2>7 DEF g, b
<1>3. CASE w.state = "finishing"
  <2> DEFINE g == SettleWell(w)
             b == SettleBadly(w)
  <2>1. g = [w EXCEPT !.state = "shut", !.fin = TRUE]
    BY <1>3 DEF SettleWell
  <2>2. b = [w EXCEPT !.state = "shut"]
    BY <1>3 DEF SettleBadly
  <2> HIDE DEF g, b
  <2>3. g \in WriterType /\ b \in WriterType
    BY <1>0, <1>1, <2>1, <2>2 DEF WriterType
  <2>4. /\ g.state = "shut" /\ g.sent = w.sent /\ g.accepted = w.accepted /\ g.lost = w.lost /\ g.told = w.told
    BY <1>0, <2>1 DEF WriterType
  <2>5. /\ b.state = "shut" /\ b.sent = w.sent /\ b.accepted = w.accepted /\ b.lost = w.lost /\ b.told = w.told
    BY <1>0, <2>2 DEF WriterType
  <2>6. w.accepted = w.sent + w.lost + 0 /\ w.told = w.lost
    BY <1>3 DEF WriteAccounted
  <2>7. WriteAccounted(g) /\ WriteAccounted(b)
    BY <1>0, <2>3, <2>4, <2>5, <2>6 DEF WriteAccounted
  <2> QED
    BY <2>4, <2>7 DEF g, b
<1>4. CASE w.state \in {"idle", "shut"}
  <2>1. SettleWell(w) = w
    BY <1>4 DEF SettleWell
  <2> QED
    BY <1>4, <2>1
<1> QED
  BY <1>0, <1>2, <1>3, <1>4 DEF WriterStates

LEMMA WriterStep ==
  WriterInv /\ [WriterNext]_writer => WriterInv'
<1> SUFFICES ASSUME WriterInv, [WriterNext]_writer PROVE WriterInv'
  OBVIOUS
<1>0. WriteAccounted(writer)
  BY DEF WriterInv
<1> DEFINE w == SettleWell(writer)
           started == [w EXCEPT !.state = "busy", !.accepted = @ + 1]
           finishing == [w EXCEPT !.state = "finishing"]
<1>1. WriteAccounted(w) /\ w.state \in {"idle", "shut"}
  BY <1>0, WriteSettles
<1> HIDE DEF w
<1>2. /\ w \in WriterType /\ w.accepted \in Nat /\ w.sent \in Nat /\ w.lost \in Nat /\ w.accepted + 1 \in Nat
      /\ "busy" \in WriterStates /\ "finishing" \in WriterStates
  BY <1>1 DEF WriteAccounted, WriterType, WriterStates
<1>3. w.state = "idle" => WriteAccounted(started) /\ started.state = "busy"
  <2> SUFFICES ASSUME w.state = "idle" PROVE WriteAccounted(started) /\ started.state = "busy"
    OBVIOUS
  <2>1. started \in WriterType
    BY <1>2 DEF WriterType
  <2>2. /\ started.state = "busy" /\ started.accepted = w.accepted + 1 /\ started.sent = w.sent
        /\ started.lost = w.lost /\ started.told = w.told /\ started.fin = w.fin
    BY <1>2 DEF WriterType
  <2> HIDE DEF started
  <2>3. w.accepted = w.sent + w.lost + 0 /\ w.told = w.lost /\ ~w.fin
    BY <1>1 DEF WriteAccounted
  <2> QED
    BY <1>2, <2>1, <2>2, <2>3 DEF WriteAccounted
<1>4. w.state = "idle" => WriteAccounted(finishing) /\ finishing.state = "finishing"
  <2> SUFFICES ASSUME w.state = "idle" PROVE WriteAccounted(finishing) /\ finishing.state = "finishing"
    OBVIOUS
  <2>1. finishing \in WriterType
    BY <1>2 DEF WriterType
  <2>2. /\ finishing.state = "finishing" /\ finishing.accepted = w.accepted /\ finishing.sent = w.sent
        /\ finishing.lost = w.lost /\ finishing.told = w.told /\ finishing.fin = w.fin
    BY <1>2 DEF WriterType
  <2> HIDE DEF finishing
  <2>3. w.accepted = w.sent + w.lost + 0 /\ w.told = w.lost /\ ~w.fin
    BY <1>1 DEF WriteAccounted
  <2> QED
    BY <1>2, <2>1, <2>2, <2>3 DEF WriteAccounted
<1> HIDE DEF started, finishing
<1>5. CASE UNCHANGED writer
  BY <1>0, <1>5 DEF WriterInv
<1>6. CASE PollWrite
  <2>1. IF w.state = "shut" THEN writer' = w
        ELSE writer' \in {started, SettleWell(started), SettleBadly(started)}
    BY <1>6 DEF PollWrite, w, started
  <2>2. CASE w.state = "shut"
    BY <1>1, <2>1, <2>2 DEF WriterInv
  <2>3. CASE w.state = "idle"
    BY <1>3, <2>1, <2>3, WriteSettles DEF WriterInv
  <2> QED
    BY <1>1, <2>2, <2>3
<1>7. CASE PollFails
  BY <1>0, <1>7, WriteSettles DEF PollFails, InFlight, WriterInv
<1>8. CASE PollFlush
  BY <1>0, <1>8, WriteSettles DEF PollFlush, WriterInv
<1>9. CASE PollClose
  <2>1. IF w.state = "shut" THEN writer' = w
        ELSE writer' \in {finishing, SettleWell(finishing), SettleBadly(finishing)}
    BY <1>9 DEF PollClose, w, finishing
  <2>2. CASE w.state = "shut"
    BY <1>1, <2>1, <2>2 DEF WriterInv
  <2>3. CASE w.state = "idle"
    BY <1>4, <2>1, <2>3, WriteSettles DEF WriterInv
  <2> QED
    BY <1>1, <2>2, <2>3
<1> QED
  BY <1>5, <1>6, <1>7, <1>8, <1>9 DEF WriterNext

------------------------------------------------------------------------------
(* The receive half of a SOCKS5 UDP association (socks.rs).                *)

\* Where the payloads of a batch are, and those of all the batches of a queue.
PayloadsAt(b) == IF b.fromRelay THEN {j \in 1 .. Len(b.segs) : b.segs[j] = "payload"} ELSE {}
Undelivered(q) == {p \in (1 .. Len(q)) \X (1 .. 2) : p[2] \in PayloadsAt(q[p[1]])}

BatchIn(n, b) == {<<n, j>> : j \in PayloadsAt(b)}

LEMMA FunctionIsSeq ==
  ASSUME NEW S, NEW n \in Nat, NEW s \in [1 .. n -> S]
  PROVE  s \in Seq(S) /\ Len(s) = n
<1>1. s \in Seq(S)
  BY SeqDef
<1>2. DOMAIN s = 1 .. Len(s) /\ Len(s) \in Nat
  BY <1>1, LenProperties
<1>3. 1 .. n = 1 .. Len(s)
  BY <1>2
<1>4. Len(s) = n
  BY <1>2, <1>3
<1> QED
  BY <1>1, <1>4

LEMMA BatchPayloads ==
  ASSUME NEW b \in Batches
  PROVE  /\ PayloadsAt(b) \subseteq 1 .. 2 /\ IsFiniteSet(PayloadsAt(b))
         /\ Payloads(b) = Cardinality(PayloadsAt(b)) /\ Payloads(b) \in 0 .. 2
<1>1. b.segs \in Seq(Segments) /\ Len(b.segs) \in 0 .. 2
  <2>1. b.segs = <<>> \/ b.segs \in [1 .. 1 -> Segments] \/ b.segs \in [1 .. 2 -> Segments]
    BY DEF Batches
  <2>2. ASSUME b.segs \in [1 .. 1 -> Segments] PROVE b.segs \in Seq(Segments) /\ Len(b.segs) = 1
    BY <2>2, FunctionIsSeq
  <2>3. ASSUME b.segs \in [1 .. 2 -> Segments] PROVE b.segs \in Seq(Segments) /\ Len(b.segs) = 2
    BY <2>3, FunctionIsSeq
  <2>4. ASSUME b.segs = <<>> PROVE b.segs \in Seq(Segments) /\ Len(b.segs) = 0
    BY <2>4
  <2>5. 0 \in 0 .. 2 /\ 1 \in 0 .. 2 /\ 2 \in 0 .. 2
    OBVIOUS
  <2> QED
    BY <2>1, <2>2, <2>3, <2>4, <2>5
<1>2. PayloadsAt(b) \subseteq 1 .. 2
  BY <1>1 DEF PayloadsAt
<1>3. IsFiniteSet(1 .. 2) /\ Cardinality(1 .. 2) = 2
  <2>1. 1 \in Int /\ 2 \in Int /\ ~(1 > 2) /\ 2 - 1 + 1 = 2
    OBVIOUS
  <2> QED
    BY <2>1, FS_Interval
<1>4. IsFiniteSet(PayloadsAt(b)) /\ Cardinality(PayloadsAt(b)) <= 2 /\ Cardinality(PayloadsAt(b)) \in Nat
  BY <1>2, <1>3, FS_Subset, FS_CardinalityType
<1>5. Payloads(b) = Cardinality(PayloadsAt(b))
  BY FS_EmptySet DEF Payloads, PayloadsAt
<1> QED
  BY <1>2, <1>4, <1>5

LEMMA UndeliveredIsFinite ==
  ASSUME NEW q \in Seq(Batches)
  PROVE  IsFiniteSet(Undelivered(q)) /\ Cardinality(Undelivered(q)) \in Nat
<1>0. Len(q) \in Nat
  OBVIOUS
<1>1. IsFiniteSet(1 .. Len(q)) /\ IsFiniteSet(1 .. 2)
  <2>1. 1 \in Int /\ 2 \in Int /\ Len(q) \in Int
    BY <1>0
  <2> QED
    BY <2>1, FS_Interval
<1>2. IsFiniteSet((1 .. Len(q)) \X (1 .. 2))
  BY <1>1, FS_Product
<1>3. Undelivered(q) \subseteq (1 .. Len(q)) \X (1 .. 2)
  BY DEF Undelivered
<1> QED
  BY <1>2, <1>3, FS_Subset, FS_CardinalityType

\* The payloads of one batch, seen in the queue.
LEMMA OneBatch ==
  ASSUME NEW b \in Batches, NEW n
  PROVE  IsFiniteSet(BatchIn(n, b)) /\ Cardinality(BatchIn(n, b)) = Payloads(b)
<1> USE DEF BatchIn
<1> DEFINE P == BatchIn(n, b)
           f == [j \in PayloadsAt(b) |-> <<n, j>>]
<1>1. f \in Bijection(PayloadsAt(b), P)
  <2>1. f \in [PayloadsAt(b) -> P]
    OBVIOUS
  <2>2. \A i, j \in PayloadsAt(b) : f[i] = f[j] => i = j
    OBVIOUS
  <2>3. \A p \in P : \E j \in PayloadsAt(b) : f[j] = p
    OBVIOUS
  <2> HIDE DEF f, P
  <2> QED
    BY <2>1, <2>2, <2>3 DEF Bijection, Injection, Surjection, IsInjective
<1>2. ExistsBijection(PayloadsAt(b), P)
  BY <1>1 DEF ExistsBijection
<1> HIDE DEF P, BatchIn
<1>3. IsFiniteSet(P) /\ Cardinality(P) = Cardinality(PayloadsAt(b))
  BY <1>2, BatchPayloads, FS_Bijection
<1> QED
  BY <1>3, BatchPayloads DEF P

\* A batch that arrives adds what it carries.
LEMMA ArrivalAdds ==
  ASSUME NEW q \in Seq(Batches), NEW b \in Batches
  PROVE  Cardinality(Undelivered(Append(q, b))) = Cardinality(Undelivered(q)) + Payloads(b)
<1> DEFINE n == Len(q) + 1
           P == BatchIn(n, b)
           r == Append(q, b)
<1>0. Len(q) \in Nat /\ r \in Seq(Batches) /\ Len(r) = n /\ r[n] = b /\ (\A i \in 1 .. Len(q) : r[i] = q[i])
  OBVIOUS
<1>1. PayloadsAt(b) \subseteq 1 .. 2
  BY BatchPayloads
<1>2. Undelivered(r) = Undelivered(q) \cup P
  <2>1. ASSUME NEW p \in Undelivered(r) PROVE p \in Undelivered(q) \cup P
    <3>0. PICK i \in 1 .. Len(r), j \in 1 .. 2 : p = <<i, j>> /\ j \in PayloadsAt(r[i])
      BY DEF Undelivered
    <3> HIDE DEF r
    <3>1. CASE i = n
      BY <1>0, <3>0, <3>1 DEF BatchIn
    <3>2. CASE i # n
      <4>1. i \in 1 .. Len(q) /\ r[i] = q[i]
        BY <1>0, <3>2
      <4> QED
        BY <3>0, <4>1 DEF Undelivered
    <3> QED
      BY <3>1, <3>2
  <2>2. ASSUME NEW p \in Undelivered(q) PROVE p \in Undelivered(r)
    <3>0. PICK i \in 1 .. Len(q), j \in 1 .. 2 : p = <<i, j>> /\ j \in PayloadsAt(q[i])
      BY DEF Undelivered
    <3> HIDE DEF r
    <3>1. i \in 1 .. Len(r) /\ r[i] = q[i]
      BY <1>0
    <3> QED
      BY <3>0, <3>1 DEF Undelivered
  <2>3. ASSUME NEW p \in P PROVE p \in Undelivered(r)
    <3>0. PICK j \in PayloadsAt(b) : p = <<n, j>>
      BY DEF BatchIn
    <3> HIDE DEF r
    <3>1. n \in 1 .. Len(r) /\ j \in 1 .. 2 /\ j \in PayloadsAt(r[n])
      BY <1>0, <1>1
    <3> QED
      BY <3>0, <3>1 DEF Undelivered
  <2> QED
    BY <2>1, <2>2, <2>3
<1>3. Undelivered(q) \cap P = {}
  <2> SUFFICES ASSUME NEW p \in Undelivered(q), p \in P PROVE FALSE
    OBVIOUS
  <2>1. p[1] \in 1 .. Len(q) /\ p[1] = n
    BY DEF Undelivered, BatchIn
  <2> QED
    BY <1>0, <2>1
<1>4. IsFiniteSet(P) /\ Cardinality(P) = Payloads(b) /\ Payloads(b) \in Nat
  BY OneBatch, BatchPayloads
<1>5. IsFiniteSet(Undelivered(q)) /\ Cardinality(Undelivered(q)) \in Nat
  BY UndeliveredIsFinite
<1> HIDE DEF P, r
<1>6. /\ Cardinality(Undelivered(q) \cup P) = Cardinality(Undelivered(q)) + Cardinality(P) - Cardinality(Undelivered(q) \cap P)
      /\ Cardinality({}) = 0
  BY <1>4, <1>5, FS_Union, FS_EmptySet
<1> QED
  <2>1. Cardinality(Undelivered(r)) = Cardinality(Undelivered(q)) + Cardinality(P) - 0
    BY <1>2, <1>3, <1>6
  <2>2. Cardinality(Undelivered(r)) = Cardinality(Undelivered(q)) + Payloads(b)
    BY <1>4, <1>5, <2>1
  <2> QED
    BY <2>2 DEF r

\* What is dropped from the front of the queue takes its payloads along: those
\* of the last batch, where the others before it carry none.
LEMMA DropTakes ==
  ASSUME NEW q \in Seq(Batches), NEW n \in 1 .. Len(q),
         \A i \in 1 .. n - 1 : Payloads(q[i]) = 0
  PROVE  Cardinality(Undelivered(q)) = Cardinality(Undelivered(SubSeq(q, n + 1, Len(q)))) + Payloads(q[n])
<1> DEFINE r == SubSeq(q, n + 1, Len(q))
           P == BatchIn(n, q[n])
           B == {p \in Undelivered(q) : p[1] > n}
           f == [p \in Undelivered(r) |-> <<p[1] + n, p[2]>>]
<1>0. /\ Len(q) \in Nat /\ n \in Nat /\ n <= Len(q) /\ r \in Seq(Batches) /\ Len(r) = Len(q) - n
      /\ \A i \in 1 .. Len(r) : r[i] = q[i + n] /\ i + n \in 1 .. Len(q) /\ i + n > n
  BY SMTT(30)
<1>01. \A i \in 1 .. Len(q) : q[i] \in Batches
  OBVIOUS
<1> HIDE DEF r
<1>1. Undelivered(q) = B \cup P
  <2>1. ASSUME NEW p \in Undelivered(q), p \notin B PROVE p \in P
    <3>0. PICK i \in 1 .. Len(q), j \in 1 .. 2 : p = <<i, j>> /\ j \in PayloadsAt(q[i])
      BY DEF Undelivered
    <3>1. i <= n
      BY <1>0, <2>1, <3>0
    <3>2. ~(i < n)
      <4> SUFFICES ASSUME i < n PROVE FALSE
        OBVIOUS
      <4>1. Payloads(q[i]) = 0
        BY <1>0
      <4>2. PayloadsAt(q[i]) = {}
        BY <1>01, <4>1, BatchPayloads, FS_EmptySet
      <4> QED
        BY <3>0, <4>2
    <3>3. i = n
      BY <1>0, <3>1, <3>2
    <3> QED
      BY <3>0, <3>3 DEF BatchIn
  <2>2. ASSUME NEW p \in P PROVE p \in Undelivered(q)
    <3>0. PICK j \in PayloadsAt(q[n]) : p = <<n, j>>
      BY DEF BatchIn
    <3>1. j \in 1 .. 2
      BY <1>01, BatchPayloads
    <3> QED
      BY <3>0, <3>1 DEF Undelivered
  <2> QED
    BY <2>1, <2>2
<1>2. B \cap P = {}
  BY <1>0 DEF BatchIn
<1>3. f \in Bijection(Undelivered(r), B)
  <2>1. ASSUME NEW p \in Undelivered(r) PROVE f[p] \in B
    <3>0. PICK i \in 1 .. Len(r), j \in 1 .. 2 : p = <<i, j>> /\ j \in PayloadsAt(r[i])
      BY DEF Undelivered
    <3>1. i + n \in 1 .. Len(q) /\ i + n > n /\ j \in PayloadsAt(q[i + n])
      BY <1>0, <3>0
    <3>2. f[p] = <<i + n, j>>
      BY <3>0
    <3>3. <<i + n, j>> \in Undelivered(q)
      BY <3>1 DEF Undelivered
    <3> QED
      BY <3>1, <3>2, <3>3
  <2>2. ASSUME NEW p \in Undelivered(r), NEW o \in Undelivered(r), f[p] = f[o] PROVE p = o
    <3>0. PICK i \in 1 .. Len(r), j \in 1 .. 2 : p = <<i, j>>
      BY DEF Undelivered
    <3>1. PICK k \in 1 .. Len(r), l \in 1 .. 2 : o = <<k, l>>
      BY DEF Undelivered
    <3>2. i + n = k + n /\ j = l
      BY <2>2, <3>0, <3>1
    <3> QED
      BY <1>0, <3>0, <3>1, <3>2
  <2>3. ASSUME NEW p \in B PROVE \E o \in Undelivered(r) : f[o] = p
    <3>0. PICK i \in 1 .. Len(q), j \in 1 .. 2 : p = <<i, j>> /\ j \in PayloadsAt(q[i]) /\ i > n
      BY DEF Undelivered
    <3>1. i - n \in 1 .. Len(r) /\ (i - n) + n = i
      BY <1>0, <3>0
    <3>2. <<i - n, j>> \in Undelivered(r)
      BY <1>0, <3>0, <3>1 DEF Undelivered
    <3>3. f[<<i - n, j>>] = p
      BY <3>0, <3>1, <3>2
    <3> QED
      BY <3>2, <3>3
  <2>4. f \in [Undelivered(r) -> B]
    BY <2>1
  <2> HIDE DEF f, B
  <2> QED
    BY <2>2, <2>3, <2>4 DEF Bijection, Injection, Surjection, IsInjective
<1>4. ExistsBijection(Undelivered(r), B)
  BY <1>3 DEF ExistsBijection
<1>5. IsFiniteSet(Undelivered(r)) /\ Cardinality(Undelivered(r)) \in Nat
  BY <1>0, UndeliveredIsFinite
<1> HIDE DEF B, f
<1>6. IsFiniteSet(B) /\ Cardinality(B) = Cardinality(Undelivered(r))
  BY <1>4, <1>5, FS_Bijection
<1>7. IsFiniteSet(P) /\ Cardinality(P) = Payloads(q[n]) /\ Payloads(q[n]) \in Nat
  BY <1>01, OneBatch, BatchPayloads
<1> HIDE DEF P
<1>8. Cardinality(B \cup P) = Cardinality(B) + Cardinality(P) - Cardinality(B \cap P) /\ Cardinality({}) = 0
  BY <1>6, <1>7, FS_Union, FS_EmptySet
<1> QED
  <2>1. Cardinality(Undelivered(q)) = Cardinality(B) + Cardinality(P) - 0
    BY <1>1, <1>2, <1>8
  <2>2. Cardinality(Undelivered(q)) = Cardinality(Undelivered(r)) + Payloads(q[n])
    BY <1>5, <1>6, <1>7, <2>1
  <2> QED
    BY <2>2 DEF r

\* One poll reads batches that carry nothing, up to its fill, and the one after
\* them; if it found nothing and has not had its fill, nothing is left.
LEMMA BatchesReadIs ==
  ASSUME inbox \in Seq(Batches)
  PROVE  LET n == BatchesRead
         IN /\ n \in 0 .. Len(inbox)
            /\ \A i \in 1 .. n - 1 : Payloads(inbox[i]) = 0
            /\ (n = 0 \/ Payloads(inbox[n]) = 0) /\ n # MaxDiscards => n = Len(inbox)
<1> DEFINE u == Cardinality(Useless)
           dry == Min2(u, MaxDiscards)
           n == BatchesRead
<1>0. Len(inbox) \in Nat /\ MaxDiscards \in Nat /\ 1 \in Int /\ Len(inbox) \in Int
  BY TunnelBoundsOK
<1>1. Useless \subseteq 1 .. Len(inbox)
  BY DEF Useless
<1>2. IsFiniteSet(1 .. Len(inbox)) /\ Cardinality(1 .. Len(inbox)) = Len(inbox)
  <2>1. IsFiniteSet(1 .. Len(inbox)) /\ Cardinality(1 .. Len(inbox)) = IF 1 > Len(inbox) THEN 0 ELSE Len(inbox) - 1 + 1
    BY <1>0, FS_Interval
  <2> QED
    BY <1>0, <2>1
<1>3. IsFiniteSet(Useless) /\ u \in Nat /\ u <= Len(inbox)
  BY <1>1, <1>2, FS_Subset, FS_CardinalityType
<1>4. ASSUME NEW i \in 1 .. Len(inbox), i <= u PROVE i \in Useless
  <2> SUFFICES ASSUME i \notin Useless PROVE FALSE
    OBVIOUS
  <2>1. Useless \subseteq 1 .. i - 1
    <3> SUFFICES ASSUME NEW j \in Useless, ~(j <= i - 1) PROVE FALSE
      BY <1>0, <1>1
    <3>1. j \in 1 .. Len(inbox) /\ \A m \in 1 .. j : Payloads(inbox[m]) = 0
      BY DEF Useless
    <3>2. \A m \in 1 .. i : Payloads(inbox[m]) = 0
      BY <1>0, <3>1
    <3> QED
      BY <3>2 DEF Useless
  <2>2. i - 1 \in Int /\ i - 1 >= 0
    BY <1>0
  <2>3. IsFiniteSet(1 .. i - 1) /\ Cardinality(1 .. i - 1) = IF 1 > i - 1 THEN 0 ELSE (i - 1) - 1 + 1
    BY <1>0, <2>2, FS_Interval
  <2>4. Cardinality(1 .. i - 1) = i - 1
    BY <2>2, <2>3
  <2>5. u <= i - 1
    BY ZenonT(60), <2>1, <2>3, <2>4, FS_Subset
  <2> QED
    BY <1>0, <1>3, <1>4, <2>5
<1>5. ASSUME NEW i \in 1 .. Len(inbox), \A m \in 1 .. i : Payloads(inbox[m]) = 0 PROVE i <= u
  <2>1. 1 .. i \subseteq Useless
    BY <1>0, <1>5 DEF Useless
  <2>2. i \in Int /\ i >= 1
    BY <1>0
  <2>3. Cardinality(1 .. i) = IF 1 > i THEN 0 ELSE i - 1 + 1
    BY <1>0, <2>2, FS_Interval
  <2>4. Cardinality(1 .. i) = i
    BY <2>2, <2>3
  <2>5. Cardinality(1 .. i) <= u
    BY <1>3, <2>1, FS_Subset
  <2> QED
    BY <2>4, <2>5
<1>6. dry \in Nat /\ dry <= u /\ dry <= MaxDiscards /\ (dry = u \/ dry = MaxDiscards)
  BY <1>0, <1>3 DEF Min2
<1>7. n = IF dry < MaxDiscards /\ dry < Len(inbox) THEN dry + 1 ELSE dry
  BY DEF BatchesRead
<1> HIDE DEF u, dry, n
<1>8. n \in 0 .. Len(inbox) /\ n - 1 <= u
  BY <1>0, <1>3, <1>6, <1>7
<1>9. ASSUME NEW i \in 1 .. n - 1 PROVE Payloads(inbox[i]) = 0
  <2>1. i \in 1 .. Len(inbox) /\ i <= u /\ i \in 1 .. i
    BY <1>0, <1>3, <1>8
  <2> QED
    BY <1>4, <2>1 DEF Useless
<1>10. ASSUME n = 0 \/ Payloads(inbox[n]) = 0, n # MaxDiscards PROVE n = Len(inbox)
  <2>1. CASE dry < MaxDiscards /\ dry < Len(inbox)
    <3>1. n = dry + 1 /\ dry = u /\ n \in 1 .. Len(inbox)
      BY <1>0, <1>6, <1>7, <2>1
    <3>2. \A m \in 1 .. n : Payloads(inbox[m]) = 0
      BY <1>0, <1>9, <1>10, <3>1
    <3>3. n <= u
      BY <1>5, <3>1, <3>2
    <3> QED
      BY <1>3, <1>6, <3>1, <3>3
  <2>2. CASE ~(dry < MaxDiscards /\ dry < Len(inbox))
    BY <1>0, <1>3, <1>6, <1>7, <1>8, <1>10, <2>2
  <2> QED
    BY <2>1, <2>2
<1> QED
  BY <1>8, <1>9, <1>10 DEF n

RelayType ==
  [queued : Nat, control : {"open", "closed"}, parked : BOOLEAN, woken : BOOLEAN,
   failed : BOOLEAN, arrived : Nat, owed : Nat, delivered : Nat]

\* Every payload that came is delivered, queued or still in the socket, and a
\* receiver that nobody has woken has nothing to read.
RelayInv ==
  /\ inbox \in Seq(Batches) /\ relay \in RelayType /\ relay.queued <= 2
  /\ relay.owed = relay.delivered + relay.queued + Cardinality(Undelivered(inbox))
  /\ relay.parked => relay.queued = 0
  /\ relay.parked /\ ~relay.woken => inbox = <<>> /\ relay.control = "open"

LEMMA NothingUndelivered ==
  Cardinality(Undelivered(<<>>)) = 0
<1>1. Undelivered(<<>>) = {}
  BY DEF Undelivered
<1> QED
  BY <1>1, FS_EmptySet

LEMMA RelayBegins ==
  RelayInit => RelayInv
BY NothingUndelivered DEF RelayInit, RelayInv, NoRelay, RelayType

LEMMA DeliverIs ==
  ASSUME NEW r \in RelayType, r.queued > 0
  PROVE  LET d == Deliver(r)
         IN /\ d \in RelayType /\ d.queued = r.queued - 1 /\ d.delivered = r.delivered + 1
            /\ d.parked = FALSE /\ d.owed = r.owed
<1>1. r.queued - 1 \in Nat /\ r.delivered + 1 \in Nat
  BY DEF RelayType
<1>2. Deliver(r) \in RelayType
  BY <1>1 DEF Deliver, RelayType
<1> QED
  BY <1>2 DEF Deliver, RelayType

LEMMA RelayStep ==
  RelayInv /\ [RelayNext]_<<inbox, relay>> => RelayInv'
<1> SUFFICES ASSUME RelayInv, [RelayNext]_<<inbox, relay>> PROVE RelayInv'
  OBVIOUS
<1> DEFINE left == Cardinality(Undelivered(inbox))
<1>0. /\ inbox \in Seq(Batches) /\ relay \in RelayType /\ relay.queued \in Nat /\ relay.queued <= 2
      /\ relay.owed \in Nat /\ relay.delivered \in Nat /\ relay.arrived \in Nat
      /\ relay.parked \in BOOLEAN /\ relay.woken \in BOOLEAN /\ relay.control \in {"open", "closed"}
      /\ relay.owed = relay.delivered + relay.queued + left
      /\ relay.parked => relay.queued = 0
      /\ relay.parked /\ ~relay.woken => inbox = <<>> /\ relay.control = "open"
  BY DEF RelayInv, RelayType
<1>1. left \in Nat
  BY <1>0, UndeliveredIsFinite
<1> HIDE DEF left
<1>2. CASE UNCHANGED <<inbox, relay>>
  BY <1>2 DEF RelayInv
<1>3. CASE ControlCloses
  <2>1. /\ inbox' = inbox /\ relay' \in RelayType /\ relay'.queued = relay.queued /\ relay'.owed = relay.owed
        /\ relay'.delivered = relay.delivered /\ relay'.parked = relay.parked /\ relay'.woken = relay.parked
    BY <1>0, <1>3 DEF ControlCloses, RelayType
  <2> QED
    BY <1>0, <2>1 DEF RelayInv, left
<1>4. ASSUME NEW b \in Batches, BatchArrives(b) PROVE RelayInv'
  <2> DEFINE ar == relay.arrived + 1
             ow == relay.owed + Payloads(b)
  <2>1. inbox' = Append(inbox, b) /\ relay' = [relay EXCEPT !.arrived = ar, !.woken = relay.parked, !.owed = ow]
    BY <1>4 DEF BatchArrives
  <2>2. ar \in Nat /\ ow \in Nat /\ Payloads(b) \in Nat
    BY SMTT(30), <1>0, BatchPayloads
  <2>3. inbox' \in Seq(Batches) /\ Cardinality(Undelivered(inbox')) = left + Payloads(b)
    BY <1>0, <2>1, ArrivalAdds DEF left
  <2>4. relay' \in RelayType
    BY <1>0, <2>1, <2>2 DEF RelayType
  <2>5. /\ relay'.queued = relay.queued /\ relay'.owed = relay.owed + Payloads(b)
        /\ relay'.delivered = relay.delivered /\ relay'.parked = relay.parked /\ relay'.woken = relay.parked
    BY <1>0, <2>1 DEF RelayType
  <2>6. relay'.owed = relay'.delivered + relay'.queued + Cardinality(Undelivered(inbox'))
    BY SMTT(30), <1>0, <1>1, <2>2, <2>3, <2>5
  <2> QED
    BY <1>0, <2>3, <2>4, <2>5, <2>6 DEF RelayInv
<1>5. CASE PollRecv
  <2> DEFINE n == BatchesRead
             found == IF n = 0 THEN 0 ELSE Payloads(inbox[n])
  <2>1. /\ relay.parked => relay.woken
        /\ \/ relay.queued > 0 /\ relay' = Deliver(relay) /\ inbox' = inbox
           \/ relay' = [relay EXCEPT !.failed = TRUE, !.parked = FALSE] /\ inbox' = inbox
           \/ /\ relay.queued = 0 /\ relay.control = "open" /\ inbox' = Dropped(n)
              /\ relay' = IF found > 0 THEN Deliver([relay EXCEPT !.queued = found])
                          ELSE [relay EXCEPT !.parked = TRUE, !.woken = Rewakes(n)]
    BY <1>5 DEF PollRecv
  <2>2. CASE relay.queued > 0 /\ relay' = Deliver(relay) /\ inbox' = inbox
    <3>1. /\ relay' \in RelayType /\ relay'.queued = relay.queued - 1 /\ relay'.delivered = relay.delivered + 1
          /\ relay'.parked = FALSE /\ relay'.owed = relay.owed
      BY <1>0, <2>2, DeliverIs
    <3>2. Cardinality(Undelivered(inbox')) = left
      BY <2>2 DEF left
    <3>3. relay'.owed = (relay.delivered + 1) + (relay.queued - 1) + left
      <4>1. /\ relay.owed = relay.delivered + relay.queued + left /\ relay'.owed = relay.owed
            /\ relay.owed \in Nat /\ relay.queued \in Nat /\ relay.delivered \in Nat /\ left \in Nat
        BY <1>0, <1>1, <3>1
      <4> QED
        BY <4>1
    <3>4. relay'.owed = relay'.delivered + relay'.queued + Cardinality(Undelivered(inbox'))
      BY <3>1, <3>2, <3>3
    <3> QED
      BY <1>0, <2>2, <3>1, <3>4 DEF RelayInv
  <2>3. CASE relay' = [relay EXCEPT !.failed = TRUE, !.parked = FALSE] /\ inbox' = inbox
    <3>1. /\ relay' \in RelayType /\ relay'.queued = relay.queued /\ relay'.delivered = relay.delivered
          /\ relay'.parked = FALSE /\ relay'.owed = relay.owed
      BY <1>0, <2>3 DEF RelayType
    <3> QED
      BY <1>0, <2>3, <3>1 DEF RelayInv, left
  <2>4. CASE /\ relay.queued = 0 /\ relay.control = "open" /\ inbox' = Dropped(n)
             /\ relay' = IF found > 0 THEN Deliver([relay EXCEPT !.queued = found])
                         ELSE [relay EXCEPT !.parked = TRUE, !.woken = Rewakes(n)]
    <3>1. /\ n \in 0 .. Len(inbox) /\ \A i \in 1 .. n - 1 : Payloads(inbox[i]) = 0
          /\ (n = 0 \/ Payloads(inbox[n]) = 0) /\ n # MaxDiscards => n = Len(inbox)
      BY <1>0, BatchesReadIs
    <3>2. inbox' = SubSeq(inbox, n + 1, Len(inbox))
      BY <2>4 DEF Dropped
    <3> HIDE DEF n
    <3>3. inbox' \in Seq(Batches) /\ (n = Len(inbox) => inbox' = <<>>)
      BY <1>0, <3>1, <3>2
    <3>4. found \in 0 .. 2 /\ left = Cardinality(Undelivered(inbox')) + found
      <4>1. CASE n = 0
        <5>1. inbox' = inbox
          BY <1>0, <3>2, <4>1, SubSeqFull
        <5> QED
          BY <1>1, <4>1, <5>1 DEF left
      <4>2. CASE n # 0
        <5>1. n \in 1 .. Len(inbox) /\ inbox[n] \in Batches
          BY <1>0, <3>1, <4>2
        <5>2. left = Cardinality(Undelivered(inbox')) + Payloads(inbox[n])
          BY <1>0, <3>1, <3>2, <5>1, DropTakes DEF left
        <5>3. Payloads(inbox[n]) \in 0 .. 2
          BY <5>1, BatchPayloads
        <5> QED
          BY <4>2, <5>2, <5>3
      <4> QED
        BY <4>1, <4>2
    <3>5. Cardinality(Undelivered(inbox')) \in Nat
      BY <3>3, UndeliveredIsFinite
    <3>6. found = 0 <=> (n = 0 \/ Payloads(inbox[n]) = 0)
      OBVIOUS
    <3> HIDE DEF found
    <3>7. CASE found > 0
      <4> DEFINE r == [relay EXCEPT !.queued = found]
      <4>1. found \in Nat /\ r \in RelayType /\ r.queued = found /\ r.delivered = relay.delivered /\ r.owed = relay.owed
        BY SMTT(30), <1>0, <3>4 DEF RelayType
      <4>2. relay' = Deliver(r)
        BY <2>4, <3>7
      <4> HIDE DEF r
      <4>3. /\ relay' \in RelayType /\ relay'.queued = r.queued - 1 /\ relay'.delivered = r.delivered + 1
            /\ relay'.parked = FALSE /\ relay'.owed = r.owed
        BY <3>7, <4>1, <4>2, DeliverIs
      <4>4. relay'.owed = relay'.delivered + relay'.queued + Cardinality(Undelivered(inbox'))
        BY SMTT(30), <1>0, <1>1, <2>4, <3>4, <3>5, <4>1, <4>3
      <4>5. relay'.queued <= 2
        BY <3>4, <4>1, <4>3
      <4> QED
        BY <3>3, <4>3, <4>4, <4>5 DEF RelayInv
    <3>8. CASE ~(found > 0)
      <4>1. relay' = [relay EXCEPT !.parked = TRUE, !.woken = Rewakes(n)] /\ found = 0
        BY <2>4, <3>4, <3>8
      <4>2. /\ relay' \in RelayType /\ relay'.queued = 0 /\ relay'.delivered = relay.delivered
            /\ relay'.owed = relay.owed /\ relay'.control = "open" /\ relay'.woken = (n = MaxDiscards)
        BY <1>0, <2>4, <4>1 DEF RelayType, Rewakes
      <4>3. relay'.owed = relay'.delivered + relay'.queued + Cardinality(Undelivered(inbox'))
        BY <1>0, <1>1, <2>4, <3>4, <3>5, <4>1, <4>2
      <4>4. ~relay'.woken => inbox' = <<>>
        BY <3>1, <3>3, <3>6, <4>1, <4>2
      <4> QED
        BY <3>3, <4>2, <4>3, <4>4 DEF RelayInv
    <3> QED
      BY <3>7, <3>8
  <2> QED
    BY <2>1, <2>2, <2>3, <2>4
<1> QED
  BY <1>2, <1>3, <1>4, <1>5 DEF RelayNext

LEMMA RelayHolds ==
  RelayInv => relay.queued \in 0 .. 2 /\ relay.control \in {"open", "closed"} /\ ReceiverIsNotStranded
<1> SUFFICES ASSUME RelayInv
             PROVE relay.queued \in 0 .. 2 /\ relay.control \in {"open", "closed"} /\ ReceiverIsNotStranded
  OBVIOUS
<1>1. /\ relay.queued \in Nat /\ relay.queued <= 2 /\ relay.control \in {"open", "closed"}
      /\ relay.owed \in Nat /\ relay.delivered \in Nat
  BY DEF RelayInv, RelayType
<1>2. ASSUME relay.parked, ~relay.woken
      PROVE  inbox = <<>> /\ relay.control = "open" /\ relay.delivered = relay.owed
  <2>1. inbox = <<>> /\ relay.control = "open" /\ relay.queued = 0
        /\ relay.owed = relay.delivered + relay.queued + Cardinality(Undelivered(inbox))
    BY <1>2 DEF RelayInv
  <2>2. Cardinality(Undelivered(inbox)) = 0
    BY <2>1, NothingUndelivered
  <2>3. relay.owed = relay.delivered + 0 + 0
    BY <2>1, <2>2
  <2> QED
    BY <1>1, <2>1, <2>3
<1>3. relay.queued \in 0 .. 2
  BY <1>1
<1> QED
  BY <1>1, <1>2, <1>3 DEF ReceiverIsNotStranded

LEMMA WriterHolds ==
  WriterInv => writer.state \in {"idle", "busy", "finishing", "shut"} /\ FinAccountsForWrites
BY DEF WriterInv, WriteAccounted, WriterType, WriterStates, FinAccountsForWrites

------------------------------------------------------------------------------
(* The handshakes of the proxy protocols (proxy.rs, socks.rs).             *)

HsStates == {"fresh", "method", "auth_reply", "reply", "done"}
HsPcs == {"idle", "dial", "tls", "begin", "write", "advance", "read", "relay", "ended"}
HsOutcomes ==
  BeforeHello \cup {"none", "open", "spoke_first", "too_long", "malformed", "refused", "bad_version",
                    "no_method", "bad_credentials", "unsupported", "bad_address"}

HsType ==
  [proto : Protocols, auth : BOOLEAN, state : HsStates, pc : HsPcs, outcome : HsOutcomes]

OverSocks5 == {"socks5", "associate"}

\* Where the final reply of a SOCKS5 proxy begins.
ReplyAt(h, s) == IF h.auth /\ s.method = Password THEN 4 ELSE 2

\* Which states of the handshake object its driver may be at.
HsPhase ==
  /\ hs.pc \in {"idle", "dial", "tls", "begin"} => hs.state = "fresh"
  /\ hs.pc \in {"write", "advance", "read"} => hs.state \in {"method", "auth_reply", "reply"}
  /\ hs.pc = "relay" => hs.proto = "associate" /\ hs.state = "done"

\* One message and one answer: SOCKS4a and CONNECT.
HsPlain ==
  hs.proto \notin OverSocks5 =>
    /\ hs.state \in {"fresh", "reply", "done"}
    /\ hs.state # "done" => taken = 0
    /\ told = <<>> \/ \E what \in {"target", "target_and_credentials"} : told = <<what>>
    /\ hs.state = "fresh" => told = <<>>

\* What a SOCKS5 handshake has split off and said, and what it then knows of
\* the proxy's answer.
HsTold ==
  /\ hs.state = "fresh" => taken = 0 /\ told = <<>>
  /\ hs.state = "method" => taken = 0 /\ told = <<"greeting">>
  /\ hs.state = "auth_reply" =>
       taken = 2 /\ told = <<"greeting", "credentials">> /\ hs.auth /\ script.method = Password
  /\ hs.state \in {"reply", "done"} =>
       IF script.method = Password
       THEN hs.auth /\ script.authStatus = 0 /\ got >= 4 /\ told = <<"greeting", "credentials", "target">>
       ELSE told = <<"greeting", "target">>
  /\ hs.state = "reply" => taken = ReplyAt(hs, script)
  /\ hs.state \in {"auth_reply", "reply", "done"} =>
       script.ver = 5 /\ script.method \in Offered(hs.auth)

HsInv ==
  /\ hs \in HsType
  /\ got \in Nat /\ taken \in Nat /\ taken <= got /\ got <= Len(stream)
  /\ hs.pc = "idle" => hs = Idle /\ got = 0 /\ taken = 0 /\ told = <<>>
  /\ hs.pc # "idle" => script \in Scripts(hs.proto) /\ stream = Wire(hs, script)
  /\ HsPhase
  /\ HsPlain
  /\ hs.proto \in OverSocks5 => HsTold
  /\ hs.state = "done" => taken = HandshakeLength /\ Verdict(hs, script) = "open"
  /\ FragmentsDoNotMatter /\ TunnelStartsClean

LEMMA HsBegins == HsInit => HsInv
<1>1. Idle \in HsType
  BY DEF Idle, HsType, Protocols, HsStates, HsPcs, HsOutcomes
<1>2. Len(<<>>) = 0
  OBVIOUS
<1> QED
  BY <1>1, <1>2 DEF HsInit, HsInv, HsPhase, HsPlain, HsTold, OverSocks5, FragmentsDoNotMatter, TunnelStartsClean, AfterHello, Idle

\* Two byte strings, one after the other.
LEMMA NatsJoin ==
  ASSUME NEW a \in Seq(Nat), NEW b \in Seq(Nat)
  PROVE  /\ a \o b \in Seq(Nat) /\ Len(a \o b) = Len(a) + Len(b)
         /\ \A i \in 1 .. Len(a) : (a \o b)[i] = a[i]
         /\ \A i \in 1 .. Len(b) : (a \o b)[Len(a) + i] = b[i]
<1>1. /\ a \o b \in Seq(Nat) /\ Len(a \o b) = Len(a) + Len(b)
      /\ \A i \in 1 .. Len(a) + Len(b) : (a \o b)[i] = IF i <= Len(a) THEN a[i] ELSE b[i - Len(a)]
  BY ConcatProperties
<1>2. Len(a) \in Nat /\ Len(b) \in Nat
  OBVIOUS
<1>3. ASSUME NEW i \in 1 .. Len(a) PROVE (a \o b)[i] = a[i]
  <2>1. i \in 1 .. Len(a) + Len(b) /\ i <= Len(a)
    BY <1>2
  <2> QED
    BY <1>1, <2>1
<1>4. ASSUME NEW i \in 1 .. Len(b) PROVE (a \o b)[Len(a) + i] = b[i]
  <2>1. Len(a) + i \in 1 .. Len(a) + Len(b) /\ ~(Len(a) + i <= Len(a)) /\ (Len(a) + i) - Len(a) = i
    BY <1>2
  <2>2. (a \o b)[Len(a) + i] = b[(Len(a) + i) - Len(a)]
    BY <1>1, <2>1
  <2> QED
    BY <2>1, <2>2
<1> QED
  BY <1>1, <1>3, <1>4

LEMMA ZerosAre ==
  ASSUME NEW n \in Nat
  PROVE  Zeros(n) \in Seq(Nat) /\ Len(Zeros(n)) = n /\ \A i \in 1 .. n : Zeros(n)[i] = 0
BY DEF Zeros

LEMMA TailsAre ==
  ASSUME NEW t \in Tails
  PROVE  t \in Seq(Nat) /\ Len(t) \in Nat /\ (Len(t) > 0 => t # <<>>)
<1>1. PICK n \in 0 .. MaxTail : t \in [1 .. n -> {99}]
  BY DEF Tails
<1>2. n \in Nat
  BY HandshakeBounds
<1> QED
  BY <1>1, <1>2

\* The bytes of each answer, by position.
LEMMA Socks4Wire ==
  ASSUME NEW s \in Socks4Scripts
  PROVE  /\ Socks4Bytes(s) \in Seq(Nat) /\ Len(Socks4Bytes(s)) = 8 + Len(s.tail) /\ Len(s.tail) \in Nat
         /\ Socks4Bytes(s)[1] = s.ver /\ Socks4Bytes(s)[2] = s.cd
<1>1. s.tail \in Seq(Nat) /\ Len(s.tail) \in Nat /\ s.ver \in Nat /\ s.cd \in Nat
  BY TailsAre DEF Socks4Scripts
<1> DEFINE h == <<s.ver, s.cd>>
           z == Zeros(6)
           g == h \o z
<1>2. h \in Seq(Nat) /\ Len(h) = 2 /\ h[1] = s.ver /\ h[2] = s.cd
  BY <1>1
<1>3. z \in Seq(Nat) /\ Len(z) = 6
  BY ZerosAre
<1> HIDE DEF h, z
<1>4. g \in Seq(Nat) /\ Len(g) = 8 /\ g[1] = s.ver /\ g[2] = s.cd
  <2>1. g \in Seq(Nat) /\ Len(g) = Len(h) + Len(z) /\ \A i \in 1 .. Len(h) : g[i] = h[i]
    BY <1>2, <1>3, NatsJoin
  <2> HIDE DEF g
  <2> QED
    BY <1>2, <1>3, <2>1
<1> HIDE DEF g
<1>5. /\ g \o s.tail \in Seq(Nat) /\ Len(g \o s.tail) = Len(g) + Len(s.tail)
      /\ \A i \in 1 .. Len(g) : (g \o s.tail)[i] = g[i]
  BY <1>1, <1>4, NatsJoin
<1>6. Socks4Bytes(s) = g \o s.tail
  BY DEF Socks4Bytes, g, h, z
<1>7. (g \o s.tail)[1] = s.ver /\ (g \o s.tail)[2] = s.cd
  BY SMTT(30), <1>4, <1>5
<1> QED
  BY <1>1, <1>4, <1>5, <1>6, <1>7

LEMMA ConnectWire ==
  ASSUME NEW s \in ConnectScripts
  PROVE  /\ ConnectLines(s) \in Seq(Nat) /\ Len(ConnectLines(s)) = s.fields + 2 + Len(s.tail)
         /\ Len(s.tail) \in Nat /\ s.fields \in Nat
         /\ ConnectLines(s)[1] = StatusLine[s.status]
         /\ \A i \in 2 .. s.fields + 1 : ConnectLines(s)[i] = 0
         /\ ConnectLines(s)[s.fields + 2] = 10
<1>1. s.tail \in Seq(Nat) /\ Len(s.tail) \in Nat /\ s.fields \in Nat /\ StatusLine[s.status] \in Nat
  BY TailsAre, HandshakeBounds DEF ConnectScripts, StatusLine
<1> DEFINE h == <<StatusLine[s.status]>>
           z == Zeros(s.fields)
           e == <<10>>
           g == h \o z
           f == g \o e
           w == f \o s.tail
<1>2. h \in Seq(Nat) /\ Len(h) = 1 /\ h[1] = StatusLine[s.status]
  BY <1>1
<1>3. z \in Seq(Nat) /\ Len(z) = s.fields /\ \A i \in 1 .. s.fields : z[i] = 0
  BY <1>1, ZerosAre
<1>4. e \in Seq(Nat) /\ Len(e) = 1 /\ e[1] = 10
  OBVIOUS
<1> HIDE DEF h, z, e
<1>5. /\ g \in Seq(Nat) /\ Len(g) = Len(h) + Len(z) /\ \A i \in 1 .. Len(h) : g[i] = h[i]
      /\ \A i \in 1 .. Len(z) : g[Len(h) + i] = z[i]
  BY <1>2, <1>3, NatsJoin
<1> HIDE DEF g
<1>6. Len(g) = s.fields + 1 /\ g[1] = StatusLine[s.status]
  BY <1>1, <1>2, <1>3, <1>5
<1>7. ASSUME NEW i \in 2 .. s.fields + 1 PROVE g[i] = 0
  <2>1. i - 1 \in 1 .. s.fields /\ i = 1 + (i - 1)
    BY <1>1
  <2>2. g[1 + (i - 1)] = z[i - 1]
    BY <1>2, <1>3, <1>5, <2>1
  <2> QED
    BY <1>3, <2>1, <2>2
<1>8. /\ f \in Seq(Nat) /\ Len(f) = Len(g) + Len(e) /\ \A i \in 1 .. Len(g) : f[i] = g[i]
      /\ \A i \in 1 .. Len(e) : f[Len(g) + i] = e[i]
  BY ZenonT(60), <1>4, <1>5, NatsJoin
<1> HIDE DEF f
<1>9. Len(f) = s.fields + 2 /\ f[1] = StatusLine[s.status]
  BY SMTT(30), <1>1, <1>4, <1>6, <1>8
<1>10. f[s.fields + 2] = 10
  <2>1. f[Len(g) + 1] = 10 /\ Len(g) + 1 = s.fields + 2
    BY <1>1, <1>4, <1>6, <1>8
  <2> QED
    BY <2>1
<1>11. ASSUME NEW i \in 2 .. s.fields + 1 PROVE f[i] = 0
  <2>1. i \in 1 .. Len(g)
    BY <1>1, <1>6
  <2>2. f[i] = g[i]
    BY <1>8, <2>1
  <2> QED
    BY <1>7, <2>2
<1>12. w \in Seq(Nat) /\ Len(w) = Len(f) + Len(s.tail) /\ \A i \in 1 .. Len(f) : w[i] = f[i]
  BY <1>1, <1>8, NatsJoin
<1>13. ConnectLines(s) = w
  BY DEF ConnectLines, w, f, g, h, z, e
<1> HIDE DEF w
<1>14. w[1] = StatusLine[s.status] /\ w[s.fields + 2] = 10
  <2>1. 1 \in 1 .. Len(f) /\ s.fields + 2 \in 1 .. Len(f)
    BY <1>1, <1>9
  <2>2. w[1] = f[1] /\ w[s.fields + 2] = f[s.fields + 2]
    BY <1>12, <2>1
  <2> QED
    BY <1>9, <1>10, <2>2
<1>15. ASSUME NEW i \in 2 .. s.fields + 1 PROVE w[i] = 0
  <2>1. i \in 1 .. Len(f)
    BY <1>1, <1>9
  <2>2. w[i] = f[i]
    BY <1>12, <2>1
  <2> QED
    BY <1>11, <2>2
<1>16. Len(w) = s.fields + 2 + Len(s.tail)
  BY <1>1, <1>9, <1>12
<1> QED
  BY <1>1, <1>12, <1>13, <1>14, <1>15, <1>16

\* How many bytes of address a SOCKS5 reply carries, the port aside.
AddressSize(s) == IF s.atyp = 1 THEN 4 ELSE IF s.atyp = 4 THEN 16 ELSE s.name + 1

LEMMA AddressIs ==
  ASSUME NEW s \in Socks5Scripts
  PROVE  /\ AddressBytes(s) \in Seq(Nat) /\ Len(AddressBytes(s)) = AddressSize(s)
         /\ AddressSize(s) \in Nat \ {0}
         /\ s.atyp \notin {1, 4} => AddressBytes(s)[1] = s.name
<1>1. s.name \in Nat /\ s.atyp \in {1, 3, 4, 9}
  BY DEF Socks5Scripts
<1>2. CASE s.atyp = 1
  <2>1. AddressBytes(s) = Zeros(4) /\ AddressSize(s) = 4
    BY <1>2 DEF AddressBytes, AddressSize
  <2>2. Zeros(4) \in Seq(Nat) /\ Len(Zeros(4)) = 4
    BY ZerosAre
  <2> QED
    BY <1>2, <2>1, <2>2
<1>3. CASE s.atyp = 4
  <2>1. AddressBytes(s) = Zeros(16) /\ AddressSize(s) = 16
    BY <1>3 DEF AddressBytes, AddressSize
  <2>2. Zeros(16) \in Seq(Nat) /\ Len(Zeros(16)) = 16
    BY ZerosAre
  <2> QED
    BY <1>3, <2>1, <2>2
<1>4. CASE s.atyp \notin {1, 4}
  <2> DEFINE h == <<s.name>>
             z == Zeros(s.name)
  <2>1. h \in Seq(Nat) /\ Len(h) = 1 /\ h[1] = s.name
    BY <1>1
  <2>2. z \in Seq(Nat) /\ Len(z) = s.name
    BY <1>1, ZerosAre
  <2>3. AddressBytes(s) = h \o z
    BY <1>4 DEF AddressBytes
  <2> HIDE DEF h, z
  <2>4. h \o z \in Seq(Nat) /\ Len(h \o z) = Len(h) + Len(z) /\ \A i \in 1 .. Len(h) : (h \o z)[i] = h[i]
    BY <2>1, <2>2, NatsJoin
  <2>5. (h \o z)[1] = s.name /\ Len(h \o z) = s.name + 1
    BY <1>1, <2>1, <2>2, <2>4
  <2> QED
    BY SMTT(30), <1>1, <1>4, <2>3, <2>4, <2>5 DEF AddressSize
<1> QED
  BY <1>2, <1>3, <1>4

\* From the greeting's answer to the start of the final reply.
Socks5Opening(s, auth) ==
  <<s.ver, s.method>> \o (IF auth /\ s.method = Password THEN <<1, s.authStatus>> ELSE <<>>)
Socks5Fixed(s) == <<5, s.rep, 0, s.atyp>>

LEMMA Socks5OpeningIs ==
  ASSUME NEW s \in Socks5Scripts, NEW h \in HsType
  PROVE  /\ Socks5Opening(s, h.auth) \in Seq(Nat)
         /\ Len(Socks5Opening(s, h.auth)) = ReplyAt(h, s)
         /\ Socks5Opening(s, h.auth)[1] = s.ver /\ Socks5Opening(s, h.auth)[2] = s.method
         /\ h.auth /\ s.method = Password => Socks5Opening(s, h.auth)[4] = s.authStatus
<1>1. s.ver \in Nat /\ s.method \in Nat /\ s.authStatus \in Nat
  BY DEF Socks5Scripts, NoAuth, Password, Unacceptable
<1> DEFINE a == <<s.ver, s.method>>
           b == <<1, s.authStatus>>
<1>2. a \in Seq(Nat) /\ Len(a) = 2 /\ a[1] = s.ver /\ a[2] = s.method
  BY <1>1
<1>3. CASE h.auth /\ s.method = Password
  <2>1. b \in Seq(Nat) /\ Len(b) = 2 /\ b[2] = s.authStatus
    BY <1>1
  <2>2. Socks5Opening(s, h.auth) = a \o b /\ ReplyAt(h, s) = 4
    BY <1>3 DEF Socks5Opening, ReplyAt
  <2> HIDE DEF a, b
  <2>3. /\ a \o b \in Seq(Nat) /\ Len(a \o b) = Len(a) + Len(b)
        /\ \A i \in 1 .. Len(a) : (a \o b)[i] = a[i]
        /\ \A i \in 1 .. Len(b) : (a \o b)[Len(a) + i] = b[i]
    BY <1>2, <2>1, NatsJoin
  <2>4. (a \o b)[1] = s.ver /\ (a \o b)[2] = s.method
    BY <1>2, <2>3
  <2>5. (a \o b)[4] = s.authStatus
    <3>1. (a \o b)[2 + 2] = b[2]
      BY <1>2, <2>1, <2>3
    <3>2. 2 + 2 = 4
      OBVIOUS
    <3> QED
      BY <2>1, <3>1, <3>2
  <2>6. Len(a \o b) = 4
    BY <1>2, <2>1, <2>3
  <2> QED
    BY <2>2, <2>3, <2>4, <2>5, <2>6
<1>4. CASE ~(h.auth /\ s.method = Password)
  <2>1. Socks5Opening(s, h.auth) = a \o <<>> /\ ReplyAt(h, s) = 2
    BY <1>4 DEF Socks5Opening, ReplyAt
  <2> HIDE DEF a
  <2>2. a \o <<>> = a
    BY <1>2, ConcatEmptySeq
  <2> QED
    BY <1>2, <1>4, <2>1, <2>2
<1> QED
  BY <1>3, <1>4

LEMMA Socks5Wire ==
  ASSUME NEW s \in Socks5Scripts, NEW h \in HsType, NEW p, p = ReplyAt(h, s)
  PROVE  /\ Socks5Bytes(s, h.auth) \in Seq(Nat) /\ Len(s.tail) \in Nat /\ p \in {2, 4}
         /\ Len(Socks5Bytes(s, h.auth)) = p + 4 + AddressSize(s) + 2 + Len(s.tail)
         /\ Socks5Bytes(s, h.auth)[1] = s.ver /\ Socks5Bytes(s, h.auth)[2] = s.method
         /\ h.auth /\ s.method = Password => Socks5Bytes(s, h.auth)[4] = s.authStatus
         /\ Socks5Bytes(s, h.auth)[p + 1] = 5 /\ Socks5Bytes(s, h.auth)[p + 2] = s.rep
         /\ Socks5Bytes(s, h.auth)[p + 4] = s.atyp
         /\ s.atyp = 3 => Socks5Bytes(s, h.auth)[p + 5] = s.name
<1> DEFINE o == Socks5Opening(s, h.auth)
           f == Socks5Fixed(s)
           a == AddressBytes(s)
           z == Zeros(2)
           x1 == o \o f
           x2 == x1 \o a
           x3 == x2 \o z
           w == x3 \o s.tail
<1>1. /\ o \in Seq(Nat) /\ Len(o) = p /\ p \in {2, 4} /\ o[1] = s.ver /\ o[2] = s.method
      /\ h.auth /\ s.method = Password => o[4] = s.authStatus /\ p = 4
  BY Socks5OpeningIs DEF ReplyAt
<1>0. p \in Nat /\ p >= 2
  BY <1>1
<1>2. f \in Seq(Nat) /\ Len(f) = 4 /\ f[1] = 5 /\ f[2] = s.rep /\ f[4] = s.atyp
  <2>1. s.rep \in Nat /\ s.atyp \in Nat
    BY DEF Socks5Scripts, NotSupported
  <2> QED
    BY <2>1 DEF Socks5Fixed
<1>3. /\ a \in Seq(Nat) /\ Len(a) = AddressSize(s) /\ AddressSize(s) \in Nat \ {0}
      /\ s.atyp = 3 => a[1] = s.name
  BY AddressIs
<1>a. AddressSize(s) \in Nat /\ AddressSize(s) >= 1
  BY <1>3
<1>4. z \in Seq(Nat) /\ Len(z) = 2 /\ s.tail \in Seq(Nat) /\ Len(s.tail) \in Nat
  BY ZerosAre, TailsAre DEF Socks5Scripts
<1>5. Socks5Bytes(s, h.auth) = w
  BY DEF Socks5Bytes, Socks5Opening, Socks5Fixed
<1> HIDE DEF o, f, a, z
<1>6. /\ x1 \in Seq(Nat) /\ Len(x1) = Len(o) + Len(f) /\ \A i \in 1 .. Len(o) : x1[i] = o[i]
      /\ \A i \in 1 .. Len(f) : x1[Len(o) + i] = f[i]
  BY <1>1, <1>2, NatsJoin
<1> HIDE DEF x1
<1>7. Len(x1) = p + 4 /\ x1[1] = s.ver /\ x1[2] = s.method
      /\ (h.auth /\ s.method = Password => x1[4] = s.authStatus)
  <2>1. Len(x1) = p + 4
    BY <1>1, <1>2, <1>6
  <2>2. 1 \in 1 .. Len(o) /\ 2 \in 1 .. Len(o) /\ (p = 4 => 4 \in 1 .. Len(o))
    BY <1>0, <1>1
  <2>3. x1[1] = o[1] /\ x1[2] = o[2] /\ (p = 4 => x1[4] = o[4])
    BY <1>6, <2>2
  <2> QED
    BY <1>1, <2>1, <2>3
<1>8. x1[p + 1] = 5 /\ x1[p + 2] = s.rep /\ x1[p + 4] = s.atyp
  <2>1. 1 \in 1 .. Len(f) /\ 2 \in 1 .. Len(f) /\ 4 \in 1 .. Len(f)
    BY <1>2
  <2>2. x1[Len(o) + 1] = f[1] /\ x1[Len(o) + 2] = f[2] /\ x1[Len(o) + 4] = f[4]
    BY <1>6, <2>1
  <2> QED
    BY <1>1, <1>2, <2>2
<1>9. /\ x2 \in Seq(Nat) /\ Len(x2) = Len(x1) + Len(a) /\ \A i \in 1 .. Len(x1) : x2[i] = x1[i]
      /\ \A i \in 1 .. Len(a) : x2[Len(x1) + i] = a[i]
  BY <1>3, <1>6, NatsJoin
<1> HIDE DEF x2
<1>10. /\ x3 \in Seq(Nat) /\ Len(x3) = Len(x2) + Len(z) /\ \A i \in 1 .. Len(x2) : x3[i] = x2[i]
  BY <1>4, <1>9, NatsJoin
<1> HIDE DEF x3
<1>11. /\ w \in Seq(Nat) /\ Len(w) = Len(x3) + Len(s.tail) /\ \A i \in 1 .. Len(x3) : w[i] = x3[i]
  BY <1>4, <1>10, NatsJoin
<1> HIDE DEF w
<1>12. Len(x2) = p + 4 + AddressSize(s) /\ Len(w) = p + 4 + AddressSize(s) + 2 + Len(s.tail)
       /\ Len(x3) = p + 4 + AddressSize(s) + 2
  BY <1>0, <1>3, <1>4, <1>7, <1>9, <1>10, <1>11
<1> DEFINE k == AddressSize(s)
<1>b. Len(x1) = p + 4 /\ Len(x2) = p + 4 + k /\ Len(x3) = p + 4 + k + 2 /\ k \in Nat /\ k >= 1
  BY <1>a, <1>7, <1>12
<1> HIDE DEF k
<1>13. ASSUME NEW i \in 1 .. p + 4 PROVE w[i] = x1[i]
  <2>1. i \in 1 .. Len(x1) /\ i \in 1 .. Len(x2) /\ i \in 1 .. Len(x3)
    BY SMTT(30), <1>0, <1>b
  <2> QED
    BY <1>9, <1>10, <1>11, <2>1
<1>14. w[1] = s.ver /\ w[2] = s.method /\ (h.auth /\ s.method = Password => w[4] = s.authStatus)
  BY <1>0, <1>1, <1>7, <1>13
<1>15. w[p + 1] = 5 /\ w[p + 2] = s.rep /\ w[p + 4] = s.atyp
  BY <1>0, <1>8, <1>13
<1>16. ASSUME s.atyp = 3 PROVE w[p + 5] = s.name
  <2>1. x2[Len(x1) + 1] = s.name
    BY <1>3, <1>9, <1>16
  <2>2. Len(x1) + 1 = p + 5 /\ p + 5 \in 1 .. Len(x2) /\ p + 5 \in 1 .. Len(x3)
    BY SMTT(30), <1>0, <1>b
  <2> QED
    BY <1>10, <1>11, <2>1, <2>2
<1> QED
  BY <1>1, <1>4, <1>5, <1>11, <1>12, <1>14, <1>15, <1>16

------------------------------------------------------------------------------
(* The steps.                                                              *)

LEMMA WireIsOf ==
  ASSUME NEW h, NEW g, NEW s, h.proto = g.proto, h.auth = g.auth
  PROVE  Wire(h, s) = Wire(g, s) /\ Verdict(h, s) = Verdict(g, s)
BY DEF Wire, Verdict

\* A step of the driver alone.
LEMMA HsTurns ==
  ASSUME HsInv, UNCHANGED <<script, stream, got, taken, told>>,
         NEW q \in HsPcs \ {"idle"}, NEW o \in HsOutcomes, hs.pc # "idle",
         hs' = [hs EXCEPT !.pc = q, !.outcome = o],
         HsPhase', FragmentsDoNotMatter', TunnelStartsClean'
  PROVE  HsInv'
<1>1. hs \in HsType
  BY DEF HsInv
<1>2. /\ hs' \in HsType /\ hs'.proto = hs.proto /\ hs'.auth = hs.auth /\ hs'.state = hs.state
      /\ hs'.pc = q /\ hs'.pc # "idle"
  BY <1>1 DEF HsType
<1>3. /\ Wire(hs', script) = Wire(hs, script) /\ Verdict(hs', script) = Verdict(hs, script)
  BY ZenonT(60), <1>2, WireIsOf
<1>4. /\ got' \in Nat /\ taken' \in Nat /\ taken' <= got' /\ got' <= Len(stream')
      /\ script' \in Scripts(hs'.proto) /\ stream' = Wire(hs', script')
  BY <1>2, <1>3 DEF HsInv
<1>5. HsPlain'
  BY <1>2 DEF HsInv, HsPlain
<1>6. (hs.proto \in OverSocks5 => HsTold)'
  BY <1>2 DEF HsInv, HsTold, ReplyAt
<1>7. hs'.state = "done" => taken' = HandshakeLength' /\ Verdict(hs', script') = "open"
  BY <1>2, <1>3 DEF HsInv, HandshakeLength
<1> QED
  BY <1>2, <1>4, <1>5, <1>6, <1>7 DEF HsInv

\* It goes on.
LEMMA HsGoesOn ==
  ASSUME HsInv, UNCHANGED <<script, stream, got, taken, told>>, hs.pc # "idle",
         NEW q \in HsPcs \ {"idle", "ended"}, hs' = [hs EXCEPT !.pc = q],
         \/ q \in {"dial", "tls", "begin"} /\ hs.state = "fresh"
         \/ q \in {"advance", "read"} /\ hs.state \in {"method", "auth_reply", "reply"}
  PROVE  HsInv'
<1>1. hs \in HsType /\ hs.outcome \in HsOutcomes
  BY DEF HsInv, HsType
<1>2. hs'.pc = q /\ hs'.state = hs.state /\ hs' = [hs EXCEPT !.pc = q, !.outcome = hs.outcome]
  BY <1>1 DEF HsType
<1>3. HsPhase' /\ FragmentsDoNotMatter' /\ TunnelStartsClean'
  BY <1>2 DEF HsPhase, FragmentsDoNotMatter, TunnelStartsClean, AfterHello
<1> QED
  BY <1>1, <1>2, <1>3, HsTurns

\* It gives up for a reason of its own, or for one the script gives.
LEMMA HsGivesUp ==
  ASSUME HsInv, UNCHANGED <<script, stream, got, taken, told>>, hs.pc # "idle",
         NEW o \in HsOutcomes, hs' = [hs EXCEPT !.pc = "ended", !.outcome = o],
         \/ o \in BeforeHello
         \/ o = Verdict(hs, script) /\ o # "open"
         \/ o = "too_long" /\ script.fields + 1 > MaxHead
  PROVE  HsInv'
<1>1. hs \in HsType
  BY DEF HsInv
<1>2. hs'.pc = "ended" /\ hs'.outcome = o /\ hs'.proto = hs.proto /\ hs'.auth = hs.auth
  BY <1>1 DEF HsType
<1>3. Verdict(hs', script') = Verdict(hs, script)
  BY ZenonT(60), <1>2, WireIsOf
<1>4. HsPhase' /\ FragmentsDoNotMatter' /\ TunnelStartsClean'
  BY <1>2, <1>3 DEF HsPhase, FragmentsDoNotMatter, TunnelStartsClean, AfterHello, BeforeHello
<1>5. "ended" \in HsPcs \ {"idle"}
  BY DEF HsPcs
<1> QED
  BY <1>2, <1>4, <1>5, HsTurns

\* The attempt begins: a script, and the bytes that carry it.
LEMMA DialsStep ==
  ASSUME HsInv, NEW p \in Protocols, NEW a \in BOOLEAN, NEW s \in Scripts(p), Dials(p, a, s)
  PROVE  HsInv'
<1>1. /\ hs' = [Idle EXCEPT !.proto = p, !.auth = a, !.pc = "dial"] /\ hs.pc = "idle"
      /\ script' = s /\ stream' = Wire(hs', s) /\ UNCHANGED <<got, taken, told>>
  BY DEF Dials
<1>2. /\ hs' \in HsType /\ hs'.proto = p /\ hs'.auth = a /\ hs'.pc = "dial" /\ hs'.state = "fresh"
  BY <1>1 DEF Idle, HsType, HsPcs, HsStates, HsOutcomes, Protocols
<1>3. got' = 0 /\ taken' = 0 /\ told' = <<>>
  BY <1>1 DEF HsInv
<1>4. Len(stream') \in Nat
  <2>1. CASE p = "socks4"
    BY <1>1, <1>2, <2>1, Socks4Wire DEF Wire, Scripts
  <2>2. CASE p = "connect"
    BY <1>1, <1>2, <2>2, ConnectWire DEF Wire, Scripts
  <2>3. CASE p \in OverSocks5
    <3>1. s \in Socks5Scripts /\ stream' = Socks5Bytes(s, hs'.auth)
      BY <1>1, <1>2, <2>3 DEF Wire, Scripts, OverSocks5
    <3> QED
      BY <1>2, <3>1, Socks5Wire
  <2> QED
    BY <2>1, <2>2, <2>3 DEF Protocols, OverSocks5
<1>5. HsPhase' /\ HsPlain' /\ HsTold'
  BY <1>2, <1>3 DEF HsPhase, HsPlain, HsTold
<1>6. FragmentsDoNotMatter' /\ TunnelStartsClean'
  BY <1>2 DEF FragmentsDoNotMatter, TunnelStartsClean, AfterHello
<1> QED
  BY <1>1, <1>2, <1>3, <1>4, <1>5, <1>6 DEF HsInv

\* The first message.
LEMMA SaysStep ==
  ASSUME HsInv, UNCHANGED <<script, stream, got, taken>>, hs.pc = "begin", NEW what, NEW next,
         Says(what, next),
         IF hs.proto \in OverSocks5 THEN what = "greeting" /\ next = "method"
         ELSE what \in {"target", "target_and_credentials"} /\ next = "reply"
  PROVE  HsInv'
<1>1. /\ hs \in HsType /\ hs.state = "fresh"
      /\ hs' = [hs EXCEPT !.pc = "write", !.state = next] /\ told' = Append(told, what)
  BY DEF HsInv, HsPhase, Says
<1>2. next \in {"method", "reply"}
  OBVIOUS
<1>3. /\ hs' \in HsType /\ hs'.proto = hs.proto /\ hs'.auth = hs.auth /\ hs'.state = next /\ hs'.pc = "write"
  BY <1>1, <1>2 DEF HsType, HsStates, HsPcs
<1>4. told = <<>> /\ taken = 0
  BY <1>1 DEF HsInv, HsPlain, HsTold
<1>5. told' = <<what>>
  BY <1>1, <1>4
<1>6. Wire(hs', script) = Wire(hs, script)
  BY <1>3, WireIsOf
<1>7. HsPhase' /\ HsPlain'
  BY <1>2, <1>3, <1>4, <1>5 DEF HsPhase, HsPlain
<1>8. (hs.proto \in OverSocks5 => HsTold)'
  BY <1>3, <1>4, <1>5 DEF HsTold
<1>9. FragmentsDoNotMatter' /\ TunnelStartsClean'
  BY <1>3 DEF FragmentsDoNotMatter, TunnelStartsClean, AfterHello
<1> QED
  BY <1>2, <1>3, <1>4, <1>6, <1>7, <1>8, <1>9 DEF HsInv

------------------------------------------------------------------------------
(* A turn of the drive loop.                                               *)

LEMMA BufferedIs ==
  ASSUME HsInv, hs.pc # "idle"
  PROVE  /\ stream \in Seq(Nat) /\ got \in Nat /\ taken \in Nat /\ taken <= got /\ got <= Len(stream)
         /\ Len(Buffered) = got - taken
         /\ \A i \in 1 .. got - taken : Buffered[i] = stream[taken + i]
         /\ Len(script.tail) \in Nat /\ HandshakeLength \in Nat
<1>1. /\ hs \in HsType /\ got \in Nat /\ taken \in Nat /\ taken <= got /\ got <= Len(stream)
      /\ script \in Scripts(hs.proto) /\ stream = Wire(hs, script)
  BY DEF HsInv
<1>2. stream \in Seq(Nat) /\ Len(script.tail) \in Nat /\ Len(stream) >= Len(script.tail)
  <2>1. CASE hs.proto = "socks4"
    BY <1>1, <2>1, Socks4Wire DEF Wire, Scripts
  <2>2. CASE hs.proto = "connect"
    BY SMTT(30), <1>1, <2>2, ConnectWire DEF Wire, Scripts
  <2>3. CASE hs.proto \in OverSocks5
    <3>1. script \in Socks5Scripts /\ stream = Socks5Bytes(script, hs.auth)
      BY <1>1, <2>3 DEF Wire, Scripts, OverSocks5
    <3> DEFINE p == ReplyAt(hs, script)
    <3>2. /\ stream \in Seq(Nat) /\ Len(script.tail) \in Nat /\ p \in {2, 4}
          /\ Len(stream) = p + 4 + AddressSize(script) + 2 + Len(script.tail)
      BY <1>1, <3>1, Socks5Wire
    <3>3. AddressSize(script) \in Nat
      BY <3>1, AddressIs
    <3> HIDE DEF p
    <3> QED
      BY <3>2, <3>3
  <2> QED
    BY <1>1, <2>1, <2>2, <2>3 DEF HsType, Protocols, OverSocks5
<1>3. HandshakeLength \in Nat
  BY <1>2 DEF HandshakeLength
<1>4. \A i \in taken + 1 .. got : stream[i] \in Nat
  BY <1>1, <1>2
<1>5. /\ Len(Buffered) = IF taken + 1 <= got THEN got - (taken + 1) + 1 ELSE 0
      /\ \A i \in 1 .. got - (taken + 1) + 1 : Buffered[i] = stream[taken + 1 + i - 1]
  BY SMTT(30), <1>1, <1>4, SubSeqProperties DEF Buffered
<1>6. Len(Buffered) = got - taken
  BY <1>1, <1>5
<1>7. ASSUME NEW i \in 1 .. got - taken PROVE Buffered[i] = stream[taken + i]
  <2>1. i \in 1 .. got - (taken + 1) + 1 /\ taken + 1 + i - 1 = taken + i
    BY <1>1
  <2> QED
    BY <1>5, <2>1
<1> QED
  BY <1>1, <1>2, <1>3, <1>6, <1>7

LEMMA DriveNeeds ==
  ASSUME HsInv, Drive, Advance(hs, Buffered) = NeedMore
  PROVE  HsInv'
<1>1. hs.pc = "advance" /\ hs.state \in {"method", "auth_reply", "reply"} /\ taken \in Nat
  BY DEF HsInv, HsPhase, Drive
<1>2. NeedMore.step = "need" /\ NeedMore.take = 0
  BY DEF NeedMore
<1>3. taken' = taken + 0 /\ told' = told /\ hs' = [hs EXCEPT !.pc = "read"]
  BY <1>2 DEF Drive
<1>4. UNCHANGED <<script, stream, got, taken, told>>
  BY <1>1, <1>3 DEF Drive
<1>5. "read" \in HsPcs \ {"idle", "ended"}
  BY DEF HsPcs
<1> QED
  BY <1>1, <1>3, <1>4, <1>5, HsGoesOn

LEMMA DriveFails ==
  ASSUME HsInv, Drive, NEW o \in HsOutcomes, Advance(hs, Buffered) = Fails(o),
         \/ o = Verdict(hs, script) /\ o # "open"
         \/ o = "too_long" /\ script.fields + 1 > MaxHead
  PROVE  HsInv'
<1>1. hs.pc = "advance" /\ taken \in Nat
  BY DEF HsInv, Drive
<1>2. Fails(o).step = "error" /\ Fails(o).take = 0 /\ Fails(o).out = o
  BY DEF Fails
<1>3. taken' = taken + 0 /\ told' = told /\ hs' = [hs EXCEPT !.pc = "ended", !.outcome = o]
  BY <1>2 DEF Drive
<1>4. UNCHANGED <<script, stream, got, taken, told>>
  BY <1>1, <1>3 DEF Drive
<1> QED
  BY <1>1, <1>3, <1>4, HsGivesUp

\* The reply is split off whole: what is left in the buffer is the tail's.
LEMMA DriveDone ==
  ASSUME HsInv, Drive, NEW n \in Nat, Advance(hs, Buffered) = Done(n),
         taken + n = HandshakeLength, HandshakeLength <= got,
         Verdict(hs, script) = "open", hs.state = "reply"
  PROVE  HsInv'
<1>1. /\ hs.pc = "advance" /\ hs \in HsType /\ script \in Scripts(hs.proto) /\ stream = Wire(hs, script)
  BY DEF HsInv, Drive
<1>2. Done(n).step = "done" /\ Done(n).take = n
  BY DEF Done
<1>3. /\ stream \in Seq(Nat) /\ got \in Nat /\ got <= Len(stream) /\ Len(script.tail) \in Nat
      /\ HandshakeLength \in Nat /\ HandshakeLength = Len(stream) - Len(script.tail)
  BY <1>1, BufferedIs DEF HandshakeLength
<1> DEFINE k == HandshakeLength
           left == got - k
<1>4. /\ taken' = k /\ hs' = AfterDone(left) /\ told' = told
      /\ UNCHANGED <<script, stream, got>>
  BY <1>2 DEF Drive
<1>5. left > 0 => script.tail # <<>>
  BY <1>3
<1>6. left = 0 <=> got = k
  BY <1>3
<1>7. left \in Nat
  BY <1>3
<1> HIDE DEF left, k
<1>8. /\ hs' \in HsType /\ hs'.proto = hs.proto /\ hs'.auth = hs.auth /\ hs'.state = "done"
      /\ hs.proto = "associate" => hs'.pc = "relay"
      /\ hs.proto # "associate" =>
           hs'.pc = "ended" /\ hs'.outcome = IF left > 0 THEN "spoke_first" ELSE "open"
  <2>1. CASE hs.proto = "associate"
    <3>1. hs' = [hs EXCEPT !.state = "done", !.pc = "relay"]
      BY <1>4, <2>1 DEF AfterDone
    <3> QED
      BY <1>1, <2>1, <3>1 DEF HsType, HsStates, HsPcs
  <2>2. CASE hs.proto # "associate"
    <3> DEFINE o == IF left > 0 THEN "spoke_first" ELSE "open"
    <3>1. hs' = [hs EXCEPT !.state = "done", !.pc = "ended", !.outcome = o]
      BY <1>4, <2>2 DEF AfterDone
    <3>2. o \in HsOutcomes
      BY DEF HsOutcomes
    <3> HIDE DEF o
    <3>3. hs' \in HsType /\ hs'.outcome = o /\ hs'.pc = "ended" /\ hs'.state = "done"
          /\ hs'.proto = hs.proto /\ hs'.auth = hs.auth
      BY <1>1, <3>1, <3>2 DEF HsType, HsStates, HsPcs
    <3> QED
      BY <2>2, <3>3 DEF o
  <2> QED
    BY <2>1, <2>2
<1>9. Wire(hs', script) = Wire(hs, script) /\ Verdict(hs', script) = Verdict(hs, script)
  BY <1>8, WireIsOf
<1>10. HandshakeLength' = HandshakeLength /\ taken' = HandshakeLength
  BY <1>4 DEF HandshakeLength, k
<1>11. FragmentsDoNotMatter' /\ TunnelStartsClean'
  <2>1. AfterHello' => hs.proto # "associate"
    BY <1>8 DEF AfterHello
  <2>2. CASE left > 0
    BY <1>4, <1>5, <1>8, <1>9, <1>10, <2>1, <2>2 DEF FragmentsDoNotMatter, TunnelStartsClean
  <2>3. CASE ~(left > 0)
    <3>1. got = k
      BY <1>6, <1>7, <2>3
    <3> QED
      BY <1>4, <1>8, <1>9, <1>10, <2>1, <2>3, <3>1 DEF FragmentsDoNotMatter, TunnelStartsClean
  <2> QED
    BY <2>2, <2>3
<1>12. HsPhase' /\ HsPlain'
  BY <1>4, <1>8 DEF HsInv, HsPhase, HsPlain
<1>13. (hs.proto \in OverSocks5 => HsTold)'
  BY <1>4, <1>8 DEF HsInv, HsTold
<1>14. hs'.pc # "idle"
  BY <1>8
<1>15. got' \in Nat /\ taken' \in Nat /\ taken' <= got' /\ got' <= Len(stream')
  BY <1>3, <1>4, <1>10
<1>16. script' \in Scripts(hs'.proto) /\ stream' = Wire(hs', script')
  BY <1>1, <1>4, <1>8, <1>9
<1> QED
  BY <1>4, <1>8, <1>9, <1>10, <1>11, <1>12, <1>13, <1>14, <1>15, <1>16 DEF HsInv

LEMMA AppendSecond ==
  ASSUME NEW a, NEW b
  PROVE  Append(<<a>>, b) = <<a, b>>
<1> DEFINE s == Append(<<a>>, b)
           t == <<a, b>>
<1>1. s \in Seq({a, b}) /\ Len(s) = 2 /\ s[1] = a /\ s[2] = b
  OBVIOUS
<1>2. t \in Seq({a, b}) /\ Len(t) = 2 /\ t[1] = a /\ t[2] = b
  OBVIOUS
<1> HIDE DEF s, t
<1>3. \A i \in 1 .. Len(s) : s[i] = t[i]
  BY <1>1, <1>2
<1>4. s = t
  BY <1>1, <1>2, <1>3, SeqEqual
<1> QED
  BY <1>4 DEF s, t

LEMMA AppendThird ==
  ASSUME NEW a, NEW b, NEW c
  PROVE  Append(<<a, b>>, c) = <<a, b, c>>
<1> DEFINE s == Append(<<a, b>>, c)
           t == <<a, b, c>>
<1>1. s \in Seq({a, b, c}) /\ Len(s) = 3 /\ s[1] = a /\ s[2] = b /\ s[3] = c
  OBVIOUS
<1>2. t \in Seq({a, b, c}) /\ Len(t) = 3 /\ t[1] = a /\ t[2] = b /\ t[3] = c
  OBVIOUS
<1> HIDE DEF s, t
<1>3. \A i \in 1 .. Len(s) : s[i] = t[i]
  BY <1>1, <1>2
<1>4. s = t
  BY <1>1, <1>2, <1>3, SeqEqual
<1> QED
  BY <1>4 DEF s, t

\* The next message goes out: the credentials, or the target.
LEMMA DriveWrites ==
  ASSUME HsInv, Drive, NEW next \in {"auth_reply", "reply"}, NEW what,
         Advance(hs, Buffered) = Writes(2, next, what), taken + 2 <= got,
         hs.proto \in OverSocks5, script.ver = 5, script.method \in Offered(hs.auth),
         \/ hs.state = "method" /\ script.method = Password /\ hs.auth /\ next = "auth_reply" /\ what = "credentials"
         \/ hs.state = "method" /\ script.method # Password /\ next = "reply" /\ what = "target"
         \/ hs.state = "auth_reply" /\ script.authStatus = 0 /\ next = "reply" /\ what = "target"
  PROVE  HsInv'
<1>1. /\ hs.pc = "advance" /\ hs \in HsType /\ script \in Scripts(hs.proto) /\ stream = Wire(hs, script)
      /\ HsTold /\ taken \in Nat /\ got \in Nat /\ got <= Len(stream)
  BY DEF HsInv, Drive
<1>2. Writes(2, next, what).step = "write" /\ Writes(2, next, what).take = 2
      /\ Writes(2, next, what).next = next /\ Writes(2, next, what).out = what
  BY DEF Writes
<1>3. /\ taken' = taken + 2 /\ hs' = [hs EXCEPT !.pc = "write", !.state = next]
      /\ told' = Append(told, what) /\ UNCHANGED <<script, stream, got>>
  BY <1>2 DEF Drive
<1>4. /\ hs' \in HsType /\ hs'.proto = hs.proto /\ hs'.auth = hs.auth /\ hs'.state = next /\ hs'.pc = "write"
  BY <1>1, <1>3 DEF HsType, HsStates, HsPcs
<1>5. Wire(hs', script) = Wire(hs, script)
  BY <1>4, WireIsOf
<1>6. FragmentsDoNotMatter' /\ TunnelStartsClean'
  BY <1>4 DEF FragmentsDoNotMatter, TunnelStartsClean, AfterHello
<1>7. HsPhase' /\ HsPlain'
  BY <1>4 DEF HsPhase, HsPlain
<1>8. HsTold'
  <2>1. CASE hs.state = "method" /\ script.method = Password /\ hs.auth /\ next = "auth_reply" /\ what = "credentials"
    <3>1. taken = 0 /\ told = <<"greeting">>
      BY <1>1, <2>1 DEF HsTold
    <3>2. taken' = 2 /\ told' = <<"greeting", "credentials">>
      <4>1. Append(<<"greeting">>, "credentials") = <<"greeting", "credentials">>
        BY AppendSecond
      <4>2. taken' = 2
        BY <1>3, <3>1
      <4> QED
        BY <1>3, <2>1, <3>1, <4>1, <4>2
    <3> QED
      BY <1>3, <1>4, <2>1, <3>2 DEF HsTold
  <2>2. CASE hs.state = "method" /\ script.method # Password /\ next = "reply" /\ what = "target"
    <3>1. taken = 0 /\ told = <<"greeting">>
      BY <1>1, <2>2 DEF HsTold
    <3>2. taken' = 2 /\ told' = <<"greeting", "target">>
      <4>1. Append(<<"greeting">>, "target") = <<"greeting", "target">>
        BY AppendSecond
      <4>2. taken' = 2
        BY <1>3, <3>1
      <4> QED
        BY <1>3, <2>2, <3>1, <4>1, <4>2
    <3> QED
      BY <1>3, <1>4, <2>2, <3>2 DEF HsTold, ReplyAt
  <2>3. CASE hs.state = "auth_reply" /\ script.authStatus = 0 /\ next = "reply" /\ what = "target"
    <3>1. taken = 2 /\ told = <<"greeting", "credentials">> /\ hs.auth /\ script.method = Password
      BY <1>1, <2>3 DEF HsTold
    <3>2. taken' = 4 /\ told' = <<"greeting", "credentials", "target">> /\ got >= 4
      <4>1. Append(<<"greeting", "credentials">>, "target") = <<"greeting", "credentials", "target">>
        BY AppendThird
      <4>2. taken' = 4 /\ got >= 4
        BY <1>1, <1>3, <3>1
      <4> QED
        BY <1>3, <2>3, <3>1, <4>1, <4>2
    <3> QED
      BY <1>3, <1>4, <2>3, <3>1, <3>2 DEF HsTold, ReplyAt
  <2> QED
    BY <2>1, <2>2, <2>3
<1>9. got' \in Nat /\ taken' \in Nat /\ taken' <= got' /\ got' <= Len(stream')
  BY <1>1, <1>3
<1> QED
  BY <1>1, <1>3, <1>4, <1>5, <1>6, <1>7, <1>8, <1>9 DEF HsInv

\* Each protocol's reading of its buffer, whatever the buffer holds so far.
LEMMA Socks4Turn ==
  ASSUME HsInv, Drive, hs.proto = "socks4"
  PROVE  HsInv'
<1>1. /\ hs.pc = "advance" /\ hs.state = "reply" /\ taken = 0
      /\ script \in Socks4Scripts /\ stream = Socks4Bytes(script)
  BY DEF HsInv, HsPhase, HsPlain, OverSocks5, Drive, Scripts, Wire
<1>2. /\ stream \in Seq(Nat) /\ Len(stream) = 8 + Len(script.tail) /\ Len(script.tail) \in Nat
      /\ stream[1] = script.ver /\ stream[2] = script.cd
  BY <1>1, Socks4Wire
<1> DEFINE b == Buffered
<1>3. Len(b) = got - taken /\ got \in Nat /\ \A i \in 1 .. got - taken : b[i] = stream[taken + i]
  BY <1>1, BufferedIs
<1> HIDE DEF b
<1>4. Len(b) = got
  BY <1>1, <1>3
<1>5. Advance(hs, b) = Socks4Reply(b)
  BY DEF Advance
<1>6. CASE got < 8
  BY <1>4, <1>5, <1>6, DriveNeeds DEF Socks4Reply, b
<1>7. CASE ~(got < 8)
  <2>1. b[1] = stream[0 + 1] /\ b[2] = stream[0 + 2]
    BY <1>1, <1>3, <1>7
  <2>2. b[1] = script.ver /\ b[2] = script.cd
    BY <1>2, <2>1
  <2>3. Verdict(hs, script) = IF script.ver # 0 THEN "bad_version" ELSE IF script.cd # 90 THEN "refused" ELSE "open"
    BY DEF Verdict
  <2>4. HandshakeLength = 8
    BY <1>2 DEF HandshakeLength
  <2>5. CASE script.ver # 0
    <3>1. Advance(hs, b) = Fails("bad_version") /\ "bad_version" \in HsOutcomes
      BY <1>4, <1>5, <1>7, <2>2, <2>5 DEF Socks4Reply, HsOutcomes
    <3> QED
      BY <2>3, <2>5, <3>1, DriveFails DEF b
  <2>6. CASE script.ver = 0 /\ script.cd # 90
    <3>1. Advance(hs, b) = Fails("refused") /\ "refused" \in HsOutcomes
      BY <1>4, <1>5, <1>7, <2>2, <2>6 DEF Socks4Reply, HsOutcomes
    <3> QED
      BY <2>3, <2>6, <3>1, DriveFails DEF b
  <2>7. CASE script.ver = 0 /\ script.cd = 90
    <3>1. Advance(hs, b) = Done(8)
      BY <1>4, <1>5, <1>7, <2>2, <2>7 DEF Socks4Reply
    <3>2. taken + 8 = HandshakeLength /\ HandshakeLength <= got
      BY <1>1, <1>3, <1>7, <2>4
    <3> QED
      BY <1>1, <2>3, <2>7, <3>1, <3>2, DriveDone DEF b
  <2> QED
    BY <2>5, <2>6, <2>7
<1> QED
  BY <1>6, <1>7

LEMMA ConnectTurn ==
  ASSUME HsInv, Drive, hs.proto = "connect"
  PROVE  HsInv'
<1>1. /\ hs.pc = "advance" /\ hs.state = "reply" /\ taken = 0
      /\ script \in ConnectScripts /\ stream = ConnectLines(script)
  BY DEF HsInv, HsPhase, HsPlain, OverSocks5, Drive, Scripts, Wire
<1> DEFINE e == script.fields + 2
<1>2. /\ stream \in Seq(Nat) /\ Len(stream) = script.fields + 2 + Len(script.tail) /\ Len(script.tail) \in Nat
      /\ script.fields \in Nat /\ stream[1] = StatusLine[script.status]
      /\ \A i \in 2 .. script.fields + 1 : stream[i] = 0
      /\ stream[e] = 10
  BY <1>1, ConnectWire
<1>3. script.status \in {"ok", "refused", "malformed"} /\ StatusLine[script.status] # 10
  BY <1>1 DEF ConnectScripts, StatusLine
<1> DEFINE b == Buffered
<1>4. Len(b) = got - taken /\ got \in Nat /\ got <= Len(stream)
      /\ \A i \in 1 .. got - taken : b[i] = stream[taken + i]
  BY <1>1, BufferedIs
<1> HIDE DEF b
<1>5. Len(b) = got /\ \A i \in 1 .. got : b[i] = stream[i]
  <2>1. got - taken = got /\ \A i \in 1 .. got : taken + i = i
    BY <1>1, <1>4
  <2> QED
    BY <1>4, <2>1
<1> DEFINE ends == {i \in 1 .. Len(b) : b[i] = 10}
           len == CHOOSE i \in ends : \A j \in ends : i <= j
<1>6. e \in Nat /\ HandshakeLength = e
  BY SMTT(30), <1>2 DEF HandshakeLength
<1>7. ASSUME NEW i \in 1 .. got, i < e PROVE stream[i] # 10
  <2>1. i = 1 \/ i \in 2 .. script.fields + 1
    BY SMTT(30), <1>2, <1>4, <1>7
  <2> QED
    BY SMTT(30), <1>2, <1>3, <2>1
<1>8. \A i \in ends : i \in Nat /\ e <= i
  BY <1>4, <1>5, <1>6, <1>7
<1>9. e \in ends <=> e <= got
  BY SMTT(30), <1>2, <1>4, <1>5, <1>6
<1>10. Advance(hs, b) = IF Len(b) > 0 /\ b[1] = 1 THEN Fails("malformed")
                        ELSE IF ends = {} THEN IF Len(b) > MaxHead THEN Fails("too_long") ELSE NeedMore
                        ELSE IF b[1] # 200 THEN Fails("refused")
                        ELSE Done(len)
  BY DEF Advance, ConnectReply
<1>11. ends # {} => e <= got /\ len = e
  <2>1. ASSUME ends # {} PROVE e <= got
    <3>1. PICK i \in ends : TRUE
      BY <2>1
    <3>2. i \in 1 .. got /\ e <= i
      BY <1>5, <1>8
    <3> QED
      BY <1>4, <1>6, <3>2
  <2>2. ASSUME ends # {} PROVE len = e
    <3>1. e \in ends /\ \A j \in ends : e <= j
      BY <1>8, <1>9, <2>1, <2>2
    <3>2. len \in ends /\ \A j \in ends : len <= j
      BY <3>1
    <3>3. len <= e /\ e <= len /\ len \in Nat
      BY <1>8, <3>1, <3>2
    <3> QED
      BY <1>6, <3>3
  <2> QED
    BY <2>1, <2>2
<1>12. Verdict(hs, script) = IF script.status = "malformed" THEN "malformed"
                             ELSE IF script.status = "refused" THEN "refused" ELSE "open"
  BY DEF Verdict
<1>13. got > 0 => b[1] = StatusLine[script.status]
  BY <1>2, <1>4, <1>5
<1> HIDE DEF ends, len, e
<1>14. ends # {} => got > 0
  BY <1>4, <1>5 DEF ends
<1>15. /\ StatusLine[script.status] = 1 <=> script.status = "malformed"
       /\ StatusLine[script.status] = 200 <=> script.status = "ok"
  BY <1>3 DEF StatusLine
<1>16. CASE Len(b) > 0 /\ b[1] = 1
  <2>1. script.status = "malformed" /\ Advance(hs, b) = Fails("malformed") /\ "malformed" \in HsOutcomes
    BY <1>5, <1>10, <1>13, <1>15, <1>16 DEF HsOutcomes
  <2> QED
    BY <1>12, <2>1, DriveFails DEF b
<1>17. CASE ~(Len(b) > 0 /\ b[1] = 1) /\ ends = {}
  <2>1. CASE Len(b) > MaxHead
    <3>1. Advance(hs, b) = Fails("too_long") /\ "too_long" \in HsOutcomes
      BY <1>10, <1>17, <2>1 DEF HsOutcomes
    <3>2. ~(e <= got)
      BY <1>9, <1>17
    <3>3. script.fields + 1 > MaxHead
      <4>1. MaxHead \in Nat
        BY HandshakeBounds
      <4>2. script.fields + 1 >= got /\ got > MaxHead
        BY <1>2, <1>4, <1>5, <2>1, <3>2 DEF e
      <4> QED
        BY <1>2, <1>4, <4>1, <4>2
    <3> QED
      BY <3>1, <3>3, DriveFails DEF b
  <2>2. CASE ~(Len(b) > MaxHead)
    BY <1>10, <1>17, <2>2, DriveNeeds DEF b
  <2> QED
    BY <2>1, <2>2
<1>18. CASE ~(Len(b) > 0 /\ b[1] = 1) /\ ends # {}
  <2>1. got > 0 /\ b[1] = StatusLine[script.status] /\ script.status # "malformed" /\ e <= got /\ len = e
    BY <1>5, <1>11, <1>13, <1>14, <1>15, <1>18
  <2>2. CASE script.status = "refused"
    <3>1. Advance(hs, b) = Fails("refused") /\ "refused" \in HsOutcomes
      BY <1>10, <1>15, <1>18, <2>1, <2>2 DEF HsOutcomes
    <3> QED
      BY <1>12, <2>2, <3>1, DriveFails DEF b
  <2>3. CASE script.status = "ok"
    <3>1. Advance(hs, b) = Done(e)
      BY <1>10, <1>15, <1>18, <2>1, <2>3
    <3>2. taken + e = HandshakeLength /\ HandshakeLength <= got
      BY <1>1, <1>6, <2>1
    <3> QED
      BY <1>1, <1>6, <1>12, <2>3, <3>1, <3>2, DriveDone DEF b
  <2> QED
    BY <1>3, <2>1, <2>2, <2>3
<1> QED
  BY <1>16, <1>17, <1>18

\* The SOCKS5 bytes, as the buffer shows them.
LEMMA Socks5Buffer ==
  ASSUME HsInv, Drive, hs.proto \in OverSocks5
  PROVE  /\ hs \in HsType /\ script \in Socks5Scripts /\ HsTold /\ hs.state \in {"method", "auth_reply", "reply"}
         /\ stream = Socks5Bytes(script, hs.auth) /\ hs.pc = "advance"
<1>1. hs \in HsType /\ hs.pc = "advance" /\ HsTold /\ hs.state \in {"method", "auth_reply", "reply"}
  BY DEF HsInv, HsPhase, Drive
<1>2. script \in Scripts(hs.proto) /\ stream = Wire(hs, script)
  BY <1>1 DEF HsInv
<1> QED
  BY <1>1, <1>2 DEF Scripts, Wire, OverSocks5

LEMMA Socks5VerdictIs ==
  ASSUME hs.proto \in OverSocks5
  PROVE  Verdict(hs, script) = Socks5Verdict(hs.proto, script, hs.auth)
BY DEF Verdict, OverSocks5

LEMMA AdvanceIs ==
  ASSUME hs.proto \in OverSocks5, NEW b
  PROVE  /\ hs.state = "method" => Advance(hs, b) = ChosenMethod(hs.auth, b)
         /\ hs.state = "auth_reply" => Advance(hs, b) = AuthReply(b)
         /\ hs.state = "reply" /\ hs.proto = "socks5" => Advance(hs, b) = Socks5Reply(b)
         /\ hs.state = "reply" /\ hs.proto = "associate" => Advance(hs, b) = AssociateReply(b)
BY DEF Advance, Socks5Advance, AssociateAdvance, OverSocks5

LEMMA MethodTurn ==
  ASSUME HsInv, Drive, hs.proto \in OverSocks5, hs.state = "method"
  PROVE  HsInv'
<1>1. /\ hs \in HsType /\ hs.auth \in BOOLEAN /\ script \in Socks5Scripts /\ hs.pc = "advance" /\ taken = 0
      /\ stream = Socks5Bytes(script, hs.auth)
  BY Socks5Buffer DEF HsTold, HsType
<1>2. stream[1] = script.ver /\ stream[2] = script.method
  BY <1>1, Socks5Wire
<1> DEFINE b == Buffered
<1>3. Len(b) = got - taken /\ got \in Nat /\ \A i \in 1 .. got - taken : b[i] = stream[taken + i]
  BY <1>1, BufferedIs
<1> HIDE DEF b
<1>4. Len(b) = got
  BY <1>1, <1>3
<1>5. Advance(hs, b) = ChosenMethod(hs.auth, b)
  BY AdvanceIs
<1>6. CASE got < 2
  BY <1>4, <1>5, <1>6, DriveNeeds DEF ChosenMethod, b
<1>7. CASE ~(got < 2)
  <2>1. b[1] = stream[0 + 1] /\ b[2] = stream[0 + 2]
    BY <1>1, <1>3, <1>7
  <2>2. b[1] = script.ver /\ b[2] = script.method
    BY <1>2, <2>1
  <2>3. Verdict(hs, script) = Socks5Verdict(hs.proto, script, hs.auth)
    BY Socks5VerdictIs
  <2>4. CASE script.ver # 5
    <3>1. Advance(hs, b) = Fails("bad_version") /\ "bad_version" \in HsOutcomes
      BY <1>4, <1>5, <1>7, <2>2, <2>4 DEF ChosenMethod, HsOutcomes
    <3>2. Verdict(hs, script) = "bad_version"
      BY <2>3, <2>4 DEF Socks5Verdict
    <3> QED
      BY <3>1, <3>2, DriveFails DEF b
  <2>5. CASE script.ver = 5 /\ script.method \notin Offered(hs.auth)
    <3>1. Advance(hs, b) = Fails("no_method") /\ "no_method" \in HsOutcomes
      BY <1>4, <1>5, <1>7, <2>2, <2>5 DEF ChosenMethod, HsOutcomes
    <3>2. Verdict(hs, script) = "no_method"
      BY <2>3, <2>5 DEF Socks5Verdict
    <3> QED
      BY <3>1, <3>2, DriveFails DEF b
  <2>6. CASE script.ver = 5 /\ script.method \in Offered(hs.auth)
    <3>1. script.method # Unacceptable /\ (script.method = Password => hs.auth)
      BY <1>1, <2>6 DEF Offered, Unacceptable, Password, NoAuth
    <3>2. taken + 2 <= got
      BY <1>1, <1>3, <1>7
    <3>3. CASE script.method = Password
      <4>1. Advance(hs, b) = Writes(2, "auth_reply", "credentials")
        BY <1>4, <1>5, <1>7, <2>2, <2>6, <3>1, <3>3 DEF ChosenMethod
      <4> QED
        BY <2>6, <3>1, <3>2, <3>3, <4>1, DriveWrites DEF b
    <3>4. CASE script.method # Password
      <4>1. Advance(hs, b) = Writes(2, "reply", "target")
        BY <1>4, <1>5, <1>7, <2>2, <2>6, <3>1, <3>4 DEF ChosenMethod
      <4> QED
        BY <2>6, <3>2, <3>4, <4>1, DriveWrites DEF b
    <3> QED
      BY <3>3, <3>4
  <2> QED
    BY <2>4, <2>5, <2>6
<1> QED
  BY <1>6, <1>7

LEMMA AuthTurn ==
  ASSUME HsInv, Drive, hs.proto \in OverSocks5, hs.state = "auth_reply"
  PROVE  HsInv'
<1>1. /\ hs \in HsType /\ script \in Socks5Scripts /\ hs.pc = "advance" /\ taken = 2
      /\ stream = Socks5Bytes(script, hs.auth) /\ hs.auth /\ script.method = Password
      /\ script.ver = 5 /\ script.method \in Offered(hs.auth)
  BY Socks5Buffer DEF HsTold
<1>2. stream[4] = script.authStatus
  BY <1>1, Socks5Wire
<1> DEFINE b == Buffered
<1>3. Len(b) = got - taken /\ got \in Nat /\ \A i \in 1 .. got - taken : b[i] = stream[taken + i]
  BY <1>1, BufferedIs
<1> HIDE DEF b
<1>4. Len(b) = got - 2
  BY <1>1, <1>3
<1>5. Advance(hs, b) = AuthReply(b)
  BY AdvanceIs
<1>6. CASE Len(b) < 2
  BY <1>5, <1>6, DriveNeeds DEF AuthReply, b
<1>7. CASE ~(Len(b) < 2)
  <2>0. 2 \in 1 .. got - taken /\ taken + 2 = 4
    BY <1>1, <1>3, <1>4, <1>7
  <2>1. b[2] = stream[4]
    BY <1>3, <2>0
  <2>2. b[2] = script.authStatus
    BY <1>2, <2>1
  <2>3. CASE script.authStatus # 0
    <3>1. Advance(hs, b) = Fails("bad_credentials") /\ "bad_credentials" \in HsOutcomes
      BY <1>5, <1>7, <2>2, <2>3 DEF AuthReply, HsOutcomes
    <3>2. Verdict(hs, script) = "bad_credentials"
      BY <1>1, <2>3, Socks5VerdictIs DEF Socks5Verdict
    <3> QED
      BY <3>1, <3>2, DriveFails DEF b
  <2>4. CASE script.authStatus = 0
    <3>1. Advance(hs, b) = Writes(2, "reply", "target")
      BY <1>5, <1>7, <2>2, <2>4 DEF AuthReply
    <3>2. taken + 2 <= got
      BY <1>1, <1>3, <1>4, <1>7
    <3> QED
      BY <1>1, <2>4, <3>1, <3>2, DriveWrites DEF b
  <2> QED
    BY <2>3, <2>4
<1> QED
  BY <1>6, <1>7

LEMMA ReplyTurn ==
  ASSUME HsInv, Drive, hs.proto \in OverSocks5, hs.state = "reply"
  PROVE  HsInv'
<1> DEFINE p == ReplyAt(hs, script)
           k == AddressSize(script)
<1>1. /\ hs \in HsType /\ script \in Socks5Scripts /\ hs.pc = "advance" /\ taken = p
      /\ stream = Socks5Bytes(script, hs.auth)
      /\ script.ver = 5 /\ script.method \in Offered(hs.auth)
      /\ script.method = Password => script.authStatus = 0
  BY Socks5Buffer DEF HsTold
<1>2. /\ stream \in Seq(Nat) /\ Len(script.tail) \in Nat /\ p \in {2, 4}
      /\ Len(stream) = p + 4 + k + 2 + Len(script.tail)
      /\ stream[p + 1] = 5 /\ stream[p + 2] = script.rep /\ stream[p + 4] = script.atyp
      /\ script.atyp = 3 => stream[p + 5] = script.name
  BY <1>1, Socks5Wire
<1>3. k \in Nat /\ k >= 1 /\ script.atyp \in {1, 3, 4, 9} /\ script.name \in Nat
      /\ script.rep \in {0, 1, NotSupported}
  BY <1>1, AddressIs DEF Socks5Scripts
<1> DEFINE b == Buffered
<1>4. Len(b) = got - taken /\ got \in Nat /\ \A i \in 1 .. got - taken : b[i] = stream[taken + i]
  BY <1>1, BufferedIs
<1>5. p \in Nat
  BY <1>2
<1>6. k = IF script.atyp = 1 THEN 4 ELSE IF script.atyp = 4 THEN 16 ELSE script.name + 1
  BY DEF AddressSize
<1> HIDE DEF b, p, k
<1>7. HandshakeLength = p + 4 + k + 2
  BY <1>2, <1>3, <1>5 DEF HandshakeLength
<1>8. Len(b) \in Nat
  BY <1>1, <1>4, <1>5, BufferedIs
<1> DEFINE refusal == IF hs.proto = "associate" /\ script.rep = NotSupported THEN "unsupported" ELSE "refused"
<1>9. CASE Len(b) < 4
  <2>1. Advance(hs, b) = NeedMore
    BY <1>9, AdvanceIs DEF Socks5Reply, AssociateReply, Replied, OverSocks5
  <2> QED
    BY <2>1, DriveNeeds DEF b
<1>10. CASE ~(Len(b) < 4)
  <2>1. b[1] = stream[p + 1] /\ b[2] = stream[p + 2] /\ b[4] = stream[p + 4]
    BY <1>1, <1>4, <1>8, <1>10
  <2>2. b[1] = 5 /\ b[2] = script.rep /\ b[4] = script.atyp
    BY <1>2, <2>1
  <2>3. Advance(hs, b) = Replied(b, Fails(refusal))
    <3>1. CASE hs.proto = "socks5"
      BY <3>1, AdvanceIs DEF Socks5Reply
    <3>2. CASE hs.proto = "associate"
      BY <1>8, <1>10, <2>2, <3>2, AdvanceIs DEF AssociateReply
    <3> QED
      BY <3>1, <3>2 DEF OverSocks5
  <2> HIDE DEF refusal
  <2>4. CASE script.rep # 0
    <3>1. Advance(hs, b) = Fails(refusal)
      BY <1>10, <2>2, <2>3, <2>4 DEF Replied
    <3>2. Verdict(hs, script) = refusal /\ refusal # "open" /\ refusal \in HsOutcomes
      BY <1>1, <2>4, Socks5VerdictIs DEF Socks5Verdict, refusal, HsOutcomes
    <3> QED
      BY <3>1, <3>2, DriveFails DEF b
  <2>5. CASE script.rep = 0 /\ script.atyp = 9
    <3>1. Advance(hs, b) = Fails("bad_address") /\ "bad_address" \in HsOutcomes
      BY <1>10, <2>2, <2>3, <2>5 DEF Replied, HsOutcomes
    <3>2. Verdict(hs, script) = "bad_address"
      BY <1>1, <2>5, Socks5VerdictIs DEF Socks5Verdict, NotSupported
    <3> QED
      BY <3>1, <3>2, DriveFails DEF b
  <2>6. CASE script.rep = 0 /\ script.atyp # 9
    <3>1. Verdict(hs, script) = "open"
      BY <1>1, <2>6, Socks5VerdictIs DEF Socks5Verdict, NotSupported
    <3> DEFINE n == AddressLength(b)
    <3>2. Advance(hs, b) = IF n = 0 \/ Len(b) < 4 + n THEN NeedMore ELSE Done(4 + n)
      BY <1>3, <1>10, <2>2, <2>3, <2>6 DEF Replied
    <3>3. n = 0 \/ n = k + 2
      <4>1. CASE script.atyp = 3 /\ ~(Len(b) < 5)
        <5>1. b[5] = stream[p + 5]
          BY <1>1, <1>4, <1>8, <4>1
        <5>2. b[5] = script.name /\ n = b[5] + 1 + 2
          BY <1>2, <2>2, <4>1, <5>1 DEF AddressLength
        <5> QED
          BY <1>3, <1>6, <4>1, <5>2
      <4>2. CASE script.atyp = 3 /\ Len(b) < 5
        BY <2>2, <4>2 DEF AddressLength
      <4>3. CASE script.atyp \in {1, 4}
        BY <1>6, <2>2, <4>3 DEF AddressLength
      <4> QED
        BY <1>3, <2>6, <4>1, <4>2, <4>3
    <3> HIDE DEF n
    <3>4. CASE n = 0 \/ Len(b) < 4 + n
      BY <3>2, <3>4, DriveNeeds DEF b
    <3>5. CASE ~(n = 0 \/ Len(b) < 4 + n)
      <4>1. n = k + 2 /\ 4 + n \in Nat
        BY <1>3, <3>3, <3>5
      <4>2. taken + (4 + n) = HandshakeLength
        BY <1>1, <1>3, <1>5, <1>7, <4>1
      <4>3. HandshakeLength <= got
        BY <1>1, <1>3, <1>4, <1>5, <1>7, <3>5, <4>1
      <4> QED
        BY <3>1, <3>2, <3>5, <4>1, <4>2, <4>3, DriveDone DEF b
    <3> QED
      BY <3>4, <3>5
  <2> QED
    BY <1>3, <2>4, <2>5, <2>6
<1> QED
  BY <1>9, <1>10

LEMMA DriveStep == HsInv /\ Drive => HsInv'
<1> SUFFICES ASSUME HsInv, Drive PROVE HsInv'
  OBVIOUS
<1>1. hs \in HsType /\ (hs.proto \in OverSocks5 => hs.state \in {"method", "auth_reply", "reply"})
  BY Socks5Buffer DEF HsInv
<1> QED
  BY <1>1, Socks4Turn, ConnectTurn, MethodTurn, AuthTurn, ReplyTurn DEF HsType, Protocols, OverSocks5

LEMMA HsStep == HsInv /\ [HsNext]_hsVars => HsInv'
<1> SUFFICES ASSUME HsInv, [HsNext]_hsVars PROVE HsInv'
  OBVIOUS
<1>0. hs \in HsType
  BY DEF HsInv
<1>1. CASE UNCHANGED hsVars
  BY <1>1 DEF hsVars, HsInv, HsPhase, HsPlain, HsTold, ReplyAt, FragmentsDoNotMatter, TunnelStartsClean,
              AfterHello, HandshakeLength
<1>2. ASSUME NEW a \in BOOLEAN, OpenStream(a) \/ OpenDatagrams(a) PROVE HsInv'
  <2>1. CASE OpenStream(a)
    BY <2>1, DialsStep DEF OpenStream
  <2>2. CASE OpenDatagrams(a)
    BY <2>2, DialsStep DEF OpenDatagrams, Protocols
  <2> QED
    BY <1>2, <2>1, <2>2
<1>3. CASE Reached
  <2>1. hs.pc = "dial" /\ hs.state = "fresh" /\ UNCHANGED <<script, stream, got, taken, told>>
    BY <1>3 DEF Reached, HsInv, HsPhase
  <2>2. ASSUME NEW s \in BOOLEAN, hs' = [hs EXCEPT !.pc = IF s THEN "tls" ELSE "begin"] PROVE HsInv'
    <3> DEFINE q == IF s THEN "tls" ELSE "begin"
    <3>1. q \in {"dial", "tls", "begin"} /\ q \in HsPcs \ {"idle", "ended"} /\ hs' = [hs EXCEPT !.pc = q]
      BY <2>2 DEF HsPcs
    <3> HIDE DEF q
    <3> QED
      BY <2>1, <3>1, HsGoesOn
  <2>3. CASE Ends("connect_failed")
    BY <2>1, <2>3, HsGivesUp DEF Ends, BeforeHello, HsOutcomes
  <2> QED
    BY <1>3, <2>2, <2>3 DEF Reached
<1>4. CASE Secured
  <2>1. hs.pc = "tls" /\ hs.state = "fresh" /\ UNCHANGED <<script, stream, got, taken, told>>
    BY <1>4 DEF Secured, HsInv, HsPhase
  <2>2. CASE hs' = [hs EXCEPT !.pc = "begin"]
    BY <2>1, <2>2, HsGoesOn DEF HsPcs
  <2>3. CASE Ends("tls_failed")
    BY <2>1, <2>3, HsGivesUp DEF Ends, BeforeHello, HsOutcomes
  <2> QED
    BY <1>4, <2>2, <2>3 DEF Secured
<1>5. CASE BeginSocks4 \/ BeginSocks5 \/ BeginConnect \/ BeginAssociate
  <2>1. hs.pc = "begin" /\ UNCHANGED <<script, stream, got, taken>>
    BY <1>5 DEF BeginSocks4, BeginSocks5, BeginConnect, BeginAssociate
  <2>2. ASSUME NEW o \in {"bad_target", "absolute"}, Ends(o), UNCHANGED told PROVE HsInv'
    BY <2>1, <2>2, HsGivesUp DEF Ends, BeforeHello, HsOutcomes
  <2>3. CASE hs.proto \in OverSocks5
    <3>1. Says("greeting", "method") \/ (Ends("bad_target") /\ UNCHANGED told)
      BY <1>5, <2>3 DEF BeginSocks4, BeginSocks5, BeginConnect, BeginAssociate, BadTarget, OverSocks5
    <3> QED
      BY <2>1, <2>2, <2>3, <3>1, SaysStep
  <2>4. CASE hs.proto \notin OverSocks5
    <3>1. \/ Says("target", "reply") \/ Says("target_and_credentials", "reply")
          \/ \E o \in {"bad_target", "absolute"} : Ends(o) /\ UNCHANGED told
      BY <1>5, <2>4 DEF BeginSocks4, BeginSocks5, BeginConnect, BeginAssociate, BadTarget, OverSocks5
    <3> QED
      BY <2>1, <2>2, <2>4, <3>1, SaysStep
  <2> QED
    BY <2>3, <2>4
<1>6. CASE Written
  <2>1. /\ hs.pc = "write" /\ hs.state \in {"method", "auth_reply", "reply"}
        /\ UNCHANGED <<script, stream, got, taken, told>>
    BY <1>6 DEF Written, HsInv, HsPhase
  <2>2. CASE hs' = [hs EXCEPT !.pc = "advance"]
    BY <2>1, <2>2, HsGoesOn DEF HsPcs
  <2>3. CASE Ends("write_failed")
    BY <2>1, <2>3, HsGivesUp DEF Ends, BeforeHello, HsOutcomes
  <2> QED
    BY <1>6, <2>2, <2>3 DEF Written
<1>7. CASE Drive
  BY <1>7, DriveStep
<1>8. CASE Read
  <2>1. PICK n \in got + 1 .. Len(stream) : got' = n
    BY <1>8 DEF Read
  <2>2. /\ hs.pc = "read" /\ hs.state \in {"method", "auth_reply", "reply"} /\ hs' = [hs EXCEPT !.pc = "advance"]
        /\ UNCHANGED <<script, stream, taken, told>>
    BY <1>8 DEF Read, HsInv, HsPhase
  <2>3. /\ hs' \in HsType /\ hs'.proto = hs.proto /\ hs'.auth = hs.auth /\ hs'.state = hs.state /\ hs'.pc = "advance"
    BY <1>0, <2>2 DEF HsType, HsPcs
  <2>4. got' \in Nat /\ taken' <= got' /\ got' <= Len(stream') /\ got' >= got /\ taken' \in Nat
    <3>1. got \in Nat /\ taken \in Nat /\ taken <= got /\ stream \in Seq(Nat)
      BY <2>2, BufferedIs
    <3> QED
      BY <2>1, <2>2, <3>1
  <2>5. Wire(hs', script) = Wire(hs, script)
    BY <2>3, WireIsOf
  <2>6. HsPhase' /\ HsPlain'
    BY <2>2, <2>3 DEF HsInv, HsPhase, HsPlain
  <2>7. (hs.proto \in OverSocks5 => HsTold)'
    <3>1. got >= 4 => got' >= 4
      <4>1. got \in Nat
        BY DEF HsInv
      <4> QED
        BY <2>4, <4>1
    <3> QED
      BY <2>2, <2>3, <3>1 DEF HsInv, HsTold, ReplyAt
  <2>8. FragmentsDoNotMatter' /\ TunnelStartsClean'
    BY <2>3 DEF FragmentsDoNotMatter, TunnelStartsClean, AfterHello
  <2>9. script' \in Scripts(hs'.proto) /\ stream' = Wire(hs', script')
    BY <2>2, <2>3, <2>5 DEF HsInv
  <2> QED
    BY <2>2, <2>3, <2>4, <2>6, <2>7, <2>8, <2>9 DEF HsInv
<1>9. CASE ReadEof
  <2>1. hs.pc = "read" /\ Ends("eof") /\ UNCHANGED <<script, stream, got, taken, told>>
    BY <1>9 DEF ReadEof
  <2> QED
    BY <2>1, HsGivesUp DEF Ends, BeforeHello, HsOutcomes
<1>10. CASE OpenPath
  <2>1. hs.pc = "relay" /\ UNCHANGED <<script, stream, got, taken, told>>
    BY <1>10 DEF OpenPath
  <2>2. ASSUME NEW o \in {"no_relay", "no_socket", "no_udp", "bad_target"}, Ends(o) PROVE HsInv'
    BY <2>1, <2>2, HsGivesUp DEF Ends, BeforeHello, HsOutcomes
  <2>3. CASE Ends("open")
    <3>1. hs' = [hs EXCEPT !.pc = "ended", !.outcome = "open"] /\ "ended" \in HsPcs \ {"idle"} /\ "open" \in HsOutcomes
      BY <2>3 DEF Ends, HsPcs, HsOutcomes
    <3>2. hs.proto = "associate" /\ hs.state = "done" /\ taken = HandshakeLength /\ Verdict(hs, script) = "open"
      BY <2>1 DEF HsInv, HsPhase
    <3>3. hs'.proto = hs.proto /\ hs'.auth = hs.auth /\ hs'.pc = "ended" /\ hs'.outcome = "open"
      BY <1>0, <3>1 DEF HsType
    <3>4. Verdict(hs', script') = "open"
      BY <2>1, <3>2, <3>3, WireIsOf
    <3>5. HsPhase' /\ FragmentsDoNotMatter' /\ TunnelStartsClean'
      BY SMTT(30), <2>1, <3>2, <3>3, <3>4 DEF HsPhase, FragmentsDoNotMatter, TunnelStartsClean, HandshakeLength
    <3> QED
      BY <2>1, <3>1, <3>5, HsTurns
  <2> QED
    BY <1>10, <2>2, <2>3 DEF OpenPath
<1>11. CASE NextAttempt
  <2>1. hs' = Idle /\ stream' = <<>> /\ got' = 0 /\ taken' = 0 /\ told' = <<>> /\ Idle \in HsType
    BY <1>11 DEF NextAttempt, Idle, HsType, Protocols, HsStates, HsPcs, HsOutcomes
  <2>2. Len(stream') = 0
    BY <2>1
  <2> QED
    BY <2>1, <2>2 DEF HsInv, HsPhase, HsPlain, HsTold, OverSocks5, FragmentsDoNotMatter, TunnelStartsClean, AfterHello, Idle
<1> QED
  BY <1>1, <1>2, <1>3, <1>4, <1>5, <1>6, <1>7, <1>8, <1>9, <1>10, <1>11 DEF HsNext

LEMMA HsHolds == HsInv => HandshakeHolds
<1> SUFFICES ASSUME HsInv PROVE HandshakeHolds
  OBVIOUS
<1>1. /\ hs \in HsType /\ taken <= got /\ got <= Len(stream) /\ FragmentsDoNotMatter /\ TunnelStartsClean
      /\ hs.state \in HsStates
  BY DEF HsInv, HsType
<1>2. taken \in Nat /\ got \in Nat
  BY DEF HsInv
<1>3. Len(told) <= 3
  <2>1. CASE hs.proto \notin OverSocks5
    <3>1. told = <<>> \/ \E what \in {"target", "target_and_credentials"} : told = <<what>>
      BY <2>1 DEF HsInv, HsPlain
    <3>2. CASE told = <<>>
      BY <3>2
    <3>3. ASSUME NEW what, told = <<what>> PROVE Len(told) <= 3
      <4>1. Len(<<what>>) = 1
        OBVIOUS
      <4> QED
        BY <3>3, <4>1
    <3> QED
      BY <3>1, <3>2, <3>3
  <2>2. CASE hs.proto \in OverSocks5
    BY <1>1, <2>2 DEF HsInv, HsTold, HsStates
  <2> QED
    BY <2>1, <2>2
<1>4. SecretsInOrder
  <2> SUFFICES ASSUME hs.proto \in OverSocks5, NEW i \in 1 .. Len(told)
               PROVE  /\ told[i] = "credentials" => hs.auth /\ script.method = Password /\ got >= 2
                      /\ told[i] = "target" /\ script.method = Password =>
                           /\ \E j \in 1 .. i - 1 : told[j] = "credentials"
                           /\ script.authStatus = 0 /\ got >= 4
    BY DEF SecretsInOrder, OverSocks5
  <2>1. HsTold
    BY DEF HsInv
  <2>2. CASE hs.state \in {"fresh", "method"}
    BY <2>1, <2>2 DEF HsTold
  <2>3. CASE hs.state = "auth_reply"
    <3>1. taken = 2 /\ told = <<"greeting", "credentials">> /\ hs.auth /\ script.method = Password
      BY <2>1, <2>3 DEF HsTold
    <3>2. got >= 2
      BY <1>1, <1>2, <3>1
    <3>3. told[i] # "target"
      BY <3>1
    <3> QED
      BY <3>1, <3>2, <3>3
  <2>4. CASE hs.state \in {"reply", "done"} /\ script.method = Password
    <3>1. hs.auth /\ script.authStatus = 0 /\ got >= 4 /\ told = <<"greeting", "credentials", "target">>
      BY <2>1, <2>4 DEF HsTold
    <3>2. told[i] = "target" => i = 3
      BY <3>1
    <3>3. told[i] = "target" => \E j \in 1 .. i - 1 : told[j] = "credentials"
      BY <3>1, <3>2
    <3>4. got >= 2
      BY <1>2, <3>1
    <3> QED
      BY <2>4, <3>1, <3>3, <3>4
  <2>5. CASE hs.state \in {"reply", "done"} /\ script.method # Password
    <3>1. told = <<"greeting", "target">>
      BY <2>1, <2>5 DEF HsTold
    <3> QED
      BY <2>5, <3>1
  <2> QED
    BY <1>1, <2>2, <2>3, <2>4, <2>5 DEF HsStates
<1> QED
  BY <1>1, <1>3, <1>4 DEF HandshakeHolds, HsTypeOK, HsType, HsStates, HsPcs

------------------------------------------------------------------------------
(* The keep-alive of a shared HTTP/2 connection (http2.rs H2Driver).       *)

KaPhases == {"off", "idle", "probing"}
KaEnds == {"no", "no_pong", "ended", "failed"}

DriverType == [phase : KaPhases, due : Nat, pinged : Nat, closed : KaEnds, events : Nat]

LinkType ==
  [state : {"up", "ended", "failed"}, silent : BOOLEAN, owed : BOOLEAN, pong : BOOLEAN,
   pongAt : Nat, since : Nat]

\* An open connection: its timer is polled in time, a PONG is owed or there
\* while a probe is out and at no other time.
ProbeInv ==
  /\ kaNow <= driver.due + MaxLag
  /\ driver.phase = "idle" => driver.due <= kaNow + PingEvery /\ ~link.pong /\ ~link.owed
  /\ driver.phase = "probing" =>
       /\ driver.pinged <= kaNow /\ driver.due = driver.pinged + PongWithin
       /\ link.owed \/ link.pong
       /\ link.pong => ~link.owed
  /\ link.pong => link.pongAt <= kaNow /\ kaNow <= link.pongAt + MaxLag

\* How far a silent peer can be from being found out.
SilenceInv ==
  /\ link.since <= kaNow
  /\ driver.phase = "idle" => driver.due <= link.since + PingEvery + MaxLag
  /\ driver.phase = "probing" =>
       IF link.pong THEN link.pongAt <= link.since
       ELSE driver.due <= link.since + PingEvery + PongWithin + 2 * MaxLag

KaInv ==
  /\ kaNow \in Nat /\ driver \in DriverType /\ link \in LinkType
  /\ driver.events = IF driver.closed = "no" THEN 0 ELSE 1
  /\ driver.phase = "off" => ~link.pong /\ ~link.owed /\ driver.closed # "no_pong"
  /\ driver.closed = "no" /\ driver.phase # "off" =>
       ProbeInv /\ (link.silent => SilenceInv)
  /\ driver.closed = "no_pong" => kaNow >= driver.pinged + PongWithin /\ ~link.pong /\ link.owed

LEMMA KaBegins ==
  KaInit => KaInv
BY KeepAliveConstants DEF KaInit, KaInv, KaPhases, KaEnds, DriverType, LinkType, ProbeInv

LEMMA KaInvHolds ==
  KaInv => KeepAliveIsJust
<1> SUFFICES ASSUME KaInv PROVE KeepAliveIsJust
  OBVIOUS
<1>1. {PingEvery, PongWithin, MaxLag} \subseteq Nat
  BY KeepAliveConstants
<1>2. kaNow \in Nat /\ driver.due \in Nat /\ link.since \in Nat /\ link.pongAt \in Nat
  BY DEF KaInv, DriverType, LinkType
<1>3. driver.phase \in {"off", "idle", "probing"}
  BY DEF KaInv, DriverType, KaPhases
<1> QED
  BY <1>1, <1>2, <1>3 DEF KaInv, KeepAliveIsJust, ProbeInv, SilenceInv

LEMMA KaStep ==
  KaInv /\ [KaNext]_kaVars => KaInv'
<1> SUFFICES ASSUME KaInv, [KaNext]_kaVars PROVE KaInv'
  OBVIOUS
<1>0. /\ {PingEvery, PongWithin, MaxLag} \subseteq Nat
      /\ kaNow \in Nat /\ driver \in DriverType /\ link \in LinkType
      /\ driver.due \in Nat /\ driver.pinged \in Nat /\ driver.events \in Nat
      /\ link.since \in Nat /\ link.pongAt \in Nat
      /\ driver.phase \in {"off", "idle", "probing"}
      /\ link.pong \in BOOLEAN /\ link.owed \in BOOLEAN /\ link.silent \in BOOLEAN
  BY KeepAliveConstants DEF KaInv, DriverType, LinkType, KaPhases
<1>00. /\ kaNow + PingEvery \in Nat /\ kaNow + PongWithin \in Nat /\ driver.events + 1 \in Nat
       /\ {"idle", "probing"} \subseteq KaPhases /\ {"no_pong", "ended", "failed"} \subseteq KaEnds
  BY <1>0 DEF KaPhases, KaEnds
<1>1. CASE UNCHANGED kaVars
  BY <1>1 DEF kaVars, KaInv, ProbeInv, SilenceInv
<1>2. CASE Pongs
  <2>1. /\ kaNow' = kaNow /\ driver' = driver /\ link' \in LinkType
        /\ link'.state = link.state /\ link'.silent = link.silent /\ link'.since = link.since
        /\ link'.owed = FALSE /\ link'.pong = TRUE /\ link'.pongAt = kaNow
        /\ link.owed /\ ~link.silent /\ driver.closed = "no"
    BY <1>0, <1>2 DEF Pongs, LinkType
  <2> QED
    BY <1>0, <2>1 DEF KaInv, ProbeInv, SilenceInv
<1>3. CASE GoesSilent
  <2>1. /\ kaNow' = kaNow /\ driver' = driver /\ link' \in LinkType
        /\ link'.state = link.state /\ link'.silent = TRUE /\ link'.since = kaNow
        /\ link'.owed = link.owed /\ link'.pong = link.pong /\ link'.pongAt = link.pongAt
    BY <1>0, <1>3 DEF GoesSilent, LinkType
  <2> QED
    BY <1>0, <2>1 DEF KaInv, ProbeInv, SilenceInv
<1>4. CASE LinkEnds
  <2>1. /\ kaNow' = kaNow /\ driver' = driver /\ link' \in LinkType
        /\ link'.silent = link.silent /\ link'.since = link.since
        /\ link'.owed = link.owed /\ link'.pong = link.pong /\ link'.pongAt = link.pongAt
    BY <1>0, <1>4 DEF LinkEnds, LinkType
  <2> QED
    BY <1>0, <2>1 DEF KaInv, ProbeInv, SilenceInv
<1>5. CASE KaTick
  BY <1>0, <1>5 DEF KaTick, KaInv, ProbeInv, SilenceInv
<1>6. CASE DriverPoll
  <2>0. /\ driver.closed = "no" /\ kaNow' = kaNow /\ link' \in LinkType
        /\ link'.silent = link.silent /\ link'.since = link.since /\ link'.pongAt = link.pongAt
        /\ link'.pong = FALSE
        /\ link'.owed = (link.owed \/ (driver'.phase = "probing" /\ driver.phase = "idle"))
    BY <1>0, <1>6 DEF DriverPoll, LinkType
  <2>1. ASSUME NEW why \in {"no_pong", "ended", "failed"}, driver' = Closes(driver, why),
               why = "no_pong" => /\ driver.phase = "probing" /\ kaNow >= driver.due /\ ~link.pong
        PROVE  KaInv'
    <3>1. /\ driver'.closed = why /\ driver'.events = driver.events + 1
          /\ driver'.phase = driver.phase /\ driver'.pinged = driver.pinged
      BY <1>0, <1>00, <2>1 DEF Closes, DriverType
    <3>2. driver' \in DriverType
      BY <1>0, <1>00, <2>1 DEF Closes, DriverType
    <3> QED
      BY <1>0, <2>0, <2>1, <3>1, <3>2 DEF KaInv, ProbeInv
  <2>2. CASE link.state # "up"
    <3>1. driver' = Closes(driver, link.state) /\ link.state \in {"ended", "failed"}
      BY <1>0, <1>6, <2>2 DEF DriverPoll, LinkType
    <3> QED
      BY <2>1, <3>1
  <2>3. CASE link.state = "up" /\ driver.phase = "off"
    <3>1. driver' = driver
      BY <1>6, <2>3 DEF DriverPoll, KeepAlivePoll
    <3> QED
      BY <1>0, <2>0, <2>3, <3>1 DEF KaInv
  <2>4. CASE link.state = "up" /\ driver.phase = "idle" /\ kaNow < driver.due
    <3>1. driver' = driver
      BY <1>0, <1>6, <2>4 DEF DriverPoll, KeepAlivePoll
    <3> QED
      BY <1>0, <2>0, <2>4, <3>1 DEF KaInv, ProbeInv, SilenceInv
  <2>5. CASE link.state = "up" /\ driver.phase = "idle" /\ kaNow >= driver.due
    <3>0. driver' = KeepAlivePoll(driver)
      BY <1>6, <2>5 DEF DriverPoll
    <3>00. ~(driver.phase = "idle" /\ kaNow < driver.due)
      BY <1>0, <2>5
    <3>1. driver' = Pings(driver)
      BY <2>5, <3>0, <3>00 DEF KeepAlivePoll
    <3>3. driver' \in DriverType
      BY <1>0, <1>00, <3>1 DEF Pings, DriverType
    <3>2. /\ driver'.phase = "probing" /\ driver'.due = kaNow + PongWithin
          /\ driver'.pinged = kaNow /\ driver'.closed = "no" /\ driver'.events = driver.events
      BY <1>0, <2>0, <3>1 DEF Pings, DriverType
    <3>4. ProbeInv /\ (link.silent => SilenceInv) /\ driver.events = 0
      BY <2>0, <2>5 DEF KaInv
    <3>5. link'.owed = TRUE
      BY <2>0, <2>5, <3>2
    <3>7. kaNow' <= driver'.due + MaxLag /\ driver'.pinged <= kaNow'
      BY <1>0, <2>0, <3>2
    <3>8. ProbeInv'
      BY <1>0, <2>0, <2>5, <3>2, <3>5, <3>7 DEF ProbeInv
    <3>6. link'.silent => SilenceInv'
      BY <1>0, <2>0, <2>5, <3>2, <3>4 DEF ProbeInv, SilenceInv
    <3> QED
      BY <1>0, <2>0, <2>5, <3>2, <3>3, <3>4, <3>5, <3>6, <3>8 DEF KaInv
  <2>6. CASE link.state = "up" /\ driver.phase = "probing"
    <3>1. driver' = Probe(driver, link.pong)
      BY <1>6, <2>6 DEF DriverPoll, KeepAlivePoll
    <3>2. CASE link.pong
      <4>3. driver' \in DriverType
        BY <1>0, <1>00, <3>1, <3>2 DEF Probe, DriverType
      <4>1. /\ driver'.phase = "idle" /\ driver'.due = kaNow + PingEvery
            /\ driver'.closed = "no" /\ driver'.events = driver.events
        BY <1>0, <2>0, <3>1, <3>2 DEF Probe, DriverType
      <4>2. ~link.owed
        BY <2>0, <2>6, <3>2 DEF KaInv, ProbeInv
      <4> QED
        BY <1>0, <2>0, <2>6, <3>2, <4>1, <4>2, <4>3 DEF KaInv, ProbeInv, SilenceInv
    <3>3. CASE ~link.pong /\ kaNow >= driver.due
      <4>1. driver' = Closes(driver, "no_pong")
        BY <3>1, <3>3 DEF Probe
      <4> QED
        BY <2>1, <2>6, <3>3, <4>1
    <3>4. CASE ~link.pong /\ ~(kaNow >= driver.due)
      <4>1. driver' = driver
        BY <3>1, <3>4 DEF Probe
      <4> QED
        BY <1>0, <2>0, <2>6, <3>4, <4>1 DEF KaInv, ProbeInv, SilenceInv
    <3> QED
      BY <3>2, <3>3, <3>4
  <2> QED
    BY <1>0, <2>2, <2>3, <2>4, <2>5, <2>6
<1> QED
  BY <1>1, <1>2, <1>3, <1>4, <1>5, <1>6 DEF KaNext

------------------------------------------------------------------------------
(* A WebSocket split over two tasks, and its keep-alive (tungstenite).     *)

WsKinds == {"text", "ping", "close", "pong", "answer"}
WsFrame == [kind : WsKinds, n : Nat]
WsEnds == {"no", "no_pong", "closed"}
WsTasks == {"nobody", "reader", "sender"}

WsType ==
  [live : BOOLEAN, ended : WsEnds, sleep : Nat, outstanding : Nat, next : Nat,
   active : BOOLEAN, out : Seq(WsFrame), atPeer : SUBSET Nat, writer : WsTasks,
   pinged : Nat, sends : Nat]

SockType == [inbox : Seq(WsFrame), room : BOOLEAN, over : BOOLEAN, sent : Nat, heard : Nat]

\* The ping that is out has no answer on its way: none can be, while it is
\* still queued.
Unanswered(w, box) ==
  /\ w.outstanding # None /\ w.outstanding \notin w.atPeer
  /\ \A j \in 1 .. Len(box) : ~(box[j].kind = "pong" /\ box[j].n = w.outstanding)

\* The sleep that is set: the wait of a ping, or a silence since the last frame.
Timed(w) ==
  /\ wsNow <= w.sleep /\ (w.live \/ w.sleep = Asleep)
  /\ w.outstanding # None =>
       /\ w.live /\ w.sleep = w.pinged + WsWithin
       /\ w.pinged <= wsNow /\ w.pinged <= sock.heard + WsEvery
  /\ w.outstanding = None /\ w.sleep # Asleep => w.sleep <= sock.heard + WsEvery

\* What is queued came from the k frames read so far, the caller's sends or the
\* one ping that may be out.
WsCore(w, k, box) ==
  /\ w \in WsType
  /\ w.outstanding < w.next /\ \A m \in w.atPeer : m < w.next
  /\ Len(w.out) <= k + w.sends + (IF w.outstanding = None THEN 0 ELSE 1)
  /\ \A i \in 1 .. Len(w.out) :
       w.out[i].kind = "ping" => w.out[i].n = w.outstanding /\ Unanswered(w, box)
  /\ w.ended = "no" => Timed(w)

OwesFrames(w) == \E i \in 1 .. Len(w.out) : w.out[i].kind \in {"ping", "pong"}

\* Frames that arrived have woken the reader, who sees to them before time goes
\* on; a reader that sleeps has left its sleep, and its flush, with somebody.
WsReaderInv ==
  /\ sock.inbox # <<>> => half.reader = "awake" /\ sock.heard = wsNow
  /\ ws.live /\ ws.active /\ ws.outstanding = None /\ ws.sleep = Asleep =>
       half.reader = "awake" /\ sock.heard = wsNow
  /\ half.reader = "parked" /\ OwesFrames(ws) =>
       half.sender = "flushing" \/ (~sock.room /\ ws.writer # "nobody")

WsInv ==
  /\ wsNow \in Nat /\ wsNow <= WsMaxTime /\ sock.heard <= wsNow
  /\ sock \in SockType /\ sock.sent <= MaxFromPeer /\ Len(sock.inbox) <= sock.sent
  /\ half \in [reader : {"awake", "parked"}, sender : {"idle", "flushing", "parked"}]
  /\ ws.sends <= MaxSends
  /\ WsCore(ws, sock.sent - Len(sock.inbox), sock.inbox)
  /\ ws.ended = "no" => WsReaderInv
  /\ ws.ended = "no_pong" => sock.inbox = <<>> /\ wsNow >= ws.pinged + WsWithin

LEMMA WsBegins ==
  WsInit => WsInv
<1> SUFFICES ASSUME WsInit PROVE WsInv
  OBVIOUS
<1>1. {WsMaxTime, MaxFromPeer, MaxSends, WsEvery, WsWithin} \subseteq Nat
  BY WsConstants
<1>2. Asleep \in Nat
  BY <1>1 DEF Asleep
<1>3. /\ wsNow = 0 /\ sock = [inbox |-> <<>>, room |-> TRUE, over |-> FALSE, sent |-> 0, heard |-> 0]
      /\ half = [reader |-> "awake", sender |-> "idle"]
  BY DEF WsInit
<1>4. PICK live \in BOOLEAN :
          ws = [live |-> live, ended |-> "no", sleep |-> Asleep, outstanding |-> None, next |-> 1,
                active |-> TRUE, out |-> <<>>, atPeer |-> {}, writer |-> "nobody", pinged |-> 0, sends |-> 0]
  BY DEF WsInit
<1>5. "no" \in WsEnds /\ "nobody" \in WsTasks /\ None \in Nat /\ <<>> \in Seq(WsFrame)
  BY DEF WsEnds, WsTasks, None
<1>6. ws \in WsType
  BY <1>2, <1>4, <1>5 DEF WsType
<1>7. sock \in SockType /\ half \in [reader : {"awake", "parked"}, sender : {"idle", "flushing", "parked"}]
  BY <1>3, <1>5 DEF SockType
<1>8. Timed(ws)
  BY <1>2, <1>3, <1>4 DEF Timed, None
<1>9. WsCore(ws, 0, <<>>)
  BY <1>4, <1>6, <1>8 DEF WsCore, None
<1>10. WsReaderInv
  BY <1>3, <1>4 DEF WsReaderInv, OwesFrames
<1>11. Len(<<>>) = 0
  OBVIOUS
<1> QED
  BY <1>1, <1>3, <1>4, <1>7, <1>9, <1>10, <1>11 DEF WsInv

LEMMA WsInvHolds ==
  WsInv => WsHolds
<1> SUFFICES ASSUME WsInv PROVE WsHolds
  OBVIOUS
<1>1. {WsMaxTime, MaxFromPeer, MaxSends, WsEvery, WsWithin} \subseteq Nat
  BY WsConstants
<1>2. /\ ws \in WsType /\ sock \in SockType
      /\ half.reader \in {"awake", "parked"} /\ half.sender \in {"idle", "flushing", "parked"}
  BY DEF WsInv, WsCore
<1>3. /\ ws.outstanding \in Nat /\ ws.next \in Nat /\ ws.sleep \in Nat /\ ws.pinged \in Nat
      /\ ws.sends \in Nat /\ sock.sent \in Nat /\ sock.heard \in Nat /\ wsNow \in Nat
      /\ ws.ended \in WsEnds /\ Len(ws.out) \in Nat /\ Len(sock.inbox) \in Nat
  BY <1>2 DEF WsType, SockType, WsInv
<1>4. WsTypeOK
  <2>1. ws.outstanding \in 0 .. ws.next - 1 /\ ws.ended \in {"no", "no_pong", "closed"}
    BY SMTT(30), <1>3 DEF WsInv, WsCore, WsEnds
  <2>2. Len(ws.out) <= MaxFromPeer + MaxSends + 2
    <3>1. sock.sent <= MaxFromPeer /\ ws.sends <= MaxSends
      BY DEF WsInv
    <3>2. Len(ws.out) <= (sock.sent - Len(sock.inbox)) + ws.sends + (IF ws.outstanding = None THEN 0 ELSE 1)
      BY DEF WsInv, WsCore
    <3>3. Len(ws.out) <= (sock.sent - Len(sock.inbox)) + ws.sends + 1
      BY SMTT(30), <1>3, <3>2
    <3>4. MaxFromPeer \in Nat /\ MaxSends \in Nat
      BY <1>1
    <3> QED
      BY SMTT(30), <1>3, <3>1, <3>3, <3>4
  <2> QED
    BY <1>2, <2>1, <2>2 DEF WsTypeOK
<1>5. NoPongIsJust
  BY <1>3 DEF NoPongIsJust, WsInv
<1>6. SilenceIsFound
  <2> SUFFICES ASSUME ws.live, ws.ended = "no", ws.active
               PROVE  wsNow <= sock.heard + WsEvery + WsWithin
    BY DEF SilenceIsFound
  <2>1. Timed(ws) /\ WsReaderInv
    BY DEF WsInv, WsCore
  <2>2. CASE ws.outstanding # None
    BY SMTT(30), <1>1, <1>3, <2>1, <2>2 DEF Timed
  <2>3. CASE ws.outstanding = None /\ ws.sleep = Asleep
    BY SMTT(30), <1>1, <1>3, <2>1, <2>3 DEF WsReaderInv
  <2>4. CASE ws.outstanding = None /\ ws.sleep # Asleep
    BY SMTT(30), <1>1, <1>3, <2>1, <2>4 DEF Timed
  <2> QED
    BY <2>2, <2>3, <2>4
<1>7. OwedFramesLeave
  <2> SUFFICES ASSUME sock.room, ws.ended = "no", OwesFrames(ws), half.reader # "awake"
               PROVE  half.sender = "flushing"
    BY DEF OwedFramesLeave, OwesFrames
  <2> QED
    BY <1>2 DEF WsInv, WsReaderInv
<1> QED
  BY <1>4, <1>5, <1>6, <1>7 DEF WsHolds

\* Nothing a flush or a read does touches these.
SameSocket(w, r) ==
  r.live = w.live /\ r.ended = w.ended /\ r.next = w.next /\ r.pinged = w.pinged /\ r.sends = w.sends

LEMMA FlushKeeps ==
  ASSUME NEW w, NEW k \in Int, NEW box, WsCore(w, k, box), NEW who \in WsTasks
  PROVE  LET r == Flush(w, who)
         IN /\ WsCore(r, k, box) /\ SameSocket(w, r)
            /\ r.sleep = w.sleep /\ r.outstanding = w.outstanding /\ r.active = w.active
            /\ sock.room => r.out = <<>>
            /\ ~sock.room => r.out = w.out /\ (w.out # <<>> => r.writer = who)
<1> DEFINE r == Flush(w, who)
           pings == {w.out[i].n : i \in {j \in 1 .. Len(w.out) : w.out[j].kind = "ping"}}
<1>0. /\ w \in WsType /\ w.outstanding < w.next /\ (\A m \in w.atPeer : m < w.next)
      /\ w.out \in Seq(WsFrame) /\ w.outstanding \in Nat /\ w.next \in Nat /\ w.sends \in Nat
      /\ Len(w.out) \in Nat /\ w.atPeer \in SUBSET Nat
  BY DEF WsCore, WsType
<1>1. CASE w.out = <<>>
  BY <1>1 DEF Flush, SameSocket
<1>2. CASE w.out # <<>> /\ sock.room
  <2>1. r = [w EXCEPT !.out = <<>>, !.atPeer = w.atPeer \cup pings]
    BY <1>2 DEF Flush
  <2>2. \A m \in pings : m = w.outstanding
    BY DEF WsCore
  <2>3. pings \in SUBSET Nat /\ <<>> \in Seq(WsFrame)
    BY <1>0, <2>2
  <2> HIDE DEF pings, r
  <2>4. r \in WsType
    BY <1>0, <2>1, <2>3 DEF WsType
  <2>5. /\ SameSocket(w, r) /\ r.out = <<>> /\ r.atPeer = w.atPeer \cup pings
        /\ r.sleep = w.sleep /\ r.outstanding = w.outstanding /\ r.active = w.active
    BY <1>0, <2>1 DEF WsType, SameSocket
  <2>6. \A m \in r.atPeer : m < r.next
    BY <1>0, <2>2, <2>5 DEF SameSocket
  <2>7. Len(r.out) = 0
    BY <2>5
  <2>8. 0 <= k + r.sends + (IF r.outstanding = None THEN 0 ELSE 1)
    <3>1. Len(w.out) <= k + w.sends + (IF w.outstanding = None THEN 0 ELSE 1)
      BY DEF WsCore
    <3> QED
      BY <1>0, <2>5, <3>1 DEF SameSocket
  <2>9. r.ended = "no" => Timed(r)
    BY <2>5 DEF WsCore, Timed, SameSocket
  <2>10. WsCore(r, k, box)
    BY <1>0, <2>4, <2>5, <2>6, <2>7, <2>8, <2>9 DEF WsCore, SameSocket
  <2> QED
    BY <1>2, <2>5, <2>10 DEF r
<1>3. CASE w.out # <<>> /\ ~sock.room
  <2>1. r = [w EXCEPT !.writer = who]
    BY <1>3 DEF Flush
  <2> HIDE DEF r
  <2>4. r \in WsType
    BY <1>0, <2>1 DEF WsType
  <2>5. /\ SameSocket(w, r) /\ r.out = w.out /\ r.atPeer = w.atPeer /\ r.writer = who
        /\ r.sleep = w.sleep /\ r.outstanding = w.outstanding /\ r.active = w.active
    BY <1>0, <2>1 DEF WsType, SameSocket
  <2>6. r.ended = "no" => Timed(r)
    BY <2>5 DEF WsCore, Timed, SameSocket
  <2>7. Unanswered(w, box) => Unanswered(r, box)
    BY <2>5 DEF Unanswered
  <2>8. WsCore(r, k, box)
    BY <1>0, <2>4, <2>5, <2>6, <2>7 DEF WsCore, SameSocket
  <2> QED
    BY <1>3, <2>5, <2>8 DEF r
<1> QED
  BY <1>1, <1>2, <1>3

\* Flushed before a read: nothing is owed any more, or the reader is the one the
\* socket will wake.
LEMMA FlushOwedKeeps ==
  ASSUME NEW w, NEW k \in Int, NEW box, WsCore(w, k, box)
  PROVE  LET r == FlushOwed(w)
         IN /\ WsCore(r, k, box) /\ SameSocket(w, r)
            /\ r.sleep = w.sleep /\ r.outstanding = w.outstanding /\ r.active = w.active
            /\ OwesFrames(r) => ~sock.room /\ r.writer = "reader"
<1>0. "reader" \in WsTasks
  BY DEF WsTasks
<1> DEFINE owed == w.outstanding # None \/ {"pong", "answer"} \cap Kinds(w) # {}
           r == Flush(w, "reader")
<1>1. CASE owed
  <2>1. FlushOwed(w) = r
    BY <1>1 DEF FlushOwed
  <2>2. /\ WsCore(r, k, box) /\ SameSocket(w, r)
        /\ r.sleep = w.sleep /\ r.outstanding = w.outstanding /\ r.active = w.active
        /\ sock.room => r.out = <<>>
        /\ ~sock.room => r.out = w.out /\ (w.out # <<>> => r.writer = "reader")
    BY <1>0, FlushKeeps
  <2>3. OwesFrames(r) => r.out # <<>>
    BY DEF OwesFrames
  <2> HIDE DEF r
  <2> QED
    BY <2>1, <2>2, <2>3
<1>2. CASE ~owed
  <2>1. FlushOwed(w) = w
    BY <1>2 DEF FlushOwed
  <2>2. ~OwesFrames(w)
    <3> SUFFICES ASSUME NEW i \in 1 .. Len(w.out), w.out[i].kind \in {"ping", "pong"} PROVE FALSE
      BY DEF OwesFrames
    <3>1. w.out[i].kind \in Kinds(w)
      BY DEF Kinds
    <3>2. w.out[i].kind = "ping"
      BY <1>2, <3>1
    <3>3. w.outstanding # None
      BY <3>2 DEF WsCore, Unanswered
    <3> QED
      BY <1>2, <3>3
  <2> QED
    BY <2>1, <2>2 DEF SameSocket
<1> QED
  BY <1>1, <1>2

\* A frame that was read: a silence ends, or the probe it answers.
LEMMA SawKeeps ==
  ASSUME NEW w, NEW k \in Int, NEW box \in Seq(WsFrame), WsCore(w, k, box),
         wsNow \in Nat, wsNow <= WsMaxTime,
         NEW j \in 1 .. Len(box)
  PROVE  LET r == Saw(w, box[j])
         IN /\ WsCore(r, k + 1, box) /\ SameSocket(w, r)
            /\ r.out = w.out /\ r.active = w.active /\ r.writer = w.writer
            /\ r.outstanding = None => r.sleep = Asleep
            /\ box[j].kind # "pong" => Len(r.out) < k + 1 + r.sends + (IF r.outstanding = None THEN 0 ELSE 1)
<1> DEFINE f == box[j]
           left == IF f.kind = "pong" /\ f.n = w.outstanding THEN None ELSE w.outstanding
           slp == IF left = None THEN Asleep ELSE w.sleep
           r == Saw(w, f)
<1>0. /\ w \in WsType /\ w.outstanding < w.next /\ (\A m \in w.atPeer : m < w.next)
      /\ w.out \in Seq(WsFrame) /\ w.outstanding \in Nat /\ w.next \in Nat /\ w.sends \in Nat
      /\ Len(w.out) \in Nat /\ w.atPeer \in SUBSET Nat /\ w.sleep \in Nat /\ w.pinged \in Nat
  BY DEF WsCore, WsType
<1>1. WsMaxTime \in Nat /\ WsEvery \in Nat /\ WsWithin \in Nat /\ Asleep \in Nat /\ wsNow <= Asleep
  BY SMTT(30), WsConstants DEF Asleep
<1>2. left \in Nat /\ slp \in Nat /\ left \in {None, w.outstanding}
  BY <1>0, <1>1 DEF None
<1>3. r = [w EXCEPT !.outstanding = left, !.sleep = slp]
  BY DEF Saw
<1>4. left # None => slp = w.sleep /\ left = w.outstanding
  OBVIOUS
<1>5. left = None /\ w.outstanding # None => f.kind = "pong" /\ f.n = w.outstanding
  BY <1>2
<1>6. left = None => slp = Asleep
  OBVIOUS
<1> HIDE DEF r, left, slp
<1>7. r \in WsType
  BY <1>0, <1>2, <1>3 DEF WsType
<1>8. /\ SameSocket(w, r) /\ r.out = w.out /\ r.active = w.active /\ r.atPeer = w.atPeer
      /\ r.outstanding = left /\ r.sleep = slp /\ r.writer = w.writer
  BY <1>0, <1>3 DEF WsType, SameSocket
<1>9. r.outstanding < r.next /\ \A m \in r.atPeer : m < r.next
  BY <1>0, <1>2, <1>8 DEF SameSocket, None
<1>10. /\ Len(r.out) <= k + 1 + r.sends + (IF r.outstanding = None THEN 0 ELSE 1)
       /\ f.kind # "pong" => Len(r.out) < k + 1 + r.sends + (IF r.outstanding = None THEN 0 ELSE 1)
  <2>1. Len(w.out) <= k + w.sends + (IF w.outstanding = None THEN 0 ELSE 1)
    BY DEF WsCore
  <2>2. r.out = w.out /\ r.sends = w.sends
    BY <1>8 DEF SameSocket
  <2>3. CASE left = w.outstanding
    <3>1. r.outstanding = w.outstanding
      BY <1>8, <2>3
    <3> QED
      BY SMTT(30), <1>0, <2>1, <2>2, <3>1
  <2>4. CASE left # w.outstanding
    <3>1. r.outstanding = None /\ f.kind = "pong"
      BY <1>2, <1>5, <1>8, <2>4
    <3>2. Len(w.out) <= k + w.sends + 1
      BY SMTT(30), <1>0, <2>1
    <3> QED
      BY SMTT(30), <1>0, <2>2, <3>1, <3>2
  <2> QED
    BY <2>3, <2>4
<1>11. r.ended = "no" => Timed(r)
  <2> SUFFICES ASSUME r.ended = "no" PROVE Timed(r)
    OBVIOUS
  <2>1. Timed(w)
    BY <1>8 DEF WsCore, SameSocket
  <2>2. CASE left = None
    BY <1>1, <1>6, <1>8, <2>2 DEF Timed
  <2>3. CASE left # None
    BY <1>4, <1>8, <2>1, <2>3 DEF Timed, SameSocket
  <2> QED
    BY <2>2, <2>3
<1>12. ASSUME NEW i \in 1 .. Len(r.out), r.out[i].kind = "ping"
       PROVE  r.out[i].n = r.outstanding /\ Unanswered(r, box)
  <2>1. w.out[i].n = w.outstanding /\ Unanswered(w, box)
    BY <1>8, <1>12 DEF WsCore
  <2>2. left # None
    BY <1>5, <2>1 DEF Unanswered, f
  <2> QED
    BY <1>4, <1>8, <2>1, <2>2 DEF Unanswered
<1>13. Len(r.out) <= (k + 1) + r.sends + (IF r.outstanding = None THEN 0 ELSE 1)
  <2>1. Len(r.out) \in Nat /\ r.sends \in Nat
    BY <1>7 DEF WsType
  <2> QED
    BY <1>10, <2>1
<1>14. WsCore(r, k + 1, box)
  BY <1>7, <1>9, <1>11, <1>12, <1>13 DEF WsCore
<1> QED
  BY <1>6, <1>8, <1>10, <1>14 DEF r, f

LEMMA ReadKeeps ==
  ASSUME NEW w, NEW k \in Int, NEW box \in Seq(WsFrame), WsCore(w, k, box),
         wsNow \in Nat, wsNow <= WsMaxTime,
         NEW j \in 1 .. Len(box)
  PROVE  LET r == ReadOne(w, box[j])
         IN /\ WsCore(r, k + 1, box) /\ SameSocket(w, r)
            /\ r.active => w.active
            /\ r.outstanding = None => r.sleep = Asleep
<1> DEFINE f == box[j]
           v == FlushOwed(w)
           s == Saw(v, f)
           r == ReadOne(w, f)
<1>1. WsCore(v, k, box) /\ SameSocket(w, v) /\ v.active = w.active
  BY FlushOwedKeeps
<1> HIDE DEF v
<1>2. /\ WsCore(s, k + 1, box) /\ SameSocket(v, s) /\ s.out = v.out /\ s.active = v.active
      /\ s.outstanding = None => s.sleep = Asleep
      /\ f.kind # "pong" => Len(s.out) < k + 1 + s.sends + (IF s.outstanding = None THEN 0 ELSE 1)
  BY <1>1, SawKeeps
<1>3. SameSocket(w, s) /\ s.active = w.active
  BY <1>1, <1>2 DEF SameSocket
<1>40. f \in WsFrame
  OBVIOUS
<1> HIDE DEF s, f
<1>4. f.kind \in WsKinds /\ f.n \in Nat
  BY <1>40 DEF WsFrame
<1>50. s \in WsType
  BY <1>2 DEF WsCore
<1>51. s.out \in Seq(WsFrame) /\ Len(s.out) \in Nat /\ s.sends \in Nat
  BY <1>50 DEF WsType
<1>5. /\ s \in WsType /\ s.out \in Seq(WsFrame) /\ Len(s.out) \in Nat /\ s.sends \in Nat
      /\ (\A i \in 1 .. Len(s.out) : s.out[i].kind = "ping" => s.out[i].n = s.outstanding /\ Unanswered(s, box))
      /\ (s.ended = "no" => Timed(s)) /\ s.outstanding < s.next /\ (\A m \in s.atPeer : m < s.next)
  BY <1>2, <1>50, <1>51 DEF WsCore
<1>6. r = CASE f.kind = "ping" -> [s EXCEPT !.out = Append(@, Frame("pong", f.n))]
            [] f.kind = "close" -> [s EXCEPT !.active = FALSE,
                                             !.out = IF w.active THEN Append(@, Frame("answer", 0)) ELSE @]
            [] OTHER -> s
  BY DEF ReadOne, v, s, f
<1>7. Frame("pong", f.n) \in WsFrame /\ Frame("answer", 0) \in WsFrame
  BY <1>4 DEF Frame, WsFrame, WsKinds
<1>8. Frame("pong", f.n).kind # "ping" /\ Frame("answer", 0).kind # "ping"
  BY DEF Frame
<1> HIDE DEF r
<1>9. ASSUME NEW act \in BOOLEAN, NEW q \in Seq(WsFrame), r = [s EXCEPT !.active = act, !.out = q],
             act => s.active, q # s.out => f.kind # "pong",
             q = s.out \/ \E e \in WsFrame : q = Append(s.out, e) /\ e.kind # "ping"
      PROVE  /\ WsCore(r, k + 1, box) /\ SameSocket(w, r)
             /\ r.active => w.active
             /\ r.outstanding = None => r.sleep = Asleep
  <2>1. r \in WsType
    BY <1>5, <1>9 DEF WsType
  <2>2. /\ SameSocket(s, r) /\ r.out = q /\ r.active = act /\ r.atPeer = s.atPeer
        /\ r.outstanding = s.outstanding /\ r.sleep = s.sleep
    BY <1>5, <1>9 DEF WsType, SameSocket
  <2>3. Len(q) \in Nat /\ Len(q) <= Len(s.out) + 1
    BY <1>5, <1>9
  <2>4. ASSUME NEW i \in 1 .. Len(q), q[i].kind = "ping"
        PROVE  q[i].n = s.outstanding /\ Unanswered(s, box)
    <3>1. CASE q = s.out
      BY <1>5, <2>4, <3>1
    <3>2. CASE q # s.out
      <4>1. PICK e \in WsFrame : q = Append(s.out, e) /\ e.kind # "ping"
        BY <1>9, <3>2
      <4>2. i \in 1 .. Len(s.out) /\ q[i] = s.out[i]
        BY <1>5, <2>4, <4>1
      <4> QED
        BY <1>5, <2>4, <4>2
    <3> QED
      BY SMTT(30), <3>1, <3>2
  <2>5. Unanswered(s, box) => Unanswered(r, box)
    BY <2>2 DEF Unanswered
  <2>6. Timed(s) => Timed(r)
    BY <2>2 DEF Timed, SameSocket
  <2>7. Len(r.out) <= (k + 1) + r.sends + (IF r.outstanding = None THEN 0 ELSE 1)
    <3>1. CASE q = s.out
      <4>1. Len(s.out) <= (k + 1) + s.sends + (IF s.outstanding = None THEN 0 ELSE 1)
        BY <1>2 DEF WsCore
      <4> QED
        BY <2>2, <3>1, <4>1 DEF SameSocket
    <3>2. CASE q # s.out
      <4>1. Len(s.out) < k + 1 + s.sends + (IF s.outstanding = None THEN 0 ELSE 1)
        BY <1>2, <1>9, <3>2
      <4>2. r.out = q /\ r.sends = s.sends /\ r.outstanding = s.outstanding
        BY <2>2 DEF SameSocket
      <4> QED
        BY SMTT(30), <1>5, <2>3, <4>1, <4>2
    <3> QED
      BY <3>1, <3>2
  <2>8. r.outstanding < r.next /\ \A m \in r.atPeer : m < r.next
    BY <1>5, <2>2 DEF SameSocket
  <2>9. WsCore(r, k + 1, box)
    BY <1>5, <2>1, <2>2, <2>4, <2>5, <2>6, <2>7, <2>8 DEF WsCore, SameSocket
  <2> QED
    BY <1>2, <1>3, <1>9, <2>2, <2>9 DEF SameSocket
<1>10. CASE f.kind = "ping"
  <2>1. r = [s EXCEPT !.active = s.active, !.out = Append(s.out, Frame("pong", f.n))]
    <3>1. r = [s EXCEPT !.out = Append(s.out, Frame("pong", f.n))]
      BY <1>6, <1>10
    <3> QED
      BY <1>5, <3>1 DEF WsType
  <2>2. s.active \in BOOLEAN /\ Append(s.out, Frame("pong", f.n)) \in Seq(WsFrame)
    BY <1>5, <1>7 DEF WsType
  <2> QED
    BY <1>7, <1>8, <1>9, <1>10, <2>1, <2>2 DEF r, f
<1>11. CASE f.kind = "close"
  <2> DEFINE q == IF w.active THEN Append(s.out, Frame("answer", 0)) ELSE s.out
  <2>1. r = [s EXCEPT !.active = FALSE, !.out = q]
    BY <1>6, <1>11
  <2>2. q \in Seq(WsFrame)
    BY <1>5, <1>7
  <2>3. q = s.out \/ \E e \in WsFrame : q = Append(s.out, e) /\ e.kind # "ping"
    BY <1>7, <1>8
  <2> HIDE DEF q
  <2> QED
    BY <1>9, <1>11, <2>1, <2>2, <2>3 DEF r, f
<1>12. CASE f.kind \notin {"ping", "close"}
  <2>1. r = s
    BY <1>6, <1>12
  <2> QED
    BY <1>2, <1>3, <2>1 DEF r, f
<1> QED
  BY <1>10, <1>11, <1>12

\* What a loop of reads computes exists: it is extended one frame at a time.
LEMMA ReadUpToIsRead ==
  ASSUME sock.inbox \in Seq(WsFrame)
  PROVE  ReadUpTo = [n \in 0 .. Len(sock.inbox) |->
                       IF n = 0 THEN ws ELSE ReadOne(ReadUpTo[n - 1], sock.inbox[n])]
<1> DEFINE N == Len(sock.inbox)
           Body(g, n) == IF n = 0 THEN ws ELSE ReadOne(g[n - 1], sock.inbox[n])
           Runs(m, g) == DOMAIN g = 0 .. m /\ g = [n \in 0 .. m |-> Body(g, n)]
           T == {m \in 0 .. N : \E g : Runs(m, g)}
<1>0. N \in Nat
  OBVIOUS
<1>1. 0 \in T
  <2> DEFINE z == [i \in 0 .. 0 |-> ws]
  <2>1. Runs(0, z)
    OBVIOUS
  <2>2. 0 \in 0 .. N
    BY <1>0
  <2> HIDE DEF z, Runs, N
  <2> QED
    BY <2>1, <2>2
<1>2. ASSUME NEW m \in 0 .. N, m < N, m \in T PROVE m + 1 \in T
  <2>1. PICK g : Runs(m, g)
    BY <1>2
  <2> DEFINE h == [i \in 0 .. m + 1 |-> IF i = m + 1 THEN ReadOne(g[m], sock.inbox[m + 1]) ELSE g[i]]
  <2>2. m \in Nat /\ m + 1 \in 0 .. N /\ m + 1 # 0
    BY <1>0, <1>2
  <2>3. ASSUME NEW n \in 0 .. m + 1 PROVE h[n] = Body(h, n)
    <3>1. CASE n = m + 1
      <4>1. h[n - 1] = g[m] /\ h[n] = ReadOne(g[m], sock.inbox[m + 1])
        BY <2>2, <3>1
      <4> QED
        BY <2>2, <3>1, <4>1
    <3>2. CASE n = 0
      <4>1. h[0] = g[0] /\ g[0] = ws
        BY <2>1, <2>2
      <4> QED
        BY <3>2, <4>1
    <3>3. CASE n \in 1 .. m
      <4>1. n - 1 \in 0 .. m /\ n \in 0 .. m /\ n # 0
        BY <2>2, <3>3
      <4>2. h[n] = g[n] /\ h[n - 1] = g[n - 1]
        BY <2>2, <4>1
      <4>3. g[n] = ReadOne(g[n - 1], sock.inbox[n])
        BY <2>1, <4>1
      <4> QED
        BY <4>1, <4>2, <4>3
    <3> QED
      BY <2>2, <3>1, <3>2, <3>3
  <2>4. h = [n \in 0 .. m + 1 |-> h[n]] /\ DOMAIN h = 0 .. m + 1
    OBVIOUS
  <2> HIDE DEF h
  <2>5. Runs(m + 1, h)
    BY <2>3, <2>4
  <2> HIDE DEF Runs, N
  <2> QED
    BY <2>2, <2>5
<1> HIDE DEF T
<1>3. N \in T
  <2> HIDE DEF N
  <2>1. \A n \in 0 .. N : n \in T
    BY <1>0, <1>1, <1>2, UpTo
  <2> QED
    BY <1>0, <2>1
<1>4. \E g : g = [n \in 0 .. N |-> Body(g, n)]
  BY <1>3 DEF T
<1>5. ReadUpTo = CHOOSE g : g = [n \in 0 .. N |-> Body(g, n)]
  BY DEF ReadUpTo
<1> QED
  BY <1>4, <1>5

\* However many frames are read, the socket is one the invariant allows.
LEMMA ReadsKeep ==
  ASSUME WsInv
  PROVE  \A n \in 0 .. Len(sock.inbox) :
           LET r == ReadUpTo[n]
           IN /\ WsCore(r, (sock.sent - Len(sock.inbox)) + n, sock.inbox) /\ SameSocket(ws, r)
              /\ r.active => ws.active
              /\ n > 0 /\ r.outstanding = None => r.sleep = Asleep
              /\ n = 0 => r = ws
<1> DEFINE box == sock.inbox
           k == sock.sent - Len(box)
           Fine(n, r) == /\ WsCore(r, k + n, box) /\ SameSocket(ws, r)
                         /\ r.active => ws.active
                         /\ n > 0 /\ r.outstanding = None => r.sleep = Asleep
                         /\ n = 0 => r = ws
           T == {n \in 0 .. Len(box) : Fine(n, ReadUpTo[n])}
<1>0. /\ box \in Seq(WsFrame) /\ Len(box) \in Nat /\ k \in Int /\ wsNow \in Nat /\ wsNow <= WsMaxTime
      /\ WsCore(ws, k, box)
  BY DEF WsInv, SockType
<1>1. /\ ReadUpTo[0] = ws
      /\ \A n \in 1 .. Len(box) : ReadUpTo[n] = ReadOne(ReadUpTo[n - 1], box[n])
  BY <1>0, ReadUpToIsRead
<1> HIDE DEF k, box
<1>2. 0 \in T
  <2>1. k + 0 = k
    BY <1>0
  <2>2. Fine(0, ws)
    BY <1>0, <2>1 DEF SameSocket
  <2> QED
    BY <1>0, <1>1, <2>2
<1>3. ASSUME NEW n \in 0 .. Len(box), n < Len(box), n \in T PROVE n + 1 \in T
  <2>1. n + 1 \in 1 .. Len(box) /\ n + 1 \in 0 .. Len(box) /\ (n + 1) - 1 = n /\ k + n \in Int
        /\ (k + n) + 1 = k + (n + 1) /\ n + 1 # 0
    BY <1>0, <1>3
  <2> DEFINE w == ReadUpTo[n]
             r == ReadOne(w, box[n + 1])
  <2>2. ReadUpTo[n + 1] = r
    BY <1>1, <2>1
  <2>3. WsCore(w, k + n, box) /\ SameSocket(ws, w) /\ (w.active => ws.active)
    BY <1>3
  <2> HIDE DEF w
  <2>4. /\ WsCore(r, (k + n) + 1, box) /\ SameSocket(w, r)
        /\ r.active => w.active
        /\ r.outstanding = None => r.sleep = Asleep
    BY <1>0, <2>1, <2>3, ReadKeeps
  <2> HIDE DEF r
  <2>5. SameSocket(ws, r) /\ (r.active => ws.active)
    BY <2>3, <2>4 DEF SameSocket
  <2>6. Fine(n + 1, r)
    BY <2>1, <2>4, <2>5
  <2> HIDE DEF Fine
  <2> QED
    BY <2>1, <2>2, <2>6
<1> HIDE DEF T
<1>4. \A n \in 0 .. Len(box) : n \in T
  BY <1>0, <1>2, <1>3, UpTo
<1> QED
  BY <1>4 DEF T, k, box

\* Frames that are gone from the socket answer nothing.
LEMMA FewerFrames ==
  ASSUME NEW w, NEW k, NEW box, NEW rest, WsCore(w, k, box),
         \A j \in 1 .. Len(rest) : \E i \in 1 .. Len(box) : rest[j] = box[i]
  PROVE  WsCore(w, k, rest)
<1>1. Unanswered(w, box) => Unanswered(w, rest)
  BY DEF Unanswered
<1> QED
  BY <1>1 DEF WsCore

LEMMA ReadsInRange ==
  ASSUME sock.inbox \in Seq(WsFrame)
  PROVE  Reads \in 0 .. Len(sock.inbox) /\ (Handed = {} => Reads = Len(sock.inbox)) /\ (Handed # {} => Reads > 0)
<1>0. Len(sock.inbox) \in Nat
  OBVIOUS
<1>1. CASE Handed = {}
  BY <1>0, <1>1 DEF Reads
<1>2. CASE Handed # {}
  <2>0. Handed \subseteq Nat /\ Handed \subseteq 1 .. Len(sock.inbox)
    BY <1>0 DEF Handed
  <2>1. PICK x \in Handed : \A y \in Handed : ~(<<y, x>> \in OpToRel(<, Nat))
    BY <1>2, <2>0, NatLessThanWellFounded, WFMin, Zenon
  <2>20. \A y \in Handed : ~(y < x)
    BY <2>0, <2>1 DEF OpToRel
  <2>2. \A y \in Handed : x <= y
    BY <2>0, <2>20
  <2>3. Reads \in Handed
    BY <1>2, <2>2 DEF Reads
  <2> QED
    BY <1>0, <1>2, <2>0, <2>3
<1> QED
  BY <1>1, <1>2

\* The keep-alive's turn, once all there was to read is read.
LEMMA TurnKeeps ==
  ASSUME NEW w, NEW k \in Int, WsCore(w, k, <<>>), w.ended = "no",
         wsNow \in Nat, wsNow <= WsMaxTime, sock.heard \in Nat,
         w.live /\ w.active /\ w.outstanding = None /\ w.sleep = Asleep => sock.heard = wsNow
  PROVE  LET r == KeepAliveTurn(w)
         IN /\ WsCore(r, k, <<>>) /\ r.sends = w.sends
            /\ r.ended \in {"no", "no_pong"}
            /\ r.ended = "no_pong" => wsNow >= r.pinged + WsWithin /\ r.outstanding = w.outstanding
            /\ r.live /\ r.active /\ r.outstanding = None => r.sleep # Asleep
            /\ r.outstanding = w.outstanding => r.out = w.out /\ r.writer = w.writer
<1> DEFINE due == IF w.sleep # Asleep THEN w.sleep
                  ELSE wsNow + (IF w.outstanding # None THEN WsWithin ELSE WsEvery)
           r == KeepAliveTurn(w)
<1>0. /\ WsMaxTime \in Nat /\ WsEvery \in Nat /\ WsWithin \in Nat /\ WsEvery > 0 /\ WsWithin > 0
      /\ Asleep \in Nat /\ wsNow <= Asleep
      /\ Asleep > wsNow + WsEvery /\ Asleep > wsNow + WsWithin
  BY SMTT(30), WsConstants DEF Asleep
<1>1. /\ w \in WsType /\ w.outstanding < w.next /\ (\A m \in w.atPeer : m < w.next)
      /\ (\A i \in 1 .. Len(w.out) : w.out[i].kind = "ping" => w.out[i].n = w.outstanding /\ Unanswered(w, <<>>))
      /\ Len(w.out) <= k + w.sends + (IF w.outstanding = None THEN 0 ELSE 1)
      /\ Timed(w)
  BY DEF WsCore
<1>2. /\ w.out \in Seq(WsFrame) /\ w.outstanding \in Nat /\ w.next \in Nat /\ w.sends \in Nat
      /\ Len(w.out) \in Nat /\ w.atPeer \in SUBSET Nat /\ w.sleep \in Nat /\ w.pinged \in Nat
      /\ w.live \in BOOLEAN /\ w.active \in BOOLEAN
  BY <1>1 DEF WsType
<1>3. due \in Nat
  BY <1>0, <1>2
<1>4. ~w.live => w.outstanding = None
  BY <1>1 DEF Timed
<1>5. r = IF ~w.live THEN w
          ELSE IF w.outstanding = None /\ ~w.active THEN [w EXCEPT !.sleep = Asleep]
          ELSE IF wsNow < due THEN [w EXCEPT !.sleep = due]
          ELSE IF w.outstanding # None THEN [w EXCEPT !.ended = "no_pong", !.sleep = Asleep]
          ELSE [w EXCEPT !.outstanding = w.next, !.next = @ + 1, !.pinged = wsNow,
                         !.sleep = wsNow + WsWithin, !.out = Append(@, Frame("ping", w.next))]
  BY DEF KeepAliveTurn
<1>6. w.outstanding # None => due = w.sleep
  BY <1>0, <1>1, <1>2 DEF Timed
<1>7. w.sleep # Asleep => due = w.sleep
  OBVIOUS
<1>8. w.sleep = Asleep /\ w.outstanding = None => due = wsNow + WsEvery
  OBVIOUS
<1> HIDE DEF r, due
<1>9. ASSUME NEW slp \in Nat, NEW e \in {"no", "no_pong"}, r = [w EXCEPT !.ended = e, !.sleep = slp],
             e = "no" => Timed([w EXCEPT !.sleep = slp]),
             e = "no_pong" => wsNow >= w.pinged + WsWithin /\ w.outstanding # None,
             w.live /\ w.active /\ w.outstanding = None => slp # Asleep
      PROVE  /\ WsCore(r, k, <<>>) /\ r.sends = w.sends
             /\ r.ended \in {"no", "no_pong"}
             /\ r.ended = "no_pong" => wsNow >= r.pinged + WsWithin /\ r.outstanding = w.outstanding
             /\ r.live /\ r.active /\ r.outstanding = None => r.sleep # Asleep
             /\ r.outstanding = w.outstanding => r.out = w.out /\ r.writer = w.writer
  <2>1. e \in WsEnds
    BY <1>9 DEF WsEnds
  <2>2. r \in WsType
    BY <1>1, <1>9, <2>1 DEF WsType
  <2>3. /\ r.live = w.live /\ r.next = w.next /\ r.pinged = w.pinged /\ r.sends = w.sends /\ r.out = w.out
        /\ r.active = w.active /\ r.atPeer = w.atPeer /\ r.outstanding = w.outstanding
        /\ r.writer = w.writer /\ r.ended = e /\ r.sleep = slp
    BY <1>1, <1>9 DEF WsType
  <2>4. Unanswered(w, <<>>) => Unanswered(r, <<>>)
    BY <2>3 DEF Unanswered
  <2>5. r.ended = "no" => Timed(r)
    <3>1. [w EXCEPT !.sleep = slp].sleep = slp
      BY <1>1 DEF WsType
    <3> QED
      BY <1>1, <1>9, <2>3, <3>1 DEF Timed, WsType
  <2>6. WsCore(r, k, <<>>)
    BY <1>1, <2>2, <2>3, <2>4, <2>5 DEF WsCore
  <2> QED
    BY <1>9, <2>3, <2>6
<1>10. ASSUME NEW slp \in Nat, r = [w EXCEPT !.sleep = slp] PROVE r = [w EXCEPT !.ended = "no", !.sleep = slp]
  BY <1>1, <1>10 DEF WsType
<1>11. ASSUME NEW slp \in Nat
       PROVE  LET v == [w EXCEPT !.sleep = slp]
              IN v.sleep = slp /\ v.live = w.live /\ v.outstanding = w.outstanding /\ v.pinged = w.pinged
  BY <1>1 DEF WsType
<1>12. CASE ~w.live
  <2>1. r = w
    BY <1>5, <1>12
  <2> QED
    BY <1>12, <2>1 DEF r
<1>13. CASE w.live /\ w.outstanding = None /\ ~w.active
  <2>1. r = [w EXCEPT !.sleep = Asleep]
    BY <1>5, <1>13
  <2>2. Timed([w EXCEPT !.sleep = Asleep])
    BY <1>0, <1>11, <1>13 DEF Timed
  <2>3. r = [w EXCEPT !.ended = "no", !.sleep = Asleep]
    BY <1>0, <1>10, <2>1
  <2> QED
    BY <1>0, <1>9, <1>13, <2>2, <2>3 DEF r
<1>14. CASE w.live /\ ~(w.outstanding = None /\ ~w.active) /\ wsNow < due
  <2>1. r = [w EXCEPT !.sleep = due]
    BY <1>5, <1>14
  <2>2. w.outstanding = None => due # Asleep /\ due <= sock.heard + WsEvery
    <3>1. CASE w.sleep # Asleep
      BY <1>1, <1>7, <3>1 DEF Timed
    <3>2. CASE w.sleep = Asleep
      BY <1>0, <1>8, <1>14, <3>2
    <3> QED
      BY <3>1, <3>2
  <2>3. Timed([w EXCEPT !.sleep = due])
    <3> DEFINE v == [w EXCEPT !.sleep = due]
    <3>1. v.sleep = due /\ v.live = w.live /\ v.outstanding = w.outstanding /\ v.pinged = w.pinged
      BY <1>3, <1>11
    <3> HIDE DEF v
    <3>2. wsNow <= v.sleep /\ v.live
      BY <1>3, <1>14, <3>1
    <3>3. ASSUME w.outstanding = None PROVE Timed(v)
      BY <2>2, <3>1, <3>2, <3>3 DEF Timed
    <3>4. ASSUME w.outstanding # None PROVE Timed(v)
      BY <1>1, <1>6, <3>1, <3>2, <3>4 DEF Timed
    <3> QED
      BY <3>3, <3>4 DEF v
  <2>4. r = [w EXCEPT !.ended = "no", !.sleep = due]
    BY <1>3, <1>10, <2>1
  <2> QED
    BY <1>3, <1>9, <2>2, <2>3, <2>4 DEF r
<1>15. CASE w.live /\ w.outstanding # None /\ ~(wsNow < due)
  <2>1. r = [w EXCEPT !.ended = "no_pong", !.sleep = Asleep]
    BY <1>5, <1>15
  <2>2. wsNow >= w.pinged + WsWithin
    BY <1>1, <1>2, <1>3, <1>6, <1>15 DEF Timed
  <2> QED
    BY <1>0, <1>9, <1>15, <2>1, <2>2 DEF r
<1>16. CASE w.live /\ w.outstanding = None /\ w.active /\ ~(wsNow < due)
  <2> DEFINE q == Append(w.out, Frame("ping", w.next))
             nx == w.next + 1
             slp == wsNow + WsWithin
  <2>1. r = [w EXCEPT !.outstanding = w.next, !.next = nx, !.pinged = wsNow, !.sleep = slp, !.out = q]
    BY <1>5, <1>16
  <2>2. Frame("ping", w.next) \in WsFrame /\ Frame("ping", w.next).n = w.next
    BY <1>2 DEF Frame, WsFrame, WsKinds
  <2>3. q \in Seq(WsFrame) /\ nx \in Nat /\ slp \in Nat /\ Len(q) = Len(w.out) + 1
    BY <1>0, <1>2, <2>2
  <2>30. nx = w.next + 1 /\ slp = wsNow + WsWithin /\ q = Append(w.out, Frame("ping", w.next))
    OBVIOUS
  <2> HIDE DEF q, nx, slp
  <2>4. r \in WsType
    BY <1>1, <1>2, <2>1, <2>3 DEF WsType
  <2>5. /\ r.live = w.live /\ r.next = nx /\ r.pinged = wsNow /\ r.sends = w.sends /\ r.out = q
        /\ r.active = w.active /\ r.atPeer = w.atPeer /\ r.outstanding = w.next
        /\ r.ended = "no" /\ r.sleep = slp
    BY <1>1, <2>1 DEF WsType
  <2>6. w.sleep # Asleep /\ wsNow = w.sleep /\ wsNow <= sock.heard + WsEvery
    <3>1. w.sleep # Asleep
      BY <1>0, <1>8, <1>16
    <3> QED
      BY <1>1, <1>2, <1>7, <1>16, <3>1 DEF Timed
  <2>7. w.next # None /\ w.next \notin w.atPeer
    BY SMTT(30), <1>1, <1>2 DEF None
  <2>8. Timed(r)
    <3>1. wsNow <= r.sleep /\ r.live /\ r.sleep = r.pinged + WsWithin /\ r.pinged <= wsNow
      BY <1>0, <1>16, <2>5, <2>30
    <3> QED
      BY <2>5, <2>6, <2>7, <3>1 DEF Timed
  <2>9. ASSUME NEW i \in 1 .. Len(q), q[i].kind = "ping"
        PROVE  q[i].n = r.outstanding /\ Unanswered(r, <<>>)
    <3>1. Unanswered(r, <<>>)
      BY <2>5, <2>7 DEF Unanswered
    <3>2. i = Len(w.out) + 1
      <4> SUFFICES ASSUME i # Len(w.out) + 1 PROVE FALSE
        OBVIOUS
      <4>1. i \in 1 .. Len(w.out) /\ q[i] = w.out[i]
        BY SMTT(30), <1>2, <2>2, <2>3, <2>30
      <4>2. Unanswered(w, <<>>)
        BY <1>1, <2>9, <4>1
      <4> QED
        BY <1>16, <4>2 DEF Unanswered
    <3>3. q[i] = Frame("ping", w.next)
      BY <1>2, <2>2, <2>30, <3>2
    <3> QED
      BY <2>2, <2>5, <3>1, <3>3
  <2>10. Len(r.out) <= k + r.sends + (IF r.outstanding = None THEN 0 ELSE 1)
    <3>1. Len(w.out) <= k + w.sends
      BY <1>1, <1>2, <1>16
    <3> QED
      BY <1>2, <2>3, <2>5, <2>7, <3>1
  <2>11. r.outstanding < r.next /\ \A m \in r.atPeer : m < r.next
    BY SMTT(30), <1>1, <1>2, <2>5, <2>30
  <2>12. WsCore(r, k, <<>>)
    BY <2>4, <2>5, <2>8, <2>9, <2>10, <2>11 DEF WsCore
  <2>13. r.outstanding # w.outstanding /\ r.outstanding # None
    BY <1>1, <1>2, <2>5, <2>7
  <2> QED
    BY <2>5, <2>12, <2>13 DEF r
<1> QED
  BY <1>2, <1>12, <1>13, <1>14, <1>15, <1>16

\* `poll_next', all it reads, answers and asks for.
LEMMA WsPoll ==
  ASSUME WsInv, PollNext
  PROVE  WsInv'
<1> DEFINE box == sock.inbox
           n == Reads
           k == (sock.sent - Len(box)) + n
           w == ReadUpTo[n]
           v == FlushOwed(w)
           asked == KeepAliveTurn(v)
           last == FlushPing(w, asked)
           rest == SubSeq(box, n + 1, Len(box))
<1>0. /\ sock \in SockType /\ box \in Seq(WsFrame) /\ Len(box) \in Nat /\ sock.sent \in Nat /\ sock.heard \in Nat
      /\ wsNow \in Nat /\ wsNow <= WsMaxTime /\ sock.heard <= wsNow /\ sock.sent <= MaxFromPeer /\ Len(box) <= sock.sent
      /\ half \in [reader : {"awake", "parked"}, sender : {"idle", "flushing", "parked"}]
      /\ ws.sends <= MaxSends /\ (ws.ended = "no" => WsReaderInv)
  BY DEF WsInv, SockType
<1>1. ws.ended = "no" /\ half.reader = "awake" /\ wsNow' = wsNow /\ sock' = [sock EXCEPT !.inbox = rest]
  BY DEF PollNext
<1>2. /\ \/ Handed # {} /\ ws' = w /\ UNCHANGED half
         \/ Handed = {} /\ sock.over /\ ws' = [v EXCEPT !.ended = "closed"] /\ UNCHANGED half
         \/ /\ Handed = {} /\ ~sock.over
            /\ ws' = last
            /\ half' = [half EXCEPT !.reader = IF asked.ended = "no" THEN "parked" ELSE "awake"]
  BY DEF PollNext
<1>3. n \in 0 .. Len(box) /\ (Handed = {} => n = Len(box)) /\ (Handed # {} => n > 0)
  BY <1>0, ReadsInRange
<1>4. k \in Int
  BY <1>0, <1>3
<1>5. /\ WsCore(w, k, box) /\ SameSocket(ws, w)
      /\ w.active => ws.active
      /\ n > 0 /\ w.outstanding = None => w.sleep = Asleep
      /\ n = 0 => w = ws
  BY <1>3, ReadsKeep
<1>6. /\ rest \in Seq(WsFrame) /\ Len(rest) = Len(box) - n
      /\ \A j \in 1 .. Len(rest) : rest[j] = box[n + j] /\ n + j \in 1 .. Len(box)
  BY <1>0, <1>3
<1>60. \A j \in 1 .. Len(rest) : \E i \in 1 .. Len(box) : rest[j] = box[i]
  BY <1>6
<1> HIDE DEF n, w, rest, box
<1>7. WsCore(w, k, rest)
  BY <1>5, <1>60, FewerFrames
<1>8. /\ sock' \in SockType /\ sock'.inbox = rest /\ sock'.sent = sock.sent /\ sock'.heard = sock.heard
      /\ sock'.room = sock.room /\ sock'.over = sock.over
  BY <1>0, <1>1, <1>6 DEF SockType
<1>9. sock'.sent - Len(sock'.inbox) = k /\ Len(sock'.inbox) <= sock'.sent
  <2>1. n \in Nat /\ n <= Len(box)
    BY <1>0, <1>3
  <2>2. sock'.sent = sock.sent /\ Len(sock'.inbox) = Len(box) - n
    BY <1>6, <1>8
  <2> QED
    BY <1>0, <2>1, <2>2
<1>10. ASSUME NEW u, WsCore(u, k, rest), ws' = u PROVE WsCore(ws, sock.sent - Len(sock.inbox), sock.inbox)'
  BY <1>1, <1>8, <1>9, <1>10 DEF WsCore, Timed, Unanswered
<1>11. /\ WsCore(v, k, rest) /\ SameSocket(w, v)
       /\ v.sleep = w.sleep /\ v.outstanding = w.outstanding /\ v.active = w.active
       /\ OwesFrames(v) => ~sock.room /\ v.writer = "reader"
  BY <1>4, <1>7, FlushOwedKeeps
<1> HIDE DEF k, v
<1>12. SameSocket(ws, v) /\ v.sends = ws.sends
  BY <1>5, <1>11 DEF SameSocket
<1>13. CASE Handed # {} /\ ws' = w /\ half' = half
  <2>1. ws'.ended = "no" /\ ws'.sends <= MaxSends
    BY <1>0, <1>1, <1>5, <1>13 DEF SameSocket
  <2>2. box # <<>>
    BY <1>0, <1>3, <1>13
  <2>3. sock.heard = wsNow
    BY <1>0, <1>1, <2>2 DEF WsReaderInv, box
  <2>4. WsReaderInv'
    BY <1>1, <1>8, <1>13, <2>3 DEF WsReaderInv
  <2>5. WsCore(ws, sock.sent - Len(sock.inbox), sock.inbox)'
    BY <1>7, <1>10, <1>13
  <2> QED
    BY <1>0, <1>1, <1>8, <1>9, <1>13, <2>1, <2>4, <2>5 DEF WsInv
<1>14. CASE Handed = {} /\ ws' = [v EXCEPT !.ended = "closed"] /\ half' = half
  <2>1. v \in WsType /\ "closed" \in WsEnds
    BY <1>11 DEF WsCore, WsEnds
  <2>2. ws' \in WsType
    BY <1>14, <2>1 DEF WsType
  <2>3. /\ ws'.ended = "closed" /\ ws'.sends = v.sends /\ ws'.next = v.next /\ ws'.outstanding = v.outstanding
        /\ ws'.atPeer = v.atPeer /\ ws'.out = v.out
    BY <1>14, <2>1 DEF WsType
  <2>4. WsCore(ws', k, rest)
    BY <1>11, <2>2, <2>3 DEF WsCore, Unanswered
  <2>5. WsCore(ws, sock.sent - Len(sock.inbox), sock.inbox)'
    BY <1>10, <2>4
  <2> QED
    BY <1>0, <1>1, <1>8, <1>9, <1>12, <1>14, <2>3, <2>5 DEF WsInv
<1>15. CASE /\ Handed = {} /\ ws' = last
            /\ half' = [half EXCEPT !.reader = IF asked.ended = "no" THEN "parked" ELSE "awake"]
  <2>1. rest = <<>> /\ Len(rest) = 0
    BY <1>3, <1>6, <1>15
  <2>2. v.ended = "no"
    BY <1>1, <1>12 DEF SameSocket
  <2>3. v.live /\ v.active /\ v.outstanding = None /\ v.sleep = Asleep => sock.heard = wsNow
    <3>1. CASE n = 0
      <4>1. w = ws
        BY <1>5, <3>1
      <4> QED
        BY <1>0, <1>1, <1>11, <1>12, <4>1 DEF WsReaderInv, SameSocket
    <3>2. CASE n > 0
      <4>1. box # <<>>
        BY <1>0, <1>3, <3>2
      <4> QED
        BY <1>0, <1>1, <4>1 DEF WsReaderInv, box
    <3> QED
      BY <1>0, <1>3, <3>1, <3>2
  <2>4. WsCore(v, k, <<>>)
    BY <1>11, <2>1
  <2>5. /\ WsCore(asked, k, <<>>) /\ asked.sends = v.sends
        /\ asked.ended \in {"no", "no_pong"}
        /\ asked.ended = "no_pong" => wsNow >= asked.pinged + WsWithin /\ asked.outstanding = v.outstanding
        /\ asked.live /\ asked.active /\ asked.outstanding = None => asked.sleep # Asleep
        /\ asked.outstanding = v.outstanding => asked.out = v.out /\ asked.writer = v.writer
    BY <1>0, <1>4, <2>2, <2>3, <2>4, TurnKeeps
  <2>6. last = IF asked.outstanding = w.outstanding THEN asked ELSE Flush(asked, "reader")
    BY DEF FlushPing
  <2>7. "reader" \in WsTasks
    BY DEF WsTasks
  <2> HIDE DEF asked, last
  <2>8. /\ WsCore(last, k, <<>>) /\ last.sends = ws.sends /\ last.ended = asked.ended
        /\ last.pinged = asked.pinged
        /\ last.live /\ last.active /\ last.outstanding = None => last.sleep # Asleep
        /\ OwesFrames(last) => ~sock.room /\ last.writer = "reader"
    <3>1. CASE asked.outstanding = w.outstanding
      <4>1. last = asked /\ asked.out = v.out /\ asked.writer = v.writer
        BY <1>11, <2>5, <2>6, <3>1
      <4> QED
        BY <1>11, <1>12, <2>5, <4>1 DEF OwesFrames
    <3>2. CASE asked.outstanding # w.outstanding
      <4> DEFINE fl == Flush(asked, "reader")
      <4>1. last = fl
        BY <2>6, <3>2
      <4>2. /\ WsCore(fl, k, <<>>) /\ SameSocket(asked, fl)
            /\ fl.sleep = asked.sleep /\ fl.outstanding = asked.outstanding /\ fl.active = asked.active
            /\ sock.room => fl.out = <<>>
            /\ ~sock.room => fl.out = asked.out /\ (asked.out # <<>> => fl.writer = "reader")
        BY <1>4, <2>5, <2>7, FlushKeeps
      <4> HIDE DEF fl
      <4>3. OwesFrames(fl) => fl.out # <<>>
        BY DEF OwesFrames
      <4> QED
        BY <1>12, <2>5, <4>1, <4>2, <4>3 DEF SameSocket
    <3> QED
      BY <3>1, <3>2
  <2>9. WsCore(ws, sock.sent - Len(sock.inbox), sock.inbox)'
    BY <1>10, <1>15, <2>1, <2>8
  <2>10. /\ half' \in [reader : {"awake", "parked"}, sender : {"idle", "flushing", "parked"}]
         /\ half'.sender = half.sender /\ (half'.reader = "parked" => asked.ended = "no")
    BY <1>0, <1>15
  <2>11. ws'.ended = "no" => WsReaderInv'
    BY <1>8, <1>15, <2>1, <2>8 DEF WsReaderInv, OwesFrames
  <2>12. ws'.ended = "no_pong" => sock'.inbox = <<>> /\ wsNow' >= ws'.pinged + WsWithin
    BY <1>1, <1>8, <1>15, <2>1, <2>5, <2>8
  <2> QED
    BY <1>0, <1>1, <1>8, <1>9, <1>15, <2>8, <2>9, <2>10, <2>11, <2>12 DEF WsInv
<1> QED
  BY <1>2, <1>13, <1>14, <1>15

\* What leaves the queue and the clock alone leaves the socket as it was.
LEMMA WsStep ==
  WsInv /\ [WsNext]_wsVars => WsInv'
<1> SUFFICES ASSUME WsInv, [WsNext]_wsVars PROVE WsInv'
  OBVIOUS
<1> DEFINE WsHalves == [reader : {"awake", "parked"}, sender : {"idle", "flushing", "parked"}]
           k == sock.sent - Len(sock.inbox)
<1>0. /\ sock \in SockType /\ sock.inbox \in Seq(WsFrame) /\ Len(sock.inbox) \in Nat
      /\ sock.sent \in Nat /\ sock.heard \in Nat /\ sock.room \in BOOLEAN
      /\ wsNow \in Nat /\ wsNow <= WsMaxTime /\ sock.heard <= wsNow /\ sock.sent <= MaxFromPeer /\ Len(sock.inbox) <= sock.sent
      /\ half \in WsHalves /\ half.reader \in {"awake", "parked"}
      /\ half.sender \in {"idle", "flushing", "parked"}
      /\ ws.sends <= MaxSends /\ (ws.ended = "no" => WsReaderInv) /\ WsCore(ws, k, sock.inbox)
      /\ ws.ended = "no_pong" => sock.inbox = <<>> /\ wsNow >= ws.pinged + WsWithin
      /\ k \in Int
  BY DEF WsInv, SockType
<1>1. /\ ws \in WsType /\ ws.out \in Seq(WsFrame) /\ ws.sends \in Nat /\ Len(ws.out) \in Nat
      /\ ws.outstanding \in Nat /\ ws.next \in Nat /\ ws.atPeer \in SUBSET Nat
      /\ ws.sleep \in Nat /\ ws.pinged \in Nat
  <2>1. ws \in WsType
    BY <1>0 DEF WsCore
  <2> QED
    BY <2>1 DEF WsType
<1>2. /\ WsMaxTime \in Nat /\ MaxFromPeer \in Nat /\ MaxSends \in Nat /\ WsEvery \in Nat /\ WsWithin \in Nat
      /\ Asleep \in Nat /\ WsMaxTime < Asleep
  BY WsConstants DEF Asleep
<1>3. CASE UNCHANGED wsVars
  BY <1>3 DEF wsVars, WsInv, WsCore, Timed, Unanswered, WsReaderInv, OwesFrames
<1>4. CASE PollNext
  BY <1>4, WsPoll
<1>5. CASE SleepEnds
  <2>1. half' \in WsHalves /\ half'.reader = "awake" /\ half'.sender = half.sender
    BY <1>0, <1>5 DEF SleepEnds
  <2>2. wsNow' = wsNow /\ ws' = ws /\ sock' = sock
    BY <1>5 DEF SleepEnds
  <2>3. WsCore(ws, k, sock.inbox)'
    BY <1>0, <2>2 DEF WsCore, Timed, Unanswered
  <2>4. ws'.ended = "no" => WsReaderInv'
    <3> SUFFICES ASSUME ws'.ended = "no" PROVE WsReaderInv'
      OBVIOUS
    <3>1. WsReaderInv
      BY <1>0, <2>2
    <3> QED
      BY <2>1, <2>2, <3>1 DEF WsReaderInv
  <2> QED
    BY <1>0, <2>1, <2>2, <2>3, <2>4 DEF WsInv
<1>6. CASE SinkFlush
  <2>0. "sender" \in WsTasks
    BY DEF WsTasks
  <2>1. /\ half.sender = "flushing" /\ ws' = Flush(ws, "sender") /\ wsNow' = wsNow /\ sock' = sock
        /\ half' = [half EXCEPT !.sender = IF ws'.out = <<>> THEN "idle" ELSE "parked"]
    BY <1>6 DEF SinkFlush
  <2>2. /\ WsCore(ws', k, sock.inbox) /\ SameSocket(ws, ws')
        /\ ws'.sleep = ws.sleep /\ ws'.outstanding = ws.outstanding /\ ws'.active = ws.active
        /\ sock.room => ws'.out = <<>>
        /\ ~sock.room => ws'.out = ws.out /\ (ws.out # <<>> => ws'.writer = "sender")
    BY <1>0, <2>0, <2>1, FlushKeeps
  <2>3. half' \in WsHalves /\ half'.reader = half.reader
    BY <1>0, <2>1
  <2>4. WsCore(ws, k, sock.inbox)'
    BY <2>1, <2>2 DEF WsCore, Timed, Unanswered
  <2>5. OwesFrames(ws') => ~sock.room /\ ws'.writer = "sender"
    <3>1. OwesFrames(ws') => ws'.out # <<>>
      BY DEF OwesFrames
    <3> QED
      BY <2>2, <3>1
  <2>6. ws'.ended = "no" => WsReaderInv'
    <3> SUFFICES ASSUME ws'.ended = "no" PROVE WsReaderInv'
      OBVIOUS
    <3>1. WsReaderInv /\ ws'.live = ws.live
      BY <1>0, <2>2 DEF SameSocket
    <3>2. OwesFrames(ws)' => OwesFrames(ws')
      BY DEF OwesFrames
    <3> QED
      BY <2>1, <2>2, <2>3, <2>5, <3>1, <3>2 DEF WsReaderInv
  <2>7. ws'.sends = ws.sends /\ ws'.ended = ws.ended /\ ws'.pinged = ws.pinged
    BY <2>2 DEF SameSocket
  <2> QED
    BY <1>0, <2>1, <2>3, <2>4, <2>6, <2>7 DEF WsInv
<1>7. ASSUME NEW kind \in {"text", "close"}, StartSend(kind) PROVE WsInv'
  <2> DEFINE q == <<Frame(kind, 0)>>
             sd == ws.sends + 1
             act == kind = "text"
  <2>1. /\ half.sender = "idle" /\ ws.out = <<>> /\ ws.active /\ ws.sends < MaxSends
        /\ ws' = [ws EXCEPT !.out = q, !.active = act, !.sends = sd]
        /\ half' = [half EXCEPT !.sender = "flushing"] /\ wsNow' = wsNow /\ sock' = sock
    BY <1>7 DEF StartSend
  <2>2. Frame(kind, 0) \in WsFrame /\ Frame(kind, 0).kind = kind
    BY <1>7 DEF Frame, WsFrame, WsKinds
  <2>3. q \in Seq(WsFrame) /\ Len(q) = 1 /\ sd \in Nat /\ sd <= MaxSends /\ act \in BOOLEAN
        /\ (\A i \in 1 .. Len(q) : q[i].kind = kind)
    BY SMTT(30), <1>1, <1>2, <2>1, <2>2
  <2>30. sd = ws.sends + 1
    OBVIOUS
  <2> HIDE DEF q, sd, act
  <2>4. ws' \in WsType
    BY <1>1, <2>1, <2>3 DEF WsType
  <2>5. /\ ws'.live = ws.live /\ ws'.ended = ws.ended /\ ws'.sleep = ws.sleep
        /\ ws'.outstanding = ws.outstanding /\ ws'.next = ws.next /\ ws'.out = q
        /\ ws'.atPeer = ws.atPeer /\ ws'.pinged = ws.pinged /\ ws'.sends = sd
    BY <1>1, <2>1 DEF WsType
  <2>6. half' \in WsHalves /\ half'.reader = half.reader /\ half'.sender = "flushing"
    BY <1>0, <2>1
  <2>7. WsCore(ws, k, sock.inbox)'
    <3>1. Timed(ws) => Timed(ws)'
      BY <2>1, <2>5 DEF Timed
    <3>2. Len(ws'.out) <= k + ws'.sends + (IF ws'.outstanding = None THEN 0 ELSE 1)
      <4>1. Len(ws.out) <= k + ws.sends + (IF ws.outstanding = None THEN 0 ELSE 1) /\ Len(ws.out) = 0
        BY <1>0, <2>1 DEF WsCore
      <4>2. Len(ws'.out) = 1 /\ ws'.sends = ws.sends + 1 /\ ws'.outstanding = ws.outstanding
        BY <2>3, <2>5, <2>30
      <4>3. k \in Int
        BY <1>0
      <4> HIDE DEF k
      <4> QED
        BY <1>1, <4>1, <4>2, <4>3
    <3>3. ws'.outstanding < ws'.next /\ \A m \in ws'.atPeer : m < ws'.next
      BY <1>0, <2>5 DEF WsCore
    <3>4. ws'.ended = "no" => Timed(ws)'
      BY <1>0, <2>5, <3>1 DEF WsCore
    <3>5. \A i \in 1 .. Len(ws'.out) : ws'.out[i].kind # "ping"
      BY <1>7, <2>3, <2>5
    <3>6. k' = k
      BY <2>1
    <3> HIDE DEF k
    <3> QED
      BY <2>4, <3>2, <3>3, <3>4, <3>5, <3>6 DEF WsCore
  <2>8. ws'.ended = "no" => WsReaderInv'
    <3> SUFFICES ASSUME ws'.ended = "no" PROVE WsReaderInv'
      OBVIOUS
    <3>1. WsReaderInv
      BY <1>0, <2>5
    <3> QED
      BY <2>1, <2>5, <2>6, <3>1 DEF WsReaderInv
  <2> QED
    BY <1>0, <2>1, <2>3, <2>5, <2>6, <2>7, <2>8 DEF WsInv
<1>8. CASE PeerSends
  <2>1. PICK f \in {Frame("text", 0), Frame("ping", 0), Frame("close", 0)}
                     \cup {Frame("pong", n) : n \in ws.atPeer \cup {None}} :
          /\ sock' = [sock EXCEPT !.inbox = Append(@, f), !.sent = @ + 1, !.heard = wsNow]
          /\ ws' = [ws EXCEPT !.atPeer = IF f.kind = "pong" THEN @ \ {f.n} ELSE @]
    BY <1>8 DEF PeerSends
  <2>2. /\ sock.sent < MaxFromPeer /\ ws.ended = "no" /\ half' = WakeReader /\ wsNow' = wsNow
    BY <1>8 DEF PeerSends
  <2>3. f \in WsFrame /\ (f.kind = "pong" => f.n \in ws.atPeer \cup {None})
    BY <1>1, <2>1 DEF Frame, WsFrame, WsKinds, None
  <2> DEFINE left == IF f.kind = "pong" THEN ws.atPeer \ {f.n} ELSE ws.atPeer
             box == Append(sock.inbox, f)
             st == sock.sent + 1
  <2>4. left \in SUBSET ws.atPeer /\ left \in SUBSET Nat
    BY <1>1
  <2>5. box \in Seq(WsFrame) /\ st \in Nat /\ Len(box) = Len(sock.inbox) + 1 /\ box # <<>>
    BY SMTT(30), <1>0, <2>3
  <2>50. st = sock.sent + 1 /\ box = Append(sock.inbox, f)
    OBVIOUS
  <2>6. sock' = [sock EXCEPT !.inbox = box, !.sent = st, !.heard = wsNow] /\ ws' = [ws EXCEPT !.atPeer = left]
    BY <2>1
  <2> HIDE DEF left, box, st
  <2>7. sock' \in SockType
    BY <1>0, <2>5, <2>6 DEF SockType
  <2>8. /\ sock'.inbox = box /\ sock'.sent = st /\ sock'.heard = wsNow /\ sock'.room = sock.room
    BY <1>0, <2>6 DEF SockType
  <2>9. ws' \in WsType
    BY <1>1, <2>4, <2>6 DEF WsType
  <2>10. /\ ws'.live = ws.live /\ ws'.ended = ws.ended /\ ws'.sleep = ws.sleep
         /\ ws'.outstanding = ws.outstanding /\ ws'.next = ws.next /\ ws'.out = ws.out /\ ws'.active = ws.active
         /\ ws'.atPeer = left /\ ws'.pinged = ws.pinged /\ ws'.sends = ws.sends /\ ws'.writer = ws.writer
    BY <1>1, <2>6 DEF WsType
  <2>11. half' \in WsHalves /\ half'.reader = "awake" /\ half'.sender = half.sender
    BY <1>0, <2>2 DEF WakeReader
  <2>12. Timed(ws)'
    <3>1. Timed(ws) /\ WsReaderInv
      BY <1>0, <2>2 DEF WsCore
    <3>2. wsNow' <= ws'.sleep /\ (ws'.live \/ ws'.sleep = Asleep)
      BY <2>2, <2>10, <3>1 DEF Timed
    <3>3. CASE ws.outstanding # None
      <4>1. ws.pinged <= wsNow + WsEvery
        BY <1>0, <1>1, <1>2, <3>1, <3>3 DEF Timed
      <4> QED
        BY <2>2, <2>8, <2>10, <3>1, <3>2, <3>3, <4>1 DEF Timed
    <3>4. CASE ws.outstanding = None
      <4>1. ws.sleep # Asleep => ws.sleep <= wsNow + WsEvery
        <5> SUFFICES ASSUME ws.sleep # Asleep PROVE ws.sleep <= wsNow + WsEvery
          OBVIOUS
        <5>1. ws.sleep <= sock.heard + WsEvery
          BY <3>1, <3>4 DEF Timed
        <5> QED
          BY SMTT(30), <1>0, <1>1, <1>2, <5>1
      <4> QED
        BY <2>2, <2>8, <2>10, <3>2, <3>4, <4>1 DEF Timed
    <3> QED
      BY <3>3, <3>4
  <2>13. Unanswered(ws, sock.inbox) => Unanswered(ws, sock.inbox)'
    <3> SUFFICES ASSUME Unanswered(ws, sock.inbox) PROVE Unanswered(ws, sock.inbox)'
      OBVIOUS
    <3>1. ws'.outstanding # None /\ ws'.outstanding \notin ws'.atPeer
      BY <2>4, <2>10 DEF Unanswered
    <3>2. ASSUME NEW j \in 1 .. Len(box) PROVE ~(box[j].kind = "pong" /\ box[j].n = ws.outstanding)
      <4>1. CASE j \in 1 .. Len(sock.inbox)
        BY <1>0, <2>50, <4>1 DEF Unanswered
      <4>2. CASE j = Len(sock.inbox) + 1
        <5>1. box[j] = f
          BY <1>0, <2>50, <4>2
        <5> QED
          BY <2>3, <5>1 DEF Unanswered
      <4> QED
        BY <1>0, <2>5, <4>1, <4>2
    <3> QED
      BY <2>8, <2>10, <3>1, <3>2 DEF Unanswered
  <2>14. k' = k
    BY SMTT(30), <1>0, <2>5, <2>8, <2>50
  <2> HIDE DEF k
  <2>15. WsCore(ws, k, sock.inbox)'
    BY <1>0, <2>4, <2>9, <2>10, <2>12, <2>13, <2>14 DEF WsCore
  <2>16. WsReaderInv'
    BY <2>2, <2>8, <2>11 DEF WsReaderInv
  <2>17. sock'.sent <= MaxFromPeer /\ Len(sock'.inbox) <= sock'.sent
    BY SMTT(30), <1>0, <1>2, <2>2, <2>5, <2>8, <2>50
  <2> QED
    BY <1>0, <2>2, <2>7, <2>8, <2>10, <2>11, <2>15, <2>16, <2>17 DEF WsInv, k
<1>9. CASE WireEnds \/ WireFills
  <2>1. /\ wsNow' = wsNow /\ ws' = ws /\ half' \in WsHalves /\ half'.sender = half.sender
        /\ (half'.reader = half.reader \/ half'.reader = "awake")
    BY <1>0, <1>9 DEF WireEnds, WireFills, WakeReader
  <2>2. /\ sock' \in SockType /\ sock'.inbox = sock.inbox /\ sock'.sent = sock.sent /\ sock'.heard = sock.heard
        /\ (sock'.room = sock.room \/ (sock.room /\ ~sock'.room))
    BY <1>0, <1>9 DEF WireEnds, WireFills, SockType
  <2>3. WsCore(ws, k, sock.inbox)'
    BY <1>0, <2>1, <2>2 DEF WsCore, Timed, Unanswered
  <2>4. ws'.ended = "no" => WsReaderInv'
    <3> SUFFICES ASSUME ws'.ended = "no" PROVE WsReaderInv'
      OBVIOUS
    <3>1. WsReaderInv
      BY <1>0, <2>1
    <3>2. OwesFrames(ws)' = OwesFrames(ws)
      BY <2>1 DEF OwesFrames
    <3> QED
      BY <2>1, <2>2, <3>1, <3>2 DEF WsReaderInv
  <2> QED
    BY <1>0, <2>1, <2>2, <2>3, <2>4 DEF WsInv
<1>10. CASE WireDrains
  <2>1. /\ ~sock.room /\ sock' = [sock EXCEPT !.room = TRUE] /\ ws' = [ws EXCEPT !.writer = "nobody"]
        /\ half' = [reader |-> IF ws.writer = "reader" THEN "awake" ELSE half.reader,
                    sender |-> IF ws.writer = "sender" THEN "flushing" ELSE half.sender]
        /\ wsNow' = wsNow /\ "nobody" \in WsTasks
    BY <1>10 DEF WireDrains, WsTasks
  <2>2. ws' \in WsType
    BY <1>1, <2>1 DEF WsType
  <2>3. /\ ws'.live = ws.live /\ ws'.ended = ws.ended /\ ws'.sleep = ws.sleep
        /\ ws'.outstanding = ws.outstanding /\ ws'.next = ws.next /\ ws'.out = ws.out /\ ws'.active = ws.active
        /\ ws'.atPeer = ws.atPeer /\ ws'.pinged = ws.pinged /\ ws'.sends = ws.sends
    BY <1>1, <2>1 DEF WsType
  <2>4. /\ sock' \in SockType /\ sock'.inbox = sock.inbox /\ sock'.sent = sock.sent /\ sock'.heard = sock.heard
    BY <1>0, <2>1 DEF SockType
  <2>5. half' \in WsHalves /\ (half.reader = "awake" => half'.reader = "awake")
    BY <1>0, <2>1
  <2>6. k' = k
    BY SMTT(30), <2>4
  <2> HIDE DEF k
  <2>7. WsCore(ws, k, sock.inbox)'
    BY <1>0, <2>1, <2>2, <2>3, <2>4, <2>6 DEF WsCore, Timed, Unanswered
  <2>8. ws'.ended = "no" => WsReaderInv'
    <3> SUFFICES ASSUME ws'.ended = "no" PROVE WsReaderInv'
      OBVIOUS
    <3>1. WsReaderInv
      BY <1>0, <2>3
    <3>2. OwesFrames(ws)' = OwesFrames(ws)
      BY <2>3 DEF OwesFrames
    <3>3. half'.reader = "parked" /\ OwesFrames(ws) => half'.sender = "flushing"
      <4> SUFFICES ASSUME half'.reader = "parked", OwesFrames(ws) PROVE half'.sender = "flushing"
        OBVIOUS
      <4>1. half.reader = "parked" /\ ws.writer # "reader"
        BY <1>0, <2>1
      <4>2. half.sender = "flushing" \/ ws.writer # "nobody"
        BY <3>1, <4>1 DEF WsReaderInv
      <4>3. ws.writer \in {"nobody", "reader", "sender"}
        BY <1>1 DEF WsType, WsTasks
      <4> QED
        BY <2>1, <4>1, <4>2, <4>3
    <3> QED
      BY <2>1, <2>3, <2>4, <2>5, <3>1, <3>2, <3>3 DEF WsReaderInv
  <2> QED
    BY <1>0, <2>1, <2>3, <2>4, <2>5, <2>7, <2>8 DEF WsInv, k
<1>11. CASE WsTick
  <2>1. /\ wsNow < WsMaxTime /\ ~SleepDue /\ (ws.ended = "no" => half.reader = "parked")
        /\ wsNow' = wsNow + 1 /\ ws' = ws /\ sock' = sock /\ half' = half
    BY <1>11 DEF WsTick
  <2>2. ASSUME ws.ended = "no" PROVE Timed(ws)' /\ WsReaderInv'
    <3>1. half.reader = "parked" /\ Timed(ws) /\ WsReaderInv
      BY <1>0, <2>1, <2>2 DEF WsCore
    <3>2. wsNow + 1 <= ws.sleep
      <4>1. CASE ws.live
        BY <1>0, <1>1, <2>1, <3>1, <4>1 DEF SleepDue
      <4>2. CASE ~ws.live
        BY <1>0, <1>2, <2>1, <3>1, <4>2 DEF Timed
      <4> QED
        BY <4>1, <4>2
    <3>3. ws.outstanding # None => ws.pinged <= wsNow + 1
      BY <1>0, <1>1, <3>1 DEF Timed
    <3>4. Timed(ws)'
      BY <2>1, <3>1, <3>2, <3>3 DEF Timed
    <3>5. OwesFrames(ws)' = OwesFrames(ws)
      BY <2>1 DEF OwesFrames
    <3>6. WsReaderInv'
      BY <2>1, <3>1, <3>5 DEF WsReaderInv
    <3> QED
      BY <3>4, <3>6
  <2>3. k' = k
    BY <2>1
  <2> HIDE DEF k
  <2>4. WsCore(ws, k, sock.inbox)'
    BY <1>0, <2>1, <2>2, <2>3 DEF WsCore, Unanswered
  <2>5. wsNow' \in Nat /\ wsNow' <= WsMaxTime /\ (ws.ended = "no_pong" => wsNow' >= ws.pinged + WsWithin)
    BY <1>0, <1>1, <1>2, <2>1
  <2> QED
    BY <1>0, <2>1, <2>2, <2>4, <2>5 DEF WsInv, k
<1> QED
  BY <1>3, <1>4, <1>5, <1>6, <1>7, <1>8, <1>9, <1>10, <1>11 DEF WsNext

------------------------------------------------------------------------------
(* The theorems.                                                           *)

\* What stands between the client and an origin behind a proxy, for answers of
\* any shape, writes, datagrams and bounds of any number: the outcome of a
\* handshake is the proxy's answer however it is cut into reads, the tunnel
\* starts at its first byte, credentials leave only for a proxy that chose them
\* and the target after them, every version that was offered is tried, no write
\* vanishes behind a clean end and no receiver sleeps beside a datagram
\* (proxy.rs, socks.rs, connect.rs, dial.rs, tunnel.rs).
THEOREM ProxiesAreSound ==
  TransportSpec => []ProxiesHold
<1> DEFINE Inv == HsInv /\ TriedInv /\ WriterInv /\ RelayInv
<1>1. TransportInit => Inv
  BY HsBegins, TriedBegins, WriterBegins, RelayBegins DEF TransportInit
<1>2. Inv /\ [TransportNext]_transportVars => Inv'
  BY PartsMove, HsStep, TriedStep, WriterStep, RelayStep DEF relayVars
<1>3. Inv => ProxiesHold
  BY HsHolds, TriedHolds, WriterHolds, RelayHolds DEF ProxiesHold, TunnelHolds, TunnelTypeOK
<1> QED
  BY <1>1, <1>2, <1>3, PTL DEF TransportSpec

\* A peer is given up only for a silence it kept and a silent one is found out,
\* over a shared HTTP/2 connection and over a WebSocket, whose messages, pings
\* and close are answered in order, for any number of messages and any timing
\* (http2.rs, ws.rs).
THEOREM KeepAlivesAreSound ==
  TransportSpec => []KeepAlivesAreJust
<1>1. TransportInit => KaInv /\ WsInv
  BY KaBegins, WsBegins DEF TransportInit
<1>2. KaInv /\ WsInv /\ [TransportNext]_transportVars => KaInv' /\ WsInv'
  BY PartsMove, KaStep, WsStep
<1>3. KaInv /\ WsInv => KeepAlivesAreJust
  BY KaInvHolds, WsInvHolds DEF KeepAlivesAreJust
<1> QED
  BY <1>1, <1>2, <1>3, PTL DEF TransportSpec

\* The socket pool of the embassy runtime: a socket is in one place, free,
\* closing or held by the one that dialled, whoever is dropped and whenever the
\* stack moves, so none is given twice, none is lost but by the drop in
\* finish_closing, and no connect sleeps beside one (sockets.rs).  For any number
\* of tasks and sockets.
THEOREM SocketsAreSound ==
  TransportSpec => []SocketsHold
<1>1. TransportInit => SocketsInv
  BY SocketsBegin DEF TransportInit
<1>2. SocketsInv /\ [TransportNext]_transportVars => SocketsInv'
  BY PartsMove, SocketsKeep
<1> QED
  BY <1>1, <1>2, SocketsPromise, PTL DEF TransportSpec

\* The stream over rustls neither loses nor repeats a record at a Pending of its
\* transport, ends cleanly only after a close_notify and all before it, and waits
\* for a read only when it holds nothing (stream.rs).  For any number of records
\* and any sizes of buffers.
THEOREM TlsIsSound ==
  TransportSpec => []TlsHolds
<1>1. TransportInit => TlsInv
  BY TlsBegins DEF TransportInit
<1>2. TlsInv /\ [TransportNext]_transportVars => TlsInv'
  BY PartsMove, TlsKeeps
<1> QED
  BY <1>1, <1>2, TlsPromise, PTL DEF TransportSpec

\* The transports that are bindings to a platform.  Whatever the browser, WinHTTP
\* or URLSession reports, in any order they may report it in and whoever is
\* dropped: a caller that has gone leaves nothing running in the browser, a body
\* is handed over whole and in order, what WinHTTP writes to or reads from stays
\* in place until its completion, unless the callback of another operation has
\* reclaimed the buffer (`crossed`), its answers reach the half that asked, no
\* half of a socket sleeps beside an answer, and a message is told once and
\* before the close.  For any number of chunks, frames and messages (hclient-fetch,
\* hclient-winhttp/src/sys.rs, hclient-urlsession).
THEOREM PlatformsAreSound ==
  TransportSpec => []PlatformsHold
<1> DEFINE Inv == FetchInv /\ PageInv /\ DataInv /\ SockInv /\ WinInv
<1>1. TransportInit => Inv
  BY FetchBegins, PageBegins, DataBegins, SockBegins, WinBegins DEF TransportInit
<1>2. Inv /\ [TransportNext]_transportVars => Inv'
  <2> SUFFICES ASSUME Inv, [TransportNext]_transportVars PROVE Inv'
    OBVIOUS
  <2>1. /\ FetchNext \/ UNCHANGED fetch
        /\ PageNext \/ UNCHANGED page
        /\ WinNext \/ UNCHANGED win
        /\ DataNext \/ UNCHANGED data
        /\ UrlSocketNext \/ UNCHANGED socket
    BY PartsMove
  <2>2. FetchInv'
    BY <2>1, FetchKeeps, FetchStays
  <2>3. PageInv'
    BY <2>1, PageKeeps, PageStays
  <2>4. DataInv'
    BY <2>1, DataKeeps, DataStays
  <2>5. SockInv'
    BY <2>1, SockKeeps, SockStays
  <2>6. WinInv'
    BY <2>1, WinKeeps, WinStays
  <2> QED
    BY <2>2, <2>3, <2>4, <2>5, <2>6
<1>3. Inv => PlatformsHold
  BY FetchPromise, PagePromise, UrlPromise, WinPromise DEF PlatformsHold, FetchHolds
<1> QED
  BY <1>1, <1>2, <1>3, PTL DEF TransportSpec
=============================================================================
