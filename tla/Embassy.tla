------------------------------ MODULE Embassy ------------------------------
(***************************************************************************)
(* The socket pool of the embassy runtime (hclient-rt-embassy/src/         *)
(* sockets.rs): a fixed number of TCP sockets, each with its own buffers,  *)
(* that no code path replaces.  A connect takes a socket out of the free   *)
(* list, or waits for one that is still closing, or parks until one is     *)
(* dropped.  A connect may be dropped at any await.                        *)
(***************************************************************************)
EXTENDS Naturals, Sequences, SequencesExt, FiniteSets

CONSTANTS
  Slots,   \* the N sockets the pool was made with
  SocketTasks    \* tasks that connect

ASSUME SocketsAssumption == IsFiniteSet(Slots) /\ IsFiniteSet(SocketTasks)

VARIABLES
  slots,   \* the pool's Inner, what each socket is doing, and what was lost
  dial     \* each task's connect

embassyVars == <<slots, dial>>

\* A socket's smoltcp state.  "resetting" is Closed with the peer still set, so
\* that a RST is owed; "fin" is FinWait1, Closing or LastAck: our FIN is not
\* acknowledged yet.
TcpStates == {"closed", "resetting", "timewait", "syn", "open", "fin", "finwait2"}

\* State::Closed | State::TimeWait: what connect accepts.
Finished(s) == s \in {"closed", "resetting", "timewait"}

NoDial == [pc |-> "idle", slot |-> {}, woken |-> FALSE]

EmbassyInit ==
  /\ slots \in [free: SetToSeqs(Slots), closing: {<<>>}, waiters: {{}},
                tcp: {[s \in Slots |-> "closed"]}, timeout: {[s \in Slots |-> FALSE]},
                lost: {{}}, cut: {FALSE}]
  /\ dial = [d \in SocketTasks |-> NoDial]

\* Those of a list that are in S, in its order.
Sockets(list, S) ==
  LET first[i \in 0..Len(list)] ==
        IF i = 0 THEN <<>>
        ELSE IF list[i] \in S THEN Append(first[i - 1], list[i]) ELSE first[i - 1]
  IN  first[Len(list)]

\* Inner::reclaim_finished: every closing socket that has finished goes to the
\* end of the free list, in the order of the closing list.
ReclaimFinished(in) ==
  LET over == {s \in Slots : Finished(in.tcp[s])}
  IN  [in EXCEPT !.free = in.free \o Sockets(in.closing, over),
                 !.closing = Sockets(in.closing, Slots \ over)]

\* Embassy::connect with the socket it acquired: the closing timeout is cleared
\* and connect begins, which a socket in any other state refuses.
ConnectWith(d, in, s) ==
  /\ slots' = [in EXCEPT !.timeout[s] = FALSE,
                         !.tcp[s] = IF Finished(@) THEN "syn" ELSE @]
  /\ dial' = [dial EXCEPT ![d] =
       [pc |-> IF Finished(in.tcp[s]) THEN "connecting" ELSE "refused",
        slot |-> {s}, woken |-> FALSE]]

\* finish_closing has waited for the flush: a socket whose peer has not closed
\* its half is aborted.  cut records an abort that took an unacknowledged FIN.
AbortUnfinished(in, s) ==
  IF Finished(in.tcp[s]) THEN in
  ELSE [in EXCEPT !.tcp[s] = "closed", !.cut = @ \/ in.tcp[s] = "fin"]

\* TcpSocket::flush resolves once nothing is left to send: no FIN and no RST.
Flushed(in, s) == in.tcp[s] \notin {"fin", "resetting"}

AskSocket(d) ==
  /\ dial[d].pc = "idle"
  /\ dial' = [dial EXCEPT ![d].pc = "asks"]
  /\ UNCHANGED slots

\* SocketPool::acquire, polled: one pass of its loop.  Nothing in the closing
\* list has finished once reclaim_finished ran, so the last socket taken from it
\* is waited for unless its flush is over at once.
Acquire(d) ==
  LET in == ReclaimFinished(slots)
  IN  /\ dial[d].pc \in {"asks", "parked"}
      /\ \/ /\ in.free # <<>>
            /\ ConnectWith(d, [in EXCEPT !.free = Front(@)], Last(in.free))
         \/ /\ in.free = <<>> /\ in.closing # <<>>
            /\ LET s == Last(in.closing)
                   out == [in EXCEPT !.closing = Front(@)]
               IN  IF Flushed(out, s)
                   THEN ConnectWith(d, AbortUnfinished(out, s), s)
                   ELSE /\ slots' = out
                        /\ dial' = [dial EXCEPT ![d] =
                             [pc |-> "finishing", slot |-> {s}, woken |-> FALSE]]
         \/ /\ in.free = <<>> /\ in.closing = <<>>
            /\ slots' = [in EXCEPT !.waiters = @ \cup {d}]
            /\ dial' = [dial EXCEPT ![d].pc = "parked", ![d].woken = FALSE]

\* finish_closing resumes, and acquire hands the socket to connect.
FinishClosing(d) ==
  /\ dial[d].pc = "finishing"
  /\ \E s \in dial[d].slot :
       Flushed(slots, s) /\ ConnectWith(d, AbortUnfinished(slots, s), s)

\* The socket's own close(): one that never connected owes a RST.
ClosedTcp(s) == IF s = "syn" THEN "resetting" ELSE IF s = "open" THEN "fin" ELSE s

\* A mutation: a dropped socket wakes nobody.
ReleaseSilently(d) ==
  /\ dial[d].pc \in {"connecting", "open", "refused"}
  /\ \E s \in dial[d].slot :
       slots' = [slots EXCEPT !.timeout[s] = TRUE, !.tcp[s] = ClosedTcp(@),
                              !.closing = Append(@, s)]
  /\ dial' = [dial EXCEPT ![d] = NoDial]

\* PooledSocket::drop: the closing timeout, the FIN, and every parked acquire
\* is woken.
ReleaseSocket(d) ==
  /\ dial[d].pc \in {"connecting", "open", "refused"}
  /\ \E s \in dial[d].slot :
       slots' = [slots EXCEPT !.timeout[s] = TRUE, !.tcp[s] = ClosedTcp(@),
                              !.closing = Append(@, s), !.waiters = {}]
  /\ dial' = [e \in SocketTasks |-> IF e = d THEN NoDial
              ELSE [dial[e] EXCEPT !.woken = @ \/ e \in slots.waiters]]

\* A connect dropped in acquire.  A parked one leaves its waker behind; one that
\* waits in finish_closing holds the socket as a local, so the socket goes with
\* it and no list ever has it again.
AcquireDropped(d) ==
  /\ dial[d].pc \in {"asks", "parked", "finishing"}
  /\ dial' = [dial EXCEPT ![d] = NoDial]
  /\ slots' = [slots EXCEPT !.lost = @ \cup dial[d].slot]

\* The handshake ends: the stream, or an error that drops the socket at once
\* (a socket the peer refused is Closed with nothing owed).
HandshakeEnds(d) ==
  /\ dial[d].pc = "connecting"
  /\ \E s \in dial[d].slot :
       \/ /\ slots.tcp[s] = "syn"
          /\ slots' = [slots EXCEPT !.tcp[s] = "open"]
          /\ dial' = [dial EXCEPT ![d].pc = "open"]
       \/ /\ Finished(slots.tcp[s])
          /\ ReleaseSocket(d)

\* The stack and the peer.  A socket with a timeout is given up when the peer
\* has been silent for it, whatever the socket was doing.
StackMoves ==
  /\ \E s \in Slots \ slots.lost :
       \/ /\ slots.tcp[s] = "fin"
          /\ \E t \in {"finwait2", "closed"} : slots' = [slots EXCEPT !.tcp[s] = t]
       \/ /\ slots.tcp[s] = "finwait2" /\ slots' = [slots EXCEPT !.tcp[s] = "timewait"]
       \/ /\ slots.tcp[s] \in {"timewait", "resetting"}
          /\ slots' = [slots EXCEPT !.tcp[s] = "closed"]
       \/ /\ slots.tcp[s] \in {"syn", "open", "fin", "finwait2"}
          /\ slots' = [slots EXCEPT !.tcp[s] = "closed"]
       \/ /\ slots.timeout[s] /\ ~Finished(slots.tcp[s])
          /\ slots' = [slots EXCEPT !.tcp[s] = "resetting"]
  /\ UNCHANGED dial

EmbassyNext ==
  \/ \E d \in SocketTasks : \/ AskSocket(d) \/ Acquire(d) \/ FinishClosing(d)
                      \/ ReleaseSocket(d) \/ AcquireDropped(d) \/ HandshakeEnds(d)
  \/ StackMoves

-----------------------------------------------------------------------------

EmbassyTypeOK ==
  /\ slots.free \in Seq(Slots) /\ slots.closing \in Seq(Slots)
  /\ slots.waiters \subseteq SocketTasks /\ slots.lost \subseteq Slots
  /\ slots.tcp \in [Slots -> TcpStates] /\ slots.timeout \in [Slots -> BOOLEAN]
  /\ dial \in [SocketTasks -> [pc: {"idle", "asks", "parked", "finishing", "connecting", "open",
                              "refused"},
                         slot: SUBSET Slots, woken: BOOLEAN]]

\* How often each place that can hold a socket holds s.
Places(s) ==
  Cardinality({i \in DOMAIN slots.free : slots.free[i] = s})
  + Cardinality({i \in DOMAIN slots.closing : slots.closing[i] = s})
  + Cardinality({d \in SocketTasks : s \in dial[d].slot})
  + (IF s \in slots.lost THEN 1 ELSE 0)

\* The pool of sockets: a socket is in one place and the free ones can be
\* connected; connect is never refused for the state of its socket; the slot is
\* not taken back before the peer has seen the FIN; the closing timeout is on
\* exactly while a socket closes, so that a slow answer is not cut off and a
\* silent peer cannot hold the slot; and a parked connect is one that no
\* returned socket could serve (acquire, finish_closing, PooledSocket::drop).
SocketsHold ==
  /\ EmbassyTypeOK
  /\ \A s \in Slots : Places(s) = 1
  /\ \A i \in DOMAIN slots.free : Finished(slots.tcp[slots.free[i]])
  /\ \A d \in SocketTasks : dial[d].pc # "refused"
  /\ ~slots.cut
  /\ \A d \in SocketTasks : \A s \in dial[d].slot :
       slots.timeout[s] <=> dial[d].pc = "finishing"
  /\ \A d \in SocketTasks : dial[d].pc = "parked" /\ ~dial[d].woken =>
       d \in slots.waiters /\ slots.free = <<>> /\ slots.closing = <<>>
=============================================================================
