---------------------------- MODULE WebTransport ----------------------------
(***************************************************************************)
(* WebTransport sessions that share one QUIC connection                    *)
(* (hclient-webtransport): the slots the peer's limit leaves, one datagram *)
(* queue read by whichever session is asked and handed over to its owner,  *)
(* and the end of a session read off its CONNECT stream in pieces.  The    *)
(* connection (quinn, h3) is modelled by how this code uses it.            *)
(***************************************************************************)
EXTENDS Naturals, Sequences, FiniteSets

CONSTANTS
    Sessions,       \* sessions, one after another under the same name
    MaxSessions,    \* the peer's SETTINGS_WT_MAX_SESSIONS
    MaxQueued,      \* datagrams quinn buffers; the oldest goes when it is full
    MaxDatagrams,   \* bound on the datagrams that arrive
    MaxCapsules     \* bound on the capsules of one CONNECT stream

ASSUME WebTransportConstants ==
    /\ IsFiniteSet(Sessions)
    /\ {MaxSessions, MaxDatagrams, MaxCapsules} \subseteq Nat
    /\ MaxQueued \in Nat \ {0}

VARIABLES
    wtOpen,    \* Shared::open
    sess,      \* a session: not there, reading the counter, holding a slot, live
    parkedFor, \* Shared::parked: the datagram held for a session, a waker stored
    rx,        \* its recv_datagram: not called, or where it is
    queue,     \* quinn's datagram queue: whom each is for
    arrivals,  \* how many have come
    watch      \* CloseWatch and the CONNECT stream it reads

wtVars == <<wtOpen, sess, parkedFor, rx, queue, arrivals, watch>>
slotVars == <<wtOpen, sess>>
datagramVars == <<parkedFor, rx, queue, arrivals>>

NoSession == [pc |-> "none", seen |-> 0]
NotParked == [held |-> FALSE, waker |-> FALSE]
NotCalled == [pc |-> "out", woken |-> FALSE]

WtInit ==
    /\ wtOpen = 0 /\ sess = [s \in Sessions |-> NoSession]
    /\ parkedFor = [s \in Sessions |-> NotParked] /\ rx = [s \in Sessions |-> NotCalled]
    /\ queue = <<>> /\ arrivals = 0

-----------------------------------------------------------------------------
(* Slots. *)

Live(s) == sess[s].pc = "live"
SetSess(s, pc) == sess' = [sess EXCEPT ![s].pc = pc]

\* `Session::connect': the first session claims its slot unasked.
Claim(s) ==
    /\ \A t \in Sessions : sess[t].pc = "none"
    /\ wtOpen' = wtOpen + 1 /\ SetSess(s, "slot")
    /\ UNCHANGED datagramVars

\* `reserve', called on a live session: the counter is read, and refused at
\* the limit ...
ReserveLoads(s) ==
    /\ sess[s].pc = "none" /\ \E t \in Sessions : Live(t)
    /\ wtOpen < MaxSessions
    /\ sess' = [sess EXCEPT ![s] = [pc |-> "loaded", seen |-> wtOpen]]
    /\ UNCHANGED <<wtOpen, datagramVars>>

\* Mutant: a plain store of the next number, whoever was there in between.
ReserveStores(s) ==
    /\ sess[s].pc = "loaded"
    /\ wtOpen' = sess[s].seen + 1 /\ SetSess(s, "slot")
    /\ UNCHANGED datagramVars

\* ... then exchanged for the next if nobody was faster; else it is asked
\* again, and refused at the limit again.
ReserveExchanges(s) ==
    /\ sess[s].pc = "loaded"
    /\ IF wtOpen = sess[s].seen
       THEN wtOpen' = wtOpen + 1 /\ SetSess(s, "slot")
       ELSE /\ sess' = [sess EXCEPT ![s] = IF wtOpen < MaxSessions THEN [@ EXCEPT !.seen = wtOpen] ELSE NoSession]
            /\ UNCHANGED wtOpen
    /\ UNCHANGED datagramVars

\* `establish': the CONNECT is answered and the session registered; or it is
\* refused, fails or is dropped, and the slot goes back.
Establishes(s) ==
    /\ sess[s].pc = "slot" /\ SetSess(s, "live")
    /\ parkedFor' = [parkedFor EXCEPT ![s] = NotParked]
    /\ UNCHANGED <<wtOpen, rx, queue, arrivals>>

SlotDropped(s) ==
    /\ sess[s].pc = "slot" /\ SetSess(s, "none")
    /\ wtOpen' = wtOpen - 1
    /\ UNCHANGED datagramVars

SessionDropped(s) ==
    /\ Live(s) /\ rx[s].pc = "out" /\ SetSess(s, "none")
    /\ wtOpen' = wtOpen - 1
    /\ parkedFor' = [parkedFor EXCEPT ![s] = NotParked]
    /\ UNCHANGED <<rx, queue, arrivals>>

-----------------------------------------------------------------------------
(* Datagrams. *)

Goes(s, pc) == rx' = [rx EXCEPT ![s] = [pc |-> pc, woken |-> FALSE]]

RecvDatagram(s) ==
    /\ Live(s) /\ rx[s].pc = "out" /\ Goes(s, "collect")
    /\ UNCHANGED <<slotVars, parkedFor, queue, arrivals>>

\* `collect': what a sibling has read for us, and the waker with it.
Collect(s) ==
    /\ rx[s].pc = "collect"
    /\ parkedFor' = [parkedFor EXCEPT ![s] = NotParked]
    /\ Goes(s, IF parkedFor[s].held THEN "out" ELSE "wait")
    /\ UNCHANGED <<slotVars, queue, arrivals>>

\* `wait_for_a_handover', at every poll: registered before the queue is read.
WaitForAHandover(s) ==
    /\ rx[s].pc = "wait" \/ (rx[s].pc = "parked" /\ rx[s].woken)
    /\ Goes(s, IF parkedFor[s].held THEN "collect" ELSE "read")
    /\ parkedFor' = [parkedFor EXCEPT ![s].waker = @ \/ ~parkedFor[s].held]
    /\ UNCHANGED <<slotVars, queue, arrivals>>

\* `hand_over': one datagram is held per session, and its waker is used up.
HandOver(s, to) ==
    /\ parkedFor' = [parkedFor EXCEPT ![to] = [held |-> TRUE, waker |-> FALSE]]
    /\ rx' = [rx EXCEPT ![s] = [pc |-> "collect", woken |-> FALSE],
                        ![to].woken = @ \/ parkedFor[to].waker]

\* The poll of quinn's `read_datagram': ours, a sibling's, nobody's, or none.
\* A waker used while the task is polled has it polled again.
ReadDatagram(s) ==
    /\ rx[s].pc = "read"
    /\ \/ queue = <<>> /\ rx' = [rx EXCEPT ![s].pc = "parked"] /\ UNCHANGED <<parkedFor, queue>>
       \/ /\ queue # <<>> /\ queue' = Tail(queue)
          /\ LET to == Head(queue)
             IN CASE to = s -> Goes(s, "out") /\ UNCHANGED parkedFor
                  [] to # s /\ to \in Sessions /\ Live(to) -> HandOver(s, to)
                  [] OTHER -> Goes(s, "collect") /\ UNCHANGED parkedFor
    /\ UNCHANGED <<slotVars, arrivals>>

\* The caller drops the future wherever it waits; its waker stays behind.
RecvDropped(s) ==
    /\ rx[s].pc \in {"wait", "parked"} /\ Goes(s, "out")
    /\ UNCHANGED <<slotVars, parkedFor, queue, arrivals>>

\* quinn queues a datagram and wakes everyone who waits for one.
DatagramQueued(to) ==
    /\ arrivals < MaxDatagrams /\ arrivals' = arrivals + 1
    /\ queue' = Append(IF Len(queue) = MaxQueued THEN Tail(queue) ELSE queue, to)
    /\ rx' = [s \in Sessions |-> [rx[s] EXCEPT !.woken = @ \/ rx[s].pc = "parked"]]
    /\ UNCHANGED <<slotVars, parkedFor>>

SessionsNext ==
    \/ \E s \in Sessions :
         \/ Claim(s) \/ ReserveLoads(s) \/ ReserveExchanges(s) \/ Establishes(s) \/ SlotDropped(s)
         \/ SessionDropped(s) \/ RecvDatagram(s) \/ Collect(s) \/ WaitForAHandover(s)
         \/ ReadDatagram(s) \/ RecvDropped(s)
    \/ \E to \in Sessions \cup {"unknown"} : DatagramQueued(to)

-----------------------------------------------------------------------------
(* The end of a session.  A capsule is a header and a payload; pieces of    *)
(* the stream hold any number of either.                                    *)

Capsules == {"other", "close", "bad"}
StreamEnds == {"fin", "reset"}

WatchInit ==
    \E n \in 0 .. MaxCapsules : \E caps \in [1 .. n -> Capsules], cut \in BOOLEAN, end \in StreamEnds :
       watch = [caps |-> caps,              \* the capsules the peer sends, ...
                units |-> 2 * n - (IF cut /\ n > 0 THEN 1 ELSE 0),   \* the last one perhaps cut off
                end |-> end, came |-> 0, over |-> FALSE,
                taken |-> 0, ended |-> "no"]

PieceArrives ==
    /\ \/ /\ watch.came < watch.units
          /\ \E n \in watch.came + 1 .. watch.units : watch' = [watch EXCEPT !.came = n]
       \/ watch.came = watch.units /\ ~watch.over /\ watch' = [watch EXCEPT !.over = TRUE]
    /\ UNCHANGED <<slotVars, datagramVars>>

\* `take_capsule' over everything that has come: the first close or unreadable
\* close among the whole capsules ends it; the others are skipped.
Whole(w) == w.came \div 2
EndingsIn(w) == {i \in w.taken + 1 .. Whole(w) : w.caps[i] # "other"}

\* At the end of the stream, what is left over tells a cut capsule from a FIN.
AtEnd(w) == CASE w.end = "reset" -> "error"
              [] w.end = "fin" /\ w.came > 2 * Whole(w) -> "truncated"
              [] OTHER -> "clean"

PollStream(w) ==
    IF EndingsIn(w) # {}
    THEN w.caps[CHOOSE i \in EndingsIn(w) : \A j \in EndingsIn(w) : i <= j]
    ELSE IF w.over THEN AtEnd(w) ELSE "no"

\* `closed', asked as often as the caller likes: the answer is remembered.
Closed ==
    /\ watch' = LET now == IF watch.ended # "no" THEN watch.ended ELSE PollStream(watch)
                IN [watch EXCEPT !.ended = now, !.taken = Whole(watch)]
    /\ UNCHANGED <<slotVars, datagramVars>>

WatchNext == PieceArrives \/ Closed

-----------------------------------------------------------------------------
WtTypeOK ==
    /\ wtOpen \in 0 .. Cardinality(Sessions)
    /\ \A s \in Sessions : rx[s].pc # "out" => Live(s)
    /\ Len(queue) <= MaxQueued

\* The counter is the sessions alive and those being opened, and however they
\* race there are never more than the peer allows (the first one excepted).
SlotsAreCounted ==
    LET taken == {s \in Sessions : sess[s].pc \in {"slot", "live"}}
    IN wtOpen = Cardinality(taken) /\ (wtOpen > 1 => wtOpen <= MaxSessions)

\* A task parked in recv_datagram and not woken has nothing to read: neither a
\* datagram a sibling holds for it nor one in the queue.
ListenerIsWoken ==
    \A s \in Sessions :
       rx[s].pc = "parked" /\ ~rx[s].woken => ~parkedFor[s].held /\ queue = <<>>

\* The end a session is told is the one of its whole stream, however the
\* stream was cut into pieces, and stays the same.
WholeStreamSays(w) ==
    LET all == [w EXCEPT !.came = w.units, !.over = TRUE, !.taken = 0] IN PollStream(all)
EndIsTheStreams == watch.ended # "no" => watch.ended = WholeStreamSays(watch)

\* Sessions as a whole: the peer's limit is kept, no datagram waits beside a
\* sleeping listener, and the end told is the stream's.
WtHolds == WtTypeOK /\ SlotsAreCounted /\ ListenerIsWoken /\ EndIsTheStreams
=============================================================================
