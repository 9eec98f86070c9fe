------------------------------- MODULE Fanout -------------------------------
(***************************************************************************)
(* Several tasks that wait for one resource which remembers one waker:     *)
(* quinn's pollers of a UDP socket (http3/runtime.rs, WakeAll) and the     *)
(* readers of a tunnel's datagrams (http3/tunnel.rs, Waiters).  The inner  *)
(* resource is polled with a waker that wakes everybody on a list.         *)
(***************************************************************************)
EXTENDS Naturals

CONSTANTS
  Pollers,   \* the tasks
  MaxReady   \* bound on what is ready: datagrams received, or the socket is writable

ASSUME FanoutConstants == MaxReady \in Nat \ {0}

VARIABLES
  resource,  \* "socket" or "datagrams"
  ready,     \* what the resource has
  armed,     \* the resource holds the fan-out waker
  waiters,   \* the list of wakers
  poller,    \* the tasks: idle, registered, parked (Pending), waking (Ready, before wake_all), going
  woken      \* tasks that will be polled again

fanVars == <<resource, ready, armed, waiters, poller, woken>>

FanInit ==
  /\ resource \in {"socket", "datagrams"}
  /\ ready = 0 /\ armed = FALSE /\ waiters = {} /\ woken = {}
  /\ poller = [p \in Pollers |-> "idle"]

\* WakeAll::register and Waiters::register, before the resource is polled.
Register(p) ==
  /\ poller[p] = "idle" \/ (poller[p] = "parked" /\ p \in woken)
  /\ waiters' = waiters \cup {p}
  /\ woken' = woken \ {p}
  /\ poller' = [poller EXCEPT ![p] = "registered"]
  /\ UNCHANGED <<resource, ready, armed>>

\* A Pending poll of the resource leaves the fan-out waker there.
Parks(p) ==
  /\ ready = 0
  /\ armed' = TRUE /\ poller' = [poller EXCEPT ![p] = "parked"] /\ UNCHANGED ready

\* Mutant: the poll that finds the socket writable goes on at once.
PollWritableQuiet(p) ==
  /\ resource = "socket" /\ poller[p] = "registered"
  /\ \/ Parks(p)
     \/ ready > 0 /\ armed' = FALSE /\ poller' = [poller EXCEPT ![p] = "going"] /\ UNCHANGED ready
  /\ UNCHANGED <<resource, waiters, woken>>

\* poll_writable_shared polls the socket, which drops the waker it holds when
\* it is writable.
PollWritable(p) ==
  /\ resource = "socket" /\ poller[p] = "registered"
  /\ \/ Parks(p)
     \/ ready > 0 /\ armed' = FALSE /\ poller' = [poller EXCEPT ![p] = "waking"] /\ UNCHANGED ready
  /\ UNCHANGED <<resource, waiters, woken>>

\* H3Datagrams::poll_recv: the shared read is polled under its lock; a datagram
\* of another stream is passed over and the read begun again.
PollDatagram(p) ==
  /\ resource = "datagrams" /\ poller[p] = "registered"
  /\ \/ Parks(p)
     \/ /\ ready > 0 /\ armed' = FALSE /\ ready' = ready - 1
        /\ poller' = [poller EXCEPT ![p] = "idle"]
     \/ ready > 0 /\ armed' = FALSE /\ ready' = ready - 1 /\ UNCHANGED poller
  /\ UNCHANGED <<resource, waiters, woken>>

\* wake_all: the list is taken, and everybody on it is woken.
WakeAll == woken' = woken \cup waiters /\ waiters' = {}

\* poll_writable_shared wakes the others before it returns Ready.
WakesOthers(p) ==
  /\ poller[p] = "waking" /\ WakeAll
  /\ poller' = [poller EXCEPT ![p] = "going"]
  /\ UNCHANGED <<resource, ready, armed>>

\* The task sends, which may fill the socket's buffer.
Sends(p) ==
  /\ poller[p] = "going"
  /\ ready' \in {0, ready}
  /\ poller' = [poller EXCEPT ![p] = "idle"]
  /\ UNCHANGED <<resource, armed, waiters, woken>>

\* The waiting task goes away, or is polled for another reason.
Spurious(p) ==
  /\ poller[p] = "parked"
  /\ poller' = [poller EXCEPT ![p] = "idle"]
  /\ UNCHANGED <<resource, ready, armed, waiters, woken>>

\* A datagram is queued and the reader notified, in one critical section of
\* quinn's connection.
DatagramArrives ==
  /\ resource = "datagrams" /\ ready < MaxReady
  /\ ready' = ready + 1
  /\ IF armed THEN WakeAll ELSE UNCHANGED <<waiters, woken>>
  /\ armed' = FALSE
  /\ UNCHANGED <<resource, poller>>

\* The socket can be written to again; its reactor says so some time later,
\* if a waker is still there.
BecomesWritable ==
  /\ resource = "socket" /\ ready = 0 /\ ready' = 1
  /\ UNCHANGED <<resource, armed, waiters, poller, woken>>

ReactorFires ==
  /\ resource = "socket" /\ ready > 0 /\ armed
  /\ armed' = FALSE /\ WakeAll
  /\ UNCHANGED <<resource, ready, poller>>

FanNext ==
  \/ \E p \in Pollers : Register(p) \/ PollWritable(p) \/ PollDatagram(p) \/ WakesOthers(p) \/ Sends(p) \/ Spurious(p)
  \/ DatagramArrives \/ BecomesWritable \/ ReactorFires

FanSpec == FanInit /\ [][FanNext]_fanVars

-----------------------------------------------------------------------------
FanTypeOK ==
  /\ ready \in 0..MaxReady /\ waiters \subseteq Pollers /\ woken \subseteq Pollers

\* Nobody waits on nothing: a task parked and not woken is on the list, and the
\* resource holds the waker that goes through that list, or somebody is about
\* to wake it; and it never sleeps beside a datagram.
ParkedWillBeWoken ==
  \A p \in Pollers : (poller[p] = "parked" /\ p \notin woken) =>
    /\ p \in waiters
    /\ armed \/ \E q \in Pollers : poller[q] = "waking"
    /\ resource = "datagrams" => ready = 0

\* The shared waker: its types, and nobody who waits is forgotten.
FanHolds == FanTypeOK /\ ParkedWillBeWoken
=============================================================================
