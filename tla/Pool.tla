-------------------------------- MODULE Pool --------------------------------
(***************************************************************************)
(* The connection pool of hclient-native/src/pool.rs as its callers use    *)
(* it.  A caller is one Native::run: it reads the clock once on entry, and *)
(* every take, renewal and check-in it makes uses that reading, however    *)
(* late it comes.  The pool itself lives as long as the transport or any   *)
(* CheckIn does; when the last of them goes, so do the idle connections.   *)
(***************************************************************************)
EXTENDS PoolBucket

CONSTANTS
  Keys,     \* PoolKey values
  H2Keys,   \* those whose protocol is H2, under which handles are shared
  Callers,  \* concurrent calls of Native::run and the bodies they returned
  Conns,    \* connection identities, free again once nothing refers to them
  NoConn,   \* "no connection"
  MaxTime   \* bound on the clock

ASSUME PoolConstants == NoConn \notin Conns /\ MaxTime \in Nat /\ Keys # {} /\ H2Keys \subseteq Keys

VARIABLES
  clock,
  idle,      \* Inner::idle: a bucket for every key, empty where there is none
  call,      \* what every caller holds
  transport  \* the Native that owns the pool has not been dropped

poolVars == <<clock, idle, call, transport>>

(***************************************************************************)
(* out        not in the transport                                         *)
(* in         has read the clock and looks for a connection                *)
(* missed     found nothing it could use under the last key                *)
(* holding    has an exclusive connection and its CheckIn                  *)
(* body       has returned; the response body holds both                   *)
(* borrowing  has a clone of a shared handle found in the pool             *)
(* using      has a handle of the connection it opened and shared          *)
(***************************************************************************)
Calls == [st   : {"out", "in", "missed", "holding", "body", "borrowing", "using"},
          now  : 0..MaxTime,
          key  : Keys,
          conn : Conns \cup {NoConn}]

Idles == [conn : Conns, shared : BOOLEAN,
          at : 0..(MaxTime + IdleTimeout), since : 0..MaxTime]

PoolTypeOK ==
  /\ clock \in 0..MaxTime
  /\ idle \in [Keys -> Seq(Idles)]
  /\ \A k \in Keys : Len(idle[k]) <= MaxIdle
  /\ call \in [Callers -> Calls]
  /\ transport \in BOOLEAN

\* A caller with no connection; one that is out keeps nothing at all.
Without(st, now) == [st |-> st, now |-> now, key |-> CHOOSE k \in Keys : TRUE, conn |-> NoConn]
NoCall == Without("out", 0)

Empty == [k \in Keys |-> <<>>]

PoolInit ==
  /\ clock = 0
  /\ idle = Empty
  /\ call = [r \in Callers |-> NoCall]
  /\ transport = TRUE

Holders(c) == {r \in Callers : call[r].st \in {"holding", "body"} /\ call[r].conn = c}
Users(c)   == {r \in Callers : call[r].st \in {"borrowing", "using"} /\ call[r].conn = c}
Slots(c)   == {s \in Keys \X (1..MaxIdle) :
                 s[2] \in DOMAIN idle[s[1]] /\ idle[s[1]][s[2]].conn = c}
IsFree(c)  == Holders(c) \cup Users(c) = {} /\ Slots(c) = {}

\* The deadline Native::run stamps: its clock reading plus the idle timeout.
Deadline(r) == call[r].now + IdleTimeout

\* Inner::idle after a step that may drop the last strong reference.
Leaving(r, buckets) ==
  idle' = IF transport \/ \E s \in Callers \ {r} : call[s].st = "body"
            THEN buckets ELSE Empty

-----------------------------------------------------------------------------
\* Native::run begins: the clock is read.
Enter(r) ==
  /\ transport
  /\ call[r].st = "out"
  /\ call' = [call EXCEPT ![r] = Without("in", clock)]
  /\ UNCHANGED <<clock, idle, transport>>

\* Pool::take: a miss, an exclusive connection, or a clone of a handle.
Take(r, k) ==
  LET t == TakeFrom(idle[k], call[r].now, clock) IN
  /\ call[r].st \in {"in", "missed"}
  /\ idle' = [idle EXCEPT ![k] = t.rest]
  /\ \/ /\ t.got = {}
        /\ call' = [call EXCEPT ![r].st = "missed"]
     \/ \E e \in t.got :
          call' = [call EXCEPT ![r] =
            [@ EXCEPT !.st = IF e.shared THEN "borrowing" ELSE "holding",
                      !.key = k, !.conn = e.conn]]
  /\ UNCHANGED <<clock, transport>>

\* A bucket whose protocol the request's version rules out is not looked in.
Skip(r) ==
  /\ call[r].st = "in"
  /\ call' = [call EXCEPT ![r].st = "missed"]
  /\ UNCHANGED <<clock, idle, transport>>

\* checkout's poll finds the connection dead.  An exclusive one is dropped; a
\* handle also leaves the pool (Pool::forget_shared).  The caller looks again.
Stale(r) ==
  LET k == call[r].key IN
  /\ call[r].st \in {"holding", "borrowing"}
  /\ idle' = IF call[r].st = "borrowing"
               THEN [idle EXCEPT ![k] = ForgetIn(@, call[r].conn)] ELSE idle
  /\ \E st \in {"in", "missed"} :
       call' = [call EXCEPT ![r] = Without(st, @.now)]
  /\ UNCHANGED <<clock, transport>>

\* The pooled attempt hands the request back unsent: the connection is
\* dropped and the caller goes on, with the clock reading it had.
Unsent(r) ==
  /\ call[r].st \in {"holding", "borrowing"}
  /\ call' = [call EXCEPT ![r] = Without("missed", @.now)]
  /\ UNCHANGED <<clock, idle, transport>>

\* A fresh connection of the caller's own, with its CheckIn.
Connect(r, k, c) ==
  /\ call[r].st = "missed"
  /\ IsFree(c)
  /\ call' = [call EXCEPT ![r] =
                [@ EXCEPT !.st = "holding", !.key = k, !.conn = c]]
  /\ UNCHANGED <<clock, idle, transport>>

\* share_if_multiplexing: the connection goes into the pool at once, as a
\* handle, and the caller keeps no CheckIn.
Share(r, k, c) ==
  /\ call[r].st = "missed"
  /\ k \in H2Keys
  /\ IsFree(c)
  /\ idle' = [idle EXCEPT ![k] = PutIn(@, Idle(c, TRUE, Deadline(r), clock))]
  /\ call' = [call EXCEPT ![r] =
                [@ EXCEPT !.st = "using", !.key = k, !.conn = c]]
  /\ UNCHANGED <<clock, transport>>

\* The response head is in: the call returns a body that keeps the connection
\* and the CheckIn, and the transport is no longer borrowed.
Answer(r) ==
  /\ call[r].st = "holding"
  /\ call' = [call EXCEPT ![r].st = "body"]
  /\ UNCHANGED <<clock, idle, transport>>

\* CheckIn::put, when the response body has been read to its end.
CheckInPut(r) ==
  /\ call[r].st = "body"
  /\ Leaving(r, [idle EXCEPT ![call[r].key] =
       PutIn(@, Idle(call[r].conn, FALSE, Deadline(r), clock))])
  /\ call' = [call EXCEPT ![r] = NoCall]
  /\ UNCHANGED <<clock, transport>>

\* The call or its body ends without a check-in: what it held is closed.
Abandon(r) ==
  /\ call[r].st # "out"
  /\ Leaving(r, idle)
  /\ call' = [call EXCEPT ![r] = NoCall]
  /\ UNCHANGED <<clock, transport>>

\* The expired entries of every bucket go (Pool::reap).
ReapAll == idle' = [k \in Keys |-> ReapIn(idle[k], clock)]

Reap ==
  /\ ReapAll
  /\ UNCHANGED <<clock, call, transport>>

\* The Native is dropped.  Running calls borrow it; response bodies do not.
DropTransport ==
  /\ transport
  /\ \A r \in Callers : call[r].st \in {"out", "body"}
  /\ transport' = FALSE
  /\ idle' = IF \E r \in Callers : call[r].st = "body" THEN idle ELSE Empty
  /\ UNCHANGED <<clock, call>>

Tick ==
  /\ clock < MaxTime
  /\ clock' = clock + 1
  /\ UNCHANGED <<idle, call, transport>>

CallerStep(r) ==
  \/ Enter(r)
  \/ \E k \in Keys : Take(r, k)
  \/ Skip(r)
  \/ Stale(r)
  \/ Unsent(r)
  \/ \E k \in Keys, c \in Conns : Connect(r, k, c) \/ Share(r, k, c)
  \/ Answer(r)
  \/ CheckInPut(r)
  \/ Abandon(r)

PoolNext == (\E r \in Callers : CallerStep(r)) \/ Reap \/ DropTransport \/ Tick

PoolSpec == PoolInit /\ [][PoolNext]_poolVars

-----------------------------------------------------------------------------
\* A connection is in one place: one slot of one bucket, or one caller's
\* hands.  A shared one sits in at most one slot and nobody holds it to check
\* it in; an exclusive one is never in two requests' hands at once.  (take
\* pops what it hands out; borrowed() clones the handle and mints no CheckIn.)
Custody ==
  \A c \in Conns :
    /\ Cardinality(Holders(c)) + Cardinality(Slots(c)) <= 1
    /\ Holders(c) # {} => Users(c) = {}

\* "The deadline is never later than the true idle deadline, only earlier"
\* (PoolConfig::idle_timeout): however stale the clock reading behind it, a
\* deadline is at most one idle timeout after the entry was put or borrowed.
DeadlineNeverLate ==
  \A k \in Keys : \A e \in Entries(idle[k]) : e.at <= e.since + IdleTimeout

\* The pool gives a live connection up only for a reason: the step handed it
\* out, forgot a dead handle, made room at the bound, or dropped the pool.
KeepsLiveEntries ==
  [][\A k \in Keys : \A e \in Entries(idle[k]) :
       (e.at > clock /\ \A f \in Entries(idle'[k]) : f.conn # e.conn) =>
         \/ \E r \in Callers : call'[r].st = "holding" /\ call'[r].conn = e.conn
         \/ e.shared /\ \E r \in Callers : call[r].conn = e.conn /\ Stale(r)
         \/ Len(idle[k]) = MaxIdle /\ Len(idle'[k]) = MaxIdle /\ e = Head(idle[k])
         \/ idle' = Empty /\ ~transport']_poolVars
=============================================================================
