------------------------------- MODULE Reaper -------------------------------
(***************************************************************************)
(* The background task Native::with_reaper spawns (hclient-native/src/     *)
(* pool.rs, Reaper): it sleeps, upgrades its weak reference, reaps, and    *)
(* sleeps until the earliest deadline left.                                *)
(***************************************************************************)
EXTENDS Pool

VARIABLE
  reaper  \* [st |-> "asleep" or "ended", at |-> when the sleep ends]

reaperVars == <<clock, idle, call, transport, reaper>>

MinReapInterval == 1

Larger(m, n)  == IF m > n THEN m ELSE n
Longest == Larger(IdleTimeout, MinReapInterval)

ReaperTypeOK ==
  /\ PoolTypeOK
  /\ reaper \in [st : {"asleep", "ended"}, at : 0..(MaxTime + Longest)]

ReaperInit ==
  /\ PoolInit
  /\ reaper = [st |-> "asleep", at |-> IdleTimeout]

\* Whether WeakPool::upgrade still finds the pool.
Upgrades == transport \/ \E r \in Callers : call[r].st = "body"

\* What Pool::reap reports: the deadlines left in all buckets.
Deadlines(buckets) ==
  UNION {{e.at : e \in Entries(buckets[k])} : k \in Keys}

\* How long the task sleeps after a reap that left `buckets' behind.
Wake(buckets) ==
  LET left == Deadlines(buckets)
      next == CHOOSE d \in left : \A e \in left : d <= e
  IN  Larger(MinReapInterval, IF left = {} THEN IdleTimeout ELSE next - clock)

\* The sleep ends: reap and sleep again.
ReapAndSleep ==
  /\ reaper.st = "asleep" /\ clock >= reaper.at
  /\ Upgrades
  /\ ReapAll
  /\ reaper' = [reaper EXCEPT !.at = clock + Wake(idle')]
  /\ UNCHANGED <<clock, call, transport>>

\* The sleep ends and the pool is gone.
EndReaper ==
  /\ reaper.st = "asleep" /\ clock >= reaper.at
  /\ ~Upgrades
  /\ reaper' = [reaper EXCEPT !.st = "ended"]
  /\ UNCHANGED poolVars

Others == ((\E r \in Callers : CallerStep(r)) \/ DropTransport) /\ UNCHANGED reaper
Passes == Tick /\ UNCHANGED reaper

ReaperNext == Others \/ Passes \/ ReapAndSleep \/ EndReaper

ReaperSpec == ReaperInit /\ [][ReaperNext]_reaperVars

\* The executor polls a task whose sleep is over, and time passes.  Nothing
\* is assumed of callers.
ReaperLiveSpec ==
  /\ ReaperSpec
  /\ WF_reaperVars(Passes)
  /\ WF_reaperVars(ReapAndSleep)
  /\ WF_reaperVars(EndReaper)

-----------------------------------------------------------------------------
\* "Late by at most one exchange" (Reaper::poll): the task is never asleep
\* past an entry's deadline by more than the time between the clock reading
\* behind that deadline and the check-in or borrow that set it.
LateByOneExchange ==
  reaper.st = "asleep" =>
    \A k \in Keys : \A e \in Entries(idle[k]) : reaper.at <= e.since + Longest

\* The task stops for one reason only, a pool nobody can reach any more ("it
\* does not stop for any other reason"), and such a pool is empty: dropping
\* the transport and the last CheckIn closes every idle connection.
StopsWithThePool ==
  /\ reaper.st = "ended" => ~Upgrades
  /\ ~Upgrades => idle = Empty

\* Whatever callers do, no entry outlives the deadline of its last hand-out:
\* a connection nobody asks for is closed (checked for the entries whose
\* deadline and whose reap fall within the bounded clock).
ExpiredIsReaped ==
  \A k \in Keys, c \in Conns, t \in 0..(MaxTime - Longest) :
    LET Sits == \E e \in Entries(idle[k]) : e.conn = c /\ e.since = t
    IN  Sits ~> ~Sits

\* The pool and its reaper as a whole: a connection is in one place, its deadline
\* is never late, the task sleeps past none by more than one exchange, and it
\* ends with the pool.
PoolSafe ==
  /\ ReaperTypeOK /\ Custody /\ DeadlineNeverLate
  /\ LateByOneExchange /\ StopsWithThePool
=============================================================================
