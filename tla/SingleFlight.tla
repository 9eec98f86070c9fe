---------------------------- MODULE SingleFlight ----------------------------
(***************************************************************************)
(* One connect per origin at a time: Pool::begin_connect, WaitForConnect,  *)
(* finish_connect and the Connecting guard of hclient-native/src/pool.rs,  *)
(* as Native::run drives them.                                             *)
(*                                                                         *)
(* `connecting' is one mutex-protected map from a PoolKey to the wakers of *)
(* the tasks waiting for the connect under that key.  Every lock scope of  *)
(* the code is one action here; the wakes that follow finish_connect       *)
(* happen outside the lock and are one action each.                        *)
(***************************************************************************)
EXTENDS Naturals, FiniteSets

CONSTANTS
  Tasks,   \* the tasks that run requests
  Keys     \* the pool keys (PoolKey with Protocol::H2)

VARIABLES
  mark,    \* mark[k]: connecting.contains_key(k)
  wakers,  \* wakers[k]: the tasks whose waker is stored under k
  flight,  \* flight[t]: where task t stands
  want,    \* want[t]: the key t's request has (kept from its last request)
  waking   \* waking[t]: wakers t's finish_connect removed and has yet to wake

sfVars == <<mark, wakers, flight, want, waking>>

(***************************************************************************)
(* out       not between begin_connect and the end of the connect          *)
(* begun     begin_connect returned None; WaitForConnect not polled yet    *)
(* parked    WaitForConnect returned Pending                               *)
(* woken     its waker was woken; the next poll is still to come           *)
(* resolved  WaitForConnect returned Ready; the second begin_connect is    *)
(*           still to come                                                 *)
(* guarded   holds the Connecting guard                                    *)
(* bare      goes on without a guard                                       *)
(* waking    has dropped its guard and is waking the wakers it removed     *)
(***************************************************************************)
Flights ==
  {"out", "begun", "parked", "woken", "resolved", "guarded", "bare", "waking"}

Waiting == {"begun", "parked", "woken"}

SFTypeOK ==
  /\ mark \in [Keys -> BOOLEAN]
  /\ wakers \in [Keys -> SUBSET Tasks]
  /\ flight \in [Tasks -> Flights]
  /\ want \in [Tasks -> Keys]
  /\ waking \in [Tasks -> SUBSET Tasks]

SFInit ==
  /\ mark = [k \in Keys |-> FALSE]
  /\ wakers = [k \in Keys |-> {}]
  /\ flight = [t \in Tasks |-> "out"]
  /\ want \in [Tasks -> Keys]
  /\ waking = [t \in Tasks |-> {}]

\* Mutant: the mark is taken without asking whether somebody has it.
BeginConnectUnasked(t, k, otherwise) ==
  /\ mark' = [mark EXCEPT ![k] = TRUE]
  /\ wakers' = [wakers EXCEPT ![k] = {}]
  /\ flight' = [flight EXCEPT ![t] = "guarded"]

(***************************************************************************)
(* The body of Pool::begin_connect: under the lock, take the mark unless   *)
(* somebody has it.  `otherwise' is where a task without the guard goes.   *)
(***************************************************************************)
BeginConnect(t, k, otherwise) ==
  IF mark[k]
    THEN /\ flight' = [flight EXCEPT ![t] = otherwise]
         /\ UNCHANGED <<mark, wakers>>
    ELSE /\ mark' = [mark EXCEPT ![k] = TRUE]
         /\ wakers' = [wakers EXCEPT ![k] = {}]
         /\ flight' = [flight EXCEPT ![t] = "guarded"]

\* A request for k arrives at the first begin_connect of Native::run.
Arrive(t, k) ==
  /\ flight[t] = "out"
  /\ want' = [want EXCEPT ![t] = k]
  /\ BeginConnect(t, k, "begun")
  /\ UNCHANGED waking

\* Mutant: the waker is stored by the first poll only, as if a woken task
\* were still registered.
PollWaitStoresOnce(t) ==
  LET k == want[t] IN
  /\ flight[t] \in Waiting
  /\ IF mark[k]
       THEN /\ wakers' = IF flight[t] = "begun" THEN [wakers EXCEPT ![k] = @ \cup {t}] ELSE wakers
            /\ flight' = [flight EXCEPT ![t] = "parked"]
       ELSE /\ flight' = [flight EXCEPT ![t] = "resolved"]
            /\ UNCHANGED wakers
  /\ UNCHANGED <<mark, want, waking>>

(***************************************************************************)
(* WaitForConnect::poll: Ready when nothing is in flight under the key,    *)
(* otherwise the waker is stored (once: will_wake) and the task parks.  An *)
(* executor may poll a parked task whose waker nobody woke.                *)
(***************************************************************************)
PollWait(t) ==
  LET k == want[t] IN
  /\ flight[t] \in Waiting
  /\ IF mark[k]
       THEN /\ wakers' = [wakers EXCEPT ![k] = @ \cup {t}]
            /\ flight' = [flight EXCEPT ![t] = "parked"]
       ELSE /\ flight' = [flight EXCEPT ![t] = "resolved"]
            /\ UNCHANGED wakers
  /\ UNCHANGED <<mark, want, waking>>

\* After the wait, the second begin_connect of Native::run.
Retake(t) ==
  /\ flight[t] = "resolved"
  /\ BeginConnect(t, want[t], "bare")
  /\ UNCHANGED <<want, waking>>

\* Mutant: one waiter is woken and the other wakers are dropped.
DropGuardWakesOne(t) ==
  LET k == want[t] IN
  /\ flight[t] = "guarded"
  /\ mark' = [mark EXCEPT ![k] = FALSE]
  /\ waking' = [waking EXCEPT ![t] = IF wakers[k] = {} THEN {} ELSE {CHOOSE w \in wakers[k] : TRUE}]
  /\ wakers' = [wakers EXCEPT ![k] = {}]
  /\ flight' = [flight EXCEPT ![t] = "waking"]
  /\ UNCHANGED want

(***************************************************************************)
(* Connecting::drop, which is finish_connect: the mark and its wakers go   *)
(* under the lock, the wakes follow.  The guard is dropped when a          *)
(* connection is in the pool, when one was found there, when the connect   *)
(* failed and when the request's future is dropped.                        *)
(***************************************************************************)
DropGuard(t) ==
  LET k == want[t] IN
  /\ flight[t] = "guarded"
  /\ mark' = [mark EXCEPT ![k] = FALSE]
  /\ waking' = [waking EXCEPT ![t] = wakers[k]]
  /\ wakers' = [wakers EXCEPT ![k] = {}]
  /\ flight' = [flight EXCEPT ![t] = "waking"]
  /\ UNCHANGED want

\* One w.wake() of finish_connect's loop; a waker whose task no longer waits
\* wakes nobody.
WakeOne(t, w) ==
  /\ w \in waking[t]
  /\ waking' = [waking EXCEPT ![t] = @ \ {w}]
  /\ flight' = [flight EXCEPT ![w] = IF @ = "parked" THEN "woken" ELSE @]
  /\ UNCHANGED <<mark, wakers, want>>

\* The loop is over and the task goes on with its request.
Woke(t) ==
  /\ flight[t] = "waking"
  /\ waking[t] = {}
  /\ flight' = [flight EXCEPT ![t] = "out"]
  /\ UNCHANGED <<mark, wakers, want, waking>>

\* Mutant: a waiter that gives up releases the mark it waited for.
LeaveReleases(t) ==
  /\ flight[t] \in Waiting \cup {"resolved", "bare"}
  /\ flight' = [flight EXCEPT ![t] = "out"]
  /\ mark' = [mark EXCEPT ![want[t]] = FALSE]
  /\ UNCHANGED <<wakers, want, waking>>

(***************************************************************************)
(* A task that holds no guard stops waiting or connecting: the connect     *)
(* budget ran out, its connect ended, or its future was dropped.  Its      *)
(* waker stays where it was stored: nothing removes it but finish_connect. *)
(***************************************************************************)
Leave(t) ==
  /\ flight[t] \in Waiting \cup {"resolved", "bare"}
  /\ flight' = [flight EXCEPT ![t] = "out"]
  /\ UNCHANGED <<mark, wakers, want, waking>>

SFStep(t) ==
  \/ \E k \in Keys : Arrive(t, k)
  \/ PollWait(t)
  \/ Retake(t)
  \/ DropGuard(t)
  \/ \E w \in Tasks : WakeOne(t, w)
  \/ Woke(t)
  \/ Leave(t)

SFNext == \E t \in Tasks : SFStep(t)

SFSpec == SFInit /\ [][SFNext]_sfVars

(***************************************************************************)
(* Fairness.  A task that is ready is polled again (begun, woken,          *)
(* resolved), a thread inside finish_connect runs its loop to the end, and *)
(* a connect ends: it succeeds, fails, or its caller drops it.  Nothing is *)
(* assumed about arrivals, about spurious polls or about waiters leaving.  *)
(***************************************************************************)
Repoll(t) == flight[t] \in {"begun", "woken"} /\ PollWait(t)
Finish(t) == flight[t] = "bare" /\ Leave(t)

SFFairness ==
  \A t \in Tasks :
    /\ WF_sfVars(Repoll(t))
    /\ WF_sfVars(Retake(t))
    /\ WF_sfVars(DropGuard(t))
    /\ WF_sfVars(\E w \in Tasks : WakeOne(t, w))
    /\ WF_sfVars(Woke(t))
    /\ WF_sfVars(Finish(t))

SFLiveSpec == SFSpec /\ SFFairness

-----------------------------------------------------------------------------
(***************************************************************************)
(* Properties                                                              *)
(***************************************************************************)

\* A mark is held by exactly one live guard.  A mark nobody owns would strand
\* every later request to the origin; two owners would let the second drop
\* release a connect that is still running (Connecting's Drop).
MarkHasOneOwner ==
  \A k \in Keys :
    LET Owners == {t \in Tasks : flight[t] = "guarded" /\ want[t] = k}
    IN  /\ mark[k] => \E t \in Tasks : Owners = {t}
        /\ ~mark[k] => Owners = {}

\* No wakeup is lost: a parked task's waker is stored under a mark that is
\* still held, or is among those a finish_connect has removed and not woken.
NoLostWakeup ==
  \A t \in Tasks :
    flight[t] = "parked" =>
      \/ mark[want[t]] /\ t \in wakers[want[t]]
      \/ \E f \in Tasks : flight[f] = "waking" /\ t \in waking[f]

\* Only the owner of a mark releases it: a cancelled waiter or a request that
\* connects without a guard never does (the mark is freed by a drop of the
\* guard and by nothing else).
OnlyOwnerReleases ==
  [][\A k \in Keys :
       mark[k] /\ ~mark'[k] =>
         \E t \in Tasks :
           /\ flight[t] = "guarded" /\ want[t] = k
           /\ flight'[t] = "waking"
           /\ waking'[t] = wakers[k]]_sfVars

\* A parked task is always polled again: every connect ends, and its end
\* reaches every task that waited for it (finish_connect's wakes).
ParkedIsPolledAgain ==
  \A t \in Tasks : flight[t] = "parked" ~> flight[t] # "parked"
=============================================================================
