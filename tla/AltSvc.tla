------------------------------- MODULE AltSvc -------------------------------
(***************************************************************************)
(* The Alt-Svc memory of one origin (hclient-native/src/altsvc_cache.rs)   *)
(* over a byte store (altsvc_cache/kv.rs): a persistent and a volatile     *)
(* namespace, and every call a chain of removes and puts with an await     *)
(* between two of them.                                                    *)
(***************************************************************************)
EXTENDS Naturals, Sequences

CONSTANTS
  AltTasks,    \* concurrent calls of advertises_h3, note and network_changed
  MaxLease,    \* MAX_LEASE
  MaxAges,     \* the ma= values a response may carry
  AltMaxTime   \* bound on the wall clock

ASSUME AltConstants == MaxLease \in Nat /\ AltMaxTime \in Nat /\ MaxAges \subseteq Nat

VARIABLES
  altNow,     \* SystemTime::now
  altStored,  \* the expiries under the origin's key, by namespace
  altCall,    \* the calls under way
  settled     \* history: what the last call that ran alone left, or Unknown

altVars == <<altNow, altStored, altCall, settled>>

Spaces == {"volatile", "persistent"}
Other(ns) == IF ns = "volatile" THEN "persistent" ELSE "volatile"

Withdrawn == [ns |-> "none", expires |-> 0]
Unknown == [ns |-> "unknown", expires |-> 0]

(***************************************************************************)
(* pc     idle; reading (first the persistent namespace, then the          *)
(*        volatile one); writing, with the steps of Done that are left     *)
(* asked  the time of the call                                             *)
(* leaves history: what the store holds once the steps have run            *)
(* alone  history: no other call wrote while this one was under way        *)
(***************************************************************************)
NoCall == [pc |-> "idle", ns |-> "persistent", steps |-> <<>>, asked |-> 0,
           leaves |-> Withdrawn, alone |-> TRUE]

AltInit ==
  /\ altNow = 0
  /\ altStored = [ns \in Spaces |-> {}]
  /\ altCall = [t \in AltTasks |-> NoCall]
  /\ settled = Withdrawn

RemoveFrom(ns) == [op |-> "remove", ns |-> ns, expires |-> 0]
PutIn(ns, expires) == [op |-> "put", ns |-> ns, expires |-> expires]

\* Mutant: put leaves the other namespace alone.
PutStepsOne(ns, expires) == <<RemoveFrom(ns), PutIn(ns, expires)>>

\* KvStore::put clears both names and writes one.
PutSteps(ns, expires) == <<RemoveFrom(Other(ns)), RemoveFrom(ns), PutIn(ns, expires)>>

\* KvStore::remove.
RemoveSteps == <<RemoveFrom("volatile"), RemoveFrom("persistent")>>

\* KvStore::retain_persistent.
RetainSteps == <<RemoveFrom("volatile")>>

Writing(t) == altCall[t].pc = "writing"

\* A call that writes starts: it runs alone unless another does.
StartsWriting(t, asked, steps, leaves) ==
  LET overlap == \E u \in AltTasks \ {t} : Writing(u)
      call == [pc |-> "writing", ns |-> "persistent", steps |-> steps, asked |-> asked,
               leaves |-> leaves, alone |-> ~overlap]
  IN  altCall' = [u \in AltTasks |-> IF u = t THEN call
                                     ELSE IF Writing(u) THEN [altCall[u] EXCEPT !.alone = FALSE]
                                     ELSE altCall[u]]

\* note: the first alternative that is HTTP/3 at the origin itself, its age
\* capped; anything else withdraws.
Note(t, age, ns) ==
  LET expires == altNow + (IF age < MaxLease THEN age ELSE MaxLease)
  IN
  /\ altCall[t].pc = "idle"
  /\ IF ns = "none" THEN StartsWriting(t, altNow, RemoveSteps, Withdrawn)
                    ELSE StartsWriting(t, altNow, PutSteps(ns, expires), [ns |-> ns, expires |-> expires])
  /\ UNCHANGED <<altNow, altStored, settled>>

\* network_changed.
AltNetworkChanged(t) ==
  /\ altCall[t].pc = "idle"
  /\ StartsWriting(t, altNow, RetainSteps,
                   IF settled.ns = "volatile" THEN Withdrawn ELSE settled)
  /\ UNCHANGED <<altNow, altStored, settled>>

\* advertises_h3 asks for the entry.
Asked(t) ==
  /\ altCall[t].pc = "idle"
  /\ altCall' = [altCall EXCEPT ![t] = [NoCall EXCEPT !.pc = "reading", !.asked = altNow]]
  /\ UNCHANGED <<altNow, altStored, settled>>

\* Get::poll and what advertises_h3 makes of the answer: in force, expired and
\* so to be removed, or the next namespace.
Gets(t) ==
  LET ns == altCall[t].ns IN
  /\ altCall[t].pc = "reading"
  /\ \/ /\ altStored[ns] = {}
        /\ altCall' = [altCall EXCEPT ![t] =
             IF ns = "persistent" THEN [@ EXCEPT !.ns = "volatile"] ELSE NoCall]
     \/ \E e \in altStored[ns] :
          IF altCall[t].asked < e THEN altCall' = [altCall EXCEPT ![t] = NoCall]
          ELSE StartsWriting(t, altCall[t].asked, RemoveSteps, Withdrawn)
  /\ UNCHANGED <<altNow, altStored, settled>>

\* One step of Done; the last one completes the call.
DoneSteps(t) ==
  LET c == altCall[t]
      step == Head(c.steps)
  IN
  /\ Writing(t)
  /\ altStored' = [altStored EXCEPT ![step.ns] = IF step.op = "remove" THEN {} ELSE @ \cup {step.expires}]
  /\ altCall' = [altCall EXCEPT ![t] =
       IF Len(c.steps) = 1 THEN NoCall ELSE [c EXCEPT !.steps = Tail(c.steps)]]
  /\ settled' = IF Len(c.steps) = 1 /\ c.alone THEN c.leaves ELSE Unknown
  /\ UNCHANGED altNow

\* The caller goes away at an await.
AltDropped(t) ==
  /\ altCall[t].pc # "idle"
  /\ altCall' = [altCall EXCEPT ![t] = NoCall]
  /\ UNCHANGED <<altNow, altStored, settled>>

AltTick == altNow < AltMaxTime /\ altNow' = altNow + 1 /\ UNCHANGED <<altStored, altCall, settled>>

AltNext ==
  \/ \E t \in AltTasks :
       \/ \E age \in MaxAges, ns \in Spaces \cup {"none"} : Note(t, age, ns)
       \/ AltNetworkChanged(t) \/ Asked(t) \/ Gets(t) \/ DoneSteps(t) \/ AltDropped(t)
  \/ AltTick

AltSpec == AltInit /\ [][AltNext]_altVars

-----------------------------------------------------------------------------
AltTypeOK ==
  /\ altNow \in 0..AltMaxTime
  /\ altStored \in [Spaces -> SUBSET (0..(AltMaxTime + MaxLease))]
  /\ \A t \in AltTasks : Writing(t) => Len(altCall[t].steps) \in 1..3

\* Whatever drops and races have left in the two namespaces, a note that then
\* runs alone leaves exactly what it says, under one name: the origin's last
\* word is what the next request reads, and a network change keeps it only if
\* it was persistent.
LastWordIsKept ==
  settled # Unknown =>
    \A ns \in Spaces : altStored[ns] = IF settled.ns = ns THEN {settled.expires} ELSE {}
=============================================================================
