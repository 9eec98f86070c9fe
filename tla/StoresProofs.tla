---------------------------- MODULE StoresProofs ----------------------------
(***************************************************************************)
(* What a client remembers of its servers, for any number of overlapping   *)
(* calls, hosts and lengths of time.  Every memory has an inductive        *)
(* invariant of its own; StoresMove says what a step of the composition is *)
(* to each of them: one of its own, or none.                               *)
(***************************************************************************)
EXTENDS MCStores, FiniteSetTheorems, SequenceTheorems, NaturalsInduction,
  WellFoundedInduction, TLAPS

------------------------------------------------------------------------------
(* The Alt-Svc memory of an origin (altsvc_cache.rs, altsvc_cache/kv.rs). *)

Expiries == 0..(AltMaxTime + MaxLease)

Words == [ns : Spaces, expires : Expiries] \cup {Withdrawn, Unknown}

StepType == [op : {"remove", "put"}, ns : Spaces, expires : Expiries]

CallType ==
  [pc : {"idle", "reading", "writing"}, ns : Spaces, steps : Seq(StepType),
   asked : 0..AltMaxTime, leaves : Words, alone : BOOLEAN]

\* What the two namespaces hold once a word is the last.
Holds(stored, word) ==
  \A ns \in Spaces : stored[ns] = IF word.ns = ns THEN {word.expires} ELSE {}

\* The steps a call has left, and, where nobody wrote beside it, what those
\* before them have left of the store.
FitsPut(c, stored, ns, e) ==
  /\ c.leaves = [ns |-> ns, expires |-> e]
  /\ \/ c.steps = <<RemoveFrom(Other(ns)), RemoveFrom(ns), PutIn(ns, e)>>
     \/ /\ c.steps = <<RemoveFrom(ns), PutIn(ns, e)>>
        /\ c.alone => stored[Other(ns)] = {}
     \/ /\ c.steps = <<PutIn(ns, e)>>
        /\ c.alone => stored[ns] = {} /\ stored[Other(ns)] = {}

FitsRemove(c, stored) ==
  /\ c.leaves = Withdrawn
  /\ \/ c.steps = <<RemoveFrom("volatile"), RemoveFrom("persistent")>>
     \/ /\ c.steps = <<RemoveFrom("persistent")>>
        /\ c.alone => stored["volatile"] = {}

FitsRetain(c, stored) ==
  /\ c.steps = <<RemoveFrom("volatile")>>
  /\ c.leaves.ns # "volatile"
  /\ (c.alone /\ c.leaves # Unknown) =>
       stored["persistent"] = IF c.leaves.ns = "persistent" THEN {c.leaves.expires} ELSE {}

Fits(c, stored) ==
  \/ \E ns \in Spaces, e \in Expiries : FitsPut(c, stored, ns, e)
  \/ FitsRemove(c, stored)
  \/ FitsRetain(c, stored)

AltTyped ==
  /\ altNow \in 0..AltMaxTime
  /\ altStored \in [Spaces -> SUBSET Expiries]
  /\ altCall \in [AltTasks -> CallType]
  /\ settled \in Words

\* A call that says it is alone is.
AloneIsAlone ==
  \A t, u \in AltTasks : (Writing(t) /\ altCall[t].alone /\ Writing(u)) => t = u

AltInv ==
  /\ AltTyped /\ AloneIsAlone /\ LastWordIsKept
  /\ \A t \in AltTasks : Writing(t) => Fits(altCall[t], altStored)

LEMMA AltBegins == AltInit => AltInv
<1> SUFFICES ASSUME AltInit PROVE AltInv
  OBVIOUS
<1>1. 0 \in Expiries /\ 0 \in 0..AltMaxTime
  BY AltConstants DEF Expiries
<1>2. NoCall \in CallType
  BY <1>1 DEF NoCall, CallType, Spaces, Words
<1>3. AltTyped
  BY <1>1, <1>2 DEF AltInit, AltTyped, Words
<1>4. \A t \in AltTasks : ~Writing(t)
  BY DEF AltInit, Writing, NoCall
<1>5. LastWordIsKept
  BY DEF AltInit, LastWordIsKept, Withdrawn, Spaces
<1> QED
  BY <1>3, <1>4, <1>5 DEF AltInv, AloneIsAlone

\* Every step that can be left, one by one.
LEMMA StepsAreTyped ==
  ASSUME AltConstants, NEW ns \in Spaces, NEW e \in Expiries
  PROVE  /\ RemoveFrom(ns) \in StepType /\ PutIn(ns, e) \in StepType
         /\ Other(ns) \in Spaces /\ Other(ns) # ns
         /\ \A m \in Spaces : m = ns \/ m = Other(ns)
BY DEF RemoveFrom, PutIn, StepType, Spaces, Other, Expiries

\* A call that stopped being alone still has steps it can have.
LEMMA FitsCrowded ==
  ASSUME NEW c, NEW d, NEW stored, NEW after, Fits(c, stored),
         d.steps = c.steps, d.leaves = c.leaves, ~d.alone
  PROVE  Fits(d, after)
<1>1. ASSUME NEW ns \in Spaces, NEW e \in Expiries, FitsPut(c, stored, ns, e)
      PROVE  FitsPut(d, after, ns, e)
  BY <1>1 DEF FitsPut
<1>2. FitsRemove(c, stored) => FitsRemove(d, after)
  BY DEF FitsRemove
<1>3. FitsRetain(c, stored) => FitsRetain(d, after)
  BY DEF FitsRetain
<1> QED
  BY <1>1, <1>2, <1>3 DEF Fits

\* What others do to the store is nothing to a call that is not alone.
LEMMA FitsAnyway ==
  ASSUME NEW c \in CallType, NEW stored, NEW after, Fits(c, stored), ~c.alone
  PROVE  Fits(c, after)
BY DEF Fits, FitsPut, FitsRemove, FitsRetain

\* A call starts to write.
LEMMA StartsWritingStep ==
  ASSUME AltConstants, AltInv, NEW t \in AltTasks, NEW asked \in 0..AltMaxTime,
         NEW steps \in Seq(StepType), NEW leaves \in Words, ~Writing(t),
         StartsWriting(t, asked, steps, leaves),
         UNCHANGED <<altNow, altStored, settled>>,
         Fits([pc |-> "writing", ns |-> "persistent", steps |-> steps, asked |-> asked,
               leaves |-> leaves, alone |-> TRUE], altStored)
  PROVE  AltInv'
<1> DEFINE overlap == \E u \in AltTasks \ {t} : Writing(u)
           call == [pc |-> "writing", ns |-> "persistent", steps |-> steps, asked |-> asked,
                    leaves |-> leaves, alone |-> ~overlap]
           lone == [pc |-> "writing", ns |-> "persistent", steps |-> steps, asked |-> asked,
                    leaves |-> leaves, alone |-> TRUE]
<1>1. call \in CallType /\ lone \in CallType /\ call.alone = ~overlap /\ call.pc = "writing"
  BY DEF CallType, Spaces
<1>2. Fits(call, altStored)
  <2>1. call.steps = lone.steps /\ call.leaves = lone.leaves /\ (overlap => ~call.alone)
    BY <1>1
  <2>2. ~overlap => call = lone
    OBVIOUS
  <2>3. Fits(lone, altStored)
    OBVIOUS
  <2> HIDE DEF call, lone, overlap
  <2> QED
    BY <2>1, <2>2, <2>3, FitsCrowded
<1>3. altCall \in [AltTasks -> CallType] /\ \A u \in AltTasks : altCall[u] \in CallType
  BY DEF AltInv, AltTyped
<1>4. altCall' = [u \in AltTasks |-> IF u = t THEN call
                                     ELSE IF Writing(u) THEN [altCall[u] EXCEPT !.alone = FALSE]
                                     ELSE altCall[u]]
  BY DEF StartsWriting
<1>5. ASSUME NEW u \in AltTasks, Writing(u)
      PROVE  /\ altCall'[u] = [altCall[u] EXCEPT !.alone = FALSE]
             /\ altCall'[u] \in CallType /\ altCall'[u].alone = FALSE /\ altCall'[u].pc = "writing"
             /\ Fits(altCall'[u], altStored)
  <2>1. u # t
    BY <1>5
  <2>2. altCall'[u] = [altCall[u] EXCEPT !.alone = FALSE]
    BY <1>4, <1>5, <2>1
  <2>3. altCall[u] \in CallType /\ altCall[u].pc = "writing" /\ Fits(altCall[u], altStored)
    BY <1>3, <1>5 DEF AltInv, Writing
  <2> QED
    <3>1. /\ altCall'[u] \in CallType /\ altCall'[u].alone = FALSE /\ altCall'[u].pc = "writing"
          /\ altCall'[u].steps = altCall[u].steps /\ altCall'[u].leaves = altCall[u].leaves
      BY <2>2, <2>3 DEF CallType
    <3> QED
      BY <2>2, <2>3, <3>1, FitsCrowded
<1>6. ASSUME NEW u \in AltTasks, u # t, ~Writing(u) PROVE altCall'[u] = altCall[u]
  BY <1>4, <1>6
<1>7. altCall'[t] = call
  BY <1>4
<1>8. AltTyped'
  <2>1. altCall' \in [AltTasks -> CallType]
    <3>1. \A u \in AltTasks : altCall'[u] \in CallType
      BY <1>1, <1>3, <1>5, <1>6, <1>7
    <3> QED
      BY <1>4, <3>1
  <2> QED
    BY <2>1 DEF AltInv, AltTyped
<1>9. \A u \in AltTasks : Writing(u)' <=> (u = t \/ Writing(u))
  BY <1>1, <1>5, <1>6, <1>7 DEF Writing
<1>10. AloneIsAlone'
  <2> SUFFICES ASSUME NEW u \in AltTasks, NEW v \in AltTasks,
                      Writing(u)', altCall'[u].alone, Writing(v)'
               PROVE  u = v
    BY DEF AloneIsAlone
  <2>1. u = t
    BY <1>5, <1>9
  <2>2. ~overlap
    BY <2>1, <1>1, <1>7
  <2> QED
    BY <1>9, <2>1, <2>2
<1>11. ASSUME NEW u \in AltTasks, Writing(u)' PROVE Fits(altCall'[u], altStored')
  BY <1>2, <1>5, <1>7, <1>9, <1>11
<1>12. LastWordIsKept'
  BY DEF AltInv, LastWordIsKept
<1> QED
  BY <1>8, <1>10, <1>11, <1>12 DEF AltInv

\* A call that does not write comes or goes.
LEMMA CallTurns ==
  ASSUME AltInv, NEW t \in AltTasks, NEW q \in CallType, q.pc # "writing",
         altCall' = [altCall EXCEPT ![t] = q],
         UNCHANGED <<altNow, altStored, settled>>
  PROVE  AltInv'
<1>1. altCall \in [AltTasks -> CallType]
  BY DEF AltInv, AltTyped
<1>2. altCall'[t] = q /\ \A u \in AltTasks \ {t} : altCall'[u] = altCall[u]
  BY <1>1
<1>3. AltTyped'
  BY <1>1 DEF AltInv, AltTyped
<1>4. \A u \in AltTasks : Writing(u)' => u # t /\ Writing(u)
  BY <1>2 DEF Writing
<1>5. AloneIsAlone'
  BY <1>2, <1>4 DEF AltInv, AloneIsAlone
<1>6. LastWordIsKept'
  BY DEF AltInv, LastWordIsKept
<1> QED
  BY <1>2, <1>3, <1>4, <1>5, <1>6 DEF AltInv

\* What a step does to the two namespaces.
After1(stored, step) ==
  [stored EXCEPT ![step.ns] = IF step.op = "remove" THEN {} ELSE @ \cup {step.expires}]

LEMMA RemoveDoes ==
  ASSUME NEW ns \in Spaces, NEW stored \in [Spaces -> SUBSET Expiries]
  PROVE  LET after == After1(stored, RemoveFrom(ns))
         IN  /\ after \in [Spaces -> SUBSET Expiries]
             /\ after[ns] = {}
             /\ \A m \in Spaces : m # ns => after[m] = stored[m]
<1>1. RemoveFrom(ns).ns = ns /\ RemoveFrom(ns).op = "remove"
  BY DEF RemoveFrom
<1>2. After1(stored, RemoveFrom(ns)) = [stored EXCEPT ![ns] = {}]
  BY <1>1 DEF After1
<1> QED
  BY <1>2

LEMMA PutDoes ==
  ASSUME NEW ns \in Spaces, NEW e \in Expiries, NEW stored \in [Spaces -> SUBSET Expiries]
  PROVE  LET after == After1(stored, PutIn(ns, e))
         IN  /\ after \in [Spaces -> SUBSET Expiries]
             /\ after[ns] = stored[ns] \cup {e}
             /\ \A m \in Spaces : m # ns => after[m] = stored[m]
<1>1. PutIn(ns, e).ns = ns /\ PutIn(ns, e).op = "put" /\ PutIn(ns, e).expires = e
  BY DEF PutIn
<1>2. After1(stored, PutIn(ns, e)) = [stored EXCEPT ![ns] = stored[ns] \cup {e}]
  BY <1>1 DEF After1
<1> QED
  BY <1>2

\* One step of a call: what is left still fits what the store has become, and
\* the last one leaves what the call said.
StepHolds(c, after) ==
  /\ Len(c.steps) \in 1..3
  /\ after \in [Spaces -> SUBSET Expiries]
  /\ (Len(c.steps) = 1 /\ c.alone /\ c.leaves # Unknown) => Holds(after, c.leaves)
  /\ Len(c.steps) # 1 =>
       \A d : (d.steps = Tail(c.steps) /\ d.leaves = c.leaves /\ d.alone = c.alone)
                => Fits(d, after)

LEMMA StepFits ==
  ASSUME NEW c, NEW stored \in [Spaces -> SUBSET Expiries], Fits(c, stored)
  PROVE  StepHolds(c, After1(stored, Head(c.steps)))
<1> DEFINE after == After1(stored, Head(c.steps))
<1>o. ASSUME NEW ns \in Spaces
      PROVE  Other(ns) \in Spaces /\ Other(ns) # ns /\ \A m \in Spaces : m = ns \/ m = Other(ns)
  BY DEF Other, Spaces
<1>s. /\ "volatile" \in Spaces /\ "persistent" \in Spaces
      /\ \A m \in Spaces : m = "volatile" \/ m = "persistent"
  BY DEF Spaces
<1>1. ASSUME NEW ns \in Spaces, NEW e \in Expiries, FitsPut(c, stored, ns, e)
      PROVE  StepHolds(c, after)
  <2>1. CASE c.steps = <<RemoveFrom(Other(ns)), RemoveFrom(ns), PutIn(ns, e)>>
    <3>1. /\ Head(c.steps) = RemoveFrom(Other(ns)) /\ Len(c.steps) = 3
          /\ Tail(c.steps) = <<RemoveFrom(ns), PutIn(ns, e)>>
      BY <2>1
    <3>2. after \in [Spaces -> SUBSET Expiries] /\ after[Other(ns)] = {}
      BY <1>o, <3>1, RemoveDoes
    <3> HIDE DEF after
    <3>3. ASSUME NEW d, d.steps = Tail(c.steps), d.leaves = c.leaves, d.alone = c.alone
          PROVE  Fits(d, after)
      <4>1. FitsPut(d, after, ns, e)
        BY <1>1, <3>1, <3>2, <3>3 DEF FitsPut
      <4> QED
        BY <4>1 DEF Fits
    <3> QED
      BY <3>1, <3>2, <3>3 DEF StepHolds
  <2>2. CASE c.steps = <<RemoveFrom(ns), PutIn(ns, e)>> /\ (c.alone => stored[Other(ns)] = {})
    <3>1. /\ Head(c.steps) = RemoveFrom(ns) /\ Len(c.steps) = 2
          /\ Tail(c.steps) = <<PutIn(ns, e)>>
      BY <2>2
    <3>2. /\ after \in [Spaces -> SUBSET Expiries] /\ after[ns] = {}
          /\ after[Other(ns)] = stored[Other(ns)]
      BY <1>o, <3>1, RemoveDoes
    <3> HIDE DEF after
    <3>3. ASSUME NEW d, d.steps = Tail(c.steps), d.leaves = c.leaves, d.alone = c.alone
          PROVE  Fits(d, after)
      <4>1. FitsPut(d, after, ns, e)
        BY <1>1, <2>2, <3>1, <3>2, <3>3 DEF FitsPut
      <4> QED
        BY <4>1 DEF Fits
    <3> QED
      BY <3>1, <3>2, <3>3 DEF StepHolds
  <2>3. CASE c.steps = <<PutIn(ns, e)>> /\ (c.alone => stored[ns] = {} /\ stored[Other(ns)] = {})
    <3>1. Head(c.steps) = PutIn(ns, e) /\ Len(c.steps) = 1
      BY <2>3
    <3>2. /\ after \in [Spaces -> SUBSET Expiries] /\ after[ns] = stored[ns] \cup {e}
          /\ after[Other(ns)] = stored[Other(ns)]
      BY <1>o, <3>1, PutDoes
    <3> HIDE DEF after
    <3>3. c.leaves.ns = ns /\ c.leaves.expires = e
      BY <1>1 DEF FitsPut
    <3>4. c.alone => Holds(after, c.leaves)
      BY <1>o, <2>3, <3>2, <3>3 DEF Holds
    <3> QED
      BY <3>1, <3>2, <3>4 DEF StepHolds
  <2> QED
    BY <1>1, <2>1, <2>2, <2>3 DEF FitsPut
<1>2. ASSUME FitsRemove(c, stored) PROVE StepHolds(c, after)
  <2>1. CASE c.steps = <<RemoveFrom("volatile"), RemoveFrom("persistent")>>
    <3>1. /\ Head(c.steps) = RemoveFrom("volatile") /\ Len(c.steps) = 2
          /\ Tail(c.steps) = <<RemoveFrom("persistent")>>
      BY <2>1
    <3>2. after \in [Spaces -> SUBSET Expiries] /\ after["volatile"] = {}
      BY <1>s, <3>1, RemoveDoes
    <3> HIDE DEF after
    <3>3. ASSUME NEW d, d.steps = Tail(c.steps), d.leaves = c.leaves, d.alone = c.alone
          PROVE  Fits(d, after)
      <4>1. FitsRemove(d, after)
        BY <1>2, <3>1, <3>2, <3>3 DEF FitsRemove
      <4> QED
        BY <4>1 DEF Fits
    <3> QED
      BY <3>1, <3>2, <3>3 DEF StepHolds
  <2>2. CASE c.steps = <<RemoveFrom("persistent")>> /\ (c.alone => stored["volatile"] = {})
    <3>1. Head(c.steps) = RemoveFrom("persistent") /\ Len(c.steps) = 1
      BY <2>2
    <3>2. /\ after \in [Spaces -> SUBSET Expiries] /\ after["persistent"] = {}
          /\ after["volatile"] = stored["volatile"]
      BY <1>s, <3>1, RemoveDoes
    <3> HIDE DEF after
    <3>3. c.leaves.ns = "none"
      BY <1>2 DEF FitsRemove, Withdrawn
    <3>4. c.alone => Holds(after, c.leaves)
      BY <1>s, <2>2, <3>2, <3>3 DEF Holds
    <3> QED
      BY <3>1, <3>2, <3>4 DEF StepHolds
  <2> QED
    BY <1>2, <2>1, <2>2 DEF FitsRemove
<1>3. ASSUME FitsRetain(c, stored) PROVE StepHolds(c, after)
  <2>1. Head(c.steps) = RemoveFrom("volatile") /\ Len(c.steps) = 1
    BY <1>3 DEF FitsRetain
  <2>2. /\ after \in [Spaces -> SUBSET Expiries] /\ after["volatile"] = {}
        /\ after["persistent"] = stored["persistent"]
    BY <1>s, <2>1, RemoveDoes
  <2> HIDE DEF after
  <2>3. (c.alone /\ c.leaves # Unknown) => Holds(after, c.leaves)
    BY <1>3, <1>s, <2>2 DEF FitsRetain, Holds
  <2> QED
    BY <2>1, <2>2, <2>3 DEF StepHolds
<1> QED
  BY <1>1, <1>2, <1>3 DEF Fits

LEMMA TailIsSeq ==
  ASSUME NEW S, NEW s \in Seq(S), Len(s) \in 1..3
  PROVE  Tail(s) \in Seq(S)
<1>1. s # <<>>
  OBVIOUS
<1> QED
  BY <1>1

\* Done's step.  Where the call is not alone the store it leaves is nobody's
\* word; where it is, nobody else has steps left.
LEMMA DoneStepsStep ==
  ASSUME AltConstants, AltInv, NEW t \in AltTasks, DoneSteps(t)
  PROVE  AltInv'
<1> DEFINE c == altCall[t]
           d == [c EXCEPT !.steps = Tail(c.steps)]
           q == IF Len(c.steps) = 1 THEN NoCall ELSE d
<1>1. c \in CallType /\ Writing(t) /\ Fits(c, altStored) /\ altStored \in [Spaces -> SUBSET Expiries]
  BY DEF AltInv, AltTyped, DoneSteps
<1>2. altStored' = After1(altStored, Head(c.steps))
  BY DEF DoneSteps, After1
<1>3. StepHolds(c, altStored')
  BY <1>1, <1>2, StepFits
<1>4. /\ d \in CallType /\ d.pc = "writing" /\ d.alone = c.alone
      /\ d.steps = Tail(c.steps) /\ d.leaves = c.leaves
  <2>1. c.steps \in Seq(StepType) /\ Len(c.steps) \in 1..3
    BY <1>1, <1>3 DEF StepHolds, CallType
  <2>2. Tail(c.steps) \in Seq(StepType)
    BY <2>1, TailIsSeq
  <2>3. c.pc = "writing"
    BY <1>1 DEF Writing
  <2> HIDE DEF c
  <2> QED
    BY <1>1, <2>2, <2>3 DEF CallType
<1>5. NoCall \in CallType /\ NoCall.pc = "idle"
  BY AltConstants DEF NoCall, CallType, Spaces, Words, Expiries
<1>6. q \in CallType /\ (q.pc = "writing" => Fits(q, altStored') /\ q.alone = c.alone)
  BY <1>3, <1>4, <1>5 DEF StepHolds
<1>7. altCall' = [altCall EXCEPT ![t] = q]
  BY DEF DoneSteps
<1>8. settled' = IF Len(c.steps) = 1 /\ c.alone THEN c.leaves ELSE Unknown
  BY DEF DoneSteps
<1>9. altNow' = altNow
  BY DEF DoneSteps
<1>10. c.leaves \in Words
  BY <1>1 DEF CallType
<1> HIDE DEF q, d
<1>11. altCall \in [AltTasks -> CallType]
  BY DEF AltInv, AltTyped
<1>12. altCall'[t] = q /\ \A u \in AltTasks : u # t => altCall'[u] = altCall[u]
  BY <1>7, <1>11
<1>13. AltTyped'
  BY <1>3, <1>6, <1>7, <1>8, <1>9, <1>10, <1>11 DEF AltInv, AltTyped, StepHolds, Words
<1>14. LastWordIsKept'
  <2> SUFFICES ASSUME settled' # Unknown PROVE Holds(altStored', settled')
    BY DEF LastWordIsKept, Holds
  <2>1. Len(c.steps) = 1 /\ c.alone /\ settled' = c.leaves
    BY <1>8
  <2> QED
    BY <1>3, <2>1 DEF StepHolds
<1>15. ASSUME NEW u \in AltTasks, Writing(u)' PROVE Fits(altCall'[u], altStored')
  <2>1. CASE u = t
    BY <1>6, <1>12, <1>15, <2>1 DEF Writing
  <2>2. CASE u # t
    <3>1. Writing(u) /\ altCall'[u] = altCall[u]
      BY <1>12, <1>15, <2>2 DEF Writing
    <3>2. ~altCall[u].alone /\ altCall[u] \in CallType /\ Fits(altCall[u], altStored)
      BY <1>1, <1>11, <2>2, <3>1 DEF AltInv, AloneIsAlone
    <3> QED
      BY <3>1, <3>2, FitsAnyway
  <2> QED
    BY <2>1, <2>2
<1>16. AloneIsAlone'
  <2> SUFFICES ASSUME NEW u \in AltTasks, NEW v \in AltTasks,
                      Writing(u)', altCall'[u].alone, Writing(v)'
               PROVE  u = v
    BY DEF AloneIsAlone
  <2>1. Writing(u) /\ altCall[u].alone
    BY <1>1, <1>6, <1>12 DEF Writing
  <2>2. Writing(v)
    BY <1>1, <1>12 DEF Writing
  <2> QED
    BY <2>1, <2>2 DEF AltInv, AloneIsAlone
<1> QED
  BY <1>13, <1>14, <1>15, <1>16 DEF AltInv

LEMMA NoteStep ==
  ASSUME AltConstants, AltInv, NEW t \in AltTasks, NEW age \in MaxAges,
         NEW ns \in Spaces \cup {"none"}, Note(t, age, ns)
  PROVE  AltInv'
<1> DEFINE expires == altNow + (IF age < MaxLease THEN age ELSE MaxLease)
           call(steps, leaves) ==
             [pc |-> "writing", ns |-> "persistent", steps |-> steps, asked |-> altNow,
              leaves |-> leaves, alone |-> TRUE]
<1>1. ~Writing(t) /\ UNCHANGED <<altNow, altStored, settled>> /\ altNow \in 0..AltMaxTime
  BY DEF Note, Writing, AltInv, AltTyped
<1>2. expires \in Expiries /\ age \in Nat
  BY <1>1, AltConstants DEF Expiries
<1> HIDE DEF expires
<1>3. CASE ns = "none"
  <2>1. StartsWriting(t, altNow, RemoveSteps, Withdrawn)
    BY <1>3 DEF Note
  <2>2. RemoveSteps \in Seq(StepType) /\ Withdrawn \in Words
    BY StepsAreTyped, <1>2 DEF RemoveSteps, Words, Spaces
  <2>3. Fits(call(RemoveSteps, Withdrawn), altStored)
    BY DEF Fits, FitsRemove, RemoveSteps
  <2> QED
    BY <1>1, <2>1, <2>2, <2>3, StartsWritingStep
<1>4. CASE ns \in Spaces
  <2> DEFINE word == [ns |-> ns, expires |-> expires]
  <2>1. StartsWriting(t, altNow, PutSteps(ns, expires), word)
    BY <1>4 DEF Note, expires, Spaces
  <2>2. PutSteps(ns, expires) \in Seq(StepType) /\ word \in Words
    <3>1. /\ RemoveFrom(ns) \in StepType /\ RemoveFrom(Other(ns)) \in StepType
          /\ PutIn(ns, expires) \in StepType
      BY <1>2, <1>4, StepsAreTyped
    <3> QED
      BY <1>2, <1>4, <3>1 DEF PutSteps, Words
  <2>3. Fits(call(PutSteps(ns, expires), word), altStored)
    <3>1. FitsPut(call(PutSteps(ns, expires), word), altStored, ns, expires)
      BY DEF FitsPut, PutSteps
    <3> HIDE DEF call
    <3> QED
      BY <1>2, <1>4, <3>1 DEF Fits
  <2> HIDE DEF word
  <2> QED
    BY <1>1, <2>1, <2>2, <2>3, StartsWritingStep
<1> QED
  BY <1>3, <1>4

LEMMA AltNetworkChangedStep ==
  ASSUME AltConstants, AltInv, NEW t \in AltTasks, AltNetworkChanged(t)
  PROVE  AltInv'
<1> DEFINE word == IF settled.ns = "volatile" THEN Withdrawn ELSE settled
           call == [pc |-> "writing", ns |-> "persistent", steps |-> RetainSteps, asked |-> altNow,
                    leaves |-> word, alone |-> TRUE]
<1>1. ~Writing(t) /\ UNCHANGED <<altNow, altStored, settled>> /\ altNow \in 0..AltMaxTime
  BY DEF AltNetworkChanged, Writing, AltInv, AltTyped
<1>2. StartsWriting(t, altNow, RetainSteps, word)
  BY DEF AltNetworkChanged
<1>3. word \in Words /\ word.ns # "volatile"
  BY DEF AltInv, AltTyped, Words, Withdrawn
<1>4. RetainSteps \in Seq(StepType)
  <2>1. RemoveFrom("volatile") \in StepType
    BY AltConstants DEF RemoveFrom, StepType, Spaces, Expiries
  <2> QED
    BY <2>1 DEF RetainSteps
<1>5. word # Unknown =>
        altStored["persistent"] = IF word.ns = "persistent" THEN {word.expires} ELSE {}
  <2>1. "persistent" \in Spaces
    BY DEF Spaces
  <2>2. word # Unknown => settled # Unknown
    BY DEF Unknown
  <2> QED
    BY <2>1, <2>2 DEF AltInv, LastWordIsKept, Withdrawn
<1> HIDE DEF word
<1>6. Fits(call, altStored)
  <2>1. FitsRetain(call, altStored)
    BY <1>3, <1>5 DEF FitsRetain, RetainSteps
  <2> QED
    BY <2>1 DEF Fits
<1> QED
  BY <1>1, <1>2, <1>3, <1>4, <1>6, StartsWritingStep

LEMMA GetsStep ==
  ASSUME AltConstants, AltInv, NEW t \in AltTasks, Gets(t)
  PROVE  AltInv'
<1>1. /\ altCall[t] \in CallType /\ altCall[t].pc = "reading"
      /\ UNCHANGED <<altNow, altStored, settled>>
  BY DEF Gets, AltInv, AltTyped
<1>2. NoCall \in CallType /\ NoCall.pc = "idle"
  BY AltConstants DEF NoCall, CallType, Spaces, Words, Expiries
<1> DEFINE on == [altCall[t] EXCEPT !.ns = "volatile"]
<1>3. on \in CallType /\ on.pc = "reading"
  BY <1>1 DEF CallType, Spaces
<1> HIDE DEF on
<1>4. CASE altCall' = [altCall EXCEPT ![t] = NoCall]
  BY <1>1, <1>2, <1>4, CallTurns
<1>5. CASE altCall' = [altCall EXCEPT ![t] = on]
  BY <1>1, <1>3, <1>5, CallTurns
<1>6. CASE StartsWriting(t, altCall[t].asked, RemoveSteps, Withdrawn)
  <2>1. RemoveSteps \in Seq(StepType) /\ Withdrawn \in Words
    <3>1. RemoveFrom("volatile") \in StepType /\ RemoveFrom("persistent") \in StepType
      BY AltConstants DEF RemoveFrom, StepType, Spaces, Expiries
    <3> QED
      BY <3>1 DEF RemoveSteps, Words
  <2>2. altCall[t].asked \in 0..AltMaxTime /\ ~Writing(t)
    BY <1>1 DEF CallType, Writing
  <2>3. Fits([pc |-> "writing", ns |-> "persistent", steps |-> RemoveSteps,
              asked |-> altCall[t].asked, leaves |-> Withdrawn, alone |-> TRUE], altStored)
    BY DEF Fits, FitsRemove, RemoveSteps
  <2> QED
    BY <1>1, <1>6, <2>1, <2>2, <2>3, StartsWritingStep
<1> QED
  <2>1. CASE altStored[altCall[t].ns] = {}
    BY <1>4, <1>5, <2>1 DEF Gets, on
  <2>2. CASE altStored[altCall[t].ns] # {}
    BY <1>4, <1>6, <2>2 DEF Gets
  <2> QED
    BY <2>1, <2>2

LEMMA AltStep == AltInv /\ [AltNext]_altVars => AltInv'
<1> SUFFICES ASSUME AltInv, [AltNext]_altVars PROVE AltInv'
  OBVIOUS
<1> USE AltConstants
<1>1. NoCall \in CallType /\ NoCall.pc = "idle"
  BY DEF NoCall, CallType, Spaces, Words, Expiries
<1>2. ASSUME NEW t \in AltTasks, NEW age \in MaxAges, NEW ns \in Spaces \cup {"none"},
             Note(t, age, ns)
      PROVE  AltInv'
  BY <1>2, NoteStep
<1>3. ASSUME NEW t \in AltTasks, Asked(t) PROVE AltInv'
  <2> DEFINE q == [NoCall EXCEPT !.pc = "reading", !.asked = altNow]
  <2>1. altNow \in 0..AltMaxTime
    BY DEF AltInv, AltTyped
  <2>2. q \in CallType /\ q.pc = "reading"
    BY <1>1, <2>1 DEF CallType
  <2>3. altCall' = [altCall EXCEPT ![t] = q] /\ UNCHANGED <<altNow, altStored, settled>>
    BY <1>3 DEF Asked
  <2> HIDE DEF q
  <2> QED
    BY <2>2, <2>3, CallTurns
<1>4. ASSUME NEW t \in AltTasks, AltDropped(t) PROVE AltInv'
  BY <1>1, <1>4, CallTurns DEF AltDropped
<1>5. CASE AltTick
  <2>1. altNow' \in 0..AltMaxTime
    BY <1>5 DEF AltTick, AltInv, AltTyped
  <2> QED
    BY <1>5, <2>1 DEF AltTick, AltInv, AltTyped, AloneIsAlone, LastWordIsKept, Writing
<1>6. CASE UNCHANGED altVars
  BY <1>6 DEF altVars, AltInv, AltTyped, AloneIsAlone, LastWordIsKept, Writing
<1> QED
  BY <1>2, <1>3, <1>4, <1>5, <1>6, AltNetworkChangedStep, GetsStep, DoneStepsStep DEF AltNext

LEMMA AltPromise == AltInv => AltTypeOK /\ LastWordIsKept
<1> SUFFICES ASSUME AltInv PROVE AltTypeOK
  BY DEF AltInv
<1>1. ASSUME NEW t \in AltTasks, Writing(t) PROVE Len(altCall[t].steps) \in 1..3
  <2>1. Fits(altCall[t], altStored) /\ altStored \in [Spaces -> SUBSET Expiries]
    BY <1>1 DEF AltInv, AltTyped
  <2> QED
    BY <2>1, StepFits DEF StepHolds
<1> QED
  BY <1>1 DEF AltInv, AltTyped, AltTypeOK, Expiries

------------------------------------------------------------------------------
(* The HSTS hosts (hsts/mod.rs, hsts/kv.rs). *)

TaskType ==
  [pc : {"idle", "evicting", "removing", "writing", "forgetting", "clearing"},
   host : Domains \cup {"none"}, expired : SUBSET Domains,
   found : [Domains -> SUBSET Policies], policy : Policies]

HstsTyped ==
  /\ wall \in 0..HstsMaxTime
  /\ policies \in [Domains -> SUBSET Policies]
  /\ task \in [HstsTasks -> TaskType]
  /\ raced \subseteq Domains

\* The two halves of a put, and what is written under one name only.
Puts(x) == x.pc \in {"removing", "writing"}

\* A call: what it is about, and what it found expired.
TaskFits(x, stored, races, now) ==
  /\ x.pc \in {"removing", "writing", "forgetting"} => x.host \in Domains
  /\ x.pc = "writing" /\ x.host \notin races => stored[x.host] = {}
  /\ x.pc = "evicting" => \A d \in x.expired : \E p \in x.found[d] : p.expires <= now

OnePolicy == \A d \in Domains \ raced : \A p, q \in policies[d] : p = q

\* Two puts of one host at once are a race.
PutsRace ==
  \A t, u \in HstsTasks :
    (t # u /\ Puts(task[t]) /\ Puts(task[u]) /\ task[t].host = task[u].host)
      => task[t].host \in raced

HstsInv ==
  /\ HstsTyped /\ OnePolicy /\ PutsRace
  /\ \A t \in HstsTasks : TaskFits(task[t], policies, raced, wall)

LEMMA NoTaskFits ==
  /\ NoTask \in TaskType /\ NoTask.pc = "idle" /\ NoTask.host = "none"
  /\ NoTask.expired = {} /\ NoTask.found = [d \in Domains |-> {}]
  /\ ~Puts(NoTask) /\ \A stored, races, now : TaskFits(NoTask, stored, races, now)
<1>1. NoTask \in TaskType
  BY HstsConstants DEF NoTask, TaskType, Policies
<1>2. NoTask.pc = "idle" /\ NoTask.host = "none"
      /\ NoTask.expired = {} /\ NoTask.found = [d \in Domains |-> {}]
  BY DEF NoTask
<1> QED
  BY <1>1, <1>2 DEF Puts, TaskFits, NoTask

LEMMA HstsBegins == HstsInit => HstsInv
<1> SUFFICES ASSUME HstsInit PROVE HstsInv
  OBVIOUS
<1>1. HstsTyped
  BY NoTaskFits, HstsConstants DEF HstsInit, HstsTyped
<1>2. OnePolicy
  BY DEF HstsInit, OnePolicy
<1>3. \A t \in HstsTasks : task[t] = NoTask
  BY DEF HstsInit
<1> QED
  BY <1>1, <1>2, <1>3, NoTaskFits DEF HstsInv, PutsRace

\* One call goes on, and the policies of one domain change or none do.  What is
\* left is the other calls' business with that domain.
LEMMA TaskTurns ==
  ASSUME HstsInv, NEW t \in HstsTasks, NEW q \in TaskType,
         task' = [task EXCEPT ![t] = q],
         wall' = wall, policies' \in [Domains -> SUBSET Policies],
         raced' \subseteq Domains, raced \subseteq raced',
         OnePolicy', TaskFits(q, policies', raced', wall'),
         \A u \in HstsTasks : (u # t /\ task[u].pc = "writing" /\ task[u].host \notin raced')
                                => policies'[task[u].host] = {},
         Puts(q) => \A u \in HstsTasks :
                      (u # t /\ Puts(task[u]) /\ task[u].host = q.host) => q.host \in raced'
  PROVE  HstsInv'
<1>1. task \in [HstsTasks -> TaskType]
  BY DEF HstsInv, HstsTyped
<1>2. task'[t] = q /\ \A u \in HstsTasks : u # t => task'[u] = task[u]
  BY <1>1
<1>3. HstsTyped'
  BY <1>1 DEF HstsInv, HstsTyped
<1>4. ASSUME NEW u \in HstsTasks PROVE TaskFits(task'[u], policies', raced', wall')
  <2>1. CASE u = t
    BY <1>2, <2>1 DEF TaskFits
  <2>2. CASE u # t
    <3>1. TaskFits(task[u], policies, raced, wall) /\ task'[u] = task[u]
      BY <1>2, <2>2 DEF HstsInv
    <3> QED
      BY <2>2, <3>1 DEF TaskFits
  <2> QED
    BY <2>1, <2>2
<1>5. PutsRace'
  <2> SUFFICES ASSUME NEW u \in HstsTasks, NEW v \in HstsTasks, u # v,
                      Puts(task'[u]), Puts(task'[v]), task'[u].host = task'[v].host
               PROVE  task'[u].host \in raced'
    BY DEF PutsRace, Puts
  <2>1. CASE u = t
    BY <1>2, <2>1
  <2>2. CASE v = t
    BY <1>2, <2>2
  <2>3. CASE u # t /\ v # t
    BY <1>2, <2>3 DEF HstsInv, PutsRace
  <2> QED
    BY <2>1, <2>2, <2>3
<1> QED
  BY <1>3, <1>4, <1>5 DEF HstsInv

\* The same where the call is over, or only looked.
LEMMA TaskEnds ==
  ASSUME HstsInv, NEW t \in HstsTasks, NEW q \in TaskType, ~Puts(q), TaskFits(q, policies', raced', wall'),
         task' = [task EXCEPT ![t] = q],
         wall' = wall, raced' = raced, policies' \in [Domains -> SUBSET Policies],
         \A d \in Domains : policies'[d] = policies[d] \/ policies'[d] = {}
  PROVE  HstsInv'
<1>1. raced \subseteq Domains /\ OnePolicy /\ policies \in [Domains -> SUBSET Policies]
  BY DEF HstsInv, HstsTyped
<1>2. OnePolicy'
  <2> SUFFICES ASSUME NEW d \in Domains \ raced, NEW p \in policies'[d], NEW r \in policies'[d]
               PROVE  p = r
    BY DEF OnePolicy
  <2> QED
    BY <1>1 DEF OnePolicy
<1>3. ASSUME NEW u \in HstsTasks, u # t, task[u].pc = "writing", task[u].host \notin raced
      PROVE  policies'[task[u].host] = {}
  <2>1. TaskFits(task[u], policies, raced, wall)
    BY DEF HstsInv
  <2> QED
    BY <1>3, <2>1 DEF TaskFits
<1> QED
  BY <1>1, <1>2, <1>3, TaskTurns

LEMMA UpgradeReadsStep ==
  ASSUME HstsInv, NEW t \in HstsTasks, NEW h \in Domains, UpgradeReads(t, h)
  PROVE  HstsInv'
<1> DEFINE gone == {d \in Candidates(h) : \E p \in policies[d] : ExpiredAt(p, wall)}
           found == [d \in Domains |-> IF d \in gone THEN policies[d] ELSE {}]
           q == [NoTask EXCEPT !.pc = "evicting", !.host = h, !.expired = gone, !.found = found]
<1>1. task' = [task EXCEPT ![t] = IF gone = {} THEN NoTask ELSE q]
      /\ wall' = wall /\ policies' = policies /\ raced' = raced
  BY DEF UpgradeReads
<1>2. policies \in [Domains -> SUBSET Policies]
  BY DEF HstsInv, HstsTyped
<1>3. gone \subseteq Domains
  BY HstsConstants DEF Candidates
<1>4. found \in [Domains -> SUBSET Policies]
  BY <1>2
<1>5. \A d \in gone : \E p \in found[d] : p.expires <= wall
  BY <1>3 DEF ExpiredAt
<1> HIDE DEF gone, found
<1>6. q \in TaskType /\ q.pc = "evicting" /\ q.expired = gone /\ q.found = found
  BY <1>3, <1>4, NoTaskFits DEF TaskType
<1> HIDE DEF q
<1>7. TaskFits(q, policies', raced', wall') /\ ~Puts(q)
  BY <1>1, <1>5, <1>6 DEF TaskFits, Puts
<1>8. CASE gone = {}
  BY <1>1, <1>2, <1>8, NoTaskFits, TaskEnds
<1>9. CASE gone # {}
  BY <1>1, <1>2, <1>6, <1>7, <1>9, TaskEnds
<1> QED
  BY <1>8, <1>9

LEMMA EvictsOneStep ==
  ASSUME HstsInv, NEW t \in HstsTasks, NEW d \in Domains, EvictsOne(t, d)
  PROVE  HstsInv'
<1> DEFINE left == task[t].expired \ {d}
           q == [task[t] EXCEPT !.expired = left]
<1>1. task[t] \in TaskType /\ TaskFits(task[t], policies, raced, wall) /\ task[t].pc = "evicting"
      /\ policies \in [Domains -> SUBSET Policies]
  BY DEF HstsInv, HstsTyped, EvictsOne
<1>2. task' = [task EXCEPT ![t] = IF left = {} THEN NoTask ELSE q]
      /\ policies' = [policies EXCEPT ![d] = {}] /\ wall' = wall /\ raced' = raced
  BY DEF EvictsOne
<1>3. left \subseteq task[t].expired /\ left \subseteq Domains
  BY <1>1 DEF TaskType
<1> HIDE DEF left
<1>4. q \in TaskType /\ q.pc = "evicting" /\ q.expired = left /\ q.found = task[t].found
  BY <1>1, <1>3 DEF TaskType
<1> HIDE DEF q
<1>5. TaskFits(q, policies', raced', wall') /\ ~Puts(q)
  BY <1>1, <1>2, <1>3, <1>4 DEF TaskFits, Puts
<1>6. /\ policies' \in [Domains -> SUBSET Policies]
      /\ \A e \in Domains : policies'[e] = policies[e] \/ policies'[e] = {}
  BY <1>1, <1>2
<1>7. CASE left = {}
  BY <1>2, <1>6, <1>7, NoTaskFits, TaskEnds
<1>8. CASE left # {}
  BY <1>2, <1>4, <1>5, <1>6, <1>8, TaskEnds
<1> QED
  BY <1>7, <1>8

LEMMA NoteStartsStep ==
  ASSUME HstsInv, NEW t \in HstsTasks, NEW h \in Domains, NEW age \in 0..MaxAge,
         NEW sub \in BOOLEAN, NoteStarts(t, h, age, sub)
  PROVE  HstsInv'
<1> DEFINE policy == [expires |-> wall + age, subdomains |-> sub]
           q == [NoTask EXCEPT !.pc = IF age = 0 THEN "forgetting" ELSE "removing", !.host = h,
                               !.policy = policy]
<1>1. task' = [task EXCEPT ![t] = q] /\ wall' = wall /\ policies' = policies
      /\ raced' = IF \E u \in HstsTasks \ {t} : Writes(u, h) THEN raced \cup {h} ELSE raced
  BY DEF NoteStarts
<1>2. policy \in Policies
  <2>1. wall + age \in 0..(HstsMaxTime + MaxAge)
    BY HstsConstants DEF HstsInv, HstsTyped
  <2> QED
    BY <2>1 DEF Policies
<1> HIDE DEF policy
<1>3. q \in TaskType /\ q.pc \in {"forgetting", "removing"} /\ q.host = h
  BY <1>2, NoTaskFits DEF TaskType
<1> HIDE DEF q
<1>4. TaskFits(q, policies', raced', wall')
  BY <1>3 DEF TaskFits
<1>5. policies \in [Domains -> SUBSET Policies] /\ raced \subseteq Domains /\ OnePolicy
  BY DEF HstsInv, HstsTyped
<1>6. raced' \subseteq Domains /\ raced \subseteq raced' /\ OnePolicy'
  BY <1>1, <1>5 DEF OnePolicy
<1>7. ASSUME NEW u \in HstsTasks, u # t, Puts(task[u]), task[u].host = q.host PROVE q.host \in raced'
  BY <1>1, <1>3, <1>7 DEF Writes, Puts
<1>8. ASSUME NEW u \in HstsTasks, u # t, task[u].pc = "writing", task[u].host \notin raced'
      PROVE  policies'[task[u].host] = {}
  <2>1. TaskFits(task[u], policies, raced, wall) /\ task[u].host \notin raced
    BY <1>6, <1>8 DEF HstsInv
  <2> QED
    BY <1>1, <1>8, <2>1 DEF TaskFits
<1> QED
  BY ZenonT(60), <1>1, <1>3, <1>4, <1>5, <1>6, <1>7, <1>8, TaskTurns

LEMMA NoteRemovesStep ==
  ASSUME HstsInv, NEW t \in HstsTasks, NoteRemoves(t)
  PROVE  HstsInv'
<1> DEFINE q == [task[t] EXCEPT !.pc = "writing"]
           h == task[t].host
<1>1. task[t] \in TaskType /\ TaskFits(task[t], policies, raced, wall) /\ task[t].pc = "removing"
      /\ policies \in [Domains -> SUBSET Policies] /\ raced \subseteq Domains /\ OnePolicy
  BY DEF HstsInv, HstsTyped, NoteRemoves
<1>2. task' = [task EXCEPT ![t] = q] /\ wall' = wall /\ raced' = raced
      /\ policies' = [policies EXCEPT ![h] = {}]
  BY DEF NoteRemoves
<1>3. q \in TaskType /\ q.pc = "writing" /\ q.host = h /\ h \in Domains
  BY <1>1 DEF TaskType, TaskFits
<1> HIDE DEF q
<1>4. /\ policies' \in [Domains -> SUBSET Policies] /\ policies'[h] = {}
      /\ \A e \in Domains : e # h => policies'[e] = policies[e]
  BY <1>1, <1>2, <1>3
<1>5. TaskFits(q, policies', raced', wall')
  BY <1>3, <1>4 DEF TaskFits
<1>6. OnePolicy'
  <2> SUFFICES ASSUME NEW d \in Domains \ raced, NEW p \in policies'[d], NEW r \in policies'[d]
               PROVE  p = r
    BY <1>2 DEF OnePolicy
  <2> QED
    BY <1>1, <1>4 DEF OnePolicy
<1>7. ASSUME NEW u \in HstsTasks, u # t, task[u].pc = "writing", task[u].host \notin raced
      PROVE  policies'[task[u].host] = {}
  <2>1. TaskFits(task[u], policies, raced, wall)
    BY DEF HstsInv
  <2> QED
    BY <1>4, <1>7, <2>1 DEF TaskFits
<1>8. ASSUME NEW u \in HstsTasks, u # t, Puts(task[u]), task[u].host = q.host PROVE q.host \in raced
  BY <1>1, <1>3, <1>8 DEF HstsInv, PutsRace, Puts
<1> QED
  BY <1>1, <1>2, <1>3, <1>4, <1>5, <1>6, <1>7, <1>8, TaskTurns

LEMMA NoteWritesStep ==
  ASSUME HstsInv, NEW t \in HstsTasks, NoteWrites(t)
  PROVE  HstsInv'
<1> DEFINE h == task[t].host
           p == task[t].policy
<1>1. task[t] \in TaskType /\ TaskFits(task[t], policies, raced, wall) /\ task[t].pc = "writing"
      /\ policies \in [Domains -> SUBSET Policies] /\ raced \subseteq Domains /\ OnePolicy
  BY DEF HstsInv, HstsTyped, NoteWrites
<1>2. task' = [task EXCEPT ![t] = NoTask] /\ wall' = wall /\ raced' = raced
      /\ policies' = [policies EXCEPT ![h] = policies[h] \cup {p}]
  BY DEF NoteWrites
<1>3. p \in Policies /\ h \in Domains /\ (h \notin raced => policies[h] = {})
  BY <1>1 DEF TaskType, TaskFits
<1>4. /\ policies' \in [Domains -> SUBSET Policies] /\ policies'[h] = policies[h] \cup {p}
      /\ \A e \in Domains : e # h => policies'[e] = policies[e]
  BY <1>1, <1>2, <1>3
<1>5. OnePolicy'
  <2> SUFFICES ASSUME NEW d \in Domains \ raced, NEW x \in policies'[d], NEW y \in policies'[d]
               PROVE  x = y
    BY <1>2 DEF OnePolicy
  <2> QED
    BY <1>1, <1>3, <1>4 DEF OnePolicy
<1>6. ASSUME NEW u \in HstsTasks, u # t, task[u].pc = "writing", task[u].host \notin raced
      PROVE  policies'[task[u].host] = {}
  <2>1. TaskFits(task[u], policies, raced, wall)
    BY DEF HstsInv
  <2>2. task[u].host # h
    BY <1>1, <1>6 DEF HstsInv, PutsRace, Puts
  <2> QED
    BY <1>4, <1>6, <2>1, <2>2 DEF TaskFits
<1> QED
  BY ZenonT(60), <1>1, <1>2, <1>4, <1>5, <1>6, NoTaskFits, TaskTurns

LEMMA HstsStep == HstsInv /\ [HstsNext]_hstsVars => HstsInv'
<1> SUFFICES ASSUME HstsInv, [HstsNext]_hstsVars PROVE HstsInv'
  OBVIOUS
<1>1. /\ task \in [HstsTasks -> TaskType] /\ policies \in [Domains -> SUBSET Policies]
      /\ \A t \in HstsTasks : TaskFits(task[t], policies, raced, wall)
  BY DEF HstsInv, HstsTyped
<1>2. ASSUME NEW t \in HstsTasks, NoteForgets(t) PROVE HstsInv'
  <2>1. /\ task' = [task EXCEPT ![t] = NoTask] /\ wall' = wall /\ raced' = raced
        /\ policies' = [policies EXCEPT ![task[t].host] = {}]
    BY <1>2 DEF NoteForgets
  <2>2. /\ policies' \in [Domains -> SUBSET Policies]
        /\ \A e \in Domains : policies'[e] = policies[e] \/ policies'[e] = {}
    BY <1>1, <2>1
  <2> QED
    BY <2>1, <2>2, NoTaskFits, TaskEnds
<1>3. ASSUME NEW t \in HstsTasks, ClearStarts(t) PROVE HstsInv'
  <2> DEFINE q == [task[t] EXCEPT !.pc = "clearing"]
  <2>1. task' = [task EXCEPT ![t] = q] /\ wall' = wall /\ raced' = raced /\ policies' = policies
    BY <1>3 DEF ClearStarts
  <2>2. q \in TaskType /\ q.pc = "clearing"
    BY <1>1 DEF TaskType
  <2> HIDE DEF q
  <2>3. TaskFits(q, policies', raced', wall') /\ ~Puts(q)
    BY <2>2 DEF TaskFits, Puts
  <2> QED
    BY <1>1, <2>1, <2>2, <2>3, TaskEnds
<1>4. ASSUME NEW t \in HstsTasks, Clears(t) PROVE HstsInv'
  <2>1. /\ task' = [task EXCEPT ![t] = NoTask] /\ wall' = wall /\ raced' = raced
        /\ policies' = [d \in Domains |-> {}]
    BY <1>4 DEF Clears
  <2>2. /\ policies' \in [Domains -> SUBSET Policies]
        /\ \A e \in Domains : policies'[e] = {}
    BY <2>1
  <2> QED
    BY <2>1, <2>2, NoTaskFits, TaskEnds
<1>5. ASSUME NEW t \in HstsTasks, HstsDrop(t) PROVE HstsInv'
  <2>1. task' = [task EXCEPT ![t] = NoTask] /\ wall' = wall /\ raced' = raced /\ policies' = policies
    BY <1>5 DEF HstsDrop
  <2> QED
    BY <1>1, <2>1, NoTaskFits, TaskEnds
<1>6. CASE HstsTick
  <2>1. wall' \in 0..HstsMaxTime /\ wall <= wall' /\ wall \in Nat /\ wall' \in Nat
        /\ UNCHANGED <<policies, task, raced>>
    BY <1>6, HstsConstants DEF HstsTick, HstsInv, HstsTyped
  <2>2. ASSUME NEW t \in HstsTasks PROVE TaskFits(task[t], policies, raced, wall')
    <3>1. \A p \in Policies : p.expires \in Nat
      BY HstsConstants DEF Policies
    <3>2. \A d \in Domains : task[t].found[d] \subseteq Policies
      BY <1>1 DEF TaskType
    <3>3. task[t].expired \subseteq Domains
      BY <1>1 DEF TaskType
    <3> QED
      BY <1>1, <2>1, <3>1, <3>2, <3>3 DEF TaskFits
  <2> QED
    BY <2>1, <2>2 DEF HstsInv, HstsTyped, OnePolicy, PutsRace
<1>7. CASE UNCHANGED hstsVars
  BY <1>7 DEF hstsVars, HstsInv, HstsTyped, OnePolicy, PutsRace
<1> QED
  BY <1>2, <1>3, <1>4, <1>5, <1>6, <1>7, UpgradeReadsStep, EvictsOneStep, NoteStartsStep,
     NoteRemovesStep, NoteWritesStep DEF HstsNext

LEMMA HstsPromise == HstsInv => HstsTypeOK
<1> SUFFICES ASSUME HstsInv, NEW d \in Domains \ raced PROVE Cardinality(policies[d]) <= 1
  BY DEF HstsInv, HstsTyped, HstsTypeOK
<1>1. \A p, q \in policies[d] : p = q
  BY DEF HstsInv, OnePolicy
<1>2. CASE policies[d] = {}
  BY <1>2, FS_EmptySet
<1>3. CASE policies[d] # {}
  <2>1. PICK p : p \in policies[d]
    BY <1>3
  <2>2. policies[d] = {p}
    BY <1>1, <2>1
  <2> QED
    BY SMTT(30), <2>2, FS_Singleton
<1> QED
  BY <1>2, <1>3

\* What a step takes away, it takes away for one of the reasons.
Lapses ==
  \A h \in Domains :
    (wall' = wall /\ Known(h, policies) /\ ~Known(h, policies')) =>
      \E d \in Candidates(h) :
        \/ \E t \in HstsTasks : Writes(t, d) /\ task'[t] # task[t]
        \/ d \in raced
        \/ \E t \in HstsTasks : /\ task[t].pc = "evicting" /\ d \in task[t].expired
                                /\ task[t].found[d] # policies[d]

LEMMA LapseHasAReason == HstsInv /\ [HstsNext]_hstsVars => [Lapses]_hstsVars
<1> SUFFICES ASSUME HstsInv, HstsNext, NEW h \in Domains,
                    wall' = wall, Known(h, policies), ~Known(h, policies')
             PROVE  \E d \in Candidates(h) :
                      \/ \E t \in HstsTasks : Writes(t, d) /\ task'[t] # task[t]
                      \/ d \in raced
                      \/ \E t \in HstsTasks : /\ task[t].pc = "evicting" /\ d \in task[t].expired
                                              /\ task[t].found[d] # policies[d]
  BY DEF Lapses
<1>0. PICK d \in Candidates(h) :
        \E x \in policies[d] : ~ExpiredAt(x, wall) /\ (d = h \/ x.subdomains)
  BY DEF Known
<1>1. PICK p \in policies[d] : ~ExpiredAt(p, wall) /\ (d = h \/ p.subdomains)
  BY <1>0
<1>2. p \notin policies'[d]
  BY <1>1 DEF Known, ExpiredAt
<1>3. d \in Domains /\ policies \in [Domains -> SUBSET Policies] /\ task \in [HstsTasks -> TaskType]
  BY HstsConstants DEF Candidates, HstsInv, HstsTyped
<1>4. policies' # policies
  BY <1>1, <1>2
<1>5. ASSUME NEW t \in HstsTasks, NEW e \in Domains, EvictsOne(t, e)
      PROVE  d \in raced \/ (task[t].pc = "evicting" /\ d \in task[t].expired
                              /\ task[t].found[d] # policies[d])
  <2>1. e = d
    BY <1>1, <1>2, <1>3, <1>5 DEF EvictsOne
  <2>2. task[t].pc = "evicting" /\ d \in task[t].expired
    BY <1>5, <2>1 DEF EvictsOne
  <2>3. TaskFits(task[t], policies, raced, wall)
    BY DEF HstsInv
  <2>4. PICK q \in task[t].found[d] : q.expires <= wall
    BY <2>2, <2>3 DEF TaskFits
  <2>5. q # p
    BY <1>1, <2>4 DEF ExpiredAt
  <2> QED
    BY <1>1, <1>3, <2>2, <2>4, <2>5 DEF HstsInv, OnePolicy
<1>6. ASSUME NEW t \in HstsTasks, NoteForgets(t) \/ NoteRemoves(t)
      PROVE  Writes(t, d) /\ task'[t] # task[t]
  <2>1. policies' = [policies EXCEPT ![task[t].host] = {}]
    BY <1>6 DEF NoteForgets, NoteRemoves
  <2>2. task[t].host = d
    BY <1>1, <1>2, <1>3, <2>1
  <2>3. task'[t].pc # task[t].pc
    <3>1. CASE NoteForgets(t)
      BY <1>3, <3>1, NoTaskFits DEF NoteForgets
    <3>2. CASE NoteRemoves(t)
      <4>1. task[t] \in TaskType /\ task' = [task EXCEPT ![t] = [task[t] EXCEPT !.pc = "writing"]]
        BY <1>3, <3>2 DEF NoteRemoves
      <4>2. task'[t].pc = "writing"
        BY <1>3, <4>1 DEF TaskType
      <4> QED
        BY <3>2, <4>2 DEF NoteRemoves
    <3> QED
      BY <1>6, <3>1, <3>2
  <2> QED
    BY <1>6, <2>2, <2>3 DEF Writes, NoteForgets, NoteRemoves
<1>7. ASSUME NEW t \in HstsTasks, Clears(t) PROVE Writes(t, d) /\ task'[t] # task[t]
  BY <1>3, <1>7, NoTaskFits DEF Writes, Clears
<1>8. ASSUME NEW t \in HstsTasks, NoteWrites(t) PROVE FALSE
  BY SMTT(30), <1>1, <1>2, <1>3, <1>8 DEF NoteWrites
<1>9. (\E t \in HstsTasks :
         \/ \E e \in Domains : EvictsOne(t, e)
         \/ NoteForgets(t) \/ NoteRemoves(t) \/ NoteWrites(t) \/ Clears(t))
  BY <1>4 DEF HstsNext, UpgradeReads, NoteStarts, ClearStarts, HstsDrop, HstsTick
<1> QED
  BY <1>1, <1>5, <1>6, <1>7, <1>8, <1>9

------------------------------------------------------------------------------
(* Routing, the race of QUIC and TCP, and the memory of failed connects
   (route.rs, race.rs, failures.rs). *)

RoutePCs == {"idle", "dns", "advert", "race", "quic", "via", "path", "viaConnect", "tcp", "done"}

RequestType ==
  [pc : RoutePCs, demand : {"none", "h3", "other"}, bound : Nat \cup {Unbounded},
   budget : Nat \cup {Unbounded}, began : 0..RouteMaxTime, start : 0..RouteMaxTime,
   fallback : BOOLEAN, hedge : {"asleep", "connecting", "failed"}, wonRace : BOOLEAN,
   used : {"none", "h3", "tcp", "error"}]

\* Where a request may be, given where requests go and whether HTTP/3 is built.
PlaceFits(q, s) ==
  /\ q.pc \in {"race", "quic"} => s.arm /\ s.egress = "direct"
  /\ q.pc \in {"via", "path", "viaConnect"} => s.arm /\ s.egress = "datagrams"
  /\ q.pc = "dns" => s.egress = "direct"
  /\ q.pc = "advert" => s.egress = "direct" \/ (s.arm /\ s.egress = "datagrams")
  /\ q.used = "h3" => s.arm /\ s.egress # "stream"

\* What the demanded version leaves open.
DemandFits(q) ==
  /\ q.pc # "done" => q.used = "none"
  /\ q.pc = "race" => q.fallback
  /\ q.pc \in {"dns", "advert"} => q.demand = "none"
  /\ q.demand = "h3" => ~q.fallback /\ q.pc \notin {"tcp", "race"} /\ q.used # "tcp"
  /\ q.demand = "other" => q.pc \in {"tcp", "done"} /\ q.used # "h3"

\* The times of a request: until QUIC has failed the bound is whole, and what is
\* left of it afterwards ends where the whole did.
TimeFits(q, now) ==
  /\ q.began <= now /\ q.start <= now
  /\ q.budget = Unbounded <=> q.bound = Unbounded
  /\ q.pc \in {"dns", "advert", "race", "quic", "via"} => q.budget = q.bound
  /\ q.pc \in {"dns", "advert", "race", "via", "path", "viaConnect"} => ~q.wonRace
  /\ Connects(q) => q.start <= q.began
  /\ Connects(q) /\ q.bound # Unbounded =>
       /\ now <= q.began + q.budget
       /\ q.began + q.budget <= q.start + Granted(q)

RequestFits(q, now, s) == PlaceFits(q, s) /\ DemandFits(q) /\ TimeFits(q, now)

RouteTyped ==
  /\ clock \in 0..RouteMaxTime
  /\ setup \in [arm : BOOLEAN, hedge : BOOLEAN, egress : {"direct", "stream", "datagrams"}]
  /\ heldUntil \in 0..(RouteMaxTime + FailureTtl)
  /\ rq \in [RouteReqs -> RequestType]

RouteInv ==
  /\ RouteTyped
  /\ \A r \in RouteReqs : RequestFits(rq[r], clock, setup)

LEMMA NoRequestFits ==
  /\ NoRequest \in RequestType
  /\ \A s : \A now \in Nat : RequestFits(NoRequest, now, s)
<1>1. NoRequest \in RequestType
  BY RouteConstants DEF NoRequest, RequestType, RoutePCs
<1>2. /\ NoRequest.pc = "idle" /\ NoRequest.demand = "none" /\ NoRequest.bound = Unbounded
      /\ NoRequest.budget = Unbounded /\ NoRequest.began = 0 /\ NoRequest.start = 0
      /\ NoRequest.used = "none"
  BY DEF NoRequest
<1> QED
  BY <1>1, <1>2 DEF RequestFits, PlaceFits, DemandFits, TimeFits, Connects

LEMMA RouteBegins == RouteInit => RouteInv
<1> SUFFICES ASSUME RouteInit PROVE RouteInv
  OBVIOUS
<1>1. RouteTyped
  BY NoRequestFits, RouteConstants DEF RouteInit, RouteTyped
<1>2. \A r \in RouteReqs : rq[r] = NoRequest
  BY DEF RouteInit
<1>3. clock \in Nat
  BY DEF RouteInit
<1> QED
  BY <1>1, <1>2, <1>3, NoRequestFits DEF RouteInv

\* One request goes on.
LEMMA RequestTurns ==
  ASSUME RouteInv, NEW r \in RouteReqs, NEW q \in RequestType, RequestFits(q, clock, setup),
         Move(r, q), clock' = clock, setup' = setup,
         heldUntil' \in 0..(RouteMaxTime + FailureTtl)
  PROVE  RouteInv' /\ rq'[r] = q /\ \A u \in RouteReqs : u # r => rq'[u] = rq[u]
<1>1. rq \in [RouteReqs -> RequestType]
  BY DEF RouteInv, RouteTyped
<1>2. rq' = [rq EXCEPT ![r] = q]
  BY DEF Move
<1>3. rq'[r] = q /\ \A u \in RouteReqs : u # r => rq'[u] = rq[u]
  BY <1>1, <1>2
<1>4. RouteTyped'
  BY <1>1, <1>2 DEF RouteInv, RouteTyped
<1>5. \A u \in RouteReqs : RequestFits(rq'[u], clock', setup')
  BY <1>3 DEF RouteInv
<1> QED
  BY <1>3, <1>4, <1>5 DEF RouteInv

\* What a failed connect or a question leaves of the memory.
LEMMA MemoryFits ==
  ASSUME RouteInv
  PROVE  /\ NoteFailure => heldUntil' \in 0..(RouteMaxTime + FailureTtl)
         /\ Asks => heldUntil' \in 0..(RouteMaxTime + FailureTtl)
         /\ heldUntil' = heldUntil => heldUntil' \in 0..(RouteMaxTime + FailureTtl)
         /\ clock \in 0..RouteMaxTime /\ clock \in Nat
BY RouteConstants DEF RouteInv, RouteTyped, NoteFailure, Asks

LEMMA LeftIs ==
  ASSUME NEW b \in Nat \cup {Unbounded}, NEW spent \in Nat
  PROVE  /\ Left(b, spent) \in Nat \cup {Unbounded}
         /\ Left(b, spent) = Unbounded <=> b = Unbounded
         /\ b \in Nat => /\ Left(b, spent) = 0 <=> spent >= b
                         /\ spent < b => Left(b, spent) = b - spent
BY RouteConstants DEF Left

\* The moves of a request, field by field.
LEMMA ToIs ==
  ASSUME RouteInv, NEW q \in RequestType, NEW p \in RoutePCs
  PROVE  LET n == To(q, p)
         IN  /\ n \in RequestType
             /\ n.pc = p /\ n.began = clock /\ n.demand = q.demand /\ n.bound = q.bound
             /\ n.budget = q.budget /\ n.start = q.start /\ n.fallback = q.fallback
             /\ n.hedge = q.hedge /\ n.wonRace = q.wonRace /\ n.used = q.used
<1>1. clock \in 0..RouteMaxTime
  BY MemoryFits
<1> QED
  BY <1>1 DEF To, RequestType

LEMMA AnswerIs ==
  ASSUME NEW q \in RequestType, NEW with \in {"h3", "tcp", "error"}
  PROVE  LET n == Answer(q, with)
         IN  /\ n \in RequestType
             /\ n.pc = "done" /\ n.used = with /\ n.began = q.began /\ n.demand = q.demand
             /\ n.bound = q.bound /\ n.budget = q.budget /\ n.start = q.start
             /\ n.fallback = q.fallback /\ n.hedge = q.hedge /\ n.wonRace = q.wonRace
BY ZenonT(60) DEF Answer, RequestType, RoutePCs

LEMMA TcpIs ==
  ASSUME RouteInv, NEW q \in RequestType, NEW left \in Nat \cup {Unbounded}
  PROVE  LET n == [Tcp(q) EXCEPT !.budget = left]
             m == Tcp(q)
         IN  /\ n \in RequestType /\ m \in RequestType
             /\ n.pc = "tcp" /\ n.began = clock /\ n.demand = q.demand /\ n.bound = q.bound
             /\ n.budget = left /\ n.start = (IF Connects(q) THEN q.start ELSE clock)
             /\ n.fallback = q.fallback /\ n.wonRace = q.wonRace /\ n.used = q.used
             /\ m.pc = "tcp" /\ m.began = clock /\ m.demand = q.demand /\ m.bound = q.bound
             /\ m.budget = q.budget /\ m.start = (IF Connects(q) THEN q.start ELSE clock)
             /\ m.fallback = q.fallback /\ m.wonRace = q.wonRace /\ m.used = q.used
<1> DEFINE x == To(q, "tcp")
           start == IF Connects(q) THEN q.start ELSE clock
           m == [x EXCEPT !.start = start]
           n == [m EXCEPT !.budget = left]
<1>1. x \in RequestType /\ x.start = q.start
      /\ x.pc = "tcp" /\ x.began = clock /\ x.demand = q.demand /\ x.bound = q.bound
      /\ x.budget = q.budget /\ x.fallback = q.fallback /\ x.wonRace = q.wonRace /\ x.used = q.used
  BY ToIs DEF RoutePCs
<1>2. start \in 0..RouteMaxTime
  BY MemoryFits DEF RequestType
<1>3. Tcp(q) = m
  BY <1>1 DEF Tcp
<1> HIDE DEF x, start
<1>4. m \in RequestType /\ m.start = start
      /\ m.pc = "tcp" /\ m.began = clock /\ m.demand = q.demand /\ m.bound = q.bound
      /\ m.budget = q.budget /\ m.fallback = q.fallback /\ m.wonRace = q.wonRace /\ m.used = q.used
  BY <1>1, <1>2 DEF RequestType
<1> HIDE DEF m
<1>5. n \in RequestType /\ n.start = start
      /\ n.pc = "tcp" /\ n.began = clock /\ n.demand = q.demand /\ n.bound = q.bound
      /\ n.budget = left /\ n.fallback = q.fallback /\ n.wonRace = q.wonRace /\ n.used = q.used
  BY <1>4 DEF RequestType
<1> QED
  BY <1>3, <1>4, <1>5 DEF start

\* A request that has connected to nothing yet has its whole bound.
Fresh(q) ==
  /\ q \in RequestType /\ ~Connects(q) /\ q.pc # "done"
  /\ q.budget = q.bound /\ ~q.wonRace /\ q.used = "none"
  /\ q.start <= clock

LEMMA TcpFits ==
  ASSUME RouteInv, NEW q, Fresh(q), q.demand # "h3"
  PROVE  Tcp(q) \in RequestType /\ RequestFits(Tcp(q), clock, setup)
<1> DEFINE m == Tcp(q)
<1>0. q \in RequestType /\ q.bound \in Nat \cup {Unbounded} /\ q.budget = q.bound
  BY DEF Fresh, RequestType
<1>1. /\ m \in RequestType
      /\ m.pc = "tcp" /\ m.began = clock /\ m.demand = q.demand /\ m.bound = q.bound
      /\ m.budget = q.bound /\ m.start = clock
      /\ m.fallback = q.fallback /\ m.wonRace = q.wonRace /\ m.used = "none"
  BY <1>0, TcpIs DEF Fresh
<1> HIDE DEF m
<1>2. PlaceFits(m, setup) /\ DemandFits(m)
  BY <1>1 DEF PlaceFits, DemandFits
<1>3. TimeFits(m, clock)
  BY <1>0, <1>1, MemoryFits DEF TimeFits, Granted
<1> QED
  BY <1>1, <1>2, <1>3 DEF RequestFits, m

LEMMA AskFits ==
  ASSUME RouteInv, NEW q, Fresh(q), NEW p \in {"dns", "advert"}, q.demand = "none",
         p = "dns" => setup.egress = "direct",
         p = "advert" => setup.egress = "direct" \/ (setup.arm /\ setup.egress = "datagrams")
  PROVE  To(q, p) \in RequestType /\ RequestFits(To(q, p), clock, setup)
<1> DEFINE m == To(q, p)
<1>0. q \in RequestType /\ p \in RoutePCs
  BY DEF Fresh, RoutePCs
<1>1. /\ m \in RequestType
      /\ m.pc = p /\ m.began = clock /\ m.demand = "none" /\ m.bound = q.bound
      /\ m.budget = q.bound /\ m.start = q.start /\ m.wonRace = FALSE /\ m.used = "none"
  BY <1>0, ToIs DEF Fresh, RequestType
<1> HIDE DEF m
<1>2. PlaceFits(m, setup) /\ DemandFits(m)
  BY <1>1 DEF PlaceFits, DemandFits
<1>3. ~Connects(m)
  BY <1>1 DEF Connects
<1>4. TimeFits(m, clock)
  BY <1>1, <1>3, MemoryFits DEF TimeFits, Fresh
<1> QED
  BY <1>1, <1>2, <1>4 DEF RequestFits, m

\* QUIC begins, on its own, in the race, or through a filter.
LEMMA QuicFits ==
  ASSUME RouteInv, NEW q, Fresh(q), NEW p \in {"race", "quic", "via"}, NEW f \in BOOLEAN,
         q.demand # "other", q.demand = "h3" => ~f, p = "race" => f, setup.arm,
         setup.egress = IF p = "via" THEN "datagrams" ELSE "direct"
  PROVE  LET n == [To(q, p) EXCEPT !.fallback = f, !.start = clock]
         IN  n \in RequestType /\ RequestFits(n, clock, setup)
<1> DEFINE m == To(q, p)
           n == [m EXCEPT !.fallback = f, !.start = clock]
<1>0. q \in RequestType /\ p \in RoutePCs /\ q.bound \in Nat \cup {Unbounded}
  BY DEF Fresh, RoutePCs, RequestType
<1>1. /\ m \in RequestType
      /\ m.pc = p /\ m.began = clock /\ m.demand = q.demand /\ m.bound = q.bound
      /\ m.budget = q.bound /\ m.wonRace = FALSE /\ m.used = "none"
  BY <1>0, ToIs DEF Fresh, RequestType
<1> HIDE DEF m
<1>2. /\ n \in RequestType
      /\ n.pc = p /\ n.began = clock /\ n.demand = q.demand /\ n.bound = q.bound
      /\ n.budget = q.bound /\ n.wonRace = FALSE /\ n.used = "none"
      /\ n.fallback = f /\ n.start = clock
  BY <1>1, MemoryFits DEF RequestType
<1> HIDE DEF n
<1>3. PlaceFits(n, setup)
  BY <1>2 DEF PlaceFits
<1>4. DemandFits(n)
  BY <1>2 DEF DemandFits
<1>5. TimeFits(n, clock)
  BY <1>0, <1>2, MemoryFits DEF TimeFits, Granted
<1> QED
  BY <1>2, <1>3, <1>4, <1>5 DEF RequestFits, m, n

LEMMA ServeQuicFits ==
  ASSUME RouteInv, NEW q, Fresh(q), NEW f \in BOOLEAN,
         q.demand # "other", q.demand = "h3" => ~f, setup.arm, setup.egress = "direct"
  PROVE  ServeQuic(q, f) \in RequestType /\ RequestFits(ServeQuic(q, f), clock, setup)
<1>1. CASE setup.hedge /\ f /\ RaceHasRoom(q)
  BY <1>1, QuicFits DEF ServeQuic
<1>2. CASE ~(setup.hedge /\ f /\ RaceHasRoom(q))
  BY <1>2, QuicFits DEF ServeQuic
<1> QED
  BY <1>1, <1>2

LEMMA QuicViaFits ==
  ASSUME RouteInv, NEW q, Fresh(q), NEW f \in BOOLEAN,
         q.demand # "other", q.demand = "h3" => ~f, setup.arm, setup.egress = "datagrams"
  PROVE  QuicVia(q, f) \in RequestType /\ RequestFits(QuicVia(q, f), clock, setup)
BY QuicFits DEF QuicVia

\* An answer.
LEMMA AnswerFits ==
  ASSUME RouteInv, NEW q \in RequestType, NEW with \in {"h3", "tcp", "error"},
         TimeFits(q, clock) \/ (q.began <= clock /\ q.start <= clock /\ q.budget = q.bound),
         q.demand = "h3" => with # "tcp" /\ ~q.fallback, q.demand = "other" => with # "h3",
         with = "h3" => setup.arm /\ setup.egress # "stream"
  PROVE  Answer(q, with) \in RequestType /\ RequestFits(Answer(q, with), clock, setup)
<1> DEFINE n == Answer(q, with)
<1>1. /\ n \in RequestType
      /\ n.pc = "done" /\ n.used = with /\ n.began = q.began /\ n.demand = q.demand
      /\ n.bound = q.bound /\ n.budget = q.budget /\ n.start = q.start
      /\ n.fallback = q.fallback
  BY AnswerIs
<1> HIDE DEF n
<1>2. PlaceFits(n, setup) /\ DemandFits(n)
  BY <1>1 DEF PlaceFits, DemandFits
<1>3. ~Connects(n)
  BY <1>1 DEF Connects
<1>4. TimeFits(n, clock)
  BY <1>1, <1>3 DEF TimeFits
<1> QED
  BY <1>1, <1>2, <1>4 DEF RequestFits, n

\* The fall-back to TCP: what is left ends where the bound did, and where
\* nothing is left the bound is over.
LEMMA FallBackFits ==
  ASSUME RouteInv, NEW q \in RequestType, Connects(q), q.demand = "none", q.used = "none",
         q.began <= clock, q.start <= q.began,
         q.budget = Unbounded <=> q.bound = Unbounded,
         q.bound # Unbounded => q.began + q.budget <= q.start + Granted(q)
  PROVE  LET n == AfterQuicFailed(q, clock - q.began)
         IN  /\ n \in RequestType /\ RequestFits(n, clock, setup)
             /\ n.used = "error" => q.budget # Unbounded /\ clock - q.began >= q.budget
<1> DEFINE spent == clock - q.began
           left == Left(q.budget, spent)
           n == [Tcp(q) EXCEPT !.budget = left]
<1>0. /\ q.began \in Nat /\ q.start \in Nat /\ q.bound \in Nat \cup {Unbounded}
      /\ q.budget \in Nat \cup {Unbounded} /\ clock \in Nat
  BY MemoryFits DEF RequestType
<1>1. spent \in Nat /\ q.began + spent = clock
  BY <1>0
<1> HIDE DEF spent
<1>2. /\ left \in Nat \cup {Unbounded}
      /\ left = Unbounded <=> q.budget = Unbounded
      /\ q.budget \in Nat => /\ left = 0 <=> spent >= q.budget
                             /\ spent < q.budget => left = q.budget - spent
  BY <1>0, <1>1, LeftIs
<1>3. Unbounded # 0
  BY RouteConstants
<1> HIDE DEF left
<1>4. CASE left = 0
  <2>1. q.budget # Unbounded /\ spent >= q.budget
    BY <1>0, <1>2, <1>3, <1>4
  <2>2. AfterQuicFailed(q, spent) = Answer(q, "error")
    BY <1>4 DEF AfterQuicFailed, left
  <2>3. q.start <= clock
    BY <1>0
  <2>4. Answer(q, "error") \in RequestType /\ RequestFits(Answer(q, "error"), clock, setup)
    <3> DEFINE m == Answer(q, "error")
    <3>1. /\ m \in RequestType
          /\ m.pc = "done" /\ m.used = "error" /\ m.began = q.began /\ m.demand = "none"
          /\ m.bound = q.bound /\ m.budget = q.budget /\ m.start = q.start
      BY AnswerIs
    <3> HIDE DEF m
    <3>2. ~Connects(m)
      BY <3>1 DEF Connects
    <3>3. RequestFits(m, clock, setup)
      BY <2>3, <3>1, <3>2 DEF RequestFits, PlaceFits, DemandFits, TimeFits
    <3> QED
      BY <3>1, <3>3 DEF m
  <2> QED
    BY <2>1, <2>2, <2>4 DEF spent
<1>5. CASE left # 0
  <2>1. AfterQuicFailed(q, spent) = n
    BY <1>5 DEF AfterQuicFailed, left
  <2>2. /\ n \in RequestType
        /\ n.pc = "tcp" /\ n.began = clock /\ n.demand = "none" /\ n.bound = q.bound
        /\ n.budget = left /\ n.start = q.start
        /\ n.fallback = q.fallback /\ n.wonRace = q.wonRace /\ n.used = "none"
    <3>1. left \in Nat \cup {Unbounded} /\ q \in RequestType
      BY <1>2
    <3> HIDE DEF n
    <3>2. /\ n \in RequestType
          /\ n.pc = "tcp" /\ n.began = clock /\ n.demand = q.demand /\ n.bound = q.bound
          /\ n.budget = left /\ n.start = (IF Connects(q) THEN q.start ELSE clock)
          /\ n.fallback = q.fallback /\ n.wonRace = q.wonRace /\ n.used = q.used
      BY ZenonT(60), <3>1, TcpIs DEF n
    <3> QED
      BY <3>2
  <2> HIDE DEF n
  <2>3. PlaceFits(n, setup) /\ DemandFits(n)
    BY <2>2 DEF PlaceFits, DemandFits
  <2>4. q.bound # Unbounded =>
          /\ q.bound \in Nat /\ q.budget \in Nat /\ left \in Nat
          /\ left = q.budget - spent
    BY <1>0, <1>1, <1>2, <1>5
  <2>6. Granted(n) = Granted(q)
    BY <2>2 DEF Granted
  <2>5. TimeFits(n, clock)
    <3>1. q.bound # Unbounded => Granted(q) \in Nat
      BY <2>4 DEF Granted
    <3> QED
      BY <1>0, <1>1, <1>2, <2>2, <2>4, <2>6, <3>1 DEF TimeFits
  <2> QED
    BY <2>1, <2>2, <2>3, <2>5 DEF RequestFits, spent
<1> QED
  BY <1>4, <1>5

\* What QUIC's failure may do to a request that was free to use TCP.
Justified(r) ==
  LET q == rq[r] IN
  (q.pc \in {"race", "quic", "via", "viaConnect"} /\ rq'[r].used = "error" /\ q.fallback)
    => q.bound # Unbounded /\ clock - q.start >= q.bound

\* A step of r: the invariant, and the others left alone.
Steps(r) ==
  /\ RouteInv' /\ Justified(r)
  /\ \A u \in RouteReqs : u # r => rq'[u] = rq[u]

LEMMA RequestIs ==
  ASSUME RouteInv, NEW r \in RouteReqs
  PROVE  /\ rq[r] \in RequestType /\ RequestFits(rq[r], clock, setup)
         /\ PlaceFits(rq[r], setup) /\ DemandFits(rq[r]) /\ TimeFits(rq[r], clock)
         /\ rq[r].pc \in {"dns", "advert"} => Fresh(rq[r])
<1>1. /\ rq[r] \in RequestType /\ RequestFits(rq[r], clock, setup)
      /\ PlaceFits(rq[r], setup) /\ DemandFits(rq[r]) /\ TimeFits(rq[r], clock)
  BY DEF RouteInv, RouteTyped, RequestFits
<1> QED
  BY <1>1 DEF Fresh, DemandFits, TimeFits, Connects

\* Steps that end in no error: nothing is to be justified.
LEMMA PlainStep ==
  ASSUME RouteInv, NEW r \in RouteReqs, NEW q \in RequestType, RequestFits(q, clock, setup),
         Move(r, q), clock' = clock, setup' = setup, NoteFailure \/ Asks \/ heldUntil' = heldUntil,
         (rq[r].pc \in {"race", "quic", "via", "viaConnect"} /\ q.used = "error" /\ rq[r].fallback)
           => rq[r].bound # Unbounded /\ clock - rq[r].start >= rq[r].bound
  PROVE  Steps(r)
<1>1. heldUntil' \in 0..(RouteMaxTime + FailureTtl)
  BY MemoryFits
<1>2. RouteInv' /\ rq'[r] = q /\ \A u \in RouteReqs : u # r => rq'[u] = rq[u]
  BY <1>1, RequestTurns
<1> QED
  BY <1>2 DEF Steps, Justified

\* A request that may fall back was asked for no version.
LEMMA MayFallBack ==
  ASSUME NEW q \in RequestType, DemandFits(q), q.fallback, Connects(q), q.pc # "tcp"
  PROVE  q.demand = "none" /\ q.used = "none"
BY DEF DemandFits, Connects, RequestType

LEMMA ConnectFailedFits ==
  ASSUME RouteInv, NEW q \in RequestType, RequestFits(q, clock, setup), q.pc \in {"race", "quic"}
  PROVE  LET n == IF q.fallback THEN AfterQuicFailed(q, clock - q.began) ELSE Answer(q, "error")
         IN  /\ n \in RequestType /\ RequestFits(n, clock, setup)
             /\ (n.used = "error" /\ q.fallback) =>
                  q.bound # Unbounded /\ clock - q.start >= q.bound
<1>0. /\ q.began \in Nat /\ q.start \in Nat /\ q.bound \in Nat \cup {Unbounded} /\ clock \in Nat
      /\ q.budget \in Nat \cup {Unbounded}
  BY MemoryFits DEF RequestType
<1>1. DemandFits(q) /\ TimeFits(q, clock) /\ Connects(q) /\ q.pc # "tcp"
  BY DEF RequestFits, Connects
<1>2. /\ q.began <= clock /\ q.start <= q.began /\ q.budget = q.bound
      /\ (q.bound # Unbounded => q.began + q.budget <= q.start + Granted(q))
  BY <1>1 DEF TimeFits
<1>3. CASE q.fallback
  <2>1. q.demand = "none" /\ q.used = "none"
    BY <1>1, <1>3, MayFallBack
  <2> DEFINE n == AfterQuicFailed(q, clock - q.began)
  <2>2. /\ n \in RequestType /\ RequestFits(n, clock, setup)
        /\ n.used = "error" => q.budget # Unbounded /\ clock - q.began >= q.budget
    BY <1>1, <1>2, <2>1, FallBackFits
  <2> HIDE DEF n
  <2>3. n.used = "error" => q.bound # Unbounded /\ clock - q.start >= q.bound
    BY <1>0, <1>2, <2>2
  <2> QED
    BY <1>3, <2>2, <2>3 DEF n
<1>4. CASE ~q.fallback
  <2>1. Answer(q, "error") \in RequestType /\ RequestFits(Answer(q, "error"), clock, setup)
    BY <1>1, <1>4, AnswerFits DEF DemandFits
  <2> QED
    BY <1>4, <2>1
<1> QED
  BY <1>3, <1>4

LEMMA SwitchFits ==
  ASSUME RouteInv, NEW q \in RequestType, RequestFits(q, clock, setup),
         q.pc \in {"via", "path", "viaConnect"}
  PROVE  /\ Switch(q) \in RequestType /\ RequestFits(Switch(q), clock, setup)
         /\ (Switch(q).used = "error" /\ q.fallback) =>
              q.bound # Unbounded /\ clock - q.start >= q.bound
<1> DEFINE w == [q EXCEPT !.budget = q.bound, !.began = q.start]
<1>0. /\ q.began \in Nat /\ q.start \in Nat /\ q.bound \in Nat \cup {Unbounded} /\ clock \in Nat
      /\ q.budget \in Nat \cup {Unbounded} /\ q.start \in 0..RouteMaxTime
  BY MemoryFits DEF RequestType
<1>1. DemandFits(q) /\ TimeFits(q, clock) /\ q.pc # "tcp"
  BY DEF RequestFits
<1>2. /\ w \in RequestType /\ w.budget = q.bound /\ w.bound = q.bound /\ w.began = q.start
      /\ w.start = q.start /\ w.pc = q.pc /\ w.demand = q.demand /\ w.used = q.used
      /\ w.fallback = q.fallback /\ w.wonRace = q.wonRace
  BY <1>0 DEF RequestType
<1>3. Switch(q) = ConnectFailed(w)
  BY DEF Switch
<1> HIDE DEF w
<1>4. Connects(w) /\ Connects(q) /\ w.began <= clock /\ w.start <= w.began
      /\ (w.bound # Unbounded => w.began + w.budget <= w.start + Granted(w))
  BY <1>0, <1>1, <1>2 DEF TimeFits, Connects, Granted
<1>5. CASE q.fallback
  <2>1. w.demand = "none" /\ w.used = "none"
    BY <1>1, <1>2, <1>4, <1>5, MayFallBack
  <2> DEFINE n == AfterQuicFailed(w, clock - w.began)
  <2>2. /\ n \in RequestType /\ RequestFits(n, clock, setup)
        /\ n.used = "error" => w.budget # Unbounded /\ clock - w.began >= w.budget
    BY <1>2, <1>4, <2>1, FallBackFits
  <2>3. Switch(q) = n
    BY <1>2, <1>3, <1>5 DEF ConnectFailed
  <2> HIDE DEF n
  <2> QED
    BY <1>2, <2>2, <2>3
<1>6. CASE ~q.fallback
  <2>1. Switch(q) = Answer(w, "error")
    BY <1>2, <1>3, <1>6 DEF ConnectFailed
  <2>2. Answer(w, "error") \in RequestType /\ RequestFits(Answer(w, "error"), clock, setup)
    BY <1>1, <1>2, <1>4, <1>6, AnswerFits DEF DemandFits
  <2> QED
    BY <1>6, <2>1, <2>2
<1> QED
  BY <1>5, <1>6

LEMMA RoutedStep ==
  ASSUME RouteInv, NEW r \in RouteReqs, NEW demand \in {"none", "h3", "other"},
         NEW bound \in RouteBounds \cup {Unbounded}, NEW https \in BOOLEAN,
         Routed(r, demand, bound, https)
  PROVE  Steps(r)
<1> DEFINE q == [NoRequest EXCEPT !.demand = demand, !.bound = bound, !.budget = bound]
<1>1. q \in RequestType /\ q.demand = demand /\ q.bound = bound /\ q.budget = bound /\ q.pc = "idle"
      /\ q.wonRace = FALSE /\ q.used = "none" /\ q.start = 0 /\ q.fallback = FALSE /\ q.began = 0
  BY RouteConstants, NoRequestFits DEF RequestType, NoRequest
<1>2. Fresh(q)
  BY <1>1, MemoryFits DEF Fresh, Connects
<1>3. /\ rq[r].pc = "idle"
      /\ \/ demand # "none" /\ Move(r, Demanded(q))
         \/ demand = "none" /\ Filtered
            /\ Move(r, IF setup.egress = "datagrams" /\ setup.arm /\ https THEN To(q, "advert") ELSE Tcp(q))
         \/ demand = "none" /\ ~Filtered
            /\ \E to \in {"dns", "advert"} : Move(r, IF https THEN To(q, to) ELSE Tcp(q))
      /\ clock' = clock /\ setup' = setup /\ heldUntil' = heldUntil
  BY DEF Routed
<1> HIDE DEF q
<1>4. ASSUME NEW n \in RequestType, RequestFits(n, clock, setup), Move(r, n) PROVE Steps(r)
  BY <1>3, <1>4, PlainStep
<1>5. CASE demand # "none"
  <2>1. CASE demand = "other"
    <3>1. Demanded(q) = Tcp(q)
      BY <1>1, <2>1 DEF Demanded
    <3> QED
      BY <1>1, <1>2, <1>3, <1>4, <1>5, <2>1, <3>1, TcpFits
  <2>2. CASE demand = "h3"
    <3>1. Answer(q, "error") \in RequestType /\ RequestFits(Answer(q, "error"), clock, setup)
      <4>1. q.began <= clock /\ q.start <= clock
        BY <1>1, MemoryFits
      <4> QED
        BY <1>1, <2>2, <4>1, AnswerFits
    <3>2. CASE Filtered /\ (setup.egress # "datagrams" \/ ~setup.arm)
      <4>1. Demanded(q) = Answer(q, "error")
        <5>1. q.demand = "h3" /\ q.demand # "other"
          BY <1>1, <2>2
        <5>2. CASE setup.egress # "datagrams"
          BY <3>2, <5>1, <5>2 DEF Demanded
        <5>3. CASE ~setup.arm
          BY <3>2, <5>1, <5>3 DEF Demanded
        <5> QED
          BY <3>2, <5>2, <5>3
      <4> QED
        BY <1>3, <1>4, <1>5, <3>1, <4>1
    <3>3. CASE Filtered /\ setup.egress = "datagrams" /\ setup.arm
      <4>1. Demanded(q) = QuicVia(q, FALSE)
        BY <1>1, <2>2, <3>3 DEF Demanded
      <4> QED
        BY <1>1, <1>2, <1>3, <1>4, <1>5, <2>2, <3>3, <4>1, QuicViaFits
    <3>4. CASE ~Filtered /\ ~setup.arm
      <4>1. Demanded(q) = Answer(q, "error")
        BY <1>1, <2>2, <3>4 DEF Demanded
      <4> QED
        BY <1>3, <1>4, <1>5, <3>1, <4>1
    <3>5. CASE ~Filtered /\ setup.arm
      <4>1. Demanded(q) = ServeQuic(q, FALSE) /\ setup.egress = "direct"
        BY <1>1, <2>2, <3>5 DEF Demanded, Filtered
      <4> QED
        BY <1>1, <1>2, <1>3, <1>4, <1>5, <2>2, <3>5, <4>1, ServeQuicFits
    <3> QED
      BY <3>2, <3>3, <3>4, <3>5
  <2> QED
    BY <1>5, <2>1, <2>2
<1>6. CASE demand = "none"
  <2>1. Tcp(q) \in RequestType /\ RequestFits(Tcp(q), clock, setup)
    BY <1>1, <1>2, <1>6, TcpFits
  <2>2. CASE Filtered /\ setup.egress = "datagrams" /\ setup.arm
    <3>1. To(q, "advert") \in RequestType /\ RequestFits(To(q, "advert"), clock, setup)
      BY <1>1, <1>2, <1>6, <2>2, AskFits
    <3> QED
      BY <1>3, <1>4, <1>6, <2>1, <2>2, <3>1
  <2>3. CASE Filtered /\ ~(setup.egress = "datagrams" /\ setup.arm)
    BY <1>3, <1>4, <1>6, <2>1, <2>3
  <2>4. CASE ~Filtered
    <3>1. ASSUME NEW to \in {"dns", "advert"}
          PROVE  To(q, to) \in RequestType /\ RequestFits(To(q, to), clock, setup)
      BY <1>1, <1>2, <1>6, <2>4, AskFits DEF Filtered
    <3> QED
      BY <1>3, <1>4, <1>6, <2>1, <2>4, <3>1
  <2> QED
    BY <2>2, <2>3, <2>4
<1> QED
  BY <1>5, <1>6

LEMMA QuicUnlessItFailedStep ==
  ASSUME RouteInv, NEW r \in RouteReqs, rq[r].pc \in {"dns", "advert"}, ~Filtered,
         QuicUnlessItFailed(r), clock' = clock, setup' = setup
  PROVE  Steps(r)
<1>1. Fresh(rq[r]) /\ rq[r].demand = "none"
  BY RequestIs DEF DemandFits
<1>2. Tcp(rq[r]) \in RequestType /\ RequestFits(Tcp(rq[r]), clock, setup)
  BY <1>1, TcpFits
<1>3. setup.arm => /\ ServeQuic(rq[r], TRUE) \in RequestType
                   /\ RequestFits(ServeQuic(rq[r], TRUE), clock, setup)
  BY <1>1, ServeQuicFits DEF Filtered
<1>4. Asks \/ heldUntil' = heldUntil
  BY DEF QuicUnlessItFailed
<1>5. CASE setup.arm /\ ~HeldOff
  BY <1>3, <1>4, <1>5, PlainStep DEF QuicUnlessItFailed
<1>6. CASE ~(setup.arm /\ ~HeldOff)
  BY <1>2, <1>4, <1>6, PlainStep DEF QuicUnlessItFailed
<1> QED
  BY <1>5, <1>6

LEMMA RecordAnswersStep ==
  ASSUME RouteInv, NEW r \in RouteReqs, NEW offers \in {"h3", "other", "none"},
         RecordAnswers(r, offers)
  PROVE  Steps(r)
<1>1. rq[r].pc = "dns" /\ clock' = clock /\ setup' = setup
  BY DEF RecordAnswers
<1>2. Fresh(rq[r]) /\ rq[r].demand = "none" /\ setup.egress = "direct"
  BY <1>1, RequestIs DEF DemandFits, PlaceFits
<1>3. CASE offers = "h3"
  <2>1. QuicUnlessItFailed(r)
    BY <1>3 DEF RecordAnswers
  <2>2. ~Filtered
    BY <1>2 DEF Filtered
  <2> QED
    BY <1>1, <2>1, <2>2, QuicUnlessItFailedStep
<1>4. CASE offers = "other"
  <2>1. Tcp(rq[r]) \in RequestType /\ RequestFits(Tcp(rq[r]), clock, setup)
    BY <1>2, TcpFits
  <2>2. Move(r, Tcp(rq[r])) /\ heldUntil' = heldUntil
    BY <1>4 DEF RecordAnswers
  <2> QED
    BY <1>1, <2>1, <2>2, PlainStep
<1>5. CASE offers = "none"
  <2>1. To(rq[r], "advert") \in RequestType /\ RequestFits(To(rq[r], "advert"), clock, setup)
    BY <1>2, AskFits
  <2>2. Move(r, To(rq[r], "advert")) /\ heldUntil' = heldUntil
    BY <1>5 DEF RecordAnswers
  <2> QED
    BY <1>1, <2>1, <2>2, PlainStep
<1> QED
  BY <1>3, <1>4, <1>5

LEMMA ByAdvertisementStep ==
  ASSUME RouteInv, NEW r \in RouteReqs, ByAdvertisement(r)
  PROVE  Steps(r)
<1>1. rq[r].pc = "advert" /\ clock' = clock /\ setup' = setup
  BY DEF ByAdvertisement
<1>2. /\ Fresh(rq[r]) /\ rq[r].demand = "none"
      /\ setup.egress = "direct" \/ (setup.arm /\ setup.egress = "datagrams")
  BY <1>1, RequestIs DEF DemandFits, PlaceFits
<1>3. Tcp(rq[r]) \in RequestType /\ RequestFits(Tcp(rq[r]), clock, setup)
  BY <1>2, TcpFits
<1>4. CASE ~advertised
  <2>1. Move(r, Tcp(rq[r])) /\ heldUntil' = heldUntil
    BY <1>4 DEF ByAdvertisement
  <2> QED
    BY <1>1, <1>3, <2>1, PlainStep
<1>5. CASE advertised /\ ~Filtered
  BY <1>1, <1>5, QuicUnlessItFailedStep DEF ByAdvertisement
<1>6. CASE advertised /\ Filtered
  <2>1. setup.arm /\ setup.egress = "datagrams"
    BY <1>2, <1>6 DEF Filtered
  <2>2. QuicVia(rq[r], TRUE) \in RequestType /\ RequestFits(QuicVia(rq[r], TRUE), clock, setup)
    BY <1>2, <2>1, QuicViaFits
  <2>3. Asks /\ (Move(r, Tcp(rq[r])) \/ Move(r, QuicVia(rq[r], TRUE)))
    BY <1>6 DEF ByAdvertisement
  <2>4. CASE Move(r, Tcp(rq[r]))
    BY <1>1, <1>3, <2>3, <2>4, PlainStep
  <2>5. CASE Move(r, QuicVia(rq[r], TRUE))
    BY <1>1, <2>2, <2>3, <2>5, PlainStep
  <2> QED
    BY <2>3, <2>4, <2>5
<1> QED
  BY <1>4, <1>5, <1>6

LEMMA OverQuicStep ==
  ASSUME RouteInv, NEW r \in RouteReqs, NEW connects \in BOOLEAN, OverQuic(r, connects)
  PROVE  Steps(r)
<1> DEFINE q == rq[r]
<1>1. q.pc = "quic" /\ clock' = clock /\ setup' = setup
  BY DEF OverQuic
<1>2. q \in RequestType /\ RequestFits(q, clock, setup) /\ DemandFits(q) /\ TimeFits(q, clock)
      /\ setup.arm /\ setup.egress = "direct"
  BY <1>1, RequestIs DEF PlaceFits
<1>3. CASE connects
  <2>1. Move(r, Answer(q, "h3")) /\ heldUntil' = heldUntil
    BY <1>3 DEF OverQuic
  <2>2. Answer(q, "h3") \in RequestType /\ RequestFits(Answer(q, "h3"), clock, setup)
    BY <1>1, <1>2, AnswerFits DEF DemandFits
  <2>3. Answer(q, "h3").used = "h3"
    BY <1>2, AnswerIs
  <2> QED
    BY <1>1, <2>1, <2>2, <2>3, PlainStep
<1>4. CASE ~connects
  <2>1. Move(r, ConnectFailed(q)) /\ NoteFailure
    BY <1>4 DEF OverQuic
  <2>2. /\ ConnectFailed(q) \in RequestType /\ RequestFits(ConnectFailed(q), clock, setup)
        /\ (ConnectFailed(q).used = "error" /\ q.fallback) =>
             q.bound # Unbounded /\ clock - q.start >= q.bound
    BY <1>1, <1>2, ConnectFailedFits DEF ConnectFailed
  <2> QED
    BY <1>1, <2>1, <2>2, PlainStep
<1> QED
  BY <1>3, <1>4

LEMMA ViaConnectsStep ==
  ASSUME RouteInv, NEW r \in RouteReqs, NEW connects \in BOOLEAN, ViaConnects(r, connects)
  PROVE  Steps(r)
<1> DEFINE q == rq[r]
<1>1. q.pc = "viaConnect" /\ clock' = clock /\ setup' = setup
  BY DEF ViaConnects
<1>2. q \in RequestType /\ RequestFits(q, clock, setup) /\ DemandFits(q) /\ TimeFits(q, clock)
      /\ setup.arm /\ setup.egress = "datagrams"
  BY <1>1, RequestIs DEF PlaceFits
<1>3. CASE connects
  <2>1. Move(r, Answer(q, "h3")) /\ heldUntil' = heldUntil
    BY <1>3 DEF ViaConnects
  <2>2. Answer(q, "h3") \in RequestType /\ RequestFits(Answer(q, "h3"), clock, setup)
    BY <1>1, <1>2, AnswerFits DEF DemandFits
  <2>3. Answer(q, "h3").used = "h3"
    BY <1>2, AnswerIs
  <2> QED
    BY <1>1, <2>1, <2>2, <2>3, PlainStep
<1>4. CASE ~connects
  <2>1. Move(r, Switch(q)) /\ NoteFailure
    BY <1>4 DEF ViaConnects
  <2> QED
    BY <1>1, <1>2, <2>1, SwitchFits, PlainStep
<1> QED
  BY <1>3, <1>4

LEMMA PathFailsStep ==
  ASSUME RouteInv, NEW r \in RouteReqs, NEW final \in BOOLEAN, PathFails(r, final)
  PROVE  Steps(r)
<1> DEFINE q == rq[r]
<1>1. q.pc = "path" /\ clock' = clock /\ setup' = setup
  BY DEF PathFails
<1>2. q \in RequestType /\ RequestFits(q, clock, setup) /\ DemandFits(q) /\ TimeFits(q, clock)
  BY RequestIs
<1>3. CASE final
  <2>1. Move(r, Answer(q, "error")) /\ heldUntil' = heldUntil
    BY <1>3 DEF PathFails
  <2>2. Answer(q, "error") \in RequestType /\ RequestFits(Answer(q, "error"), clock, setup)
    BY <1>1, <1>2, AnswerFits DEF DemandFits
  <2> QED
    BY <1>1, <2>1, <2>2, PlainStep
<1>4. CASE ~final
  <2>1. Move(r, Switch(q)) /\ NoteFailure
    BY <1>4 DEF PathFails
  <2> QED
    BY <1>1, <1>2, <2>1, SwitchFits, PlainStep
<1> QED
  BY <1>3, <1>4

\* A connect goes on to its next phase with what the bound has left.
LEMMA NextPhaseFits ==
  ASSUME RouteInv, NEW q \in RequestType, RequestFits(q, clock, setup),
         NEW p \in {"path", "viaConnect"}, q.pc \in {"via", "path"},
         NEW left \in Nat \cup {Unbounded}, left = Unbounded <=> q.bound = Unbounded,
         q.bound # Unbounded => clock + left <= q.start + q.bound
  PROVE  LET n == [To(q, p) EXCEPT !.budget = left]
         IN  n \in RequestType /\ RequestFits(n, clock, setup) /\ n.used = "none"
<1> DEFINE m == To(q, p)
           n == [m EXCEPT !.budget = left]
<1>0. /\ q.start \in Nat /\ q.bound \in Nat \cup {Unbounded} /\ clock \in Nat
      /\ PlaceFits(q, setup) /\ DemandFits(q) /\ TimeFits(q, clock) /\ p \in RoutePCs
  BY MemoryFits DEF RequestType, RequestFits, RoutePCs
<1>1. /\ m \in RequestType
      /\ m.pc = p /\ m.began = clock /\ m.demand = q.demand /\ m.bound = q.bound
      /\ m.start = q.start /\ m.wonRace = q.wonRace /\ m.used = q.used /\ m.fallback = q.fallback
  BY <1>0, ToIs
<1> HIDE DEF m
<1>2. /\ n \in RequestType
      /\ n.pc = p /\ n.began = clock /\ n.demand = q.demand /\ n.bound = q.bound
      /\ n.start = q.start /\ n.wonRace = q.wonRace /\ n.used = q.used /\ n.fallback = q.fallback
      /\ n.budget = left
  BY <1>1 DEF RequestType
<1> HIDE DEF n
<1>3. PlaceFits(n, setup)
  BY <1>0, <1>2 DEF PlaceFits
<1>4. DemandFits(n) /\ n.used = "none"
  BY <1>0, <1>2 DEF DemandFits
<1>5. TimeFits(n, clock)
  BY <1>0, <1>2 DEF TimeFits, Granted
<1> QED
  BY <1>2, <1>3, <1>4, <1>5 DEF RequestFits, m, n

LEMMA ViaAsksStep ==
  ASSUME RouteInv, NEW r \in RouteReqs, NEW says \in {"pooled", "refused", "needsPath"},
         ViaAsks(r, says)
  PROVE  Steps(r)
<1> DEFINE q == rq[r]
<1>1. q.pc = "via" /\ clock' = clock /\ setup' = setup
  BY DEF ViaAsks
<1>2. q \in RequestType /\ RequestFits(q, clock, setup) /\ DemandFits(q) /\ TimeFits(q, clock)
      /\ setup.arm /\ setup.egress = "datagrams"
  BY <1>1, RequestIs DEF PlaceFits
<1>3. CASE says = "pooled"
  <2>1. Move(r, Answer(q, "h3")) /\ heldUntil' = heldUntil
    BY <1>3 DEF ViaAsks
  <2>2. Answer(q, "h3") \in RequestType /\ RequestFits(Answer(q, "h3"), clock, setup)
    BY <1>1, <1>2, AnswerFits DEF DemandFits
  <2>3. Answer(q, "h3").used = "h3"
    BY <1>2, AnswerIs
  <2> QED
    BY <1>1, <2>1, <2>2, <2>3, PlainStep
<1>4. CASE says = "refused"
  <2>1. Move(r, Switch(q)) /\ NoteFailure
    BY <1>4 DEF ViaAsks
  <2> QED
    BY <1>1, <1>2, <2>1, SwitchFits, PlainStep
<1>5. CASE says = "needsPath"
  <2> DEFINE left == Left(q.budget, clock - q.began)
             n == [To(q, "path") EXCEPT !.budget = left]
  <2>1. Move(r, n) /\ heldUntil' = heldUntil
    <3>1. q.budget = To(q, "path").budget
      BY <1>2, ToIs DEF RoutePCs
    <3> QED
      BY <1>5, <3>1 DEF ViaAsks
  <2>2. /\ q.began \in Nat /\ q.start \in Nat /\ q.bound \in Nat \cup {Unbounded} /\ clock \in Nat
        /\ q.budget = q.bound /\ clock - q.began \in Nat
        /\ q.bound # Unbounded => clock <= q.began + q.bound /\ q.began + q.bound <= q.start + q.bound
    BY <1>1, <1>2, MemoryFits DEF RequestType, TimeFits, Connects, Granted
  <2>3. /\ left \in Nat \cup {Unbounded} /\ (left = Unbounded <=> q.bound = Unbounded)
        /\ q.bound \in Nat => /\ left = 0 <=> clock - q.began >= q.bound
                              /\ clock - q.began < q.bound => left = q.bound - (clock - q.began)
    BY SMTT(30), <2>2, LeftIs
  <2> HIDE DEF left
  <2>4. q.bound # Unbounded => clock + left <= q.start + q.bound
    BY <2>2, <2>3
  <2>5. n \in RequestType /\ RequestFits(n, clock, setup) /\ n.used = "none"
    BY <1>1, <1>2, <2>3, <2>4, NextPhaseFits
  <2> HIDE DEF n
  <2> QED
    BY <1>1, <2>1, <2>5, PlainStep
<1> QED
  BY <1>3, <1>4, <1>5

LEMMA PathOpensStep ==
  ASSUME RouteInv, NEW r \in RouteReqs, PathOpens(r)
  PROVE  Steps(r)
<1> DEFINE q == rq[r]
           left == Left(q.bound, clock - q.start)
           n == [To(q, "viaConnect") EXCEPT !.budget = left]
<1>1. q.pc = "path" /\ clock' = clock /\ setup' = setup
      /\ IF left = 0 THEN Move(r, Switch(q)) /\ NoteFailure
                     ELSE Move(r, n) /\ heldUntil' = heldUntil
  BY DEF PathOpens
<1>2. q \in RequestType /\ RequestFits(q, clock, setup) /\ TimeFits(q, clock)
  BY RequestIs
<1>3. CASE left = 0
  BY <1>1, <1>2, <1>3, SwitchFits, PlainStep
<1>4. CASE left # 0
  <2>1. /\ q.start \in Nat /\ q.bound \in Nat \cup {Unbounded} /\ clock \in Nat /\ clock - q.start \in Nat
    BY <1>2, MemoryFits DEF RequestType, TimeFits
  <2>2. /\ left \in Nat \cup {Unbounded} /\ (left = Unbounded <=> q.bound = Unbounded)
        /\ q.bound \in Nat => /\ left = 0 <=> clock - q.start >= q.bound
                              /\ clock - q.start < q.bound => left = q.bound - (clock - q.start)
    BY <2>1, LeftIs
  <2> HIDE DEF left
  <2>3. q.bound # Unbounded => clock + left <= q.start + q.bound
    BY <1>4, <2>1, <2>2
  <2>4. n \in RequestType /\ RequestFits(n, clock, setup) /\ n.used = "none"
    BY <1>1, <1>2, <2>2, <2>3, NextPhaseFits
  <2> HIDE DEF n
  <2> QED
    BY <1>1, <1>4, <2>4, PlainStep
<1> QED
  BY <1>3, <1>4

LEMMA RaceStep ==
  ASSUME RouteInv, NEW r \in RouteReqs,
         HedgeStarts(r) \/ RaceQuicWins(r) \/ RaceQuicFails(r) \/ HedgeWins(r) \/ HedgeFails(r)
  PROVE  Steps(r)
<1> DEFINE q == rq[r]
<1>1. q.pc = "race" /\ clock' = clock /\ setup' = setup
  BY DEF HedgeStarts, RaceQuicWins, RaceQuicFails, HedgeWins, HedgeFails
<1>2. q \in RequestType /\ RequestFits(q, clock, setup) /\ PlaceFits(q, setup) /\ DemandFits(q)
      /\ TimeFits(q, clock) /\ rq \in [RouteReqs -> RequestType]
  BY RequestIs DEF RouteInv, RouteTyped
<1>3. q.fallback /\ q.demand = "none" /\ q.used = "none" /\ Connects(q)
  BY <1>1, <1>2 DEF DemandFits, Connects, RequestType
<1>4. /\ q.began \in Nat /\ q.start \in Nat /\ q.bound \in Nat \cup {Unbounded} /\ clock \in Nat
      /\ q.budget = q.bound /\ q.began <= clock /\ q.start <= q.began
      /\ q.bound # Unbounded => clock <= q.began + q.bound /\ q.began + q.bound <= q.start + q.bound
  BY <1>1, <1>2, <1>3, MemoryFits DEF RequestType, TimeFits, Granted
<1>5. ASSUME NEW h \in {"connecting", "failed"}, rq' = [rq EXCEPT ![r].hedge = h], heldUntil' = heldUntil
      PROVE  Steps(r)
  <2> DEFINE n == [q EXCEPT !.hedge = h]
  <2>1. Move(r, n)
    BY <1>5 DEF Move
  <2>2. /\ n \in RequestType
        /\ n.pc = q.pc /\ n.began = q.began /\ n.demand = q.demand /\ n.bound = q.bound
        /\ n.start = q.start /\ n.wonRace = q.wonRace /\ n.used = q.used /\ n.fallback = q.fallback
        /\ n.budget = q.budget
    BY <1>2 DEF RequestType
  <2> HIDE DEF n
  <2>3. RequestFits(n, clock, setup)
    BY <1>2, <2>2 DEF RequestFits, PlaceFits, DemandFits, TimeFits, Connects, Granted
  <2> QED
    BY <1>1, <1>3, <1>5, <2>1, <2>2, <2>3, PlainStep
<1>6. CASE HedgeStarts(r) \/ HedgeFails(r)
  BY <1>5, <1>6 DEF HedgeStarts, HedgeFails
<1>7. CASE RaceQuicWins(r)
  <2> DEFINE m == To(q, "quic")
             n == [m EXCEPT !.wonRace = TRUE]
  <2>1. Move(r, n) /\ heldUntil' = heldUntil
    BY <1>7 DEF RaceQuicWins
  <2>2. /\ m \in RequestType
        /\ m.pc = "quic" /\ m.began = clock /\ m.demand = q.demand /\ m.bound = q.bound
        /\ m.start = q.start /\ m.used = q.used /\ m.fallback = q.fallback
        /\ m.budget = q.budget
    BY <1>2, ToIs DEF RoutePCs
  <2> HIDE DEF m
  <2>3. /\ n \in RequestType
        /\ n.pc = "quic" /\ n.began = clock /\ n.demand = q.demand /\ n.bound = q.bound
        /\ n.start = q.start /\ n.used = q.used /\ n.fallback = q.fallback
        /\ n.budget = q.budget /\ n.wonRace = TRUE
    BY <2>2 DEF RequestType
  <2> HIDE DEF n
  <2>4. PlaceFits(n, setup) /\ DemandFits(n)
    BY <1>1, <1>2, <1>3, <2>3 DEF PlaceFits, DemandFits
  <2>5. TimeFits(n, clock)
    BY <1>4, <2>3 DEF TimeFits, Granted
  <2>6. RequestFits(n, clock, setup)
    BY <2>4, <2>5 DEF RequestFits
  <2> QED
    BY <1>1, <1>3, <2>1, <2>3, <2>6, PlainStep
<1>8. CASE RaceQuicFails(r)
  <2> DEFINE n == AfterQuicFailed(q, clock - q.began)
  <2>1. Move(r, n) /\ NoteFailure
    BY <1>8 DEF RaceQuicFails
  <2>2. /\ n \in RequestType /\ RequestFits(n, clock, setup)
        /\ n.used = "error" => q.bound # Unbounded /\ clock - q.start >= q.bound
    BY <1>1, <1>2, <1>3, ConnectFailedFits
  <2> HIDE DEF n
  <2> QED
    BY <1>1, <2>1, <2>2, PlainStep
<1>9. CASE HedgeWins(r)
  <2> DEFINE left == Left(q.bound, clock - q.began)
             n == [Tcp(q) EXCEPT !.budget = left]
  <2>1. Move(r, n) /\ NoteFailure
    <3>1. Tcp(q).budget = q.bound
      BY <1>2, <1>4, TcpIs
    <3> QED
      BY <1>9, <3>1 DEF HedgeWins
  <2>2. clock - q.began \in Nat
    BY <1>4
  <2>3. /\ left \in Nat \cup {Unbounded} /\ (left = Unbounded <=> q.bound = Unbounded)
        /\ q.bound \in Nat => /\ left = 0 <=> clock - q.began >= q.bound
                              /\ clock - q.began < q.bound => left = q.bound - (clock - q.began)
    BY ZenonT(60), <1>4, <2>2, LeftIs
  <2> HIDE DEF left
  <2>4. /\ n \in RequestType
        /\ n.pc = "tcp" /\ n.began = clock /\ n.demand = q.demand /\ n.bound = q.bound
        /\ n.start = q.start /\ n.used = q.used /\ n.fallback = q.fallback
        /\ n.budget = left
    <3>1. left \in Nat \cup {Unbounded} /\ q \in RequestType
      BY <1>2, <2>3
    <3> HIDE DEF q
    <3>2. /\ n \in RequestType
          /\ n.pc = "tcp" /\ n.began = clock /\ n.demand = q.demand /\ n.bound = q.bound
          /\ n.start = (IF Connects(q) THEN q.start ELSE clock) /\ n.used = q.used
          /\ n.fallback = q.fallback /\ n.budget = left
      BY <3>1, TcpIs
    <3> HIDE DEF n
    <3> QED
      BY <1>3, <3>2
  <2> HIDE DEF n
  <2>5. q.bound # Unbounded => left \in Nat /\ clock + left <= q.start + q.bound
    BY <1>4, <2>3
  <2>6. PlaceFits(n, setup) /\ DemandFits(n)
    BY <1>3, <2>4 DEF PlaceFits, DemandFits
  <2>7. TimeFits(n, clock)
    BY <1>4, <2>3, <2>4, <2>5 DEF TimeFits, Granted
  <2>8. RequestFits(n, clock, setup)
    BY <2>6, <2>7 DEF RequestFits
  <2> QED
    BY <1>1, <1>3, <2>1, <2>4, <2>8, PlainStep
<1> QED
  BY <1>6, <1>7, <1>8, <1>9

LEMMA TcpAnswersStep ==
  ASSUME RouteInv, NEW r \in RouteReqs, NEW with \in {"tcp", "error"}, TcpAnswers(r, with)
  PROVE  Steps(r)
<1>1. rq[r].pc = "tcp" /\ clock' = clock /\ setup' = setup /\ heldUntil' = heldUntil
      /\ Move(r, Answer(rq[r], with))
  BY DEF TcpAnswers
<1>2. rq[r] \in RequestType /\ DemandFits(rq[r]) /\ TimeFits(rq[r], clock)
  BY RequestIs
<1>3. Answer(rq[r], with) \in RequestType /\ RequestFits(Answer(rq[r], with), clock, setup)
  BY <1>1, <1>2, AnswerFits DEF DemandFits
<1> QED
  BY <1>1, <1>3, PlainStep

LEMMA NoteAltSvcStep ==
  ASSUME RouteInv, NEW r \in RouteReqs, NoteAltSvc(r)
  PROVE  Steps(r)
<1>1. rq[r].pc = "done" /\ clock' = clock /\ setup' = setup /\ heldUntil' = heldUntil
      /\ Move(r, NoRequest)
  BY DEF NoteAltSvc
<1>2. RequestFits(NoRequest, clock, setup)
  BY NoRequestFits, MemoryFits
<1> QED
  BY <1>1, <1>2, NoRequestFits, PlainStep

\* Time passes no timeout that is due.
LEMMA RouteTickStep == RouteInv /\ RouteTick => RouteInv'
<1> SUFFICES ASSUME RouteInv, RouteTick PROVE RouteInv'
  OBVIOUS
<1>1. clock \in Nat /\ clock' = clock + 1 /\ clock' \in 0..RouteMaxTime /\ UNCHANGED <<setup, heldUntil, rq>>
  BY RouteConstants DEF RouteInv, RouteTyped, RouteTick
<1>2. RouteTyped'
  BY <1>1 DEF RouteInv, RouteTyped
<1>3. ASSUME NEW r \in RouteReqs PROVE RequestFits(rq[r], clock', setup)
  <2> DEFINE q == rq[r]
  <2>1. q \in RequestType /\ PlaceFits(q, setup) /\ DemandFits(q) /\ TimeFits(q, clock)
    BY RequestIs
  <2>2. /\ q.began \in Nat /\ q.start \in Nat /\ q.bound \in Nat \cup {Unbounded}
        /\ q.budget \in Nat \cup {Unbounded}
    BY <2>1 DEF RequestType
  <2>3. q.pc # "via" /\ (q.pc \in {"race", "quic", "path", "viaConnect", "tcp"} => clock # GivesUp(q))
    BY DEF RouteTick
  <2>4. Connects(q) /\ q.bound # Unbounded => clock # q.began + q.budget
    BY <2>1, <2>3 DEF Connects, GivesUp, TimeFits
  <2>5. TimeFits(q, clock')
    BY <1>1, <2>1, <2>2, <2>4 DEF TimeFits
  <2> QED
    BY <2>1, <2>5 DEF RequestFits
<1> QED
  BY <1>1, <1>2, <1>3 DEF RouteInv

\* Every step keeps the invariant, and QUIC fails nobody on its own.
FailsJustly == \A r \in RouteReqs : Justified(r)

LEMMA RouteStepHolds ==
  RouteInv /\ [RouteNext]_routeVars => RouteInv' /\ [FailsJustly]_routeVars
<1> SUFFICES ASSUME RouteInv, [RouteNext]_routeVars PROVE RouteInv' /\ [FailsJustly]_routeVars
  OBVIOUS
<1>1. ASSUME NEW r \in RouteReqs, RouteStep(r) PROVE Steps(r)
  BY <1>1, RoutedStep, RecordAnswersStep, ByAdvertisementStep, OverQuicStep, ViaConnectsStep,
     PathFailsStep, RaceStep, ViaAsksStep, PathOpensStep, TcpAnswersStep, NoteAltSvcStep
     DEF RouteStep
<1>2. ASSUME NEW r \in RouteReqs, rq'[r] = rq[r] PROVE Justified(r)
  <2>1. DemandFits(rq[r])
    BY RequestIs
  <2> QED
    BY <1>2, <2>1 DEF DemandFits, Justified
<1>3. CASE \E r \in RouteReqs : RouteStep(r)
  <2>1. PICK r \in RouteReqs : RouteStep(r)
    BY <1>3
  <2>2. Steps(r)
    BY <1>1, <2>1
  <2>3. FailsJustly
    BY <1>2, <2>2 DEF Steps, FailsJustly
  <2> QED
    BY <2>2, <2>3 DEF Steps
<1>4. CASE NetworkChanged
  <2>1. clock' = clock /\ setup' = setup /\ rq' = rq /\ heldUntil' = 0
    BY <1>4 DEF NetworkChanged
  <2>2. RouteInv'
    BY <2>1, RouteConstants DEF RouteInv, RouteTyped
  <2> QED
    BY <1>2, <2>1, <2>2 DEF FailsJustly
<1>5. CASE RouteTick
  <2>1. rq' = rq
    BY <1>5 DEF RouteTick
  <2> QED
    BY <1>2, <1>5, <2>1, RouteTickStep DEF FailsJustly
<1>6. CASE UNCHANGED routeVars
  BY <1>6 DEF routeVars, RouteInv, RouteTyped
<1> QED
  BY <1>3, <1>4, <1>5, <1>6 DEF RouteNext

LEMMA RoutePromise == RouteInv => RouteHolds
<1> SUFFICES ASSUME RouteInv PROVE RouteHolds
  OBVIOUS
<1>1. RouteTypeOK
  <2>1. \A r \in RouteReqs : rq[r].began <= clock /\ rq[r].start <= clock
    BY RequestIs DEF TimeFits
  <2> QED
    BY <2>1 DEF RouteInv, RouteTyped, RouteTypeOK
<1>2. BudgetIsSpentOnce
  <2> SUFFICES ASSUME NEW r \in RouteReqs,
                      Connects(rq[r]), rq[r].bound # Unbounded
               PROVE  GivesUp(rq[r]) <= rq[r].start + Granted(rq[r])
    BY DEF BudgetIsSpentOnce
  <2>1. TimeFits(rq[r], clock)
    BY RequestIs
  <2> QED
    BY <2>1 DEF TimeFits, GivesUp
<1>3. DemandIsKept
  <2> SUFFICES ASSUME NEW r \in RouteReqs
               PROVE  LET q == rq[r] IN
                      /\ q.demand = "h3" => q.used # "tcp" /\ q.pc # "tcp"
                      /\ q.demand = "other" => q.used # "h3" /\ q.pc \notin {"race", "quic", "via"}
                      /\ q.used = "h3" => setup.arm /\ setup.egress # "stream"
    BY DEF DemandIsKept
  <2>1. DemandFits(rq[r]) /\ PlaceFits(rq[r], setup)
    BY RequestIs
  <2> QED
    BY <2>1 DEF DemandFits, PlaceFits
<1> QED
  BY <1>1, <1>2, <1>3 DEF RouteHolds

------------------------------------------------------------------------------
(* The cookie and response stores over a byte store (kv.rs).               *)

KvPlans == Groups \cup {"none", "all", "touch"}
KvSteps == {<<"remove", k>> : k \in KvKeys} \cup {<<"put", k, v>> : k \in KvKeys, v \in Values}
         \cup {<<"group", g>> : g \in Groups} \cup {<<"clear">>}

IsPut(s) == s[1] = "put"
IsRemove(s) == s[1] = "remove"

\* The keys a step takes away, and the key it fills.
Gone(s) ==
  IF s[1] = "remove" THEN {s[2]}
  ELSE IF s[1] = "group" THEN {k \in KvKeys : Group[k] = s[2]}
  ELSE IF s[1] = "clear" THEN KvKeys ELSE {}
Filled(s) == IF IsPut(s) THEN {s[2]} ELSE {}

\* What is left to do: a put comes right after the removal of its key, and
\* after the first put nothing is removed that is not put again.
Ordered(q) ==
  /\ q \in Seq(KvSteps)
  /\ \A i \in 1 .. Len(q) : i > 1 /\ IsPut(q[i]) => IsRemove(q[i - 1]) /\ q[i - 1][2] = q[i][2]
  /\ \A i, j \in 1 .. Len(q) : i < j /\ IsPut(q[i]) /\ ~IsPut(q[j]) =>
       IsRemove(q[j]) /\ j + 1 \in 1 .. Len(q) /\ IsPut(q[j + 1]) /\ q[j + 1][2] = q[j][2]

WorkType ==
  [pc : {"idle", "reading", "running"}, plan : KvPlans, keys : SUBSET KvKeys, todo : Seq(KvSteps)]

WorkFits(x) ==
  /\ x \in WorkType /\ Ordered(x.todo)
  /\ x.pc = "idle" => x.todo = <<>>
  /\ x.pc = "running" => x.todo # <<>>
  /\ x.pc = "reading" =>
       IF x.plan = "touch" THEN x.todo = <<>>
       ELSE \E k \in KvKeys, v \in Values :
              /\ x.todo = <<<<"remove", k>>, <<"put", k, v>>>>
              /\ x.plan \in {"all", Group[k]}

\* Whose next step is a put under k, its removal done.
Armed(k) == {w \in Writers : work[w].todo # <<>> /\ IsPut(work[w].todo[1]) /\ work[w].todo[1][2] = k}

Present == {k \in KvKeys : kv[k] # <<>>}
RemovedBy(q) == UNION {Gone(q[i]) : i \in 1 .. Len(q)}
FilledBy(q) == UNION {Filled(q[i]) : i \in 1 .. Len(q)}

\* The keys that hold something once the steps have run.
Finally(q) == (Present \ RemovedBy(q)) \cup FilledBy(q)

\* What an operation that runs alone has seen to.
SeenTo(x) ==
  IF x.pc = "reading"
  THEN IF x.plan = "touch" THEN held >= Cardinality(Present)
       ELSE held >= Cardinality(Present) + 1 /\ (x.plan = "all" \/ held <= Capacity)
  ELSE /\ held >= Cardinality(Finally(x.todo)) /\ Cardinality(Finally(x.todo)) <= Capacity
       /\ x.todo # <<>> /\ IsPut(x.todo[1]) => kv[x.todo[1][2]] = <<>>

Quiet == \A w \in Writers : work[w].pc = "idle"

AloneInv ==
  /\ \A v, w \in Writers : work[v].pc # "idle" /\ work[w].pc # "idle" => v = w
  /\ \A k \in KvKeys : Len(kv[k]) <= 1
  /\ Cardinality(Present) <= Capacity
  /\ Quiet => held >= Cardinality(Present)
  /\ \A w \in Writers : work[w].pc # "idle" => SeenTo(work[w])

KvInv ==
  /\ kind \in {"cookie", "cache"} /\ alone \in BOOLEAN
  /\ held \in (0 - HeldMax) .. HeldMax
  /\ kv \in [KvKeys -> Seq(Values)]
  /\ work \in [Writers -> WorkType]
  /\ \A w \in Writers : WorkFits(work[w])
  /\ \A k \in KvKeys : Len(kv[k]) + Cardinality(Armed(k)) <= Cardinality(Writers)
  /\ alone => AloneInv

LEMMA KvAssumed ==
  /\ Capacity \in Nat /\ Capacity >= 1 /\ PerGroup \in Nat /\ HeldMax \in Nat /\ HeldMax > Capacity
  /\ IsFiniteSet(KvKeys) /\ IsFiniteSet(Writers) /\ Cardinality(Writers) \in Nat
  /\ \A k \in KvKeys : Group[k] \in Groups /\ Group[k] \in KvPlans
  /\ {"none", "all", "touch"} \cap Groups = {}
<1>1. /\ Capacity \in Nat /\ Capacity >= 1 /\ PerGroup \in Nat /\ HeldMax \in Nat /\ HeldMax > Capacity
  BY KvConstants
<1>2. IsFiniteSet(KvKeys) /\ IsFiniteSet(Writers)
  BY KvConstants
<1>3. Cardinality(Writers) \in Nat
  BY <1>2, FS_CardinalityType
<1>4. \A k \in KvKeys : Group[k] \in Groups /\ Group[k] \in KvPlans
  BY DEF Groups, KvPlans
<1>5. {"none", "all", "touch"} \cap Groups = {}
  BY KvConstants DEF Groups
<1> QED
  BY <1>1, <1>2, <1>3, <1>4, <1>5

\* The steps, by kind.
LEMMA RemoveStepIs ==
  ASSUME NEW k \in KvKeys
  PROVE  /\ <<"remove", k>> \in KvSteps /\ IsRemove(<<"remove", k>>) /\ ~IsPut(<<"remove", k>>)
         /\ <<"remove", k>>[2] = k /\ Gone(<<"remove", k>>) = {k} /\ Filled(<<"remove", k>>) = {}
BY DEF KvSteps, IsRemove, IsPut, Gone, Filled

LEMMA PutStepIs ==
  ASSUME NEW k \in KvKeys, NEW v \in Values
  PROVE  /\ <<"put", k, v>> \in KvSteps /\ IsPut(<<"put", k, v>>) /\ ~IsRemove(<<"put", k, v>>)
         /\ <<"put", k, v>>[2] = k /\ Gone(<<"put", k, v>>) = {} /\ Filled(<<"put", k, v>>) = {k}
BY DEF KvSteps, IsRemove, IsPut, Gone, Filled

LEMMA StepKinds ==
  ASSUME NEW s \in KvSteps
  PROVE  \/ IsRemove(s) /\ ~IsPut(s) /\ s[2] \in KvKeys /\ Gone(s) = {s[2]} /\ Filled(s) = {}
         \/ IsPut(s) /\ ~IsRemove(s) /\ s[2] \in KvKeys /\ s[3] \in Values /\ Gone(s) = {} /\ Filled(s) = {s[2]}
         \/ s[1] = "group" /\ ~IsPut(s) /\ ~IsRemove(s)
            /\ Gone(s) = {k \in KvKeys : Group[k] = s[2]} /\ Filled(s) = {}
         \/ s[1] = "clear" /\ ~IsPut(s) /\ ~IsRemove(s) /\ Gone(s) = KvKeys /\ Filled(s) = {}
<1>1. CASE \E k \in KvKeys : s = <<"remove", k>>
  BY <1>1, RemoveStepIs
<1>2. CASE \E k \in KvKeys, v \in Values : s = <<"put", k, v>>
  <2>1. PICK k \in KvKeys, v \in Values : s = <<"put", k, v>>
    BY <1>2
  <2>2. s[3] = v
    BY <2>1
  <2> QED
    BY <2>1, <2>2, PutStepIs
<1>3. CASE \E g \in Groups : s = <<"group", g>>
  BY <1>3 DEF IsRemove, IsPut, Gone, Filled
<1>4. CASE s = <<"clear">>
  BY <1>4 DEF IsRemove, IsPut, Gone, Filled
<1> QED
  BY <1>1, <1>2, <1>3, <1>4 DEF KvSteps

LEMMA TailIs ==
  ASSUME NEW S, NEW q \in Seq(S), q # <<>>
  PROVE  /\ Tail(q) \in Seq(S) /\ Len(q) \in Nat /\ Len(q) >= 1 /\ Len(Tail(q)) = Len(q) - 1
         /\ \A i \in 1 .. Len(q) - 1 : Tail(q)[i] = q[i + 1]
         /\ Head(q) = q[1] /\ q[1] \in S
OBVIOUS

\* What is left after a step is in order.
LEMMA OrderedTail ==
  ASSUME NEW q, Ordered(q), q # <<>>
  PROVE  /\ Ordered(Tail(q))
         /\ Tail(q) # <<>> /\ IsPut(Tail(q)[1]) => IsRemove(q[1]) /\ q[1][2] = Tail(q)[1][2]
         /\ RemovedBy(q) = Gone(q[1]) \cup RemovedBy(Tail(q))
         /\ FilledBy(q) = Filled(q[1]) \cup FilledBy(Tail(q))
<1> DEFINE t == Tail(q)
           n == Len(q)
<1>1. /\ t \in Seq(KvSteps) /\ n \in Nat /\ n >= 1 /\ Len(t) = n - 1
      /\ \A i \in 1 .. n - 1 : t[i] = q[i + 1]
  BY TailIs DEF Ordered
<1>2. /\ \A i \in 1 .. n : i > 1 /\ IsPut(q[i]) => IsRemove(q[i - 1]) /\ q[i - 1][2] = q[i][2]
      /\ \A i, j \in 1 .. n : i < j /\ IsPut(q[i]) /\ ~IsPut(q[j]) =>
           IsRemove(q[j]) /\ j + 1 \in 1 .. n /\ IsPut(q[j + 1]) /\ q[j + 1][2] = q[j][2]
  BY DEF Ordered
<1>3. t # <<>> => Len(t) >= 1
  BY <1>1
<1> HIDE DEF t, n
<1>4. ASSUME NEW i \in 1 .. Len(t), i > 1, IsPut(t[i])
      PROVE  IsRemove(t[i - 1]) /\ t[i - 1][2] = t[i][2]
  <2>1. i \in 1 .. n - 1 /\ i - 1 \in 1 .. n - 1 /\ i + 1 \in 1 .. n /\ i + 1 > 1
        /\ (i - 1) + 1 = i /\ (i + 1) - 1 = i
    BY <1>1, <1>4
  <2>2. t[i] = q[i + 1] /\ t[i - 1] = q[i]
    BY <1>1, <2>1
  <2> QED
    BY <1>2, <1>4, <2>1, <2>2
<1>5. ASSUME NEW i \in 1 .. Len(t), NEW j \in 1 .. Len(t), i < j, IsPut(t[i]), ~IsPut(t[j])
      PROVE  IsRemove(t[j]) /\ j + 1 \in 1 .. Len(t) /\ IsPut(t[j + 1]) /\ t[j + 1][2] = t[j][2]
  <2>1. i \in 1 .. n - 1 /\ j \in 1 .. n - 1 /\ i + 1 \in 1 .. n /\ j + 1 \in 1 .. n /\ i + 1 < j + 1
    BY <1>1, <1>5
  <2>2. t[i] = q[i + 1] /\ t[j] = q[j + 1]
    BY <1>1, <2>1
  <2>3. IsRemove(q[j + 1]) /\ (j + 1) + 1 \in 1 .. n /\ IsPut(q[(j + 1) + 1]) /\ q[(j + 1) + 1][2] = q[j + 1][2]
    BY <1>2, <1>5, <2>1, <2>2
  <2>4. j + 1 \in 1 .. Len(t) /\ j + 1 \in 1 .. n - 1
    BY <1>1, <2>1, <2>3
  <2>5. t[j + 1] = q[(j + 1) + 1]
    BY <1>1, <2>4
  <2> QED
    BY <2>2, <2>3, <2>4, <2>5
<1>6. Ordered(t)
  BY <1>1, <1>4, <1>5 DEF Ordered
<1>7. ASSUME t # <<>>, IsPut(t[1]) PROVE IsRemove(q[1]) /\ q[1][2] = t[1][2]
  <2>1. 1 \in 1 .. n - 1 /\ 2 \in 1 .. n /\ 1 + 1 = 2 /\ 2 - 1 = 1 /\ 2 > 1
    BY <1>1, <1>3, <1>7
  <2>2. t[1] = q[2]
    BY <1>1, <2>1
  <2> QED
    BY <1>2, <1>7, <2>1, <2>2
<1>8. ASSUME NEW i \in 1 .. n PROVE i = 1 \/ (i - 1 \in 1 .. Len(t) /\ t[i - 1] = q[i])
  <2>1. i # 1 => i - 1 \in 1 .. n - 1 /\ (i - 1) + 1 = i
    BY <1>1
  <2> QED
    BY <1>1, <2>1
<1>9. ASSUME NEW i \in 1 .. Len(t) PROVE i + 1 \in 1 .. n /\ t[i] = q[i + 1]
  BY <1>1
<1>10. 1 \in 1 .. n
  BY <1>1
<1>11. RemovedBy(q) = Gone(q[1]) \cup RemovedBy(t)
  <2>1. ASSUME NEW x \in RemovedBy(q) PROVE x \in Gone(q[1]) \cup RemovedBy(t)
    <3>1. PICK i \in 1 .. n : x \in Gone(q[i])
      BY <2>1 DEF RemovedBy, n
    <3> QED
      BY <1>8, <3>1 DEF RemovedBy
  <2>2. ASSUME NEW x \in RemovedBy(t) PROVE x \in RemovedBy(q)
    <3>1. PICK i \in 1 .. Len(t) : x \in Gone(t[i])
      BY <2>2 DEF RemovedBy
    <3> QED
      BY <1>9, <3>1 DEF RemovedBy, n
  <2>3. Gone(q[1]) \subseteq RemovedBy(q)
    BY <1>10 DEF RemovedBy, n
  <2> QED
    BY <2>1, <2>2, <2>3
<1>12. FilledBy(q) = Filled(q[1]) \cup FilledBy(t)
  <2>1. ASSUME NEW x \in FilledBy(q) PROVE x \in Filled(q[1]) \cup FilledBy(t)
    <3>1. PICK i \in 1 .. n : x \in Filled(q[i])
      BY <2>1 DEF FilledBy, n
    <3> QED
      BY <1>8, <3>1 DEF FilledBy
  <2>2. ASSUME NEW x \in FilledBy(t) PROVE x \in FilledBy(q)
    <3>1. PICK i \in 1 .. Len(t) : x \in Filled(t[i])
      BY <2>2 DEF FilledBy
    <3> QED
      BY <1>9, <3>1 DEF FilledBy, n
  <2>3. Filled(q[1]) \subseteq FilledBy(q)
    BY <1>10 DEF FilledBy, n
  <2> QED
    BY <2>1, <2>2, <2>3
<1> QED
  BY <1>6, <1>7, <1>11, <1>12 DEF t

\* What each operation begins with is in order.
LEMMA NothingOrdered ==
  Ordered(<<>>) /\ RemovedBy(<<>>) = {} /\ FilledBy(<<>>) = {}
<1>1. <<>> \in Seq(KvSteps) /\ 1 .. Len(<<>>) = {}
  OBVIOUS
<1> QED
  BY <1>1 DEF Ordered, RemovedBy, FilledBy

LEMMA OneOrdered ==
  ASSUME NEW s \in KvSteps, ~IsPut(s)
  PROVE  /\ Ordered(<<s>>) /\ <<s>> # <<>> /\ <<s>>[1] = s
         /\ RemovedBy(<<s>>) = Gone(s) /\ FilledBy(<<s>>) = {}
<1>1. /\ <<s>> \in Seq(KvSteps) /\ Len(<<s>>) = 1 /\ <<s>>[1] = s /\ <<s>> # <<>>
  OBVIOUS
<1>2. 1 .. Len(<<s>>) = {1}
  BY <1>1
<1>3. Filled(s) = {}
  BY DEF Filled
<1>4. Ordered(<<s>>)
  BY <1>1, <1>2 DEF Ordered
<1> QED
  BY <1>1, <1>2, <1>3, <1>4 DEF RemovedBy, FilledBy

Write(k, v) == <<<<"remove", k>>, <<"put", k, v>>>>

LEMMA WriteIs ==
  ASSUME NEW k \in KvKeys, NEW v \in Values
  PROVE  /\ Write(k, v) \in Seq(KvSteps) /\ Len(Write(k, v)) = 2
         /\ Write(k, v)[1] = <<"remove", k>> /\ Write(k, v)[2] = <<"put", k, v>>
  BY RemoveStepIs, PutStepIs DEF Write

LEMMA WriteOrdered ==
  ASSUME NEW k \in KvKeys, NEW v \in Values
  PROVE  /\ Ordered(Write(k, v)) /\ Write(k, v) # <<>> /\ ~IsPut(Write(k, v)[1])
         /\ RemovedBy(Write(k, v)) = {k} /\ FilledBy(Write(k, v)) = {k}
<1> DEFINE q == Write(k, v)
<1>1. q \in Seq(KvSteps) /\ Len(q) = 2 /\ q[1] = <<"remove", k>> /\ q[2] = <<"put", k, v>>
  BY WriteIs
<1>2. /\ IsRemove(q[1]) /\ ~IsPut(q[1]) /\ q[1][2] = k /\ Gone(q[1]) = {k} /\ Filled(q[1]) = {}
      /\ IsPut(q[2]) /\ q[2][2] = k /\ Gone(q[2]) = {} /\ Filled(q[2]) = {k}
  BY <1>1, RemoveStepIs, PutStepIs
<1> HIDE DEF q
<1>3. 1 .. Len(q) = {1, 2} /\ 2 - 1 = 1 /\ q # <<>>
  <2>1. Len(q) = 2
    BY <1>1
  <2>2. 1 .. 2 = {1, 2} /\ 2 - 1 = 1
    OBVIOUS
  <2>3. q # <<>>
    BY <2>1
  <2> QED
    BY <2>1, <2>2, <2>3
<1>4. ASSUME NEW i \in 1 .. Len(q), i > 1, IsPut(q[i]) PROVE IsRemove(q[i - 1]) /\ q[i - 1][2] = q[i][2]
  <2>1. i = 2
    BY <1>3, <1>4
  <2> QED
    BY <1>2, <1>3, <2>1
<1>5. ASSUME NEW i \in 1 .. Len(q), NEW j \in 1 .. Len(q), i < j, IsPut(q[i]) PROVE FALSE
  <2>1. i = 1
    BY <1>3, <1>5
  <2> QED
    BY <1>2, <1>5, <2>1
<1>6. Ordered(q)
  BY <1>1, <1>4, <1>5 DEF Ordered
<1> QED
  BY <1>2, <1>3, <1>6 DEF RemovedBy, FilledBy, q

\* A finite set, as a sequence of its elements.
LEMMA SetToSeqIs ==
  ASSUME NEW S, IsFiniteSet(S)
  PROVE  /\ SetToSeq(S) \in Seq(S) /\ Len(SetToSeq(S)) = Cardinality(S)
         /\ \A x \in S : \E i \in 1 .. Len(SetToSeq(S)) : SetToSeq(S)[i] = x
<1> DEFINE n == Cardinality(S)
           f == SetToSeq(S)
<1>1. n \in Nat /\ ExistsBijection(1 .. n, S)
  BY FS_CardinalityType
<1>2. \E g \in [1 .. n -> S] : IsInjective(g)
  BY <1>1 DEF ExistsBijection, Bijection, Injection, IsInjective
<1>3. f \in [1 .. n -> S] /\ IsInjective(f)
  BY <1>2 DEF SetToSeq
<1> HIDE DEF n, f
<1>4. f \in Seq(S) /\ Len(f) = n
  BY <1>1, <1>3
<1>5. f \in Injection(1 .. n, S)
  BY <1>3 DEF Injection, IsInjective
<1>6. IsFiniteSet(1 .. n) /\ Cardinality(1 .. n) = n
  <2>1. 1 \in Int /\ n \in Int
    BY <1>1
  <2>2. Cardinality(1 .. n) = IF 1 > n THEN 0 ELSE n - 1 + 1
    BY <2>1, FS_Interval
  <2> QED
    BY <1>1, <2>1, <2>2, FS_Interval
<1>7. f \in Surjection(1 .. n, S)
  BY <1>5, <1>6, FS_Injection DEF n
<1> QED
  BY <1>4, <1>7 DEF n, f, Surjection

LEMMA RemovesIs ==
  ASSUME NEW D, D \subseteq KvKeys
  PROVE  /\ Removes(D) \in Seq(KvSteps)
         /\ \A i \in 1 .. Len(Removes(D)) : \E k \in D : Removes(D)[i] = <<"remove", k>>
         /\ \A k \in D : \E i \in 1 .. Len(Removes(D)) : Removes(D)[i] = <<"remove", k>>
<1> DEFINE R == {<<"remove", k>> : k \in D}
           f == [s \in R |-> s[2]]
<1>1. f \in Injection(R, KvKeys)
  BY DEF Injection, IsInjective
<1>2. IsFiniteSet(R)
  BY <1>1, KvAssumed, FS_Injection
<1>3. R \subseteq KvSteps
  BY DEF KvSteps
<1>4. Removes(D) = SetToSeq(R)
  BY DEF Removes
<1>5. /\ SetToSeq(R) \in Seq(R)
      /\ \A x \in R : \E i \in 1 .. Len(SetToSeq(R)) : SetToSeq(R)[i] = x
  BY <1>2, SetToSeqIs
<1> DEFINE q == SetToSeq(R)
<1> HIDE DEF q
<1>6. q \in Seq(R) /\ \A x \in R : \E i \in 1 .. Len(q) : q[i] = x
  BY <1>5 DEF q
<1>7. q \in Seq(KvSteps)
  BY <1>3, <1>6
<1>8. \A i \in 1 .. Len(q) : q[i] \in R
  BY <1>6
<1> QED
  BY ZenonT(60), <1>4, <1>6, <1>7, <1>8 DEF q

LEMMA VictimsFirst ==
  ASSUME NEW D, D \subseteq KvKeys, NEW k \in KvKeys, NEW v \in Values
  PROVE  /\ Ordered(Removes(D) \o Write(k, v)) /\ Removes(D) \o Write(k, v) # <<>>
         /\ ~IsPut((Removes(D) \o Write(k, v))[1])
         /\ RemovedBy(Removes(D) \o Write(k, v)) = D \cup {k}
         /\ FilledBy(Removes(D) \o Write(k, v)) = {k}
<1> DEFINE r == Removes(D)
           w == Write(k, v)
           q == r \o w
           n == Len(r)
<1>1. /\ r \in Seq(KvSteps) /\ \A i \in 1 .. n : \E x \in D : r[i] = <<"remove", x>>
      /\ \A x \in D : \E i \in 1 .. n : r[i] = <<"remove", x>>
  BY RemovesIs
<1>2. w \in Seq(KvSteps) /\ Len(w) = 2 /\ w[1] = <<"remove", k>> /\ w[2] = <<"put", k, v>>
  BY WriteIs
<1>3. n \in Nat
  BY <1>1
<1> HIDE DEF r, w
<1>4. /\ q \in Seq(KvSteps) /\ Len(q) = n + 2
      /\ \A i \in 1 .. n + 2 : q[i] = IF i <= n THEN r[i] ELSE w[i - n]
  <2>1. /\ q \in Seq(KvSteps) /\ Len(q) = Len(r) + Len(w)
        /\ \A i \in 1 .. Len(r) + Len(w) : q[i] = IF i <= Len(r) THEN r[i] ELSE w[i - Len(r)]
    BY <1>1, <1>2, ConcatProperties
  <2>2. Len(r) + Len(w) = n + 2
    BY <1>2, <1>3
  <2> QED
    BY <2>1, <2>2
<1> HIDE DEF q
<1> HIDE DEF n
<1>5. ASSUME NEW i \in 1 .. n PROVE q[i] = r[i] /\ i \in 1 .. n + 2
  BY <1>3, <1>4
<1>6. q[n + 1] = <<"remove", k>> /\ q[n + 2] = <<"put", k, v>> /\ n + 1 \in 1 .. n + 2 /\ n + 2 \in 1 .. n + 2
  <2>1. n + 1 \in 1 .. n + 2 /\ n + 2 \in 1 .. n + 2 /\ (n + 1) - n = 1 /\ (n + 2) - n = 2
        /\ ~(n + 1 <= n) /\ ~(n + 2 <= n)
    BY <1>3
  <2> QED
    BY <1>2, <1>4, <2>1
<1>7. ASSUME NEW i \in 1 .. n PROVE \E x \in D : q[i] = <<"remove", x>> /\ ~IsPut(q[i]) /\ Gone(q[i]) = {x} /\ Filled(q[i]) = {}
  <2>1. PICK x \in D : q[i] = <<"remove", x>>
    BY <1>1, <1>5
  <2> QED
    BY <2>1, RemoveStepIs
<1>8. /\ IsRemove(q[n + 1]) /\ ~IsPut(q[n + 1]) /\ q[n + 1][2] = k /\ Gone(q[n + 1]) = {k} /\ Filled(q[n + 1]) = {}
      /\ IsPut(q[n + 2]) /\ q[n + 2][2] = k /\ Gone(q[n + 2]) = {} /\ Filled(q[n + 2]) = {k}
  BY <1>6, RemoveStepIs, PutStepIs
<1>9. ASSUME NEW i \in 1 .. n + 2 PROVE i \in 1 .. n \/ i = n + 1 \/ i = n + 2
  BY <1>3
<1>10. ASSUME NEW i \in 1 .. n + 2, IsPut(q[i]) PROVE i = n + 2
  BY <1>7, <1>8, <1>9, <1>10
<1>11. ASSUME NEW i \in 1 .. n + 2, i > 1, IsPut(q[i]) PROVE IsRemove(q[i - 1]) /\ q[i - 1][2] = q[i][2]
  <2>1. i = n + 2 /\ i - 1 = n + 1
    BY <1>3, <1>10, <1>11
  <2> QED
    BY <1>8, <2>1
<1>12. ASSUME NEW i \in 1 .. n + 2, NEW j \in 1 .. n + 2, i < j, IsPut(q[i]) PROVE FALSE
  <2>1. i = n + 2
    BY <1>10, <1>12
  <2> QED
    BY <1>3, <1>12, <2>1
<1>13. Ordered(q)
  BY <1>4, <1>11, <1>12 DEF Ordered
<1>14. q # <<>> /\ ~IsPut(q[1])
  <2>1. 1 \in 1 .. n + 2 /\ 1 # n + 2
    BY <1>3
  <2>2. Len(q) # 0
    BY <1>3, <1>4
  <2> QED
    BY <1>10, <2>1, <2>2
<1>15. RemovedBy(q) = D \cup {k}
  <2>1. ASSUME NEW x \in RemovedBy(q) PROVE x \in D \cup {k}
    <3>1. PICK i \in 1 .. n + 2 : x \in Gone(q[i])
      BY <1>4, <2>1 DEF RemovedBy
    <3> QED
      BY <1>7, <1>8, <1>9, <3>1
  <2>2. ASSUME NEW x \in D PROVE x \in RemovedBy(q)
    <3>1. PICK i \in 1 .. n : r[i] = <<"remove", x>>
      BY <1>1, <2>2 DEF n
    <3>2. q[i] = <<"remove", x>>
      BY <1>5, <3>1
    <3>3. Gone(<<"remove", x>>) = {x}
      <4>1. x \in KvKeys
        BY <2>2
      <4> QED
        BY <4>1, RemoveStepIs
    <3>4. i \in 1 .. Len(q)
      BY <1>4, <1>5
    <3> QED
      BY <3>2, <3>3, <3>4 DEF RemovedBy
  <2>3. k \in RemovedBy(q)
    BY <1>4, <1>6, <1>8 DEF RemovedBy
  <2> QED
    BY <2>1, <2>2, <2>3
<1>16. FilledBy(q) = {k}
  <2>1. ASSUME NEW x \in FilledBy(q) PROVE x = k
    <3>1. PICK i \in 1 .. n + 2 : x \in Filled(q[i])
      BY <1>4, <2>1 DEF FilledBy
    <3> QED
      BY <1>7, <1>8, <1>9, <3>1
  <2>2. k \in FilledBy(q)
    BY <1>4, <1>6, <1>8 DEF FilledBy
  <2> QED
    BY <2>1, <2>2
<1> QED
  BY <1>13, <1>14, <1>15, <1>16 DEF q, r, w

\* What a scan finds is finite, holds a value each, and finds every key that
\* holds something.
LEMMA FoundIs ==
  ASSUME kv \in [KvKeys -> Seq(Values)], NEW K, K \subseteq KvKeys
  PROVE  /\ IsFiniteSet(Found(K)) /\ Cardinality(Found(K)) \in Nat
         /\ \A e \in Found(K) : /\ e[1] \in K /\ e[1] \in Present
                                /\ kv[e[1]][e[2]] \in Values
                                /\ e[2] \in 1 .. Len(kv[e[1]])
                                /\ e = <<e[1], e[2]>>
         /\ \A k \in K : k \in Present => <<k, 1>> \in Found(K)
<1> DEFINE N == 1 .. Cardinality(Writers) + 1
<1>1. Cardinality(Writers) \in Nat /\ IsFiniteSet(KvKeys)
  BY KvAssumed
<1>2. IsFiniteSet(N) /\ 1 \in N
  <2>1. 1 \in Int /\ Cardinality(Writers) + 1 \in Int
    BY <1>1
  <2>2. IsFiniteSet(N)
    BY <2>1, FS_Interval
  <2>3. 1 \in N
    BY <1>1
  <2> QED
    BY <2>2, <2>3
<1> HIDE DEF N
<1>3. IsFiniteSet(K)
  BY <1>1, FS_Subset
<1>4. IsFiniteSet(K \X N)
  BY <1>2, <1>3, FS_Product
<1>5. Found(K) \subseteq K \X N
  BY DEF Found, N
<1>6. IsFiniteSet(Found(K))
  BY <1>4, <1>5, FS_Subset
<1>7. Cardinality(Found(K)) \in Nat
  BY <1>6, FS_CardinalityType
<1>8. ASSUME NEW e \in Found(K)
      PROVE  /\ e[1] \in K /\ e[1] \in Present /\ kv[e[1]][e[2]] \in Values /\ e[2] \in 1 .. Len(kv[e[1]])
             /\ e = <<e[1], e[2]>>
  <2>1. e[1] \in K /\ e = <<e[1], e[2]>> /\ e[2] \in DOMAIN kv[e[1]]
    BY DEF Found
  <2>2. kv[e[1]] \in Seq(Values) /\ e[1] \in KvKeys
    BY <2>1
  <2>3. e[2] \in 1 .. Len(kv[e[1]]) /\ kv[e[1]][e[2]] \in Values
    BY <2>1, <2>2
  <2>4. kv[e[1]] # <<>>
    BY <2>2, <2>3
  <2> QED
    BY <2>1, <2>2, <2>3, <2>4 DEF Present
<1>9. ASSUME NEW k \in K, k \in Present PROVE <<k, 1>> \in Found(K)
  <2>1. kv[k] \in Seq(Values) /\ kv[k] # <<>>
    BY <1>9 DEF Present
  <2>2. 1 \in DOMAIN kv[k]
    BY <2>1
  <2>3. <<k, 1>> \in K \X N
    BY <1>2
  <2> QED
    BY <2>2, <2>3 DEF Found, N
<1> QED
  BY <1>6, <1>7, <1>8, <1>9

LEMMA Halving ==
  ASSUME NEW n \in Nat
  PROVE  /\ \A i \in 1 .. 2 * n : /\ (i + 1) \div 2 \in 1 .. n
                                  /\ i % 2 = 1 \/ i % 2 = 0
                                  /\ i % 2 = 0 => i - 1 \in 1 .. 2 * n /\ (i - 1) % 2 = 1
                                                  /\ ((i - 1) + 1) \div 2 = (i + 1) \div 2
                                  /\ i % 2 = 1 => i + 1 \in 1 .. 2 * n /\ (i + 1) % 2 = 0
                                                  /\ ((i + 1) + 1) \div 2 = (i + 1) \div 2
         /\ \A j \in 1 .. n : /\ 2 * j \in 1 .. 2 * n /\ (2 * j) % 2 = 0 /\ (2 * j + 1) \div 2 = j
                              /\ 2 * j - 1 \in 1 .. 2 * n /\ (2 * j - 1) % 2 = 1
                              /\ ((2 * j - 1) + 1) \div 2 = j
<1>1. ASSUME NEW i \in 1 .. 2 * n
      PROVE  /\ (i + 1) \div 2 \in 1 .. n
             /\ i % 2 = 1 \/ i % 2 = 0
             /\ i % 2 = 0 => i - 1 \in 1 .. 2 * n /\ (i - 1) % 2 = 1 /\ ((i - 1) + 1) \div 2 = (i + 1) \div 2
             /\ i % 2 = 1 => i + 1 \in 1 .. 2 * n /\ (i + 1) % 2 = 0 /\ ((i + 1) + 1) \div 2 = (i + 1) \div 2
  OBVIOUS
<1>2. ASSUME NEW j \in 1 .. n
      PROVE  /\ 2 * j \in 1 .. 2 * n /\ (2 * j) % 2 = 0 /\ (2 * j + 1) \div 2 = j
             /\ 2 * j - 1 \in 1 .. 2 * n /\ (2 * j - 1) % 2 = 1 /\ ((2 * j - 1) + 1) \div 2 = j
  OBVIOUS
<1> QED
  BY <1>1, <1>2

Rewrites(f) ==
  [i \in 1 .. 2 * Len(f) |->
     IF i % 2 = 1 THEN <<"remove", f[(i + 1) \div 2][1]>>
     ELSE <<"put", f[(i + 1) \div 2][1], kv[f[(i + 1) \div 2][1]][f[(i + 1) \div 2][2]]>>]

\* A touch puts back what it takes away, and only what was there.
LEMMA RewritesOrdered ==
  ASSUME kv \in [KvKeys -> Seq(Values)], NEW K, K \subseteq KvKeys, NEW f \in Seq(Found(K))
  PROVE  /\ Ordered(Rewrites(f))
         /\ Rewrites(f) # <<>> => ~IsPut(Rewrites(f)[1])
         /\ RemovedBy(Rewrites(f)) = FilledBy(Rewrites(f))
         /\ FilledBy(Rewrites(f)) \subseteq Present
<1> DEFINE n == Len(f)
           q == Rewrites(f)
           at(i) == (i + 1) \div 2
<1>1. n \in Nat /\ \A i \in 1 .. n : f[i] \in Found(K)
  OBVIOUS
<1>2. \A e \in Found(K) : e[1] \in KvKeys /\ e[1] \in Present /\ kv[e[1]][e[2]] \in Values
  BY FoundIs
<1> HIDE DEF n
<1>3. \A i \in 1 .. 2 * n : q[i] = IF i % 2 = 1 THEN <<"remove", f[at(i)][1]>>
                                   ELSE <<"put", f[at(i)][1], kv[f[at(i)][1]][f[at(i)][2]]>>
  BY DEF Rewrites, n
<1>4. DOMAIN q = 1 .. 2 * n
  BY DEF Rewrites, n
<1> HIDE DEF q
<1>5. ASSUME NEW i \in 1 .. 2 * n PROVE at(i) \in 1 .. n /\ (i % 2 = 1 \/ i % 2 = 0) /\ 0 # 1
  BY <1>1, Halving
<1>6. ASSUME NEW i \in 1 .. 2 * n
      PROVE  /\ f[at(i)][1] \in KvKeys /\ f[at(i)][1] \in Present /\ kv[f[at(i)][1]][f[at(i)][2]] \in Values
  BY <1>1, <1>2, <1>5
<1>7. ASSUME NEW i \in 1 .. 2 * n, i % 2 = 1
      PROVE  /\ q[i] \in KvSteps /\ IsRemove(q[i]) /\ ~IsPut(q[i]) /\ q[i][2] = f[at(i)][1]
             /\ Gone(q[i]) = {f[at(i)][1]} /\ Filled(q[i]) = {}
  <2>1. q[i] = <<"remove", f[at(i)][1]>>
    BY <1>3, <1>7
  <2>2. f[at(i)][1] \in KvKeys
    BY <1>6
  <2> HIDE DEF at
  <2> QED
    BY <2>1, <2>2, RemoveStepIs
<1>8. ASSUME NEW i \in 1 .. 2 * n, i % 2 = 0
      PROVE  /\ q[i] \in KvSteps /\ IsPut(q[i]) /\ q[i][2] = f[at(i)][1]
             /\ Gone(q[i]) = {} /\ Filled(q[i]) = {f[at(i)][1]}
  <2>0. i % 2 # 1
    BY <1>8
  <2>1. q[i] = <<"put", f[at(i)][1], kv[f[at(i)][1]][f[at(i)][2]]>>
    BY <1>3, <2>0
  <2>2. f[at(i)][1] \in KvKeys /\ kv[f[at(i)][1]][f[at(i)][2]] \in Values
    BY <1>6
  <2> HIDE DEF at
  <2> QED
    BY <2>1, <2>2, PutStepIs
<1>9. q \in Seq(KvSteps) /\ Len(q) = 2 * n
  <2>1. \A i \in 1 .. 2 * n : q[i] \in KvSteps
    BY <1>5, <1>7, <1>8
  <2>2. 2 * n \in Nat
    BY <1>1
  <2>3. q = [i \in 1 .. 2 * n |-> q[i]]
    BY <1>4 DEF q, Rewrites, n
  <2>4. q \in [1 .. 2 * n -> KvSteps]
    BY <2>1, <2>3
  <2>5. q \in Seq(KvSteps)
    BY <2>2, <2>4
  <2>6. Len(q) = 2 * n
    BY <2>2, <2>5, <1>4, LenProperties
  <2> QED
    BY <2>5, <2>6
<1>10. ASSUME NEW i \in 1 .. 2 * n, i % 2 = 0
       PROVE  /\ i - 1 \in 1 .. 2 * n /\ (i - 1) % 2 = 1 /\ at(i - 1) = at(i)
  BY <1>1, <1>10, Halving
<1>11. ASSUME NEW i \in 1 .. 2 * n, i % 2 = 1
       PROVE  /\ i + 1 \in 1 .. 2 * n /\ (i + 1) % 2 = 0 /\ at(i + 1) = at(i)
  BY <1>1, <1>11, Halving
<1> HIDE DEF at
<1>12. ASSUME NEW i \in 1 .. 2 * n, IsPut(q[i]) PROVE i % 2 = 0
  BY <1>5, <1>7, <1>12
<1>13. ASSUME NEW i \in 1 .. 2 * n, ~IsPut(q[i]) PROVE i % 2 = 1
  BY <1>5, <1>8, <1>13
<1>14. ASSUME NEW i \in 1 .. 2 * n, i > 1, IsPut(q[i]) PROVE IsRemove(q[i - 1]) /\ q[i - 1][2] = q[i][2]
  <2>1. i % 2 = 0
    BY <1>12, <1>14
  <2>2. i - 1 \in 1 .. 2 * n /\ (i - 1) % 2 = 1 /\ at(i - 1) = at(i)
    BY <1>10, <2>1
  <2>3. IsRemove(q[i - 1]) /\ q[i - 1][2] = f[at(i - 1)][1]
    BY <1>7, <2>2
  <2>4. q[i][2] = f[at(i)][1]
    BY <1>8, <2>1
  <2> QED
    BY <2>2, <2>3, <2>4
<1>15. ASSUME NEW j \in 1 .. 2 * n, ~IsPut(q[j])
       PROVE  IsRemove(q[j]) /\ j + 1 \in 1 .. 2 * n /\ IsPut(q[j + 1]) /\ q[j + 1][2] = q[j][2]
  <2>1. j % 2 = 1
    BY <1>13, <1>15
  <2>2. j + 1 \in 1 .. 2 * n /\ (j + 1) % 2 = 0 /\ at(j + 1) = at(j)
    BY <1>11, <2>1
  <2>3. IsPut(q[j + 1]) /\ q[j + 1][2] = f[at(j + 1)][1]
    BY <1>8, <2>2
  <2>4. IsRemove(q[j]) /\ q[j][2] = f[at(j)][1]
    BY <1>7, <2>1
  <2> QED
    BY <2>2, <2>3, <2>4
<1>16. Ordered(q)
  BY <1>9, <1>14, <1>15 DEF Ordered
<1>17. ASSUME q # <<>> PROVE ~IsPut(q[1])
  <2>1. 2 * n # 0
    BY <1>9, <1>17
  <2>2. 1 \in 1 .. 2 * n /\ 1 % 2 = 1
    BY <1>1, <2>1
  <2> QED
    BY <1>7, <2>2
<1>18. RemovedBy(q) \subseteq FilledBy(q)
  <2> SUFFICES ASSUME NEW x \in RemovedBy(q) PROVE x \in FilledBy(q)
    OBVIOUS
  <2>1. PICK i \in 1 .. 2 * n : x \in Gone(q[i])
    BY <1>9 DEF RemovedBy
  <2>2. i % 2 = 1
    BY <1>5, <1>8, <2>1
  <2>3. x = f[at(i)][1]
    BY <1>7, <2>1, <2>2
  <2>4. i + 1 \in 1 .. 2 * n /\ (i + 1) % 2 = 0 /\ at(i + 1) = at(i)
    BY <1>11, <2>2
  <2>5. Filled(q[i + 1]) = {x}
    BY <1>8, <2>3, <2>4
  <2> QED
    BY <1>9, <2>4, <2>5 DEF FilledBy
<1>19. FilledBy(q) \subseteq RemovedBy(q) /\ FilledBy(q) \subseteq Present
  <2> SUFFICES ASSUME NEW x \in FilledBy(q) PROVE x \in RemovedBy(q) /\ x \in Present
    OBVIOUS
  <2>1. PICK i \in 1 .. 2 * n : x \in Filled(q[i])
    BY <1>9 DEF FilledBy
  <2>2. i % 2 = 0
    BY <1>5, <1>7, <2>1
  <2>3. x = f[at(i)][1]
    BY <1>8, <2>1, <2>2
  <2>4. i - 1 \in 1 .. 2 * n /\ (i - 1) % 2 = 1 /\ at(i - 1) = at(i)
    BY <1>10, <2>2
  <2>5. Gone(q[i - 1]) = {x}
    BY <1>7, <2>3, <2>4
  <2>6. x \in Present
    BY <1>6, <2>3
  <2> QED
    BY <1>9, <2>4, <2>5, <2>6 DEF RemovedBy
<1> QED
  BY <1>16, <1>17, <1>18, <1>19 DEF q

LEMMA RunsFits ==
  ASSUME NEW q, Ordered(q)
  PROVE  /\ WorkFits(Runs(q)) /\ Runs(q).todo = q /\ Runs(q).pc # "reading"
         /\ (Runs(q).pc = "idle" <=> q = <<>>)
<1>1. q \in Seq(KvSteps) /\ <<>> \in Seq(KvSteps) /\ Ordered(<<>>)
  BY NothingOrdered DEF Ordered
<1>2. CASE q = <<>>
  <2>1. Runs(q) = [pc |-> "idle", plan |-> "none", keys |-> {}, todo |-> <<>>]
    BY <1>2 DEF Runs, NoWork
  <2>2. Runs(q) \in WorkType
    BY <1>1, <2>1 DEF WorkType, KvPlans
  <2>3. Ordered(Runs(q).todo) /\ Runs(q).todo = <<>> /\ Runs(q).pc = "idle"
    BY <1>1, <2>1
  <2> QED
    BY <1>2, <2>2, <2>3 DEF WorkFits
<1>3. CASE q # <<>>
  <2>1. Runs(q) = [pc |-> "running", plan |-> "none", keys |-> {}, todo |-> q]
    BY <1>3 DEF Runs, NoWork
  <2> QED
    BY <1>1, <1>3, <2>1 DEF WorkFits, WorkType, KvPlans
<1> QED
  BY <1>2, <1>3

\* The sets of keys are finite, and a part is no bigger than the whole.
LEMMA KeysCount ==
  ASSUME NEW A, NEW B, A \subseteq B, B \subseteq KvKeys
  PROVE  /\ IsFiniteSet(A) /\ Cardinality(A) \in Nat /\ Cardinality(B) \in Nat
         /\ Cardinality(A) <= Cardinality(B)
<1>1. IsFiniteSet(B)
  BY KvAssumed, FS_Subset
<1> QED
  BY <1>1, FS_Subset, FS_CardinalityType

LEMMA OneMore ==
  ASSUME NEW A, A \subseteq KvKeys, NEW k \in KvKeys, NEW B, B \subseteq A \cup {k}
  PROVE  Cardinality(A) \in Nat /\ Cardinality(B) \in Nat /\ Cardinality(B) <= Cardinality(A) + 1
<1>1. A \cup {k} \subseteq KvKeys /\ A \subseteq KvKeys
  OBVIOUS
<1>2. IsFiniteSet(A) /\ Cardinality(A) \in Nat
  BY KeysCount
<1>3. Cardinality(A \cup {k}) \in Nat /\ Cardinality(B) \in Nat /\ Cardinality(B) <= Cardinality(A \cup {k})
  BY <1>1, KeysCount
<1>4. k \notin A => Cardinality(A \cup {k}) = Cardinality(A) + 1
  BY <1>2, FS_AddElement
<1>5. k \in A => A \cup {k} = A
  OBVIOUS
<1> QED
  BY <1>2, <1>3, <1>4, <1>5

LEMMA ArmedCount ==
  ASSUME NEW A, NEW B, A \subseteq B, B \subseteq Writers
  PROVE  /\ IsFiniteSet(B) /\ Cardinality(A) \in Nat /\ Cardinality(B) \in Nat
         /\ Cardinality(A) <= Cardinality(B) /\ Cardinality(B) <= Cardinality(Writers)
<1>1. IsFiniteSet(Writers)
  BY KvAssumed
<1>2. IsFiniteSet(B)
  BY <1>1, FS_Subset
<1> QED
  BY <1>1, <1>2, FS_Subset, FS_CardinalityType

\* Where the values stay and the writer's next step is no put.
LEMMA KvMoves ==
  ASSUME KvInv, NEW w \in Writers, NEW x, WorkFits(x), x.todo # <<>> => ~IsPut(x.todo[1]),
         work' = [work EXCEPT ![w] = x], kv' = kv, kind' = kind,
         held' \in (0 - HeldMax) .. HeldMax, alone' \in BOOLEAN,
         alone' => alone /\ \A v \in Writers \ {w} : work[v].pc = "idle",
         alone' /\ x.pc # "idle" => SeenTo(x)',
         alone' /\ x.pc = "idle" => held' >= Cardinality(Present)
  PROVE  KvInv'
<1>1. /\ kv \in [KvKeys -> Seq(Values)] /\ work \in [Writers -> WorkType]
      /\ \A v \in Writers : WorkFits(work[v])
      /\ kind \in {"cookie", "cache"}
      /\ \A k \in KvKeys : Len(kv[k]) + Cardinality(Armed(k)) <= Cardinality(Writers)
      /\ alone => AloneInv
  BY DEF KvInv
<1>2. x \in WorkType
  BY DEF WorkFits
<1>3. work' \in [Writers -> WorkType] /\ \A v \in Writers : work'[v] = IF v = w THEN x ELSE work[v]
  BY <1>1, <1>2
<1>4. \A v \in Writers : WorkFits(work'[v])
  BY <1>1, <1>3
<1>5. ASSUME NEW k \in KvKeys PROVE Len(kv'[k]) + Cardinality(Armed(k)') <= Cardinality(Writers)
  <2>1. Armed(k)' \subseteq Armed(k) /\ Armed(k) \subseteq Writers
    BY <1>3 DEF Armed
  <2>2. /\ Cardinality(Armed(k)') \in Nat /\ Cardinality(Armed(k)) \in Nat
        /\ Cardinality(Armed(k)') <= Cardinality(Armed(k))
    BY <2>1, ArmedCount
  <2>3. Len(kv[k]) \in Nat /\ Len(kv'[k]) = Len(kv[k])
    BY <1>1
  <2>4. Len(kv[k]) + Cardinality(Armed(k)) <= Cardinality(Writers) /\ Cardinality(Writers) \in Nat
    BY <1>1, KvAssumed
  <2> QED
    BY <2>2, <2>3, <2>4
<1>6. Present' = Present
  BY DEF Present
<1>7. ASSUME alone' PROVE AloneInv'
  <2>1. AloneInv /\ \A v \in Writers : v # w => work'[v].pc = "idle"
    BY <1>1, <1>3, <1>7
  <2>2. \A v, u \in Writers : work'[v].pc # "idle" /\ work'[u].pc # "idle" => v = u
    BY <2>1
  <2>3. \A k \in KvKeys : Len(kv'[k]) <= 1
    BY <2>1 DEF AloneInv
  <2>4. Cardinality(Present') <= Capacity
    BY <1>6, <2>1 DEF AloneInv
  <2>5. ASSUME Quiet' PROVE held' >= Cardinality(Present')
    BY <1>3, <1>6, <1>7, <2>5 DEF Quiet
  <2>6. ASSUME NEW v \in Writers, work'[v].pc # "idle" PROVE SeenTo(work[v])'
    <3>1. v = w /\ work'[v] = x
      BY <1>3, <2>1, <2>6
    <3>2. SeenTo(x)'
      BY <1>7, <2>6, <3>1
    <3> QED
      BY <3>1, <3>2 DEF SeenTo, Finally
  <2> QED
    BY <2>2, <2>3, <2>4, <2>5, <2>6 DEF AloneInv
<1> QED
  BY <1>1, <1>3, <1>4, <1>5, <1>7 DEF KvInv

\* An operation that begins overlaps nothing, as far as `alone' goes.
LEMMA KvBegins ==
  ASSUME KvInv, NEW w \in Writers, NEW x, NEW ok \in BOOLEAN, Begin(w, x, ok),
         WorkFits(x), x.pc # "idle", x.todo # <<>> => ~IsPut(x.todo[1]),
         kv' = kv, kind' = kind, held' \in (0 - HeldMax) .. HeldMax,
         alone /\ Quiet /\ ok => SeenTo(x)'
  PROVE  KvInv'
<1>1. /\ work[w].pc = "idle" /\ work' = [work EXCEPT ![w] = x]
      /\ alone' = (alone /\ ok /\ ~Overlaps(w)) /\ alone \in BOOLEAN
  BY DEF Begin, KvInv
<1>2. alone' \in BOOLEAN
  BY <1>1
<1>3. alone' => alone /\ ok /\ \A v \in Writers \ {w} : work[v].pc = "idle"
  BY <1>1 DEF Overlaps
<1>4. alone' => Quiet
  BY <1>1, <1>3 DEF Quiet
<1> QED
  BY <1>1, <1>2, <1>3, <1>4, KvMoves

LEMMA CountsHeld ==
  ASSUME KvInv, NEW n \in Nat
  PROVE  /\ Plus(held) \in (0 - HeldMax) .. HeldMax /\ Minus(held, n) \in (0 - HeldMax) .. HeldMax
         /\ held \in Int /\ held <= HeldMax /\ Capacity \in Nat /\ Capacity >= 1 /\ HeldMax > Capacity
         /\ 0 \in (0 - HeldMax) .. HeldMax
         /\ Plus(held) = (IF held < HeldMax THEN held + 1 ELSE held)
         /\ Minus(held, n) >= held - n
         /\ Cardinality(Present) \in Nat /\ Present \subseteq KvKeys
<1>1. held \in (0 - HeldMax) .. HeldMax /\ HeldMax \in Nat /\ Capacity \in Nat /\ Capacity >= 1 /\ HeldMax > Capacity
  BY KvAssumed DEF KvInv
<1>2. Present \subseteq KvKeys
  BY DEF Present
<1>3. Cardinality(Present) \in Nat
  BY <1>2, KeysCount
<1>4. /\ Plus(held) \in (0 - HeldMax) .. HeldMax
      /\ Plus(held) = (IF held < HeldMax THEN held + 1 ELSE held)
  BY <1>1 DEF Plus
<1>5. Minus(held, n) \in (0 - HeldMax) .. HeldMax /\ Minus(held, n) >= held - n
  BY <1>1 DEF Minus
<1> QED
  BY <1>1, <1>2, <1>3, <1>4, <1>5

LEMMA PutBegins ==
  ASSUME KvInv, NEW w \in Writers, NEW k \in KvKeys, NEW v \in Values, PutStart(w, k, v)
  PROVE  KvInv'
<1>1. /\ held' = Plus(held) /\ kv' = kv /\ kind' = kind
      /\ IF Full(held')
           THEN Begin(w, [NoWork EXCEPT !.pc = "reading", !.plan = "all", !.todo = Write(k, v)], TRUE)
           ELSE IF kind = "cookie"
             THEN Begin(w, [NoWork EXCEPT !.pc = "reading", !.plan = Group[k], !.todo = Write(k, v)], TRUE)
             ELSE Begin(w, [NoWork EXCEPT !.pc = "running", !.todo = Write(k, v)], TRUE)
  BY DEF PutStart, Write
<1>2. /\ held' \in (0 - HeldMax) .. HeldMax /\ held \in Int /\ held <= HeldMax
      /\ Capacity \in Nat /\ Capacity >= 1 /\ HeldMax > Capacity
      /\ held' = (IF held < HeldMax THEN held + 1 ELSE held)
      /\ Cardinality(Present) \in Nat /\ Present \subseteq KvKeys
  BY <1>1, CountsHeld
<1>3. alone /\ Quiet => held >= Cardinality(Present) /\ Cardinality(Present) <= Capacity
  BY DEF KvInv, AloneInv
<1>4. alone /\ Quiet => held' >= Cardinality(Present) + 1
  <2> SUFFICES ASSUME alone, Quiet PROVE held' >= Cardinality(Present) + 1
    OBVIOUS
  <2>1. held >= Cardinality(Present) /\ Cardinality(Present) <= Capacity
    BY <1>3
  <2>2. HeldMax \in Nat
    BY KvAssumed
  <2> QED
    BY <1>2, <2>1, <2>2
<1>5. ~Full(held') => held' <= Capacity
  <2>1. held' \in Int /\ Capacity \in Int
    BY <1>2, KvAssumed
  <2> QED
    BY <2>1 DEF Full
<1>6. Present' = Present
  BY <1>1 DEF Present
<1>7. /\ Ordered(Write(k, v)) /\ Write(k, v) # <<>> /\ ~IsPut(Write(k, v)[1])
      /\ RemovedBy(Write(k, v)) = {k} /\ FilledBy(Write(k, v)) = {k} /\ Write(k, v) \in Seq(KvSteps)
  BY WriteOrdered, WriteIs
<1>8. Group[k] \in KvPlans /\ Group[k] # "touch" /\ "all" \in KvPlans /\ "none" \in KvPlans /\ TRUE \in BOOLEAN
  BY KvConstants, KvAssumed DEF KvPlans
<1>9. CASE Full(held')
  <2>0. PICK x : x = [NoWork EXCEPT !.pc = "reading", !.plan = "all", !.todo = Write(k, v)]
    OBVIOUS
  <2>1. x.pc = "reading" /\ x.plan = "all" /\ x.todo = Write(k, v)
    BY <2>0 DEF NoWork
  <2>2. Begin(w, x, TRUE)
    BY <1>1, <1>9, <2>0
  <2>3. WorkFits(x)
    <3>1. x \in WorkType
      BY <1>7, <1>8, <2>0 DEF WorkType, NoWork
    <3> QED
      BY <1>7, <1>8, <2>1, <3>1 DEF WorkFits, Write
  <2>4. alone /\ Quiet => SeenTo(x)'
    BY <1>4, <1>6, <2>1 DEF SeenTo
  <2> QED
    BY <1>1, <1>2, <1>7, <1>8, <2>1, <2>2, <2>3, <2>4, KvBegins
<1>10. CASE ~Full(held') /\ kind = "cookie"
  <2>0. PICK x : x = [NoWork EXCEPT !.pc = "reading", !.plan = Group[k], !.todo = Write(k, v)]
    OBVIOUS
  <2>1. x.pc = "reading" /\ x.plan = Group[k] /\ x.todo = Write(k, v)
    BY <2>0 DEF NoWork
  <2>2. Begin(w, x, TRUE)
    BY <1>1, <1>10, <2>0
  <2>3. WorkFits(x)
    <3>1. x \in WorkType
      BY <1>7, <1>8, <2>0 DEF WorkType, NoWork
    <3> QED
      BY <1>7, <1>8, <2>1, <3>1 DEF WorkFits, Write
  <2>4. alone /\ Quiet => SeenTo(x)'
    BY <1>4, <1>5, <1>6, <1>8, <1>10, <2>1 DEF SeenTo
  <2> QED
    BY <1>1, <1>2, <1>7, <1>8, <2>1, <2>2, <2>3, <2>4, KvBegins
<1>11. CASE ~Full(held') /\ kind # "cookie"
  <2>0. PICK x : x = [NoWork EXCEPT !.pc = "running", !.todo = Write(k, v)]
    OBVIOUS
  <2>1. x.pc = "running" /\ x.plan = "none" /\ x.todo = Write(k, v)
    BY <2>0 DEF NoWork
  <2>2. Begin(w, x, TRUE)
    BY <1>1, <1>11, <2>0
  <2>3. WorkFits(x)
    <3>1. x \in WorkType
      BY <1>7, <1>8, <2>0 DEF WorkType, NoWork
    <3> QED
      BY <1>7, <1>8, <2>1, <3>1 DEF WorkFits
  <2>4. ASSUME alone, Quiet PROVE SeenTo(x)'
    <3>1. Finally(Write(k, v)) \subseteq Present \cup {k}
      BY <1>7 DEF Finally
    <3>2. /\ Cardinality(Finally(Write(k, v))) \in Nat
          /\ Cardinality(Finally(Write(k, v))) <= Cardinality(Present) + 1
      BY <1>2, <3>1, OneMore
    <3>3. held' >= Cardinality(Present) + 1 /\ held' <= Capacity /\ held' \in Int
      BY <1>2, <1>4, <1>5, <1>11, <2>4
    <3>4. held' >= Cardinality(Finally(Write(k, v))) /\ Cardinality(Finally(Write(k, v))) <= Capacity
      BY <1>2, <3>2, <3>3
    <3>5. Finally(Write(k, v))' = Finally(Write(k, v))
      BY <1>6 DEF Finally
    <3>6. x.pc # "reading" /\ x.todo = Write(k, v)
      BY <2>1
    <3> QED
      BY <1>7, <3>4, <3>5, <3>6 DEF SeenTo
  <2> QED
    BY <1>1, <1>2, <1>7, <1>8, <2>1, <2>2, <2>3, <2>4, KvBegins
<1> QED
  BY <1>9, <1>10, <1>11

\* An operation of one step that puts nothing.
LEMMA OneBegins ==
  ASSUME KvInv, NEW w \in Writers, NEW s \in KvSteps, ~IsPut(s), NEW ok \in BOOLEAN,
         Begin(w, [NoWork EXCEPT !.pc = "running", !.todo = <<s>>], ok),
         kv' = kv, kind' = kind, held' \in (0 - HeldMax) .. HeldMax,
         alone /\ Quiet /\ ok => held' >= Cardinality(Present \ Gone(s))
  PROVE  KvInv'
<1>0. PICK x : x = [NoWork EXCEPT !.pc = "running", !.todo = <<s>>]
  OBVIOUS
<1>1. x.pc = "running" /\ x.plan = "none" /\ x.todo = <<s>>
  BY <1>0 DEF NoWork
<1>2. Begin(w, x, ok)
  BY <1>0
<1>3. /\ Ordered(<<s>>) /\ <<s>> # <<>> /\ <<s>>[1] = s
      /\ RemovedBy(<<s>>) = Gone(s) /\ FilledBy(<<s>>) = {} /\ <<s>> \in Seq(KvSteps)
  BY OneOrdered
<1>4. WorkFits(x)
  <2>1. x \in WorkType
    BY <1>0, <1>3 DEF WorkType, KvPlans, NoWork
  <2> QED
    BY <1>1, <1>3, <2>1 DEF WorkFits
<1>5. ASSUME alone, Quiet, ok PROVE SeenTo(x)'
  <2>1. Present' = Present /\ Present \subseteq KvKeys
    BY DEF Present
  <2>2. Finally(<<s>>) = Present \ Gone(s)
    BY <1>3 DEF Finally
  <2>3. Finally(<<s>>)' = Finally(<<s>>)
    BY <2>1 DEF Finally
  <2>4. /\ Cardinality(Present \ Gone(s)) \in Nat /\ Cardinality(Present) \in Nat
        /\ Cardinality(Present \ Gone(s)) <= Cardinality(Present)
    <3>1. Present \ Gone(s) \subseteq Present
      OBVIOUS
    <3> QED
      BY <2>1, <3>1, KeysCount
  <2>5. Cardinality(Present) <= Capacity /\ Capacity \in Nat
    BY <1>5, KvAssumed DEF KvInv, AloneInv
  <2>6. Cardinality(Present \ Gone(s)) <= Capacity
    BY <2>4, <2>5
  <2>7. x.pc # "reading" /\ x.todo = <<s>>
    BY <1>1
  <2> QED
    BY <1>3, <1>5, <2>2, <2>3, <2>6, <2>7 DEF SeenTo
<1>6. x.pc # "idle" /\ (x.todo # <<>> => ~IsPut(x.todo[1]))
  BY <1>1, <1>3
<1> QED
  BY <1>2, <1>4, <1>5, <1>6, KvBegins

LEMMA RemoveBegins ==
  ASSUME KvInv, NEW w \in Writers, NEW k \in KvKeys, RemoveStart(w, k)
  PROVE  KvInv'
<1>1. /\ held' = Minus(held, 1) /\ kv' = kv /\ kind' = kind
      /\ Begin(w, [NoWork EXCEPT !.pc = "running", !.todo = <<<<"remove", k>>>>], kv[k] # <<>>)
  BY DEF RemoveStart
<1>2. /\ held' \in (0 - HeldMax) .. HeldMax /\ held' >= held - 1 /\ held \in Int
      /\ Cardinality(Present) \in Nat /\ Present \subseteq KvKeys
  <2>1. 1 \in Nat
    OBVIOUS
  <2> QED
    BY <1>1, <2>1, CountsHeld
<1>3. <<"remove", k>> \in KvSteps /\ ~IsPut(<<"remove", k>>) /\ Gone(<<"remove", k>>) = {k}
  BY RemoveStepIs
<1>4. ASSUME alone, Quiet, kv[k] # <<>> PROVE held' >= Cardinality(Present \ {k})
  <2>1. k \in Present
    BY <1>4 DEF Present
  <2>2. IsFiniteSet(Present)
    BY <1>2, KeysCount
  <2>3. Cardinality(Present \ {k}) = Cardinality(Present) - 1
    BY <2>1, <2>2, FS_RemoveElement
  <2>4. held >= Cardinality(Present)
    BY <1>4 DEF KvInv, AloneInv
  <2>5. held' \in Int
    BY <1>2, KvAssumed
  <2> QED
    BY <1>2, <2>3, <2>4, <2>5
<1>5. (kv[k] # <<>>) \in BOOLEAN
  OBVIOUS
<1> QED
  BY <1>1, <1>2, <1>3, <1>4, <1>5, OneBegins

LEMMA InvalidateBegins ==
  ASSUME KvInv, NEW w \in Writers, NEW g \in Groups, InvalidateStart(w, g)
  PROVE  KvInv'
<1>1. /\ held' = held /\ kv' = kv /\ kind' = kind
      /\ Begin(w, [NoWork EXCEPT !.pc = "running", !.todo = <<<<"group", g>>>>], TRUE)
  BY DEF InvalidateStart
<1>2. <<"group", g>> \in KvSteps /\ ~IsPut(<<"group", g>>)
  BY DEF KvSteps, IsPut
<1>3. held' \in (0 - HeldMax) .. HeldMax /\ held \in Int /\ Present \subseteq KvKeys
  BY <1>1, CountsHeld DEF KvInv
<1>4. alone /\ Quiet => held >= Cardinality(Present)
  BY DEF KvInv, AloneInv
<1>5. /\ Cardinality(Present \ Gone(<<"group", g>>)) \in Nat /\ Cardinality(Present) \in Nat
      /\ Cardinality(Present \ Gone(<<"group", g>>)) <= Cardinality(Present)
  <2>1. Present \ Gone(<<"group", g>>) \subseteq Present
    OBVIOUS
  <2> QED
    BY <1>3, <2>1, KeysCount
<1>6. alone /\ Quiet => held' >= Cardinality(Present \ Gone(<<"group", g>>))
  BY <1>1, <1>3, <1>4, <1>5
<1>7. TRUE \in BOOLEAN
  OBVIOUS
<1> QED
  BY <1>1, <1>2, <1>3, <1>6, <1>7, OneBegins

LEMMA ClearBegins ==
  ASSUME KvInv, NEW w \in Writers, ClearStart(w)
  PROVE  KvInv'
<1>1. /\ held' = 0 /\ kv' = kv /\ kind' = kind
      /\ Begin(w, [NoWork EXCEPT !.pc = "running", !.todo = <<<<"clear">>>>], TRUE)
  BY DEF ClearStart
<1>2. <<"clear">> \in KvSteps /\ ~IsPut(<<"clear">>) /\ Gone(<<"clear">>) = KvKeys
  BY DEF KvSteps, IsPut, Gone
<1>3. held' \in (0 - HeldMax) .. HeldMax /\ Present \subseteq KvKeys
  <2>1. 0 \in Nat
    OBVIOUS
  <2> QED
    BY <1>1, <2>1, CountsHeld
<1>4. Cardinality(Present \ Gone(<<"clear">>)) = 0
  <2>1. Present \ Gone(<<"clear">>) = {}
    BY <1>2, <1>3
  <2> QED
    BY <2>1, FS_EmptySet
<1>5. held' >= Cardinality(Present \ Gone(<<"clear">>))
  BY <1>1, <1>4
<1>6. TRUE \in BOOLEAN
  OBVIOUS
<1> QED
  BY <1>1, <1>2, <1>3, <1>5, <1>6, OneBegins

LEMMA TouchBegins ==
  ASSUME KvInv, NEW w \in Writers, NEW ks \in SUBSET KvKeys, TouchStart(w, ks)
  PROVE  KvInv'
<1>1. /\ held' = held /\ kv' = kv /\ kind' = kind
      /\ Begin(w, [NoWork EXCEPT !.pc = "reading", !.plan = "touch", !.keys = ks], TRUE)
  BY DEF TouchStart
<1>0. PICK x : x = [NoWork EXCEPT !.pc = "reading", !.plan = "touch", !.keys = ks]
  OBVIOUS
<1>2. x.pc = "reading" /\ x.plan = "touch" /\ x.todo = <<>>
  BY <1>0 DEF NoWork
<1>3. Begin(w, x, TRUE)
  BY <1>0, <1>1
<1>4. WorkFits(x)
  <2>1. <<>> \in Seq(KvSteps) /\ Ordered(<<>>)
    BY NothingOrdered DEF Ordered
  <2>2. x \in WorkType
    BY <1>0, <2>1 DEF WorkType, KvPlans, NoWork
  <2> QED
    BY <1>2, <2>1, <2>2 DEF WorkFits
<1>5. held' \in (0 - HeldMax) .. HeldMax
  BY <1>1 DEF KvInv
<1>6. alone /\ Quiet => held >= Cardinality(Present)
  BY DEF KvInv, AloneInv
<1>7. Present' = Present
  BY <1>1 DEF Present
<1>8. alone /\ Quiet => SeenTo(x)'
  BY <1>1, <1>2, <1>6, <1>7 DEF SeenTo
<1>9. x.pc # "idle" /\ x.todo = <<>> /\ TRUE \in BOOLEAN
  BY <1>2
<1> QED
  BY <1>1, <1>3, <1>4, <1>5, <1>8, <1>9, KvBegins

\* Of keys that hold one value each, a scan finds as many elements as keys.
LEMMA VictimsCount ==
  ASSUME kv \in [KvKeys -> Seq(Values)], \A k \in KvKeys : Len(kv[k]) <= 1,
         NEW K, K \subseteq KvKeys, NEW V, V \subseteq Found(K)
  PROVE  /\ {e[1] : e \in V} \subseteq Present \cap K
         /\ Cardinality({e[1] : e \in V}) = Cardinality(V)
<1> DEFINE D == {e[1] : e \in V}
           f == [e \in V |-> e[1]]
<1>1. \A e \in V : e[1] \in K /\ e[1] \in Present /\ e[2] \in 1 .. Len(kv[e[1]]) /\ e = <<e[1], e[2]>>
  BY FoundIs
<1>2. ASSUME NEW e \in V PROVE e[2] = 1
  <2>1. e[1] \in KvKeys /\ e[2] \in 1 .. Len(kv[e[1]])
    BY <1>1
  <2>2. Len(kv[e[1]]) \in Nat /\ Len(kv[e[1]]) <= 1
    BY <2>1
  <2> QED
    BY <2>1, <2>2
<1>3. \A e, d \in V : e[1] = d[1] => e = d
  BY <1>1, <1>2
<1>4. IsFiniteSet(V)
  <2>1. IsFiniteSet(Found(K))
    BY FoundIs
  <2> QED
    BY <2>1, FS_Subset
<1>5. f \in [V -> D] /\ (\A e, d \in V : f[e] = f[d] => e = d) /\ \A k \in D : \E e \in V : f[e] = k
  BY <1>3
<1>6. f \in Injection(V, D)
  BY <1>5 DEF Injection, IsInjective
<1>7. f \in Bijection(V, D)
  BY <1>5, <1>6 DEF Bijection, Surjection
<1>8. Cardinality(D) = Cardinality(V)
  BY <1>4, <1>7, FS_Bijection DEF ExistsBijection
<1> QED
  BY <1>1, <1>8

LEMMA FoundCount ==
  ASSUME kv \in [KvKeys -> Seq(Values)], \A k \in KvKeys : Len(kv[k]) <= 1
  PROVE  Cardinality(Found(KvKeys)) = Cardinality(Present)
<1>1. /\ {e[1] : e \in Found(KvKeys)} \subseteq Present
      /\ Cardinality({e[1] : e \in Found(KvKeys)}) = Cardinality(Found(KvKeys))
  BY VictimsCount
<1>2. ASSUME NEW k \in Present PROVE k \in {e[1] : e \in Found(KvKeys)}
  <2>1. k \in KvKeys
    BY DEF Present
  <2>2. <<k, 1>> \in Found(KvKeys)
    BY <2>1, FoundIs
  <2> QED
    BY <2>2
<1>3. {e[1] : e \in Found(KvKeys)} = Present
  BY <1>1, <1>2
<1> QED
  BY <1>1, <1>3

\* What one operation sees alone of the others.
LEMMA OthersIdle ==
  ASSUME KvInv, NEW w \in Writers, work[w].pc # "idle", alone
  PROVE  (\A v \in Writers \ {w} : work[v].pc = "idle") /\ SeenTo(work[w])
         /\ (\A k \in KvKeys : Len(kv[k]) <= 1) /\ Cardinality(Present) <= Capacity
BY DEF KvInv, AloneInv

LEMMA EvictKeeps ==
  ASSUME KvInv, NEW w \in Writers, Evict(w)
  PROVE  KvInv'
<1> DEFINE all == work[w].plan = "all"
           K == IF all THEN KvKeys ELSE {k \in KvKeys : Group[k] = work[w].plan}
           over == Cardinality(Found(K)) - ((IF all THEN Capacity ELSE PerGroup) - 1)
           n == IF over < 0 THEN 0 ELSE over
<1>1. /\ work[w].pc = "reading" /\ work[w].plan # "touch"
      /\ \E victims \in kSubset(n, Found(K)) :
           /\ work' = [work EXCEPT ![w] = Runs(Removes({e[1] : e \in victims}) \o @.todo)]
           /\ held' = IF all THEN Minus(held, Cardinality(victims)) ELSE held
      /\ kv' = kv /\ kind' = kind /\ alone' = alone
  BY DEF Evict
<1>2. /\ kv \in [KvKeys -> Seq(Values)] /\ work \in [Writers -> WorkType] /\ WorkFits(work[w])
      /\ held \in (0 - HeldMax) .. HeldMax /\ alone \in BOOLEAN /\ K \subseteq KvKeys
  BY DEF KvInv
<1>3. PICK k \in KvKeys, v \in Values : /\ work[w].todo = Write(k, v)
                                        /\ work[w].plan \in {"all", Group[k]}
  BY <1>1, <1>2 DEF WorkFits, Write
<1>4. PICK victims \in kSubset(n, Found(K)) :
        /\ work' = [work EXCEPT ![w] = Runs(Removes({e[1] : e \in victims}) \o @.todo)]
        /\ held' = IF all THEN Minus(held, Cardinality(victims)) ELSE held
  BY <1>1
<1> DEFINE D == {e[1] : e \in victims}
<1>5. victims \subseteq Found(K) /\ Cardinality(victims) = n
  BY <1>4 DEF kSubset
<1>6. /\ Capacity \in Nat /\ Capacity >= 1 /\ PerGroup \in Nat /\ Cardinality(Found(K)) \in Nat
  BY <1>2, KvAssumed, FoundIs
<1>7. n \in Nat
  <2>1. over \in Int
    BY <1>6
  <2> HIDE DEF over
  <2> QED
    BY <2>1
<1>8. D \subseteq KvKeys
  BY <1>2, <1>5, FoundIs
<1> DEFINE q == Removes(D) \o Write(k, v)
<1>9. /\ Ordered(q) /\ q # <<>> /\ ~IsPut(q[1]) /\ RemovedBy(q) = D \cup {k} /\ FilledBy(q) = {k}
  BY <1>8, VictimsFirst
<1>10. PICK x : x = Runs(q)
  OBVIOUS
<1>11. WorkFits(x) /\ x.todo = q /\ x.pc # "reading" /\ x.pc # "idle"
  BY <1>9, <1>10, RunsFits
<1>12. work' = [work EXCEPT ![w] = x]
  BY <1>2, <1>3, <1>4, <1>10
<1>13. /\ held' \in (0 - HeldMax) .. HeldMax /\ held \in Int /\ Minus(held, n) >= held - n
       /\ Cardinality(Present) \in Nat /\ Present \subseteq KvKeys
       /\ held' = (IF all THEN Minus(held, n) ELSE held) /\ Minus(held, n) \in Int
  <2>1. /\ Minus(held, n) \in (0 - HeldMax) .. HeldMax /\ held \in Int /\ Minus(held, n) >= held - n
        /\ Cardinality(Present) \in Nat /\ Present \subseteq KvKeys
    BY <1>7, CountsHeld
  <2>2. held' = (IF all THEN Minus(held, n) ELSE held)
    BY <1>4, <1>5
  <2>3. Minus(held, n) \in Int
    BY <2>1, KvAssumed
  <2> QED
    BY <1>2, <2>1, <2>2, <2>3
<1>14. ASSUME alone PROVE SeenTo(x)'
  <2>1. /\ \A j \in KvKeys : Len(kv[j]) <= 1
        /\ Cardinality(Present) <= Capacity /\ SeenTo(work[w])
    BY <1>1, <1>14, OthersIdle
  <2>2. /\ held >= Cardinality(Present) + 1
        /\ all \/ held <= Capacity
    BY <1>1, <2>1 DEF SeenTo
  <2>3. D \subseteq Present /\ Cardinality(D) = n
    BY <1>2, <1>5, <2>1, VictimsCount
  <2>4. Finally(q) \subseteq (Present \ D) \cup {k}
    BY <1>9 DEF Finally
  <2>5. /\ Cardinality(Present \ D) \in Nat /\ Cardinality(Finally(q)) \in Nat
        /\ Cardinality(Finally(q)) <= Cardinality(Present \ D) + 1
    <3>1. Present \ D \subseteq KvKeys
      BY <1>13
    <3> QED
      BY <2>4, <3>1, OneMore
  <2>6. Cardinality(Present \ D) = Cardinality(Present) - n
    <3>1. IsFiniteSet(Present) /\ IsFiniteSet(D)
      BY <1>13, <2>3, KeysCount
    <3>2. Cardinality(Present \ D) = Cardinality(Present) - Cardinality(Present \cap D)
      BY <3>1, FS_Difference
    <3>3. Present \cap D = D
      BY <2>3
    <3>4. Cardinality(Present \cap D) = n
      BY <2>3, <3>3
    <3> HIDE DEF n, D
    <3> QED
      BY <3>2, <3>4
  <2>7. held' >= Cardinality(Finally(q)) /\ Cardinality(Finally(q)) <= Capacity
    <3>1. CASE all
      <4>1. n = IF Cardinality(Present) - (Capacity - 1) < 0 THEN 0 ELSE Cardinality(Present) - (Capacity - 1)
        BY <1>2, <2>1, <3>1, FoundCount
      <4>2. Cardinality(Present) - n + 1 <= Capacity
        <5> HIDE DEF n
        <5> QED
          BY <1>6, <1>13, <4>1
      <4>3. held' >= held - n /\ held' \in Int
        BY <1>13, <3>1
      <4> HIDE DEF n
      <4> QED
        BY <1>6, <1>7, <1>13, <2>2, <2>5, <2>6, <4>2, <4>3
    <3>2. CASE ~all
      <4>1. held' = held /\ held <= Capacity
        BY <1>13, <2>2, <3>2
      <4> HIDE DEF n
      <4> QED
        BY <1>6, <1>7, <1>13, <2>2, <2>5, <2>6, <4>1
    <3> QED
      BY <3>1, <3>2
  <2>9. Finally(x.todo)' = Finally(q)
    BY <1>1, <1>11 DEF Finally, Present
  <2> QED
    BY <1>9, <1>11, <2>7, <2>9 DEF SeenTo
<1> HIDE DEF all, K, over, n, D, q
<1>15. alone' => alone /\ \A u \in Writers \ {w} : work[u].pc = "idle"
  BY <1>1, OthersIdle
<1> QED
  BY <1>1, <1>2, <1>9, <1>11, <1>12, <1>13, <1>14, <1>15, KvMoves

LEMMA TouchKeeps ==
  ASSUME KvInv, NEW w \in Writers, Touch(w)
  PROVE  KvInv'
<1> DEFINE f == SetToSeq(Found(work[w].keys))
<1>1. /\ work[w].pc = "reading" /\ work[w].plan = "touch"
      /\ work' = [work EXCEPT ![w] = Runs(Rewrites(f))]
      /\ kv' = kv /\ kind' = kind /\ alone' = alone /\ held' = held
  BY DEF Touch, Rewrites
<1>2. /\ kv \in [KvKeys -> Seq(Values)] /\ work \in [Writers -> WorkType]
      /\ held \in (0 - HeldMax) .. HeldMax /\ alone \in BOOLEAN
  BY DEF KvInv
<1>3. work[w].keys \subseteq KvKeys
  BY <1>2 DEF WorkType
<1>4. f \in Seq(Found(work[w].keys))
  BY <1>2, <1>3, FoundIs, SetToSeqIs
<1> HIDE DEF f
<1> DEFINE q == Rewrites(f)
<1>5. /\ Ordered(q) /\ (q # <<>> => ~IsPut(q[1])) /\ RemovedBy(q) = FilledBy(q) /\ FilledBy(q) \subseteq Present
  BY <1>2, <1>3, <1>4, RewritesOrdered
<1> HIDE DEF q
<1>6. PICK x : x = Runs(q)
  OBVIOUS
<1>7. WorkFits(x) /\ x.todo = q /\ x.pc # "reading"
  BY <1>5, <1>6, RunsFits
<1>8. work' = [work EXCEPT ![w] = x]
  BY <1>1, <1>6 DEF q
<1>9. Present' = Present
  BY <1>1 DEF Present
<1>10. ASSUME alone PROVE held >= Cardinality(Present) /\ Cardinality(Present) <= Capacity
  BY <1>1, <1>10, OthersIdle DEF SeenTo
<1>11. ASSUME alone PROVE SeenTo(x)'
  <2>1. (Present \ RemovedBy(q)) \cup FilledBy(q) = Present
    BY <1>5
  <2>2. Finally(x.todo)' = Present
    BY <1>7, <1>9, <2>1 DEF Finally
  <2> QED
    BY <1>1, <1>5, <1>7, <1>10, <1>11, <2>2 DEF SeenTo
<1>12. alone' => alone /\ \A u \in Writers \ {w} : work[u].pc = "idle"
  BY <1>1, OthersIdle
<1> QED
  BY <1>1, <1>2, <1>5, <1>7, <1>8, <1>10, <1>11, <1>12, KvMoves

LEMMA DropKeeps ==
  ASSUME KvInv, NEW w \in Writers, Drop(w)
  PROVE  KvInv'
<1>1. PICK x : x = NoWork
  OBVIOUS
<1>2. /\ work' = [work EXCEPT ![w] = x] /\ alone' = FALSE /\ kv' = kv /\ kind' = kind /\ held' = held
  BY <1>1 DEF Drop
<1>3. x.todo = <<>>
  BY <1>1 DEF NoWork
<1>4. WorkFits(x)
  <2>1. Runs(<<>>) = NoWork
    BY DEF Runs
  <2> QED
    BY <1>1, <2>1, NothingOrdered, RunsFits
<1>5. held' \in (0 - HeldMax) .. HeldMax /\ alone' \in BOOLEAN
  BY <1>2 DEF KvInv
<1> QED
  BY <1>2, <1>3, <1>4, <1>5, KvMoves

\* The values after a step.
LEMMA AfterIs ==
  ASSUME kv \in [KvKeys -> Seq(Values)], NEW s \in KvSteps
  PROVE  /\ After(s) \in [KvKeys -> Seq(Values)]
         /\ \A k \in KvKeys : /\ k \in Gone(s) => After(s)[k] = <<>>
                              /\ k \in Filled(s) => Len(After(s)[k]) = Len(kv[k]) + 1
                              /\ k \notin Gone(s) /\ k \notin Filled(s) => After(s)[k] = kv[k]
         /\ Gone(s) \cap Filled(s) = {} /\ Gone(s) \cup Filled(s) \subseteq KvKeys
<1>0. <<>> \in Seq(Values)
  OBVIOUS
<1>1. CASE \E k \in KvKeys : s = <<"remove", k>>
  <2>1. PICK k \in KvKeys : s = <<"remove", k>>
    BY <1>1
  <2>2. s[1] = "remove" /\ s[2] = k /\ Gone(s) = {k} /\ Filled(s) = {}
    BY <2>1, RemoveStepIs
  <2>3. After(s) = [kv EXCEPT ![k] = <<>>]
    BY <2>2 DEF After
  <2> QED
    BY <1>0, <2>2, <2>3
<1>2. CASE \E k \in KvKeys, v \in Values : s = <<"put", k, v>>
  <2>1. PICK k \in KvKeys, v \in Values : s = <<"put", k, v>>
    BY <1>2
  <2>2. s[1] = "put" /\ s[2] = k /\ s[3] = v /\ Gone(s) = {} /\ Filled(s) = {k}
    BY <2>1, PutStepIs
  <2>3. After(s) = [kv EXCEPT ![k] = Append(kv[k], v)]
    BY <2>2 DEF After
  <2>4. Append(kv[k], v) \in Seq(Values) /\ Len(Append(kv[k], v)) = Len(kv[k]) + 1
    OBVIOUS
  <2> QED
    BY <2>2, <2>3, <2>4
<1>3. CASE \E g \in Groups : s = <<"group", g>>
  <2>1. PICK g \in Groups : s = <<"group", g>>
    BY <1>3
  <2>2. s[1] = "group" /\ s[2] = g
    BY <2>1
  <2>3. Gone(s) = {k \in KvKeys : Group[k] = g} /\ Filled(s) = {}
    BY <2>2 DEF Gone, Filled, IsPut
  <2>4. After(s) = [k \in KvKeys |-> IF Group[k] = g THEN <<>> ELSE kv[k]]
    BY <2>2 DEF After
  <2> QED
    BY <1>0, <2>3, <2>4
<1>4. CASE s = <<"clear">>
  <2>1. s[1] = "clear"
    BY <1>4
  <2>2. Gone(s) = KvKeys /\ Filled(s) = {}
    BY <2>1 DEF Gone, Filled, IsPut
  <2>3. After(s) = [k \in KvKeys |-> <<>>]
    BY <2>1 DEF After
  <2> QED
    BY <1>0, <2>2, <2>3
<1> QED
  BY <1>1, <1>2, <1>3, <1>4 DEF KvSteps

\* Once a put has come to the front, nothing is removed that is not put again.
LEMMA PutFirst ==
  ASSUME NEW q, Ordered(q), q # <<>>, IsPut(q[1])
  PROVE  RemovedBy(q) \subseteq FilledBy(q)
<1>1. /\ q \in Seq(KvSteps) /\ 1 \in 1 .. Len(q)
      /\ \A j \in 1 .. Len(q) : q[j] \in KvSteps
      /\ \A j \in 1 .. Len(q) : 1 < j /\ ~IsPut(q[j]) =>
           IsRemove(q[j]) /\ j + 1 \in 1 .. Len(q) /\ IsPut(q[j + 1]) /\ q[j + 1][2] = q[j][2]
  <2>1. q \in Seq(KvSteps)
    BY DEF Ordered
  <2>2. 1 \in 1 .. Len(q) /\ \A j \in 1 .. Len(q) : q[j] \in KvSteps
    BY <2>1
  <2> QED
    BY <2>1, <2>2 DEF Ordered
<1> SUFFICES ASSUME NEW k \in RemovedBy(q) PROVE k \in FilledBy(q)
  OBVIOUS
<1>2. PICK j \in 1 .. Len(q) : k \in Gone(q[j])
  BY DEF RemovedBy
<1>3. ~IsPut(q[j])
  BY <1>1, <1>2, StepKinds
<1>4. 1 < j
  <2>1. j # 1
    BY <1>3
  <2>2. Len(q) \in Nat
    BY <1>1
  <2> QED
    BY <2>1, <2>2
<1>5. IsRemove(q[j]) /\ j + 1 \in 1 .. Len(q) /\ IsPut(q[j + 1]) /\ q[j + 1][2] = q[j][2]
  BY <1>1, <1>3, <1>4
<1>6. Gone(q[j]) = {q[j][2]}
  BY <1>5 DEF IsRemove, Gone
<1>7. Filled(q[j + 1]) = {q[j + 1][2]}
  BY <1>5 DEF Filled
<1>8. k \in Filled(q[j + 1])
  BY <1>2, <1>5, <1>6, <1>7
<1> QED
  BY <1>5, <1>8 DEF FilledBy

\* A step leaves a list no more to come to, and no more than it was to have.
LEMMA StepFills ==
  ASSUME kv \in [KvKeys -> Seq(Values)], NEW q, Ordered(q), q # <<>>, kv' = After(q[1])
  PROVE  /\ Present' = (Present \ Gone(q[1])) \cup Filled(q[1])
         /\ Finally(Tail(q))' \subseteq Finally(q)
         /\ Finally(q) \subseteq KvKeys
         /\ IsPut(q[1]) => Present' \subseteq Finally(q)
         /\ ~IsPut(q[1]) => Present' \subseteq Present
<1>1. q[1] \in KvSteps /\ q \in Seq(KvSteps)
  BY TailIs DEF Ordered
<1>2. /\ kv' \in [KvKeys -> Seq(Values)]
      /\ \A k \in KvKeys : /\ k \in Gone(q[1]) => kv'[k] = <<>>
                           /\ k \in Filled(q[1]) => Len(kv'[k]) = Len(kv[k]) + 1
                           /\ k \notin Gone(q[1]) /\ k \notin Filled(q[1]) => kv'[k] = kv[k]
      /\ Gone(q[1]) \cap Filled(q[1]) = {} /\ Gone(q[1]) \cup Filled(q[1]) \subseteq KvKeys
  BY <1>1, AfterIs
<1>3. Present' = (Present \ Gone(q[1])) \cup Filled(q[1])
  <2>1. Present' = {k \in KvKeys : kv'[k] # <<>>} /\ Present = {k \in KvKeys : kv[k] # <<>>}
    BY DEF Present
  <2>2. \A k \in KvKeys : k \in Filled(q[1]) => kv'[k] # <<>>
    <3> SUFFICES ASSUME NEW k \in KvKeys, k \in Filled(q[1]) PROVE kv'[k] # <<>>
      OBVIOUS
    <3>1. Len(kv'[k]) = Len(kv[k]) + 1 /\ Len(kv[k]) \in Nat
      BY <1>2
    <3>2. Len(kv'[k]) # 0
      BY <3>1
    <3> QED
      BY <3>2
  <2> QED
    BY <1>2, <2>1, <2>2
<1>4. /\ RemovedBy(q) = Gone(q[1]) \cup RemovedBy(Tail(q))
      /\ FilledBy(q) = Filled(q[1]) \cup FilledBy(Tail(q))
  BY OrderedTail
<1>5. Finally(Tail(q))' = (Present' \ RemovedBy(Tail(q))) \cup FilledBy(Tail(q))
  BY DEF Finally
<1>6. Finally(Tail(q))' \subseteq Finally(q)
  BY <1>3, <1>4, <1>5 DEF Finally
<1>7. Finally(q) \subseteq KvKeys
  <2>1. ASSUME NEW k \in FilledBy(q) PROVE k \in KvKeys
    <3>1. PICK i \in 1 .. Len(q) : k \in Filled(q[i])
      BY <2>1 DEF FilledBy
    <3>2. q[i] \in KvSteps
      BY <1>1
    <3> QED
      BY <3>1, <3>2, StepKinds
  <2> QED
    BY <2>1 DEF Finally, Present
<1>8. ASSUME IsPut(q[1]) PROVE Present' \subseteq Finally(q)
  <2>1. RemovedBy(q) \subseteq FilledBy(q)
    BY <1>8, PutFirst
  <2> QED
    BY <1>3, <1>4, <2>1 DEF Finally
<1>9. ~IsPut(q[1]) => Present' \subseteq Present
  BY <1>3 DEF Filled
<1> QED
  BY <1>3, <1>6, <1>7, <1>8, <1>9

LEMMA StepKeeps ==
  ASSUME KvInv, NEW w \in Writers, Step(w)
  PROVE  KvInv'
<1>0. PICK q : q = work[w].todo
  OBVIOUS
<1> DEFINE t == Tail(q)
<1>1. /\ work[w].pc = "running" /\ kv' = After(Head(q)) /\ work' = [work EXCEPT ![w] = Runs(Tail(@.todo))]
      /\ kind' = kind /\ alone' = alone /\ held' = held
  BY <1>0 DEF Step
<1>2. /\ kv \in [KvKeys -> Seq(Values)] /\ work \in [Writers -> WorkType]
      /\ \A v \in Writers : WorkFits(work[v])
      /\ kind \in {"cookie", "cache"} /\ alone \in BOOLEAN
      /\ \A k \in KvKeys : Len(kv[k]) + Cardinality(Armed(k)) <= Cardinality(Writers)
      /\ held \in (0 - HeldMax) .. HeldMax /\ alone => AloneInv
  BY DEF KvInv
<1>3. Ordered(q) /\ q # <<>> /\ q \in Seq(KvSteps)
  BY <1>0, <1>1, <1>2 DEF WorkFits, Ordered
<1>4. Head(q) = q[1] /\ q[1] \in KvSteps
  BY <1>3, TailIs
<1>5. kv' = After(q[1]) /\ work' = [work EXCEPT ![w] = Runs(t)]
  BY <1>0, <1>1, <1>2, <1>4
<1>6. /\ Ordered(t) /\ (t # <<>> /\ IsPut(t[1]) => IsRemove(q[1]) /\ q[1][2] = t[1][2])
  BY <1>3, OrderedTail
<1>7. /\ kv' \in [KvKeys -> Seq(Values)]
      /\ \A k \in KvKeys : /\ k \in Gone(q[1]) => kv'[k] = <<>>
                           /\ k \in Filled(q[1]) => Len(kv'[k]) = Len(kv[k]) + 1
                           /\ k \notin Gone(q[1]) /\ k \notin Filled(q[1]) => kv'[k] = kv[k]
      /\ Gone(q[1]) \cap Filled(q[1]) = {} /\ Gone(q[1]) \cup Filled(q[1]) \subseteq KvKeys
  BY <1>2, <1>4, <1>5, AfterIs
<1>8. /\ Finally(t)' \subseteq Finally(q) /\ Finally(q) \subseteq KvKeys
      /\ (IsPut(q[1]) => Present' \subseteq Finally(q)) /\ (~IsPut(q[1]) => Present' \subseteq Present)
  BY <1>2, <1>3, <1>5, StepFills
<1>9. t # <<>> /\ IsPut(t[1]) => t[1][2] \in Gone(q[1])
  BY <1>6 DEF IsRemove, Gone
<1>10. PICK x : x = Runs(t)
  OBVIOUS
<1>11. WorkFits(x) /\ x.todo = t /\ x.pc # "reading" /\ (x.pc = "idle" <=> t = <<>>) /\ x \in WorkType
  BY <1>6, <1>10, RunsFits DEF WorkFits
<1>12. work' \in [Writers -> WorkType] /\ \A v \in Writers : work'[v] = IF v = w THEN x ELSE work[v]
  BY <1>2, <1>5, <1>10, <1>11
<1>13. \A v \in Writers : WorkFits(work'[v])
  BY <1>2, <1>11, <1>12
<1>14. ASSUME NEW k \in KvKeys, w \in Armed(k)' PROVE k \in Gone(q[1])
  BY <1>9, <1>11, <1>12, <1>14 DEF Armed
<1>15. \A k \in KvKeys : Armed(k)' \subseteq Armed(k) \cup {w} /\ Armed(k)' \subseteq Writers /\ Armed(k) \subseteq Writers
  BY <1>12 DEF Armed
<1>16. ASSUME NEW k \in KvKeys PROVE Len(kv'[k]) + Cardinality(Armed(k)') <= Cardinality(Writers)
  <2>1. /\ Len(kv[k]) \in Nat /\ Len(kv'[k]) \in Nat /\ Cardinality(Writers) \in Nat
        /\ Len(kv[k]) + Cardinality(Armed(k)) <= Cardinality(Writers)
    BY <1>2, <1>7, KvAssumed
  <2>2. /\ Cardinality(Armed(k)') \in Nat /\ Cardinality(Armed(k)') <= Cardinality(Writers)
        /\ Cardinality(Armed(k)) \in Nat /\ IsFiniteSet(Armed(k))
    BY <1>15, ArmedCount
  <2>3. CASE k \in Gone(q[1])
    <3>1. Len(kv'[k]) = 0
      BY <1>7, <2>3
    <3> QED
      BY <2>1, <2>2, <3>1
  <2>4. CASE k \notin Gone(q[1])
    <3>1. Armed(k)' \subseteq Armed(k) \ {w} \/ (Armed(k)' \subseteq Armed(k) /\ w \notin Armed(k))
      BY <1>14, <1>15, <2>4
    <3>2. CASE k \in Filled(q[1])
      <4>1. w \in Armed(k)
        BY <1>0, <1>3, <3>2 DEF Filled, Armed
      <4>2. Cardinality(Armed(k) \ {w}) = Cardinality(Armed(k)) - 1
        BY <2>2, <4>1, FS_RemoveElement
      <4>3. Cardinality(Armed(k)') <= Cardinality(Armed(k) \ {w})
        <5>1. Armed(k)' \subseteq Armed(k) \ {w} /\ Armed(k) \ {w} \subseteq Writers
          BY <1>15, <3>1, <4>1
        <5> QED
          BY <5>1, ArmedCount
      <4>4. Len(kv'[k]) = Len(kv[k]) + 1
        BY <1>7, <3>2
      <4> QED
        BY <2>1, <2>2, <4>2, <4>3, <4>4
    <3>3. CASE k \notin Filled(q[1])
      <4>1. Len(kv'[k]) = Len(kv[k])
        BY <1>7, <2>4, <3>3
      <4>2. Cardinality(Armed(k)') <= Cardinality(Armed(k))
        BY <1>15, <3>1, ArmedCount
      <4> QED
        BY <2>1, <2>2, <4>1, <4>2
    <3> QED
      BY <3>2, <3>3
  <2> QED
    BY <2>3, <2>4
<1>17. ASSUME alone PROVE AloneInv'
  <2>1. /\ \A v \in Writers \ {w} : work[v].pc = "idle"
        /\ SeenTo(work[w]) /\ (\A k \in KvKeys : Len(kv[k]) <= 1) /\ Cardinality(Present) <= Capacity
    BY <1>1, <1>17, OthersIdle
  <2>2. /\ held >= Cardinality(Finally(q)) /\ Cardinality(Finally(q)) <= Capacity
        /\ (IsPut(q[1]) => kv[q[1][2]] = <<>>)
    BY <1>0, <1>1, <1>3, <2>1 DEF SeenTo
  <2>3. held \in Int /\ Capacity \in Nat /\ Present \subseteq KvKeys
    BY CountsHeld, KvAssumed DEF Present
  <2>4. \A v, u \in Writers : work'[v].pc # "idle" /\ work'[u].pc # "idle" => v = u
    BY <1>12, <2>1
  <2>5. ASSUME NEW k \in KvKeys PROVE Len(kv'[k]) <= 1
    <3>1. CASE k \in Gone(q[1])
      <4>1. Len(kv'[k]) = 0
        BY <1>7, <3>1
      <4> QED
        BY <4>1
    <3>2. CASE k \in Filled(q[1])
      <4>1. kv[k] = <<>>
        BY <2>2, <3>2 DEF Filled
      <4>2. Len(kv[k]) = 0 /\ Len(kv'[k]) = Len(kv[k]) + 1
        BY <1>7, <3>2, <4>1
      <4> QED
        BY <4>2
    <3>3. CASE k \notin Gone(q[1]) /\ k \notin Filled(q[1])
      BY <1>7, <2>1, <3>3
    <3> QED
      BY <3>1, <3>2, <3>3
  <2>6. Cardinality(Present') <= Capacity
    <3>1. CASE IsPut(q[1])
      <4>1. Cardinality(Present') \in Nat /\ Cardinality(Finally(q)) \in Nat
            /\ Cardinality(Present') <= Cardinality(Finally(q))
        BY <1>8, <3>1, KeysCount
      <4> QED
        BY <2>2, <2>3, <4>1
    <3>2. CASE ~IsPut(q[1])
      <4>1. Cardinality(Present') \in Nat /\ Cardinality(Present) \in Nat
            /\ Cardinality(Present') <= Cardinality(Present)
        BY <1>8, <2>3, <3>2, KeysCount
      <4> QED
        BY <2>1, <2>3, <4>1
    <3> QED
      BY <3>1, <3>2
  <2>7. /\ Cardinality(Finally(t)') \in Nat /\ Cardinality(Finally(q)) \in Nat
        /\ Cardinality(Finally(t)') <= Cardinality(Finally(q))
    BY <1>8, KeysCount
  <2>8. held' >= Cardinality(Finally(t)') /\ Cardinality(Finally(t)') <= Capacity
    BY <1>1, <2>2, <2>3, <2>7
  <2>9. ASSUME Quiet' PROVE held' >= Cardinality(Present')
    <3>1. t = <<>>
      BY <1>11, <1>12, <2>9 DEF Quiet
    <3>2. Finally(t)' = Present'
      BY <3>1, NothingOrdered DEF Finally
    <3> QED
      BY <2>8, <3>2
  <2>10. ASSUME NEW v \in Writers, work'[v].pc # "idle" PROVE SeenTo(work[v])'
    <3>1. v = w /\ work'[v] = x
      BY <1>12, <2>1, <2>10
    <3>2. t # <<>> /\ IsPut(t[1]) => kv'[t[1][2]] = <<>>
      BY <1>7, <1>9
    <3>3. SeenTo(x)'
      <4>1. Finally(x.todo)' = Finally(t)'
        BY <1>11 DEF Finally
      <4> QED
        BY <1>11, <2>8, <3>2, <4>1 DEF SeenTo
    <3> QED
      BY <3>1, <3>3 DEF SeenTo, Finally
  <2> QED
    BY <2>4, <2>5, <2>6, <2>9, <2>10 DEF AloneInv
<1> QED
  BY <1>1, <1>2, <1>7, <1>12, <1>13, <1>16, <1>17 DEF KvInv

LEMMA KvStays ==
  ASSUME KvInv, UNCHANGED kvVars
  PROVE  KvInv'
BY DEF KvInv, kvVars, AloneInv, Armed, Quiet, SeenTo, Finally, Present, WorkFits

LEMMA KvStart == KvInit => KvInv
<1> SUFFICES ASSUME KvInit PROVE KvInv
  OBVIOUS
<1>1. /\ kind \in {"cookie", "cache"} /\ kv = [k \in KvKeys |-> <<>>] /\ held = 0
      /\ work = [w \in Writers |-> NoWork] /\ alone = TRUE
  BY DEF KvInit
<1>2. WorkFits(NoWork) /\ NoWork.todo = <<>> /\ NoWork.pc = "idle" /\ NoWork \in WorkType
  <2>1. Runs(<<>>) = NoWork
    BY DEF Runs
  <2>2. WorkFits(NoWork) /\ NoWork.todo = <<>> /\ NoWork.pc = "idle"
    BY <2>1, NothingOrdered, RunsFits
  <2> QED
    BY <2>2 DEF WorkFits
<1>3. kv \in [KvKeys -> Seq(Values)] /\ \A k \in KvKeys : kv[k] = <<>> /\ Len(kv[k]) = 0
  BY <1>1
<1>4. \A k \in KvKeys : Armed(k) = {}
  BY <1>1, <1>2 DEF Armed
<1>5. Cardinality({}) = 0 /\ Cardinality(Writers) \in Nat
  BY KvAssumed, FS_EmptySet
<1>6. \A k \in KvKeys : Len(kv[k]) + Cardinality(Armed(k)) <= Cardinality(Writers)
  <2> SUFFICES ASSUME NEW k \in KvKeys PROVE Len(kv[k]) + Cardinality(Armed(k)) <= Cardinality(Writers)
    OBVIOUS
  <2>1. Len(kv[k]) = 0
    BY <1>3
  <2>2. Cardinality(Armed(k)) = 0
    BY <1>4, <1>5
  <2> QED
    BY <1>5, <2>1, <2>2
<1>7. Present = {}
  BY <1>3 DEF Present
<1>8. held \in (0 - HeldMax) .. HeldMax /\ Capacity \in Nat
  BY <1>1, KvAssumed
<1>9. AloneInv
  <2>1. Cardinality(Present) = 0
    BY <1>5, <1>7
  <2>2. \A k \in KvKeys : Len(kv[k]) <= 1
    BY <1>3
  <2>3. Cardinality(Present) <= Capacity /\ held >= Cardinality(Present)
    BY <1>1, <1>8, <2>1
  <2> QED
    BY <1>1, <1>2, <2>2, <2>3 DEF AloneInv
<1> QED
  BY <1>1, <1>2, <1>3, <1>6, <1>8, <1>9 DEF KvInv

LEMMA KvKeeps == KvInv /\ [KvNext]_kvVars => KvInv'
<1> SUFFICES ASSUME KvInv, [KvNext]_kvVars PROVE KvInv'
  OBVIOUS
<1>1. CASE UNCHANGED kvVars
  BY <1>1, KvStays
<1>2. CASE KvNext
  <2>1. PICK w \in Writers :
          \/ \E k \in KvKeys, v \in Values : PutStart(w, k, v)
          \/ \E k \in KvKeys : RemoveStart(w, k)
          \/ \E ks \in SUBSET KvKeys : TouchStart(w, ks)
          \/ \E g \in Groups : InvalidateStart(w, g)
          \/ ClearStart(w) \/ Evict(w) \/ Touch(w) \/ Step(w) \/ Drop(w)
    BY <1>2 DEF KvNext
  <2>2. CASE \E k \in KvKeys, v \in Values : PutStart(w, k, v)
    BY <2>2, PutBegins
  <2>3. CASE \E k \in KvKeys : RemoveStart(w, k)
    BY <2>3, RemoveBegins
  <2>4. CASE \E ks \in SUBSET KvKeys : TouchStart(w, ks)
    BY <2>4, TouchBegins
  <2>5. CASE \E g \in Groups : InvalidateStart(w, g)
    BY <2>5, InvalidateBegins
  <2>6. CASE ClearStart(w)
    BY <2>6, ClearBegins
  <2>7. CASE Evict(w)
    BY <2>7, EvictKeeps
  <2>8. CASE Touch(w)
    BY <2>8, TouchKeeps
  <2>9. CASE Step(w)
    BY <2>9, StepKeeps
  <2>10. CASE Drop(w)
    BY <2>10, DropKeeps
  <2> QED
    BY <2>1, <2>2, <2>3, <2>4, <2>5, <2>6, <2>7, <2>8, <2>9, <2>10
<1> QED
  BY <1>1, <1>2

\* The types, and the bound while operations run one at a time.
LEMMA KvPromise == KvInv => KvTypeOK /\ BoundHoldsAlone
<1> SUFFICES ASSUME KvInv PROVE KvTypeOK /\ BoundHoldsAlone
  OBVIOUS
<1>1. KvTypeOK
  <2>1. ASSUME NEW k \in KvKeys PROVE Len(kv[k]) <= Cardinality(Writers)
    <3>1. Armed(k) \subseteq Writers
      BY DEF Armed
    <3>2. Cardinality(Armed(k)) \in Nat
      BY <3>1, ArmedCount
    <3>3. Len(kv[k]) \in Nat /\ Len(kv[k]) + Cardinality(Armed(k)) <= Cardinality(Writers) /\ Cardinality(Writers) \in Nat
      BY KvAssumed DEF KvInv
    <3> QED
      BY <3>2, <3>3
  <2>2. \A w \in Writers : work[w].pc = "running" => work[w].todo # <<>>
    BY DEF KvInv, WorkFits
  <2> QED
    BY <2>1, <2>2 DEF KvInv, KvTypeOK
<1>2. ASSUME alone PROVE /\ Total <= Capacity /\ (\A k \in KvKeys : Len(kv[k]) <= 1)
                         /\ (\A w \in Writers : work[w].pc = "idle") => held >= Total
  <2>1. AloneInv /\ kv \in [KvKeys -> Seq(Values)]
    BY <1>2 DEF KvInv
  <2>2. Total = Cardinality(Present)
    BY <2>1, FoundCount DEF AloneInv, Total
  <2> QED
    BY <2>1, <2>2 DEF AloneInv, Quiet
<1> QED
  BY <1>1, <1>2 DEF BoundHoldsAlone

------------------------------------------------------------------------------
(* The cookie jar (cookie/jar.rs, cookie/store.rs).                         *)

Cookie ==
  [name : STRING, domain : Hosts, hostOnly : BOOLEAN, path : Paths, secure : BOOLEAN,
   expires : Nat, access : Nat, seq : Nat]

\* A cookie nobody is refused for.
Lawful(c) ==
  /\ c \in Cookie
  /\ c.hostOnly \/ (c.domain \notin Ips /\ c.domain \notin PublicSuffixes)
  /\ PrefixHolds(c.name, c.secure, c.hostOnly, c.path)

OneToAKey(cs) == \A c, d \in cs : KeyOfCookie(c) = KeyOfCookie(d) => c = d

StoreType == [held : SUBSET Cookie, count : Nat, next : Nat]

StoreFits(s) ==
  /\ s \in StoreType /\ IsFiniteSet(s.held)
  /\ s.count = Cardinality(s.held) /\ s.count <= MaxCookies
  /\ \A d \in Hosts : Cardinality(OfDomain(s.held, d)) <= MaxPerDomain
  /\ OneToAKey(s.held)
  /\ \A c \in s.held : Lawful(c)

JobType ==
  [pc : {"idle", "puts", "touches"}, todo : Seq(Cookie), snap : SUBSET Cookie,
   placed : SUBSET Cookie, at : Nat]

\* Every cookie that a later put can take a number from.
Numbered == jar.store.held \cup UNION {job[t].snap \cup job[t].placed : t \in JarTasks}

JarInv ==
  /\ jar \in [store : StoreType, now : Nat] /\ job \in [JarTasks -> JobType]
  /\ StoreFits(jar.store)
  /\ \A t \in JarTasks : /\ job[t].pc = "puts" => job[t].todo # <<>>
                         /\ \A i \in 1 .. Len(job[t].todo) : Lawful(job[t].todo[i])
  /\ \A c \in Numbered : c.seq < jar.store.next
  /\ \A c, d \in Numbered : c.seq = d.seq => KeyOfCookie(c) = KeyOfCookie(d)

LEMMA JarAssumed ==
  /\ MaxCookies \in Nat /\ MaxCookies >= 1 /\ MaxPerDomain \in Nat /\ MaxPerDomain >= 1
  /\ MaxExpiry \in Nat /\ JarMaxTime \in Nat
  /\ Origins \subseteq [host : Hosts, path : Paths, secure : BOOLEAN]
  /\ \A o \in Origins, p \in Ips : o.host # p => ~IsSuffix(p, o.host)
  /\ Responses \subseteq
       Seq([name : STRING, attr : Hosts, path : Paths, secure : BOOLEAN, age : Nat])
  /\ Records \subseteq Cookie
<1>1. MaxCookies \in Nat /\ MaxCookies >= 1 /\ MaxPerDomain \in Nat /\ MaxPerDomain >= 1
  BY JarAssumption
<1>2. MaxExpiry \in Nat /\ JarMaxTime \in Nat
  BY JarAssumption
<1> QED
  BY <1>1, <1>2, JarAssumption, Zenon DEF Cookie

LEMMA LeastOf ==
  ASSUME NEW T, T \subseteq Nat, T # {}
  PROVE  \E x \in T : \A y \in T : x <= y
<1>1. PICK x \in T : \A y \in T : ~(<<y, x>> \in OpToRel(<, Nat))
  BY NatLessThanWellFounded, WFMin, Zenon
<1>2. \A y \in T : ~(y < x)
  BY <1>1 DEF OpToRel
<1> QED
  BY <1>2

\* What is evicted is one of those it is chosen among.
LEMMA VictimIs ==
  ASSUME NEW cs, cs \subseteq Cookie, cs # {}
  PROVE  Victim(cs) \in cs
<1> DEFINE A == {c.access : c \in cs}
<1>0. \A c \in cs : c.access \in Nat /\ c.seq \in Nat
  BY DEF Cookie
<1>1. PICK a \in A : \A y \in A : a <= y
  <2>1. A \subseteq Nat /\ A # {}
    BY <1>0
  <2> HIDE DEF A
  <2> QED
    BY <2>1, LeastOf
<1> DEFINE B == {c.seq : c \in {x \in cs : x.access = a}}
<1>2. PICK b \in B : \A y \in B : b <= y
  <2>1. B \subseteq Nat /\ B # {}
    BY <1>0, <1>1
  <2> HIDE DEF B
  <2> QED
    BY <2>1, LeastOf
<1>3. PICK v \in cs : v.access = a /\ v.seq = b
  BY <1>2
<1>4. \A x \in cs : v.access < x.access \/ (v.access = x.access /\ v.seq <= x.seq)
  <2> SUFFICES ASSUME NEW x \in cs PROVE v.access < x.access \/ (v.access = x.access /\ v.seq <= x.seq)
    OBVIOUS
  <2>1. a <= x.access /\ x.access \in Nat /\ v.access \in Nat /\ a = v.access
    BY <1>0, <1>1, <1>3
  <2>2. x.access = a => b <= x.seq
    BY <1>2
  <2> QED
    BY <1>3, <2>1, <2>2
<1>5. \E u \in cs : \A x \in cs : u.access < x.access \/ (u.access = x.access /\ u.seq <= x.seq)
  BY <1>4
<1> QED
  BY <1>5 DEF Victim

\* Fewer cookies are no more.
LEMMA CookiesCount ==
  ASSUME NEW H, IsFiniteSet(H), NEW G, G \subseteq H
  PROVE  /\ IsFiniteSet(G) /\ Cardinality(G) \in Nat /\ Cardinality(H) \in Nat
         /\ Cardinality(G) <= Cardinality(H)
         /\ Cardinality(H \ G) = Cardinality(H) - Cardinality(G)
         /\ \A d : OfDomain(G, d) \subseteq OfDomain(H, d) /\ OfDomain(H, d) \subseteq H
<1>1. IsFiniteSet(G) /\ Cardinality(G) <= Cardinality(H)
  BY FS_Subset
<1>2. Cardinality(G) \in Nat /\ Cardinality(H) \in Nat
  BY <1>1, FS_CardinalityType
<1>3. Cardinality(H \ G) = Cardinality(H) - Cardinality(H \cap G)
  BY <1>1, FS_Difference
<1>4. H \cap G = G
  OBVIOUS
<1>5. \A d : OfDomain(G, d) \subseteq OfDomain(H, d) /\ OfDomain(H, d) \subseteq H
  BY DEF OfDomain
<1> QED
  BY <1>1, <1>2, <1>3, <1>4, <1>5

LEMMA LessFits ==
  ASSUME NEW s, StoreFits(s), NEW r, r \in StoreType, r.held \subseteq s.held,
         r.count = s.count - Cardinality(s.held \ r.held)
  PROVE  StoreFits(r)
<1>1. /\ IsFiniteSet(s.held) /\ s.count = Cardinality(s.held) /\ s.count <= MaxCookies
      /\ \A d \in Hosts : Cardinality(OfDomain(s.held, d)) <= MaxPerDomain
      /\ OneToAKey(s.held) /\ \A c \in s.held : Lawful(c)
  BY DEF StoreFits
<1> DEFINE H == s.held
           G == r.held
<1>2. /\ IsFiniteSet(G) /\ Cardinality(G) \in Nat /\ Cardinality(H) \in Nat
      /\ Cardinality(G) <= Cardinality(H)
      /\ Cardinality(H \ G) = Cardinality(H) - Cardinality(G)
      /\ \A d : OfDomain(G, d) \subseteq OfDomain(H, d) /\ OfDomain(H, d) \subseteq H
  BY <1>1, CookiesCount
<1>3. r.count = Cardinality(G) /\ r.count <= MaxCookies
  BY <1>1, <1>2, JarAssumed
<1>4. ASSUME NEW d \in Hosts PROVE Cardinality(OfDomain(G, d)) <= MaxPerDomain
  <2>1. IsFiniteSet(OfDomain(H, d))
    BY <1>1, <1>2, FS_Subset
  <2>2. /\ Cardinality(OfDomain(G, d)) \in Nat /\ Cardinality(OfDomain(H, d)) \in Nat
        /\ Cardinality(OfDomain(G, d)) <= Cardinality(OfDomain(H, d))
    <3>1. OfDomain(G, d) \subseteq OfDomain(H, d)
      BY <1>2
    <3> QED
      BY <2>1, <3>1, FS_Subset, FS_CardinalityType
  <2> QED
    BY <1>1, <2>2, JarAssumed
<1>5. OneToAKey(G) /\ \A c \in G : Lawful(c)
  BY <1>1 DEF OneToAKey
<1> QED
  BY <1>2, <1>3, <1>4, <1>5 DEF StoreFits

LEMMA WithoutFits ==
  ASSUME NEW s, StoreFits(s), NEW cs, cs \subseteq s.held
  PROVE  /\ StoreFits(Without(s, cs)) /\ Without(s, cs).held = s.held \ cs
         /\ Without(s, cs).next = s.next
         /\ Without(s, cs).count = s.count - Cardinality(cs)
<1>1. s \in StoreType /\ IsFiniteSet(s.held) /\ s.count = Cardinality(s.held)
  BY DEF StoreFits
<1>2. Cardinality(cs) \in Nat /\ Cardinality(s.held) \in Nat /\ Cardinality(cs) <= Cardinality(s.held)
  BY <1>1, CookiesCount
<1> DEFINE r == Without(s, cs)
<1>3. /\ r.held = s.held \ cs /\ r.next = s.next /\ r.count = s.count - Cardinality(cs)
  BY <1>1 DEF Without, StoreType
<1>4. r \in StoreType
  <2>1. s.count - Cardinality(cs) \in Nat
    BY <1>1, <1>2
  <2> QED
    BY <1>1, <2>1 DEF Without, StoreType
<1>5. s.held \ r.held = cs
  BY <1>3
<1> HIDE DEF r
<1>6. StoreFits(r)
  BY <1>3, <1>4, <1>5, LessFits
<1> QED
  BY <1>3, <1>6 DEF r

LEMMA PurgeFits ==
  ASSUME NEW s, StoreFits(s), NEW now
  PROVE  /\ StoreFits(PurgeExpired(s, now)) /\ PurgeExpired(s, now).held \subseteq s.held
         /\ PurgeExpired(s, now).next = s.next
<1> DEFINE kept == {c \in s.held : ~IsExpired(c, now)}
<1>1. PurgeExpired(s, now) = [s EXCEPT !.held = kept, !.count = @ - Cardinality(s.held \ kept)]
  BY DEF PurgeExpired
<1>2. s \in StoreType /\ IsFiniteSet(s.held) /\ s.count = Cardinality(s.held)
  BY DEF StoreFits
<1>3. kept \subseteq s.held /\ s.held \ kept \subseteq s.held
  OBVIOUS
<1> HIDE DEF kept
<1>4. /\ Cardinality(s.held \ kept) \in Nat /\ Cardinality(s.held) \in Nat
      /\ Cardinality(s.held \ kept) <= Cardinality(s.held)
  BY <1>2, <1>3, CookiesCount
<1> DEFINE r == PurgeExpired(s, now)
<1>5. r.held = kept /\ r.next = s.next /\ r.count = s.count - Cardinality(s.held \ kept)
  BY <1>1, <1>2 DEF StoreType
<1>6. r \in StoreType
  <2>1. s.count - Cardinality(s.held \ kept) \in Nat
    BY <1>2, <1>4
  <2> QED
    BY <1>1, <1>2, <1>3, <2>1 DEF StoreType
<1> HIDE DEF r
<1>7. StoreFits(r)
  BY <1>3, <1>5, <1>6, LessFits
<1> QED
  BY <1>3, <1>5, <1>7 DEF r

\* Room is made in a domain ...
LEMMA DomainRoom ==
  ASSUME NEW s, StoreFits(s), NEW d \in Hosts
  PROVE  /\ StoreFits(RoomInDomain(s, d)) /\ RoomInDomain(s, d).held \subseteq s.held
         /\ RoomInDomain(s, d).next = s.next
         /\ Cardinality(OfDomain(RoomInDomain(s, d).held, d)) < MaxPerDomain
<1> DEFINE D == OfDomain(s.held, d)
<1>1. /\ IsFiniteSet(s.held) /\ s.held \subseteq Cookie /\ D \subseteq s.held
      /\ Cardinality(D) <= MaxPerDomain
  BY DEF StoreFits, StoreType, OfDomain
<1>2. IsFiniteSet(D) /\ Cardinality(D) \in Nat
  BY <1>1, CookiesCount
<1>3. MaxPerDomain \in Nat /\ MaxPerDomain >= 1
  BY JarAssumed
<1>4. CASE Cardinality(D) >= MaxPerDomain
  <2>1. RoomInDomain(s, d) = Without(s, {Victim(D)})
    BY <1>4 DEF RoomInDomain
  <2>2. D # {}
    <3>1. Cardinality(D) # 0
      BY <1>2, <1>3, <1>4
    <3> QED
      BY <3>1, FS_EmptySet
  <2>3. Victim(D) \in D
    <3>1. D \subseteq Cookie
      BY <1>1
    <3> HIDE DEF D
    <3> QED
      BY <2>2, <3>1, VictimIs
  <2>4. /\ StoreFits(Without(s, {Victim(D)})) /\ Without(s, {Victim(D)}).held = s.held \ {Victim(D)}
        /\ Without(s, {Victim(D)}).next = s.next
    <3>1. {Victim(D)} \subseteq s.held
      BY <1>1, <2>3
    <3> HIDE DEF D
    <3> QED
      BY <3>1, WithoutFits
  <2>5. OfDomain(s.held \ {Victim(D)}, d) = D \ {Victim(D)}
    BY DEF OfDomain
  <2>6. Cardinality(D \ {Victim(D)}) = Cardinality(D) - 1
    BY <1>2, <2>3, FS_RemoveElement
  <2>7. Cardinality(D) - 1 < MaxPerDomain
    BY <1>1, <1>2, <1>3
  <2>8. Cardinality(OfDomain(s.held \ {Victim(D)}, d)) < MaxPerDomain
    BY <2>5, <2>6, <2>7
  <2>9. s.held \ {Victim(D)} \subseteq s.held
    OBVIOUS
  <2> HIDE DEF D
  <2> QED
    BY <2>1, <2>4, <2>8, <2>9
<1>5. CASE ~(Cardinality(D) >= MaxPerDomain)
  <2>1. RoomInDomain(s, d) = s
    BY <1>5 DEF RoomInDomain
  <2> QED
    BY <1>2, <1>3, <1>5, <2>1
<1> QED
  BY <1>4, <1>5

\* ... and in the whole.
LEMMA RoomForOne ==
  ASSUME NEW s, StoreFits(s)
  PROVE  /\ StoreFits(RoomAtAll(s)) /\ RoomAtAll(s).held \subseteq s.held
         /\ RoomAtAll(s).next = s.next /\ RoomAtAll(s).count < MaxCookies
<1>1. /\ IsFiniteSet(s.held) /\ s.held \subseteq Cookie /\ s.count = Cardinality(s.held)
      /\ s.count <= MaxCookies /\ s.count \in Nat
  BY DEF StoreFits, StoreType
<1>2. MaxCookies \in Nat /\ MaxCookies >= 1
  BY JarAssumed
<1>3. CASE s.count >= MaxCookies
  <2>1. s.held # {}
    <3>1. Cardinality(s.held) # 0
      BY <1>1, <1>2, <1>3
    <3> QED
      BY <3>1, FS_EmptySet
  <2>2. RoomAtAll(s) = Without(s, {Victim(s.held)})
    BY <1>3, <2>1 DEF RoomAtAll
  <2>3. Victim(s.held) \in s.held
    BY <1>1, <2>1, VictimIs
  <2>4. {Victim(s.held)} \subseteq s.held /\ Cardinality({Victim(s.held)}) = 1
    BY <2>3, FS_Singleton
  <2>5. /\ StoreFits(Without(s, {Victim(s.held)})) /\ Without(s, {Victim(s.held)}).held = s.held \ {Victim(s.held)}
        /\ Without(s, {Victim(s.held)}).next = s.next
        /\ Without(s, {Victim(s.held)}).count = s.count - Cardinality({Victim(s.held)})
    BY <2>4, WithoutFits
  <2>6. s.count - 1 < MaxCookies
    BY <1>1, <1>2
  <2>7. s.held \ {Victim(s.held)} \subseteq s.held
    OBVIOUS
  <2> QED
    BY <2>2, <2>4, <2>5, <2>6, <2>7
<1>4. CASE ~(s.count >= MaxCookies)
  <2>1. RoomAtAll(s) = s
    BY <1>4 DEF RoomAtAll
  <2> QED
    BY <1>1, <1>2, <1>4, <2>1
<1> QED
  BY <1>3, <1>4

LEMMA KeyIs ==
  ASSUME NEW c \in Cookie, NEW d \in Cookie
  PROVE  /\ KeyOfCookie(c) = KeyOfCookie(d) =>
              c.name = d.name /\ c.domain = d.domain /\ c.path = d.path /\ c.hostOnly = d.hostOnly
         /\ c.domain \in Hosts
BY DEF KeyOfCookie, Cookie

\* A cookie whose key is held takes the place of the one that holds it.
LEMMA ReplaceFits ==
  ASSUME NEW s, StoreFits(s), NEW c, Lawful(c), Same(s.held, c) # {},
         NEW r, r \in StoreType, r.held = (s.held \ Same(s.held, c)) \cup {c}, r.count = s.count
  PROVE  StoreFits(r)
<1>1. /\ IsFiniteSet(s.held) /\ s.held \subseteq Cookie /\ s.count = Cardinality(s.held)
      /\ s.count <= MaxCookies /\ OneToAKey(s.held) /\ (\A x \in s.held : Lawful(x))
      /\ \A d \in Hosts : Cardinality(OfDomain(s.held, d)) <= MaxPerDomain
  BY DEF StoreFits, StoreType
<1>2. PICK o \in s.held : KeyOfCookie(o) = KeyOfCookie(c)
  BY DEF Same
<1>3. Same(s.held, c) = {o}
  BY <1>1, <1>2 DEF Same, OneToAKey
<1>4. c \in Cookie
  BY DEF Lawful
<1>5. o.domain = c.domain /\ c.domain \in Hosts
  BY <1>1, <1>2, <1>4, KeyIs
<1> DEFINE H == s.held
           G == (H \ {o}) \cup {c}
           f == [x \in H |-> IF x = o THEN c ELSE x]
<1>6. r.held = G
  BY <1>3
<1>7. \A x \in H : KeyOfCookie(x) = KeyOfCookie(c) => x = o
  BY <1>1, <1>2 DEF OneToAKey
<1>8. \A x \in H : x = c => x = o
  BY <1>7
<1>9. OneToAKey(G) /\ \A x \in G : Lawful(x)
  BY <1>1, <1>7 DEF OneToAKey
<1>10. ASSUME NEW D, D \subseteq H, NEW E, o \in D => E = (D \ {o}) \cup {c}, o \notin D => E = D
       PROVE  IsFiniteSet(E) /\ Cardinality(E) = Cardinality(D)
  <2>1. IsFiniteSet(D)
    BY <1>1, <1>10, FS_Subset
  <2>2. CASE o \in D
    <3>1. IsFiniteSet(D \ {o}) /\ Cardinality(D \ {o}) = Cardinality(D) - 1
      BY <2>1, <2>2, FS_RemoveElement
    <3>2. c \notin D \ {o}
      BY <1>8, <1>10
    <3>3. /\ IsFiniteSet((D \ {o}) \cup {c})
          /\ Cardinality((D \ {o}) \cup {c}) = Cardinality(D \ {o}) + 1
      BY <3>1, <3>2, FS_AddElement
    <3>4. Cardinality(D) \in Nat
      BY <2>1, FS_CardinalityType
    <3>5. E = (D \ {o}) \cup {c}
      BY <1>10, <2>2
    <3>6. Cardinality(E) = Cardinality(D \ {o}) + 1
      BY <3>3, <3>5
    <3>7. Cardinality(E) = (Cardinality(D) - 1) + 1
      BY <3>1, <3>6
    <3>8. (Cardinality(D) - 1) + 1 = Cardinality(D)
      BY <3>4
    <3> QED
      BY <3>3, <3>5, <3>7, <3>8
  <2> QED
    BY <1>10, <2>1, <2>2
<1>11. IsFiniteSet(G) /\ Cardinality(G) = Cardinality(H)
  <2>1. o \in H /\ H \subseteq H
    BY <1>2
  <2> QED
    BY <1>10, <2>1
<1>12. ASSUME NEW d \in Hosts PROVE Cardinality(OfDomain(G, d)) <= MaxPerDomain
  <2>1. OfDomain(H, d) \subseteq H
    BY DEF OfDomain
  <2>2. o \in OfDomain(H, d) => OfDomain(G, d) = (OfDomain(H, d) \ {o}) \cup {c}
    BY <1>2, <1>5 DEF OfDomain
  <2>3. o \notin OfDomain(H, d) => OfDomain(G, d) = OfDomain(H, d)
    BY <1>2, <1>5, <1>8 DEF OfDomain
  <2>4. Cardinality(OfDomain(G, d)) = Cardinality(OfDomain(H, d))
    BY <1>10, <2>1, <2>2, <2>3
  <2> QED
    BY <1>1, <2>4
<1> HIDE DEF G, H
<1> QED
  BY <1>1, <1>6, <1>9, <1>11, <1>12 DEF StoreFits, H

\* A cookie whose key is not held is added where there is room.
LEMMA AddFits ==
  ASSUME NEW s, StoreFits(s), NEW c, Lawful(c), Same(s.held, c) = {},
         s.count < MaxCookies, Cardinality(OfDomain(s.held, c.domain)) < MaxPerDomain,
         NEW r, r \in StoreType, r.held = s.held \cup {c}, r.count = s.count + 1
  PROVE  StoreFits(r)
<1>1. /\ IsFiniteSet(s.held) /\ s.held \subseteq Cookie /\ s.count = Cardinality(s.held)
      /\ s.count \in Nat /\ OneToAKey(s.held) /\ (\A x \in s.held : Lawful(x))
      /\ \A d \in Hosts : Cardinality(OfDomain(s.held, d)) <= MaxPerDomain
  BY DEF StoreFits, StoreType
<1>2. MaxCookies \in Nat /\ MaxPerDomain \in Nat
  BY JarAssumed
<1>3. \A x \in s.held : KeyOfCookie(x) # KeyOfCookie(c)
  BY DEF Same
<1>4. c \notin s.held
  BY <1>3
<1>5. IsFiniteSet(r.held) /\ Cardinality(r.held) = Cardinality(s.held) + 1
  BY SMTT(30), <1>1, <1>4, FS_AddElement
<1>6. r.count = Cardinality(r.held) /\ r.count <= MaxCookies
  BY <1>1, <1>2, <1>5
<1>7. OneToAKey(r.held) /\ \A x \in r.held : Lawful(x)
  BY <1>1, <1>3 DEF OneToAKey
<1>8. ASSUME NEW d \in Hosts PROVE Cardinality(OfDomain(r.held, d)) <= MaxPerDomain
  <2>1. CASE d = c.domain
    <3>1. OfDomain(r.held, d) = OfDomain(s.held, d) \cup {c} /\ c \notin OfDomain(s.held, d)
          /\ OfDomain(s.held, d) \subseteq s.held
      BY <1>4, <2>1 DEF OfDomain
    <3>2. IsFiniteSet(OfDomain(s.held, d))
      BY <1>1, <3>1, FS_Subset
    <3>3. Cardinality(OfDomain(r.held, d)) = Cardinality(OfDomain(s.held, d)) + 1
      BY ZenonT(60), <3>1, <3>2, FS_AddElement
    <3>4. Cardinality(OfDomain(s.held, d)) \in Nat
      BY <3>2, FS_CardinalityType
    <3> QED
      BY <1>2, <2>1, <3>3, <3>4
  <2>2. CASE d # c.domain
    <3>1. OfDomain(r.held, d) = OfDomain(s.held, d)
      BY <2>2 DEF OfDomain
    <3> QED
      BY <1>1, <3>1
  <2> QED
    BY <2>1, <2>2
<1> QED
  BY <1>5, <1>6, <1>7, <1>8 DEF StoreFits

\* A put keeps the store within its bounds; the cookie is under its key alone,
\* or nothing is.
LEMMA PutFits ==
  ASSUME NEW s0, StoreFits(s0), NEW c, Lawful(c), NEW now
  PROVE  /\ StoreFits(JarPut(s0, c, now)) /\ JarPut(s0, c, now).next = s0.next
         /\ \A x \in JarPut(s0, c, now).held :
              x = c \/ (x \in s0.held /\ KeyOfCookie(x) # KeyOfCookie(c))
<1> DEFINE s == PurgeExpired(s0, now)
           room == RoomAtAll(RoomInDomain(s, c.domain))
           r == JarPut(s0, c, now)
<1>1. StoreFits(s) /\ s.held \subseteq s0.held /\ s.next = s0.next
  BY PurgeFits
<1>2. r = IF IsExpired(c, now) THEN Without(s, Same(s.held, c))
          ELSE IF Same(s.held, c) # {} THEN [s EXCEPT !.held = (@ \ Same(s.held, c)) \cup {c}]
          ELSE [room EXCEPT !.held = @ \cup {c}, !.count = @ + 1]
  BY DEF JarPut
<1>3. c \in Cookie /\ c.domain \in Hosts
  BY KeyIs DEF Lawful
<1> HIDE DEF r, s, room
<1>4. Same(s.held, c) \subseteq s.held /\ \A x \in s.held : x \notin Same(s.held, c) => KeyOfCookie(x) # KeyOfCookie(c)
  BY DEF Same
<1>5. CASE IsExpired(c, now)
  <2>1. r = Without(s, Same(s.held, c))
    BY <1>2, <1>5
  <2>2. StoreFits(r) /\ r.held = s.held \ Same(s.held, c) /\ r.next = s.next
    BY <1>1, <1>4, <2>1, WithoutFits
  <2> QED
    BY <1>1, <1>4, <2>2 DEF r
<1>6. CASE ~IsExpired(c, now) /\ Same(s.held, c) # {}
  <2>1. r = [s EXCEPT !.held = (@ \ Same(s.held, c)) \cup {c}]
    BY <1>2, <1>6
  <2>2. s \in StoreType
    BY <1>1 DEF StoreFits
  <2>3. r \in StoreType
    BY <1>3, <1>4, <2>1, <2>2 DEF StoreType
  <2>4. r.held = (s.held \ Same(s.held, c)) \cup {c} /\ r.count = s.count /\ r.next = s.next
    BY <2>1, <2>2 DEF StoreType
  <2>5. StoreFits(r)
    BY <1>1, <1>6, <2>3, <2>4, ReplaceFits
  <2> QED
    BY <1>1, <1>4, <2>4, <2>5 DEF r
<1>7. CASE ~IsExpired(c, now) /\ Same(s.held, c) = {}
  <2>1. r = [room EXCEPT !.held = @ \cup {c}, !.count = @ + 1]
    BY <1>2, <1>7
  <2> DEFINE d == RoomInDomain(s, c.domain)
  <2>2. /\ StoreFits(d) /\ d.held \subseteq s.held /\ d.next = s.next
        /\ Cardinality(OfDomain(d.held, c.domain)) < MaxPerDomain
    BY <1>1, <1>3, DomainRoom
  <2>3. room = RoomAtAll(d)
    BY DEF room
  <2> HIDE DEF d
  <2>4. /\ StoreFits(room) /\ room.held \subseteq d.held /\ room.next = d.next /\ room.count < MaxCookies
    BY <2>2, <2>3, RoomForOne
  <2>5. Cardinality(OfDomain(room.held, c.domain)) < MaxPerDomain
    <3>1. OfDomain(room.held, c.domain) \subseteq OfDomain(d.held, c.domain) /\ OfDomain(d.held, c.domain) \subseteq d.held
      BY <2>4 DEF OfDomain
    <3>2. IsFiniteSet(d.held)
      BY <2>2 DEF StoreFits
    <3>3. IsFiniteSet(OfDomain(d.held, c.domain))
      BY <3>1, <3>2, FS_Subset
    <3>4. /\ Cardinality(OfDomain(room.held, c.domain)) <= Cardinality(OfDomain(d.held, c.domain))
          /\ Cardinality(OfDomain(room.held, c.domain)) \in Nat /\ Cardinality(OfDomain(d.held, c.domain)) \in Nat
      BY <3>1, <3>3, FS_Subset, FS_CardinalityType
    <3> QED
      BY <2>2, <3>4, JarAssumed
  <2>6. room \in StoreType
    BY <2>4 DEF StoreFits
  <2>7. r \in StoreType /\ r.held = room.held \cup {c} /\ r.count = room.count + 1 /\ r.next = room.next
    <3>1. room.count + 1 \in Nat /\ room.held \cup {c} \subseteq Cookie /\ room.next \in Nat
      BY <1>3, <2>6 DEF StoreType
    <3>2. r.held = room.held \cup {c} /\ r.count = room.count + 1 /\ r.next = room.next
      BY <2>1, <2>6 DEF StoreType
    <3>3. r \in StoreType
      BY <2>1, <2>6, <3>1 DEF StoreType
    <3> QED
      BY <3>2, <3>3
  <2>8. Same(room.held, c) = {}
    BY <1>7, <2>2, <2>4 DEF Same
  <2>9. StoreFits(r)
    BY <2>4, <2>5, <2>7, <2>8, AddFits
  <2>10. \A x \in s.held : KeyOfCookie(x) # KeyOfCookie(c)
    BY <1>7 DEF Same
  <2> QED
    BY <1>1, <2>2, <2>4, <2>7, <2>9, <2>10 DEF r
<1> QED
  BY <1>5, <1>6, <1>7

\* The later of two times of access changes no key and no number.
LEMMA AccessIs ==
  ASSUME NEW c \in Cookie, NEW at \in Nat
  PROVE  /\ [c EXCEPT !.access = at] \in Cookie
         /\ KeyOfCookie([c EXCEPT !.access = at]) = KeyOfCookie(c)
         /\ [c EXCEPT !.access = at].seq = c.seq /\ [c EXCEPT !.access = at].domain = c.domain
         /\ (Lawful(c) => Lawful([c EXCEPT !.access = at]))
<1> DEFINE d == [c EXCEPT !.access = at]
<1>1. /\ d \in Cookie /\ d.name = c.name /\ d.domain = c.domain /\ d.hostOnly = c.hostOnly /\ d.path = c.path
      /\ d.secure = c.secure /\ d.seq = c.seq
  BY DEF Cookie
<1> HIDE DEF d
<1>2. KeyOfCookie(d) = KeyOfCookie(c)
  BY <1>1 DEF KeyOfCookie
<1>3. Lawful(c) => Lawful(d)
  BY <1>1 DEF Lawful
<1> QED
  BY <1>1, <1>2, <1>3 DEF d

LEMMA NumberIs ==
  ASSUME NEW c, Lawful(c), NEW n \in Nat
  PROVE  /\ Lawful([c EXCEPT !.seq = n]) /\ [c EXCEPT !.seq = n].seq = n
         /\ KeyOfCookie([c EXCEPT !.seq = n]) = KeyOfCookie(c)
<1> DEFINE d == [c EXCEPT !.seq = n]
<1>0. c \in Cookie
  BY DEF Lawful
<1>1. /\ d \in Cookie /\ d.name = c.name /\ d.domain = c.domain /\ d.hostOnly = c.hostOnly /\ d.path = c.path
      /\ d.secure = c.secure /\ d.seq = n
  BY <1>0 DEF Cookie
<1> HIDE DEF d
<1>2. KeyOfCookie(d) = KeyOfCookie(c)
  BY <1>1 DEF KeyOfCookie
<1>3. Lawful(d)
  BY <1>1 DEF Lawful
<1> QED
  BY <1>1, <1>2, <1>3 DEF d

\* A touch keeps the store: the same cookies, some of them used later.
LEMMA TouchFits ==
  ASSUME NEW s, StoreFits(s), NEW snap, NEW at \in Nat,
         NEW r, r = Touched(s, snap, at)
  PROVE  /\ StoreFits(r) /\ r.next = s.next
         /\ \A x \in r.held : \E c \in s.held : KeyOfCookie(x) = KeyOfCookie(c) /\ x.seq = c.seq
<1>1. /\ s \in StoreType /\ IsFiniteSet(s.held) /\ s.held \subseteq Cookie /\ s.count = Cardinality(s.held)
      /\ s.count <= MaxCookies /\ OneToAKey(s.held) /\ (\A x \in s.held : Lawful(x))
      /\ \A d \in Hosts : Cardinality(OfDomain(s.held, d)) <= MaxPerDomain
  BY DEF StoreFits, StoreType
<1> DEFINE on(c) == IF Same(snap, c) # {} THEN [c EXCEPT !.access = at] ELSE c
           H == s.held
           f == [c \in H |-> on(c)]
           G == {on(c) : c \in H}
<1>2. ASSUME NEW c \in H
      PROVE  /\ on(c) \in Cookie /\ KeyOfCookie(on(c)) = KeyOfCookie(c) /\ on(c).seq = c.seq
             /\ on(c).domain = c.domain /\ Lawful(on(c))
  <2>1. c \in Cookie /\ Lawful(c)
    BY <1>1
  <2> QED
    BY <2>1, AccessIs
<1> HIDE DEF on
<1>3. /\ r.held = G /\ r.count = s.count /\ r.next = s.next
  BY <1>1 DEF StoreType, on, Touched
<1>4. G \subseteq Cookie
  BY <1>2
<1>5. r \in StoreType
  <2>1. r = [s EXCEPT !.held = G]
    BY DEF on, Touched
  <2> QED
    BY <1>1, <1>4, <2>1 DEF StoreType
<1>6. \A c, d \in H : on(c) = on(d) => c = d
  <2> SUFFICES ASSUME NEW c \in H, NEW d \in H, on(c) = on(d) PROVE c = d
    OBVIOUS
  <2>1. KeyOfCookie(c) = KeyOfCookie(d)
    BY <1>2
  <2> QED
    BY <1>1, <2>1 DEF OneToAKey
<1>7. ASSUME NEW D, D \subseteq H
      PROVE  IsFiniteSet({on(c) : c \in D}) /\ Cardinality({on(c) : c \in D}) = Cardinality(D)
  <2> DEFINE g == [c \in D |-> on(c)]
             E == {on(c) : c \in D}
  <2>1. IsFiniteSet(D)
    BY <1>1, <1>7, FS_Subset
  <2>2. g \in [D -> E] /\ (\A c, d \in D : g[c] = g[d] => c = d) /\ \A e \in E : \E c \in D : g[c] = e
    BY <1>6, <1>7
  <2>3. g \in Bijection(D, E) /\ g \in Surjection(D, E)
    BY <2>2 DEF Bijection, Injection, IsInjective, Surjection
  <2>4. ExistsBijection(D, E)
    BY <2>3 DEF ExistsBijection
  <2>5. IsFiniteSet(E) /\ Cardinality(E) = Cardinality(D)
    BY <2>1, <2>3, <2>4, FS_Bijection, FS_Surjection
  <2> QED
    BY <2>5
<1>8. IsFiniteSet(G) /\ Cardinality(G) = Cardinality(H)
  BY <1>7
<1>9. ASSUME NEW d \in Hosts PROVE Cardinality(OfDomain(G, d)) <= MaxPerDomain
  <2>1. OfDomain(H, d) \subseteq H
    BY DEF OfDomain
  <2>2. OfDomain(G, d) = {on(c) : c \in OfDomain(H, d)}
    BY <1>2 DEF OfDomain
  <2>3. Cardinality(OfDomain(G, d)) = Cardinality(OfDomain(H, d))
    BY <1>7, <2>1, <2>2
  <2> QED
    BY <1>1, <2>3
<1>10. OneToAKey(G) /\ \A x \in G : Lawful(x)
  BY <1>1, <1>2 DEF OneToAKey
<1>11. \A x \in G : \E c \in H : KeyOfCookie(x) = KeyOfCookie(c) /\ x.seq = c.seq
  BY <1>2
<1> QED
  BY <1>1, <1>3, <1>5, <1>8, <1>9, <1>10, <1>11 DEF StoreFits

\* The two ends of a name.
LEMMA SuffixIs ==
  ASSUME NEW d \in Seq(STRING), NEW h \in Seq(STRING), IsSuffix(d, h)
  PROVE  Len(d) <= Len(h) /\ d = SubSeq(h, Len(h) - Len(d) + 1, Len(h))
<1> DEFINE m == Len(d)
           n == Len(h)
           rd == Reverse(d)
           rh == Reverse(h)
<1>1. m \in Nat /\ n \in Nat
  OBVIOUS
<1>2. /\ rd = [i \in 1 .. m |-> d[(m - i) + 1]] /\ rh = [i \in 1 .. n |-> h[(n - i) + 1]]
  BY DEF Reverse
<1>3. rd \in Seq(STRING) /\ rh \in Seq(STRING) /\ Len(rd) = m /\ Len(rh) = n
  <2>1. \A i \in 1 .. m : (m - i) + 1 \in 1 .. m
    BY <1>1
  <2>2. \A i \in 1 .. n : (n - i) + 1 \in 1 .. n
    BY <1>1
  <2>3. rd \in [1 .. m -> STRING] /\ rh \in [1 .. n -> STRING]
    BY <1>2, <2>1, <2>2
  <2> HIDE DEF m, n, rd, rh
  <2> QED
    BY <1>1, <2>3
<1>4. m <= n /\ SubSeq(rd, 1, m) = SubSeq(rh, 1, m)
  BY <1>3 DEF IsSuffix, IsPrefix
<1> HIDE DEF rd, rh
<1>5. ASSUME NEW i \in 1 .. m PROVE rd[i] = rh[i]
  <2>1. i \in 1 .. n
    BY <1>1, <1>4
  <2>2. SubSeq(rd, 1, m)[i] = rd[i] /\ SubSeq(rh, 1, m)[i] = rh[i]
    BY <1>1, <1>3, <1>4, <2>1
  <2> QED
    BY <1>4, <2>2
<1>6. ASSUME NEW i \in 1 .. m PROVE d[i] = h[(n - m) + i]
  <2> DEFINE j == (m - i) + 1
  <2>1. j \in 1 .. m /\ j \in 1 .. n /\ (m - j) + 1 = i /\ (n - j) + 1 = (n - m) + i
    BY <1>1, <1>4
  <2> HIDE DEF j
  <2>2. rd[j] = d[(m - j) + 1] /\ rh[j] = h[(n - j) + 1]
    BY <1>2, <2>1
  <2> QED
    BY <1>5, <2>1, <2>2
<1> DEFINE t == SubSeq(h, n - m + 1, n)
<1>7. t \in Seq(STRING) /\ Len(t) = m /\ \A i \in 1 .. m : t[i] = h[(n - m) + i]
  <2>1. n - m + 1 \in Int /\ n \in Int
    BY <1>1
  <2>2. \A i \in n - m + 1 .. n : i \in 1 .. n
    BY <1>1, <1>4
  <2>3. \A i \in n - m + 1 .. n : h[i] \in STRING
    BY <2>2
  <2>4. /\ t \in Seq(STRING) /\ Len(t) = IF n - m + 1 <= n THEN n - (n - m + 1) + 1 ELSE 0
        /\ \A i \in 1 .. n - (n - m + 1) + 1 : t[i] = h[(n - m + 1) + i - 1]
    BY <2>1, <2>3, SubSeqProperties
  <2>5. /\ n - (n - m + 1) + 1 = m /\ (~(n - m + 1 <= n) => m = 0)
        /\ \A i \in 1 .. m : (n - m + 1) + i - 1 = (n - m) + i
    BY <1>1, <1>4
  <2> HIDE DEF t
  <2> QED
    BY <2>4, <2>5
<1> HIDE DEF t
<1>8. d = t
  BY <1>6, <1>7, SeqEqual
<1> QED
  BY <1>4, <1>8 DEF t

\* The walk over a host's name finds every domain it matches.
LEMMA WalkFindsAll ==
  ASSUME NEW h \in Hosts, NEW d \in Hosts, d = h \/ DomainMatches(h, d)
  PROVE  d \in CandidateDomains(h)
<1>1. h \in Seq(STRING) /\ d \in Seq(STRING) /\ h # <<>> /\ d # <<>>
  BY DEF Hosts
<1>2. CASE d = h
  <2>1. Len(h) \in Nat /\ 1 \in 1 .. Len(h)
    BY <1>1
  <2>2. SubSeq(h, 1, Len(h)) = h
    BY <1>1, SubSeqFull
  <2> QED
    BY <1>2, <2>1, <2>2 DEF CandidateDomains
<1>3. CASE d # h
  <2>1. h \notin Ips /\ Len(d) < Len(h) /\ IsSuffix(d, h)
    BY <1>3 DEF DomainMatches
  <2>2. Len(d) <= Len(h) /\ d = SubSeq(h, Len(h) - Len(d) + 1, Len(h))
    BY <1>1, <2>1, SuffixIs
  <2>3. Len(d) \in Nat /\ Len(h) \in Nat /\ Len(d) # 0
    BY <1>1
  <2>4. Len(h) - Len(d) + 1 \in 1 .. Len(h)
    BY <2>2, <2>3
  <2> QED
    BY <2>1, <2>2, <2>4 DEF CandidateDomains
<1> QED
  BY <1>2, <1>3

\* A request gets exactly the cookies that are for it.
LEMMA MatchingIsExact ==
  ASSUME NEW s, StoreFits(s), NEW o \in Origins, NEW now \in Nat
  PROVE  Matching(s, o, now) = {c \in s.held : GoesTo(c, o, now)}
<1>1. s.held \subseteq Cookie
  BY DEF StoreFits, StoreType
<1>2. o.host \in Hosts
  BY JarAssumed
<1>3. ASSUME NEW c \in s.held
      PROVE  (/\ c.domain \in CandidateDomains(o.host)
              /\ ~IsExpired(c, now)
              /\ IF c.hostOnly THEN o.host = c.domain ELSE DomainMatches(o.host, c.domain)
              /\ PathMatches(o.path, c.path)
              /\ c.secure => o.secure) <=> GoesTo(c, o, now)
  <2>1. c \in Cookie /\ c.domain \in Hosts /\ c.hostOnly \in BOOLEAN /\ c.expires \in Nat
    BY <1>1 DEF Cookie
  <2>2. ~IsExpired(c, now) <=> c.expires > now
    BY <2>1 DEF IsExpired
  <2>3. DomainMatches(o.host, o.host)
    BY DEF DomainMatches
  <2>4. (IF c.hostOnly THEN o.host = c.domain ELSE DomainMatches(o.host, c.domain))
        <=> (o.host = c.domain \/ (~c.hostOnly /\ DomainMatches(o.host, c.domain)))
    BY <2>1, <2>3
  <2>5. (o.host = c.domain \/ (~c.hostOnly /\ DomainMatches(o.host, c.domain)))
        => c.domain \in CandidateDomains(o.host)
    BY <1>2, <2>1, WalkFindsAll
  <2> QED
    BY <2>2, <2>4, <2>5 DEF GoesTo, PathMatches
<1> QED
  BY <1>3 DEF Matching

\* What a line sets is lawful.
LEMMA LesserIs ==
  ASSUME NEW a \in Nat, NEW b \in Nat
  PROVE  Min({a, b}) \in Nat
<1>1. \E x \in {a, b} : \A y \in {a, b} : x =< y
  <2>1. CASE a <= b
    BY <2>1
  <2>2. CASE ~(a <= b)
    BY <2>2
  <2> QED
    BY <2>1, <2>2
<1>2. Min({a, b}) \in {a, b}
  BY <1>1 DEF Min
<1> QED
  BY <1>2

LEMMA PreparedIsLawful ==
  ASSUME NEW o \in Origins, NEW now \in Nat, NEW c,
         NEW l \in [name : STRING, attr : Hosts, path : Paths, secure : BOOLEAN, age : Nat],
         c \in Prepare(o, l, now)
  PROVE  Lawful(c)
<1> DEFINE path == IF l.path # Absent THEN l.path
                   ELSE IF o.path = <<>> THEN <<>> ELSE Front(o.path)
<1>1. PICK d \in ScopeDomain(o.host, l.attr) :
        /\ l.secure => o.secure
        /\ PrefixHolds(l.name, l.secure /\ o.secure, d.hostOnly, path)
        /\ c = [name |-> l.name, domain |-> d.domain, hostOnly |-> d.hostOnly,
                path |-> path, secure |-> l.secure, expires |-> Expiry(l.age, now),
                access |-> now, seq |-> 0]
  BY DEF Prepare
<1>2. /\ o.host \in Hosts /\ o.path \in Paths /\ o.secure \in BOOLEAN
      /\ \A p \in Ips : o.host # p => ~IsSuffix(p, o.host)
  BY JarAssumed
<1>3. l.name \in STRING /\ l.attr \in Hosts /\ l.path \in Paths /\ l.secure \in BOOLEAN /\ l.age \in Nat
  OBVIOUS
<1>4. path \in Paths
  <2>1. CASE o.path = <<>>
    <3>1. path = IF l.path # Absent THEN l.path ELSE <<>>
      BY <2>1
    <3>2. <<>> \in Paths
      BY DEF Paths
    <3> QED
      BY <1>3, <3>1, <3>2
  <2>2. CASE o.path # <<>>
    <3>1. o.path \in Seq(STRING) /\ Len(o.path) \in Nat
      BY <1>2 DEF Paths
    <3>2. \A i \in 1 .. Len(o.path) - 1 : o.path[i] \in STRING
      BY <3>1
    <3>3. 1 \in Int /\ Len(o.path) - 1 \in Int
      BY <3>1
    <3>4. SubSeq(o.path, 1, Len(o.path) - 1) \in Seq(STRING)
      BY <3>2, <3>3, SubSeqProperties
    <3>5. Front(o.path) \in Paths
      BY <3>4 DEF Front, Paths
    <3> QED
      BY <1>3, <2>2, <3>5
  <2> QED
    BY <2>1, <2>2
<1> HIDE DEF path
<1>5. Expiry(l.age, now) \in Nat
  <2>1. MaxExpiry \in Nat /\ JarMaxTime \in Nat
    BY JarAssumed
  <2>2. Min({l.age, MaxExpiry}) \in Nat
    BY <1>3, <2>1, LesserIs
  <2> QED
    BY <1>3, <2>1, <2>2 DEF Expiry, SessionAge, NeverExpires
<1>6. /\ d.domain \in Hosts /\ d.hostOnly \in BOOLEAN
      /\ d.hostOnly \/ (d.domain \notin Ips /\ d.domain \notin PublicSuffixes)
  <2>1. \/ d = [domain |-> o.host, hostOnly |-> TRUE]
        \/ /\ d = [domain |-> l.attr, hostOnly |-> FALSE]
           /\ o.host \notin Ips /\ l.attr \notin PublicSuffixes /\ DomainMatches(o.host, l.attr)
    BY DEF ScopeDomain
  <2>2. CASE d = [domain |-> o.host, hostOnly |-> TRUE]
    BY <1>2, <2>2
  <2>3. CASE /\ d = [domain |-> l.attr, hostOnly |-> FALSE]
             /\ o.host \notin Ips /\ l.attr \notin PublicSuffixes /\ DomainMatches(o.host, l.attr)
    <3>1. l.attr \notin Ips
      BY <1>2, <2>3 DEF DomainMatches
    <3> QED
      BY <1>3, <2>3, <3>1
  <2> QED
    BY <2>1, <2>2, <2>3
<1>7. c \in Cookie
  BY <1>1, <1>3, <1>4, <1>5, <1>6 DEF Cookie
<1>8. c.name = l.name /\ c.hostOnly = d.hostOnly /\ c.domain = d.domain /\ c.path = path /\ c.secure = l.secure
  BY <1>1
<1>9. PrefixHolds(c.name, c.secure, c.hostOnly, c.path)
  BY <1>1, <1>3, <1>8 DEF PrefixHolds
<1> QED
  BY <1>6, <1>7, <1>8, <1>9 DEF Lawful

\* The cookies of a response, in a row: as many as the lines that set one.
LEMMA MadeIs ==
  ASSUME NEW o \in Origins, NEW ls \in Responses, NEW now \in Nat
  PROVE  /\ Made(o, ls, now) \in Seq(Cookie)
         /\ \A n \in 1 .. Len(Made(o, ls, now)) : Lawful(Made(o, ls, now)[n])
<1> DEFINE Line == [name : STRING, attr : Hosts, path : Paths, secure : BOOLEAN, age : Nat]
           sets == {i \in 1 .. Len(ls) : Prepare(o, ls[i], now) # {}}
           upTo(i) == {j \in sets : j <= i}
           size == Cardinality(sets)
           nth(n) == CHOOSE i \in sets : Cardinality(upTo(i)) = n
           made == [n \in 1 .. size |-> CHOOSE c \in Prepare(o, ls[nth(n)], now) : TRUE]
<1>1. ls \in Seq(Line) /\ Len(ls) \in Nat /\ \A i \in 1 .. Len(ls) : ls[i] \in Line
  <2>1. ls \in Seq(Line)
    BY JarAssumed
  <2> HIDE DEF Line
  <2> QED
    BY <2>1
<1>2. sets \subseteq 1 .. Len(ls) /\ sets \subseteq Nat /\ IsFiniteSet(sets) /\ size \in Nat
  <2>1. sets \subseteq 1 .. Len(ls) /\ sets \subseteq Nat
    BY <1>1
  <2>2. 1 \in Int /\ Len(ls) \in Int
    BY <1>1
  <2>3. IsFiniteSet(1 .. Len(ls))
    BY <2>2, FS_Interval
  <2>4. IsFiniteSet(sets)
    BY <2>1, <2>3, FS_Subset
  <2> QED
    BY <2>1, <2>4, FS_CardinalityType
<1>3. \A i \in sets : Prepare(o, ls[i], now) # {}
  OBVIOUS
<1>4. Made(o, ls, now) = made
  BY DEF Made
<1> HIDE DEF sets, size, Line
<1>5. ASSUME NEW i \in sets
      PROVE  /\ IsFiniteSet(upTo(i)) /\ upTo(i) \subseteq sets /\ i \in upTo(i)
             /\ Cardinality(upTo(i)) \in 1 .. size
  <2>1. upTo(i) \subseteq sets /\ i \in upTo(i)
    BY <1>2
  <2>2. IsFiniteSet(upTo(i)) /\ Cardinality(upTo(i)) <= size
    BY <1>2, <2>1, FS_Subset DEF size
  <2>3. Cardinality(upTo(i)) \in Nat /\ Cardinality(upTo(i)) # 0
    BY <2>1, <2>2, FS_CardinalityType, FS_EmptySet
  <2> HIDE DEF upTo
  <2> QED
    BY <1>2, <2>1, <2>2, <2>3
<1>6. ASSUME NEW i \in sets, NEW j \in sets, i < j
      PROVE  Cardinality(upTo(i)) # Cardinality(upTo(j))
  <2>1. j \notin upTo(i) /\ upTo(i) \cup {j} \subseteq upTo(j)
    <3>1. i \in Nat /\ j \in Nat /\ \A k \in sets : k \in Nat
      BY <1>2
    <3>2. ~(j <= i) /\ j <= j /\ \A k \in sets : k <= i => k <= j
      BY <1>6, <3>1
    <3> QED
      BY <3>2
  <2>2. IsFiniteSet(upTo(i)) /\ IsFiniteSet(upTo(j))
    BY <1>5
  <2> HIDE DEF upTo
  <2>3. Cardinality(upTo(i) \cup {j}) = Cardinality(upTo(i)) + 1
    BY <2>1, <2>2, FS_AddElement
  <2>4. Cardinality(upTo(i) \cup {j}) <= Cardinality(upTo(j))
    BY <2>1, <2>2, FS_Subset
  <2>5. Cardinality(upTo(i)) \in Nat /\ Cardinality(upTo(j)) \in Nat
    BY <2>2, FS_CardinalityType
  <2> QED
    BY <2>3, <2>4, <2>5
<1> DEFINE f == [i \in sets |-> Cardinality(upTo(i))]
<1>7. f \in Injection(sets, 1 .. size)
  <2>1. f \in [sets -> 1 .. size]
    BY <1>5
  <2>2. ASSUME NEW i \in sets, NEW j \in sets, f[i] = f[j] PROVE i = j
    <3>1. i \in Nat /\ j \in Nat
      BY <1>2
    <3>2. f[i] = Cardinality(upTo(i)) /\ f[j] = Cardinality(upTo(j))
      OBVIOUS
    <3>3. ~(i < j) /\ ~(j < i)
      BY <1>6, <2>2, <3>2
    <3> QED
      BY <3>1, <3>3
  <2> HIDE DEF f
  <2> QED
    BY <2>1, <2>2 DEF Injection, IsInjective
<1>8. IsFiniteSet(1 .. size) /\ Cardinality(1 .. size) = size
  <2>1. 1 \in Int /\ size \in Int
    BY <1>2
  <2>2. Cardinality(1 .. size) = IF 1 > size THEN 0 ELSE size - 1 + 1
    BY <2>1, FS_Interval
  <2> QED
    BY <1>2, <2>1, <2>2, FS_Interval
<1>9. f \in Surjection(sets, 1 .. size)
  <2>1. Cardinality(1 .. size) = Cardinality(sets)
    BY <1>8 DEF size
  <2> HIDE DEF f
  <2> QED
    BY <1>2, <1>7, <1>8, <2>1, FS_Injection
<1>10. ASSUME NEW n \in 1 .. size PROVE nth(n) \in sets
  <2>1. \E i \in sets : f[i] = n
    BY <1>9 DEF Surjection
  <2>2. \E i \in sets : Cardinality(upTo(i)) = n
    BY <2>1
  <2> QED
    BY <2>2
<1> HIDE DEF nth
<1>11. ASSUME NEW n \in 1 .. size PROVE Lawful(made[n]) /\ made[n] \in Cookie
  <2>1. Prepare(o, ls[nth(n)], now) # {} /\ nth(n) \in 1 .. Len(ls)
    BY <1>2, <1>3, <1>10
  <2>2. made[n] = CHOOSE c \in Prepare(o, ls[nth(n)], now) : TRUE
    OBVIOUS
  <2>3. made[n] \in Prepare(o, ls[nth(n)], now)
    BY <2>1, <2>2
  <2>4. ls[nth(n)] \in [name : STRING, attr : Hosts, path : Paths, secure : BOOLEAN, age : Nat]
    BY <1>1, <2>1 DEF Line
  <2>5. Lawful(made[n])
    BY <2>3, <2>4, PreparedIsLawful
  <2> QED
    BY <2>5 DEF Lawful
<1>12. DOMAIN made = 1 .. size /\ made = [n \in 1 .. size |-> made[n]]
  OBVIOUS
<1> HIDE DEF made
<1>13. made \in [1 .. size -> Cookie]
  BY <1>11, <1>12
<1>14. made \in Seq(Cookie) /\ Len(made) = size
  BY <1>2, <1>13
<1> QED
  BY <1>4, <1>11, <1>14

LEMMA JobIs ==
  ASSUME JarInv, NEW t \in JarTasks
  PROVE  /\ job[t] \in JobType /\ jar.store \in StoreType /\ StoreFits(jar.store) /\ jar.now \in Nat
         /\ jar.store.next \in Nat /\ jar.store.held \subseteq Cookie
         /\ job[t].todo \in Seq(Cookie) /\ job[t].snap \subseteq Cookie /\ job[t].placed \subseteq Cookie
         /\ job[t].at \in Nat
         /\ (job[t].pc = "puts" => job[t].todo # <<>>)
         /\ \A i \in 1 .. Len(job[t].todo) : Lawful(job[t].todo[i])
         /\ jar.store.held \subseteq Numbered /\ job[t].snap \subseteq Numbered /\ job[t].placed \subseteq Numbered
  BY DEF JarInv, JobType, StoreType, Numbered

\* A turn of one operation, that may put one cookie.
LEMMA JarTurns ==
  ASSUME JarInv, NEW t \in JarTasks, NEW q \in JobType, job' = [job EXCEPT ![t] = q],
         jar' \in [store : StoreType, now : Nat], StoreFits(jar'.store),
         q.pc = "puts" => q.todo # <<>>, \A i \in 1 .. Len(q.todo) : Lawful(q.todo[i]),
         jar'.store.next >= jar.store.next,
         \A x \in jar'.store.held \cup q.snap \cup q.placed :
           \/ \E c \in Numbered : x.seq = c.seq /\ KeyOfCookie(x) = KeyOfCookie(c)
           \/ x.seq = jar.store.next /\ jar'.store.next > jar.store.next
              /\ \A y \in jar'.store.held \cup q.snap \cup q.placed :
                   y.seq = jar.store.next => KeyOfCookie(x) = KeyOfCookie(y)
  PROVE  JarInv'
<1>1. /\ job \in [JarTasks -> JobType] /\ jar \in [store : StoreType, now : Nat]
      /\ \A u \in JarTasks : /\ job[u].pc = "puts" => job[u].todo # <<>>
                             /\ \A i \in 1 .. Len(job[u].todo) : Lawful(job[u].todo[i])
      /\ \A c \in Numbered : c.seq < jar.store.next
      /\ \A c, d \in Numbered : c.seq = d.seq => KeyOfCookie(c) = KeyOfCookie(d)
  BY DEF JarInv
<1>2. job' \in [JarTasks -> JobType] /\ \A u \in JarTasks : job'[u] = IF u = t THEN q ELSE job[u]
  BY <1>1
<1>3. \A u \in JarTasks : /\ job'[u].pc = "puts" => job'[u].todo # <<>>
                          /\ \A i \in 1 .. Len(job'[u].todo) : Lawful(job'[u].todo[i])
  BY <1>1, <1>2
<1> DEFINE New == jar'.store.held \cup q.snap \cup q.placed
<1>4. \A x \in Numbered' : x \in Numbered \/ x \in New
  BY <1>2 DEF Numbered
<1>5. jar.store.next \in Nat /\ jar'.store.next \in Nat
  BY <1>1 DEF StoreType
<1>6. \A c \in Numbered : c \in Cookie /\ c.seq \in Nat
  <2>1. \A c \in Numbered : c \in Cookie
    BY <1>1 DEF Numbered, StoreType, JobType
  <2> QED
    BY <2>1 DEF Cookie
<1>7. \A x \in New :
        \/ \E c \in Numbered : x.seq = c.seq /\ KeyOfCookie(x) = KeyOfCookie(c)
        \/ x.seq = jar.store.next /\ jar'.store.next > jar.store.next
           /\ \A y \in New : y.seq = jar.store.next => KeyOfCookie(x) = KeyOfCookie(y)
  OBVIOUS
<1> HIDE DEF New
<1>8. ASSUME NEW x \in Numbered'
      PROVE  \/ \E c \in Numbered : x.seq = c.seq /\ KeyOfCookie(x) = KeyOfCookie(c)
             \/ x \in New /\ x.seq = jar.store.next /\ jar'.store.next > jar.store.next
                /\ \A y \in New : y.seq = jar.store.next => KeyOfCookie(x) = KeyOfCookie(y)
  BY <1>4, <1>7
<1>9. ASSUME NEW x \in Numbered' PROVE x.seq < jar'.store.next
  <2>1. CASE \E c \in Numbered : x.seq = c.seq
    BY <1>1, <1>5, <1>6, <2>1
  <2>2. CASE x.seq = jar.store.next /\ jar'.store.next > jar.store.next
    BY <1>5, <2>2
  <2> QED
    BY <1>8, <2>1, <2>2
<1>10. ASSUME NEW x \in Numbered', NEW y \in Numbered', x.seq = y.seq PROVE KeyOfCookie(x) = KeyOfCookie(y)
  <2>1. \A c \in Numbered : c.seq # jar.store.next
    BY <1>1, <1>5, <1>6
  <2>2. CASE \E c \in Numbered : x.seq = c.seq /\ KeyOfCookie(x) = KeyOfCookie(c)
    <3>1. PICK c \in Numbered : x.seq = c.seq /\ KeyOfCookie(x) = KeyOfCookie(c)
      BY <2>2
    <3>2. y.seq # jar.store.next
      BY <1>10, <2>1, <3>1
    <3>3. PICK d \in Numbered : y.seq = d.seq /\ KeyOfCookie(y) = KeyOfCookie(d)
      BY <1>8, <3>2
    <3> QED
      BY <1>1, <1>10, <3>1, <3>3
  <2>3. CASE x \in New /\ x.seq = jar.store.next
             /\ \A z \in New : z.seq = jar.store.next => KeyOfCookie(x) = KeyOfCookie(z)
    <3>1. y \in New
      BY <1>8, <1>10, <2>1, <2>3
    <3> QED
      BY <1>10, <2>3, <3>1
  <2> QED
    BY <1>8, <2>2, <2>3
<1> QED
  BY <1>2, <1>3, <1>9, <1>10 DEF JarInv

LEMMA NoJobIs ==
  /\ NoJob \in JobType /\ NoJob.pc = "idle" /\ NoJob.todo = <<>> /\ NoJob.snap = {} /\ NoJob.placed = {}
  /\ \A i \in 1 .. Len(<<>>) : Lawful(<<>>[i])
<1>1. <<>> \in Seq(Cookie) /\ 1 .. Len(<<>>) = {} /\ 0 \in Nat
  OBVIOUS
<1> QED
  BY <1>1 DEF NoJob, JobType

LEMMA StoreResponseStep ==
  ASSUME JarInv, NEW t \in JarTasks, StoreResponse(t)
  PROVE  JarInv'
<1>1. PICK o \in Origins, ls \in Responses :
        /\ Made(o, ls, jar.now) # <<>>
        /\ job' = [job EXCEPT ![t] =
             [pc |-> "puts", todo |-> Made(o, ls, jar.now), placed |-> {}, at |-> jar.now,
              snap |-> UNION {Same(jar.store.held, c) : c \in Range(Made(o, ls, jar.now))}]]
        /\ jar' = jar
  BY DEF StoreResponse
<1>2. /\ jar.now \in Nat /\ StoreFits(jar.store) /\ jar.store \in StoreType /\ jar.store.next \in Nat
      /\ jar.store.held \subseteq Cookie /\ jar.store.held \subseteq Numbered
  BY JobIs
<1>3. PICK made : made = Made(o, ls, jar.now)
  OBVIOUS
<1>4. made \in Seq(Cookie) /\ \A n \in 1 .. Len(made) : Lawful(made[n])
  BY <1>2, <1>3, MadeIs
<1>5. PICK snap : snap = UNION {Same(jar.store.held, c) : c \in Range(made)}
  OBVIOUS
<1>6. snap \subseteq jar.store.held
  BY <1>5 DEF Same
<1>7. PICK q : q = [pc |-> "puts", todo |-> made, placed |-> {}, at |-> jar.now, snap |-> snap]
  OBVIOUS
<1>8. /\ q.pc = "puts" /\ q.todo = made /\ q.snap = snap /\ q.placed = {} /\ made # <<>>
      /\ job' = [job EXCEPT ![t] = q]
  BY <1>1, <1>3, <1>5, <1>7
<1>9. q \in JobType
  BY <1>2, <1>4, <1>6, <1>7 DEF JobType
<1>10. jar' \in [store : StoreType, now : Nat] /\ StoreFits(jar'.store) /\ jar'.store.next >= jar.store.next
  BY <1>1, <1>2 DEF JarInv
<1>11. \A x \in jar'.store.held \cup q.snap \cup q.placed : x \in Numbered
  BY <1>1, <1>2, <1>6, <1>8
<1> QED
  BY <1>4, <1>8, <1>9, <1>10, <1>11, JarTurns

LEMMA AttachStep ==
  ASSUME JarInv, NEW t \in JarTasks, AttachCookies(t)
  PROVE  JarInv'
<1>1. PICK o \in Origins :
        /\ job' = [job EXCEPT ![t] = [NoJob EXCEPT !.pc = "touches", !.at = jar.now,
                                        !.snap = Matching(jar.store, o, jar.now)]]
        /\ jar' = jar
  BY DEF AttachCookies
<1>2. /\ jar.now \in Nat /\ StoreFits(jar.store) /\ jar.store \in StoreType /\ jar.store.next \in Nat
      /\ jar.store.held \subseteq Cookie /\ jar.store.held \subseteq Numbered
  BY JobIs
<1>3. PICK snap : snap = Matching(jar.store, o, jar.now)
  OBVIOUS
<1>4. snap \subseteq jar.store.held
  BY <1>3 DEF Matching
<1>5. PICK q : q = [NoJob EXCEPT !.pc = "touches", !.at = jar.now, !.snap = snap]
  OBVIOUS
<1>6. q.pc = "touches" /\ q.todo = <<>> /\ q.snap = snap /\ q.placed = {}
  BY <1>5, NoJobIs DEF NoJob
<1>7. q \in JobType
  BY <1>2, <1>4, <1>5, NoJobIs DEF JobType
<1>8. job' = [job EXCEPT ![t] = q]
  BY <1>1, <1>3, <1>5
<1>9. jar' \in [store : StoreType, now : Nat] /\ StoreFits(jar'.store) /\ jar'.store.next >= jar.store.next
  BY <1>1, <1>2 DEF JarInv
<1>10. \A x \in jar'.store.held \cup q.snap \cup q.placed : x \in Numbered
  BY <1>1, <1>2, <1>4, <1>6
<1>11. \A i \in 1 .. Len(q.todo) : Lawful(q.todo[i])
  BY <1>6, NoJobIs
<1> QED
  BY <1>6, <1>7, <1>8, <1>9, <1>10, <1>11, JarTurns

LEMMA TouchStep ==
  ASSUME JarInv, NEW t \in JarTasks, TouchCookies(t)
  PROVE  JarInv'
<1>1. /\ StoreFits(jar.store) /\ jar.store \in StoreType /\ jar.store.next \in Nat /\ job[t].at \in Nat
      /\ jar.store.held \subseteq Numbered /\ jar \in [store : StoreType, now : Nat]
  BY JobIs DEF JarInv
<1>02. PICK s, snap, at : s = jar.store /\ snap = job[t].snap /\ at = job[t].at
  OBVIOUS
<1>03. PICK r : r = Touched(s, snap, at)
  OBVIOUS
<1>2. r = Touched(jar.store, job[t].snap, job[t].at)
  BY <1>02, <1>03
<1>3. jar' = [jar EXCEPT !.store = r] /\ job' = [job EXCEPT ![t] = NoJob]
  BY <1>1, <1>2 DEF TouchCookies
<1>4. /\ StoreFits(r) /\ r.next = jar.store.next
      /\ \A x \in r.held : \E c \in jar.store.held : KeyOfCookie(x) = KeyOfCookie(c) /\ x.seq = c.seq
  <2>1. StoreFits(s) /\ at \in Nat
    BY <1>1, <1>02
  <2>2. /\ StoreFits(r) /\ r.next = s.next
        /\ \A x \in r.held : \E c \in s.held : KeyOfCookie(x) = KeyOfCookie(c) /\ x.seq = c.seq
    BY <1>03, <2>1, TouchFits
  <2> QED
    BY <1>02, <2>2
<1>5. r \in StoreType
  BY <1>4 DEF StoreFits
<1>6. jar' \in [store : StoreType, now : Nat] /\ jar'.store = r
  BY <1>1, <1>3, <1>5
<1>7. jar'.store.next >= jar.store.next
  BY <1>1, <1>4, <1>6
<1>8. \A x \in jar'.store.held \cup NoJob.snap \cup NoJob.placed :
        \E c \in Numbered : x.seq = c.seq /\ KeyOfCookie(x) = KeyOfCookie(c)
  BY <1>1, <1>4, <1>6, NoJobIs
<1>9. PICK q : q = NoJob
  OBVIOUS
<1> QED
  BY <1>3, <1>4, <1>6, <1>7, <1>8, <1>9, NoJobIs, JarTurns

LEMMA RestoreStep ==
  ASSUME JarInv, NEW t \in JarTasks, RestoreRecord(t)
  PROVE  JarInv'
<1>1. PICK c \in Records :
        /\ ~c.hostOnly => c.domain \notin Ips /\ c.domain \notin PublicSuffixes
        /\ PrefixHolds(c.name, c.secure, c.hostOnly, c.path)
        /\ job' = [job EXCEPT ![t] = [NoJob EXCEPT !.pc = "puts", !.at = jar.now,
             !.todo = <<[c EXCEPT !.seq = 0, !.expires = Min({@, jar.now + MaxExpiry})]>>,
             !.snap = Same(jar.store.held, c)]]
        /\ jar' = jar
  BY DEF RestoreRecord
<1>2. /\ jar.now \in Nat /\ StoreFits(jar.store) /\ jar.store \in StoreType /\ jar.store.next \in Nat
      /\ jar.store.held \subseteq Cookie /\ jar.store.held \subseteq Numbered
  BY JobIs
<1>3. c \in Cookie /\ c.expires \in Nat
  BY JarAssumed DEF Cookie
<1>4. PICK e : e = Min({c.expires, jar.now + MaxExpiry})
  OBVIOUS
<1>5. e \in Nat
  <2>1. jar.now + MaxExpiry \in Nat
    BY <1>2, JarAssumed
  <2> QED
    BY <1>3, <1>4, <2>1, LesserIs
<1>6. PICK d : d = [c EXCEPT !.seq = 0, !.expires = e]
  OBVIOUS
<1>7. /\ d \in Cookie /\ d.name = c.name /\ d.domain = c.domain /\ d.hostOnly = c.hostOnly
      /\ d.path = c.path /\ d.secure = c.secure
  BY <1>3, <1>5, <1>6 DEF Cookie
<1>8. Lawful(d)
  BY <1>1, <1>7 DEF Lawful
<1>9. d = [c EXCEPT !.seq = 0, !.expires = Min({@, jar.now + MaxExpiry})]
  BY <1>3, <1>4, <1>6 DEF Cookie
<1>10. PICK snap : snap = Same(jar.store.held, c)
  OBVIOUS
<1>11. snap \subseteq jar.store.held
  BY <1>10 DEF Same
<1>12. PICK q : q = [NoJob EXCEPT !.pc = "puts", !.at = jar.now, !.todo = <<d>>, !.snap = snap]
  OBVIOUS
<1>13. q.pc = "puts" /\ q.todo = <<d>> /\ q.snap = snap /\ q.placed = {}
  BY <1>12, NoJobIs DEF NoJob
<1>14. <<d>> \in Seq(Cookie) /\ <<d>> # <<>> /\ Len(<<d>>) = 1 /\ <<d>>[1] = d
  BY <1>7
<1>15. q \in JobType
  BY <1>2, <1>11, <1>12, <1>14, NoJobIs DEF JobType
<1>16. job' = [job EXCEPT ![t] = q]
  BY <1>1, <1>9, <1>10, <1>12
<1>17. jar' \in [store : StoreType, now : Nat] /\ StoreFits(jar'.store) /\ jar'.store.next >= jar.store.next
  BY <1>1, <1>2 DEF JarInv
<1>18. \A x \in jar'.store.held \cup q.snap \cup q.placed : x \in Numbered
  BY <1>1, <1>2, <1>11, <1>13
<1>19. \A i \in 1 .. Len(q.todo) : Lawful(q.todo[i])
  <2>1. \A i \in 1 .. 1 : i = 1
    OBVIOUS
  <2> QED
    BY <1>8, <1>13, <1>14, <2>1
<1> QED
  BY <1>13, <1>14, <1>15, <1>16, <1>17, <1>18, <1>19, JarTurns

LEMMA NextFits ==
  ASSUME NEW s, StoreFits(s), NEW n \in Nat
  PROVE  /\ StoreFits([s EXCEPT !.next = n]) /\ [s EXCEPT !.next = n].next = n
         /\ [s EXCEPT !.next = n].held = s.held /\ [s EXCEPT !.next = n] \in StoreType
<1>1. s \in StoreType
  BY DEF StoreFits
<1> DEFINE r == [s EXCEPT !.next = n]
<1>2. r \in StoreType /\ r.next = n /\ r.held = s.held /\ r.count = s.count
  BY <1>1 DEF StoreType
<1> HIDE DEF r
<1>3. StoreFits(r)
  BY <1>2 DEF StoreFits
<1> QED
  BY <1>2, <1>3 DEF r

LEMMA PutsStep ==
  ASSUME JarInv, NEW t \in JarTasks, PutsNext(t)
  PROVE  JarInv'
<1>1. /\ job[t] \in JobType /\ jar.store \in StoreType /\ StoreFits(jar.store) /\ jar.now \in Nat
      /\ jar.store.next \in Nat /\ jar.store.held \subseteq Cookie
      /\ job[t].todo \in Seq(Cookie) /\ job[t].snap \subseteq Cookie /\ job[t].placed \subseteq Cookie
      /\ job[t].at \in Nat
      /\ (job[t].pc = "puts" => job[t].todo # <<>>)
      /\ \A i \in 1 .. Len(job[t].todo) : Lawful(job[t].todo[i])
      /\ jar.store.held \subseteq Numbered /\ job[t].snap \subseteq Numbered /\ job[t].placed \subseteq Numbered
      /\ jar \in [store : StoreType, now : Nat]
  BY JobIs DEF JarInv
<1>2. PICK arriving, old, todo, snap, placed :
        /\ arriving = Head(job[t].todo) /\ old = OldOf(t, arriving)
        /\ todo = job[t].todo /\ snap = job[t].snap /\ placed = job[t].placed
  OBVIOUS
<1>3. PICK n : n = IF old = {} THEN jar.store.next ELSE (CHOOSE x \in old : TRUE).seq
  OBVIOUS
<1>4. PICK c : c = [arriving EXCEPT !.seq = n]
  OBVIOUS
<1>5. PICK s : s = JarPut(jar.store, c, job[t].at)
  OBVIOUS
<1>6. PICK r : r = [s EXCEPT !.next = IF old = {} THEN @ + 1 ELSE @]
  OBVIOUS
<1>7. /\ job[t].pc = "puts" /\ jar' = [jar EXCEPT !.store = r]
      /\ job' = [job EXCEPT ![t] = WithPlaced(@, c)]
  BY <1>2, <1>3, <1>4, <1>5, <1>6, Zenon DEF PutsNext
<1>8. todo \in Seq(Cookie) /\ todo # <<>> /\ Len(todo) \in Nat /\ Len(todo) >= 1 /\ 1 \in 1 .. Len(todo)
      /\ arriving = todo[1] /\ \A i \in 1 .. Len(todo) : Lawful(todo[i])
  BY <1>1, <1>2, <1>7
<1>9. Lawful(arriving)
  BY <1>8
<1>10. \A x \in old : x \in Numbered /\ KeyOfCookie(x) = KeyOfCookie(arriving)
  BY <1>1, <1>2 DEF OldOf, Same
<1>11. ASSUME old # {} PROVE \E x \in Numbered : n = x.seq /\ KeyOfCookie(x) = KeyOfCookie(arriving)
  <2>1. (CHOOSE x \in old : TRUE) \in old
    BY <1>11
  <2> QED
    BY <1>3, <1>10, <1>11, <2>1
<1>12. \A x \in Numbered : x \in Cookie /\ x.seq \in Nat /\ x.seq < jar.store.next
  <2>1. \A x \in Numbered : x \in Cookie /\ x.seq < jar.store.next
    BY <1>1 DEF JarInv, Numbered, JobType
  <2> QED
    BY <2>1 DEF Cookie
<1>13. n \in Nat
  BY <1>1, <1>3, <1>11, <1>12
<1>14. Lawful(c) /\ c.seq = n /\ KeyOfCookie(c) = KeyOfCookie(arriving) /\ c \in Cookie
  BY <1>4, <1>9, <1>13, NumberIs DEF Lawful
<1>15. /\ StoreFits(s) /\ s.next = jar.store.next
       /\ \A x \in s.held : x = c \/ x \in jar.store.held
  BY <1>1, <1>5, <1>14, PutFits
<1>16. PICK m \in Nat : m = IF old = {} THEN jar.store.next + 1 ELSE jar.store.next
  BY <1>1
<1>17. r = [s EXCEPT !.next = m]
  <2>1. m = IF old = {} THEN s.next + 1 ELSE s.next
    BY <1>15, <1>16
  <2> QED
    BY <1>6, <2>1
<1>18. StoreFits(r) /\ r.next = m /\ r.held = s.held /\ r \in StoreType
  BY <1>15, <1>17, NextFits
<1>19. jar' \in [store : StoreType, now : Nat] /\ jar'.store = r
  BY <1>1, <1>7, <1>18
<1>20. jar'.store.next >= jar.store.next
  BY <1>1, <1>16, <1>18, <1>19
<1>21. PICK q : q = WithPlaced(job[t], c)
  OBVIOUS
<1>22. job' = [job EXCEPT ![t] = q]
  BY <1>7, <1>21
<1>23. Tail(todo) \in Seq(Cookie) /\ Len(Tail(todo)) = Len(todo) - 1
       /\ \A i \in 1 .. Len(todo) - 1 : Tail(todo)[i] = todo[i + 1]
  BY <1>8
<1>24. /\ q \in JobType /\ (q.pc = "puts" => q.todo # <<>>)
       /\ (\A i \in 1 .. Len(q.todo) : Lawful(q.todo[i]))
       /\ q.snap \subseteq Numbered /\ \A x \in q.placed : x = c \/ x \in Numbered
  <2>1. CASE Len(todo) = 1
    <3>1. q = NoJob
      BY <1>2, <1>21, <2>1 DEF WithPlaced
    <3> QED
      BY <3>1, NoJobIs
  <2>2. CASE Len(todo) # 1
    <3>1. q = [job[t] EXCEPT !.todo = Tail(todo), !.placed = (placed \ Same(placed, c)) \cup {c}]
      BY <1>2, <1>21, <2>2 DEF WithPlaced
    <3>2. /\ q.todo = Tail(todo) /\ q.placed = (placed \ Same(placed, c)) \cup {c} /\ q.snap = snap
      BY <1>1, <1>2, <3>1 DEF JobType
    <3>3. q \in JobType
      BY <1>1, <1>2, <1>14, <1>23, <3>1 DEF JobType
    <3>4. Len(Tail(todo)) # 0
      BY <1>8, <1>23, <2>2
    <3>5. Tail(todo) # <<>>
      <4>1. Len(<<>>) = 0
        OBVIOUS
      <4> QED
        BY <3>4, <4>1, Zenon
    <3>6. ASSUME NEW i \in 1 .. Len(Tail(todo)) PROVE Lawful(Tail(todo)[i])
      <4>1. i \in 1 .. Len(todo) - 1 /\ i + 1 \in 1 .. Len(todo)
        BY <1>8, <1>23
      <4> QED
        BY <1>8, <1>23, <4>1
    <3> QED
      BY <1>1, <1>2, <3>2, <3>3, <3>5, <3>6
  <2> QED
    BY <2>1, <2>2
<1>25. \A x \in jar'.store.held \cup q.snap \cup q.placed : x = c \/ x \in Numbered
  BY <1>1, <1>15, <1>18, <1>19, <1>24
<1>26. CASE old # {}
  <2>1. PICK z \in Numbered : c.seq = z.seq /\ KeyOfCookie(c) = KeyOfCookie(z)
    BY <1>11, <1>14, <1>26
  <2>2. \A x \in jar'.store.held \cup q.snap \cup q.placed :
          \E y \in Numbered : x.seq = y.seq /\ KeyOfCookie(x) = KeyOfCookie(y)
    BY <1>25, <2>1
  <2> QED
    BY <1>18, <1>19, <1>20, <1>22, <1>24, <2>2, JarTurns
<1>27. CASE old = {}
  <2>1. c.seq = jar.store.next /\ jar'.store.next > jar.store.next
    BY <1>1, <1>3, <1>14, <1>16, <1>18, <1>19, <1>27
  <2>2. \A y \in Numbered : y.seq # jar.store.next
    BY <1>1, <1>12
  <2>3. \A y \in jar'.store.held \cup q.snap \cup q.placed :
          y.seq = jar.store.next => KeyOfCookie(c) = KeyOfCookie(y)
    BY <1>25, <2>2
  <2>4. \A x \in jar'.store.held \cup q.snap \cup q.placed :
           \/ \E y \in Numbered : x.seq = y.seq /\ KeyOfCookie(x) = KeyOfCookie(y)
           \/ x.seq = jar.store.next /\ jar'.store.next > jar.store.next
              /\ \A y \in jar'.store.held \cup q.snap \cup q.placed :
                   y.seq = jar.store.next => KeyOfCookie(x) = KeyOfCookie(y)
    BY <1>25, <2>1, <2>3
  <2> QED
    BY <1>18, <1>19, <1>20, <1>22, <1>24, <2>4, JarTurns
<1> QED
  BY <1>26, <1>27

LEMMA ClearJarStep ==
  ASSUME JarInv, ClearJar
  PROVE  JarInv'
<1>1. /\ StoreFits(jar.store) /\ jar \in [store : StoreType, now : Nat] /\ job' = job
      /\ jar' = [jar EXCEPT !.store.held = {}, !.store.count = 0]
  BY DEF ClearJar, JarInv
<1>2. PICK s : s = jar.store
  OBVIOUS
<1>3. PICK r : r = [s EXCEPT !.held = {}, !.count = 0]
  OBVIOUS
<1>4. s \in StoreType /\ IsFiniteSet(s.held) /\ s.count = Cardinality(s.held) /\ StoreFits(s)
  BY <1>1, <1>2 DEF StoreFits
<1>5. r.held = {} /\ r.count = 0 /\ r.next = s.next /\ r \in StoreType
  BY <1>3, <1>4 DEF StoreType
<1>6. jar' = [jar EXCEPT !.store = r]
  BY <1>1, <1>2, <1>3
<1>7. jar' \in [store : StoreType, now : Nat] /\ jar'.store = r
  BY <1>1, <1>5, <1>6
<1>8. StoreFits(r)
  <2>1. Cardinality(s.held) \in Nat
    BY <1>4, FS_CardinalityType
  <2>2. s.held \ r.held = s.held
    BY <1>5
  <2>3. r.count = s.count - Cardinality(s.held \ r.held)
    BY <1>4, <1>5, <2>1, <2>2
  <2> QED
    BY <1>4, <1>5, <2>3, LessFits
<1>9. Numbered' \subseteq Numbered
  BY <1>1, <1>5, <1>7 DEF Numbered
<1>10. jar'.store.next = jar.store.next
  BY <1>2, <1>5, <1>7
<1> QED
  BY <1>1, <1>7, <1>8, <1>9, <1>10 DEF JarInv

LEMMA JarTickStep ==
  ASSUME JarInv, JarTick
  PROVE  JarInv'
<1>1. /\ jar \in [store : StoreType, now : Nat] /\ job' = job
      /\ jar' = [jar EXCEPT !.now = @ + 1]
  BY DEF JarTick, JarInv
<1>2. jar' \in [store : StoreType, now : Nat] /\ jar'.store = jar.store
  BY <1>1
<1>3. Numbered' = Numbered
  BY <1>1, <1>2 DEF Numbered
<1> QED
  BY <1>1, <1>2, <1>3 DEF JarInv

LEMMA JarStarts == JarInit => JarInv
<1> SUFFICES ASSUME JarInit PROVE JarInv
  OBVIOUS
<1>1. jar = [store |-> [held |-> {}, count |-> 0, next |-> 0], now |-> 0] /\ job = [t \in JarTasks |-> NoJob]
  BY DEF JarInit, EmptyJar
<1>2. /\ jar.store.held = {} /\ jar.store.count = 0 /\ jar.store \in StoreType
      /\ jar \in [store : StoreType, now : Nat]
  BY <1>1 DEF StoreType
<1>3. IsFiniteSet({}) /\ Cardinality({}) = 0
  BY FS_EmptySet
<1>4. \A d : OfDomain({}, d) = {}
  BY DEF OfDomain
<1>5. StoreFits(jar.store)
  <2>1. \A d \in Hosts : Cardinality(OfDomain(jar.store.held, d)) = 0
    BY <1>2, <1>3, <1>4
  <2>2. 0 <= MaxCookies /\ 0 <= MaxPerDomain
    BY JarAssumed
  <2> QED
    BY <1>2, <1>3, <2>1, <2>2 DEF StoreFits, OneToAKey
<1>6. job \in [JarTasks -> JobType] /\ \A t \in JarTasks : job[t] = NoJob
  BY <1>1, NoJobIs
<1>7. Numbered = {}
  BY <1>2, <1>6, NoJobIs DEF Numbered
<1> QED
  BY <1>2, <1>5, <1>6, <1>7, NoJobIs DEF JarInv

LEMMA JarKeeps == JarInv /\ [JarNext]_jarVars => JarInv'
<1> SUFFICES ASSUME JarInv, [JarNext]_jarVars PROVE JarInv'
  OBVIOUS
<1>1. CASE UNCHANGED jarVars
  BY <1>1 DEF JarInv, jarVars, Numbered
<1>2. CASE \E t \in JarTasks : StoreResponse(t)
  BY <1>2, StoreResponseStep
<1>3. CASE \E t \in JarTasks : PutsNext(t)
  BY <1>3, PutsStep
<1>4. CASE \E t \in JarTasks : AttachCookies(t)
  BY <1>4, AttachStep
<1>5. CASE \E t \in JarTasks : TouchCookies(t)
  BY <1>5, TouchStep
<1>6. CASE \E t \in JarTasks : RestoreRecord(t)
  BY <1>6, RestoreStep
<1>7. CASE ClearJar
  BY <1>7, ClearJarStep
<1>8. CASE JarTick
  BY <1>8, JarTickStep
<1> QED
  BY <1>1, <1>2, <1>3, <1>4, <1>5, <1>6, <1>7, <1>8 DEF JarNext

LEMMA JarPromise == JarInv => JarHolds
<1> SUFFICES ASSUME JarInv PROVE JarHolds
  OBVIOUS
<1>1. PICK s : s = jar.store
  OBVIOUS
<1>2. StoreFits(s) /\ jar.now \in Nat
  BY <1>1 DEF JarInv
<1>3. /\ s.held \subseteq Cookie /\ s.count = Cardinality(s.held) /\ s.count <= MaxCookies
      /\ OneToAKey(s.held) /\ (\A c \in s.held : Lawful(c))
      /\ \A d \in Hosts : Cardinality(OfDomain(s.held, d)) <= MaxPerDomain
  BY <1>2 DEF StoreFits, StoreType
<1>4. ASSUME NEW c \in s.held
      PROVE  /\ Cardinality(OfDomain(s.held, c.domain)) <= MaxPerDomain
             /\ Same(s.held, c) = {c}
             /\ c.hostOnly \/ (c.domain \notin Ips /\ c.domain \notin PublicSuffixes)
             /\ PrefixHolds(c.name, c.secure, c.hostOnly, c.path)
             /\ \A d \in s.held : c.seq = d.seq => c = d
  <2>1. c.domain \in Hosts
    BY <1>3 DEF Cookie
  <2>2. Same(s.held, c) = {c}
    BY <1>3 DEF Same, OneToAKey
  <2>3. \A d \in s.held : c.seq = d.seq => c = d
    BY <1>1, <1>3 DEF JarInv, Numbered, OneToAKey
  <2> QED
    BY <1>3, <2>1, <2>2, <2>3 DEF Lawful
<1>5. \A o \in Origins : Matching(s, o, jar.now) = {c \in s.held : GoesTo(c, o, jar.now)}
  BY <1>2, MatchingIsExact
<1> QED
  BY <1>1, <1>3, <1>4, <1>5 DEF JarHolds

------------------------------------------------------------------------------
(* The composition.                                                         *)

\* A step of the composition is a step of one memory, and leaves the others.
LEMMA StoresMove ==
  [StoresNext]_storesVars =>
    /\ [KvNext]_kvVars /\ [AltNext]_altVars /\ [HstsNext]_hstsVars
    /\ [JarNext]_jarVars /\ [RouteNext]_routeVars
<1> SUFFICES ASSUME [StoresNext]_storesVars
             PROVE  /\ [KvNext]_kvVars /\ [AltNext]_altVars /\ [HstsNext]_hstsVars
                    /\ [JarNext]_jarVars /\ [RouteNext]_routeVars
  OBVIOUS
<1>1. CASE UNCHANGED storesVars
  BY <1>1 DEF storesVars
<1>2. CASE StoresNext
  BY <1>2 DEF StoresNext
<1> QED
  BY <1>1, <1>2

\* However operations of the byte store overlap and are dropped between two
\* awaits, no key holds more values than there are writers; and operations that
\* do not overlap keep the store within its capacity, one value to a key, and a
\* counter that never claims too little, for any keys, groups and capacity.  With
\* it the states that the HSTS hosts and the Alt-Svc memory can be in (kv.rs,
\* hsts.rs, altsvc_cache/kv.rs).
THEOREM StoresStaySound ==
  StoresSpec => []StoresAreSound
<1>1. StoresInit => KvInv /\ HstsInv /\ AltInv
  BY KvStart, HstsBegins, AltBegins DEF StoresInit
<1>2. (KvInv /\ HstsInv /\ AltInv) /\ [StoresNext]_storesVars => (KvInv /\ HstsInv /\ AltInv)'
  BY StoresMove, KvKeeps, HstsStep, AltStep
<1>3. KvInv /\ HstsInv /\ AltInv => StoresAreSound
  BY KvPromise, HstsPromise, AltPromise DEF StoresAreSound
<1> QED
  BY <1>1, <1>2, <1>3, PTL DEF StoresSpec

\* The cookie jar never holds two cookies of a key, a cookie that a domain may
\* not set or a prefix forbids, or more cookies than its two bounds; no two of
\* its cookies share a number; and what it matches to a request is exactly what
\* the rule for one cookie and one request allows.  For any origins, responses
\* and records, any number of overlapping calls and bounds of any size
\* (cookie/jar.rs, cookie/store.rs, cookie/matching.rs).
THEOREM JarIsSound ==
  StoresSpec => []JarHolds
<1>1. StoresInit => JarInv
  BY JarStarts DEF StoresInit
<1>2. JarInv /\ [StoresNext]_storesVars => JarInv'
  BY StoresMove, JarKeeps
<1> QED
  BY <1>1, <1>2, JarPromise, PTL DEF StoresSpec

\* Whatever dropped and overlapping notes have left in the two namespaces of an
\* origin, a note that then runs alone leaves exactly what it says, for any
\* number of calls and leases of any length (altsvc_cache/kv.rs).
THEOREM LastWordStands ==
  StoresSpec => []LastWordIsKept
<1>1. StoresInit => AltInv
  BY AltBegins DEF StoresInit
<1>2. AltInv /\ [StoresNext]_storesVars => AltInv'
  BY StoresMove, AltStep
<1> QED
  BY <1>1, <1>2, AltPromise, PTL DEF StoresSpec

\* A host known to be HTTPS-only is forgotten before its policy expires only by
\* one who writes that policy or a parent's, or through the races named, for
\* any number of hosts, parents and overlapping calls (hsts.rs).
THEOREM KnownHostsStayKnown ==
  StoresSpec => KnownUntilExpired
<1>1. StoresInit => HstsInv
  BY HstsBegins DEF StoresInit
<1>2. HstsInv /\ [StoresNext]_storesVars => HstsInv' /\ [Lapses]_hstsVars
  BY StoresMove, HstsStep, LapseHasAReason
<1> QED
  BY <1>1, <1>2, PTL DEF StoresSpec, KnownUntilExpired, Lapses

\* A request spends one bound on all the connects it tries, and is answered over
\* the version its caller demanded or not at all, for any number of requests,
\* bounds and delays (lib.rs route, quic_or_fallback and the race).
THEOREM BudgetsAndDemandsHold ==
  StoresSpec => []RouteHolds
<1>1. StoresInit => RouteInv
  BY RouteBegins DEF StoresInit
<1>2. RouteInv /\ [StoresNext]_storesVars => RouteInv'
  BY StoresMove, RouteStepHolds
<1> QED
  BY <1>1, <1>2, RoutePromise, PTL DEF StoresSpec

\* A request that was free to use TCP fails for QUIC's sake only once its bound
\* is spent, whatever the race, the tunnel or the filter answered.
THEOREM QuicFailsNobodyAlone ==
  StoresSpec => QuicAloneDoesNotFail
<1>1. StoresInit => RouteInv
  BY RouteBegins DEF StoresInit
<1>2. RouteInv /\ [StoresNext]_storesVars => RouteInv' /\ [FailsJustly]_routeVars
  BY StoresMove, RouteStepHolds
<1> QED
  BY <1>1, <1>2, PTL DEF StoresSpec, QuicAloneDoesNotFail, FailsJustly, Justified
=============================================================================
