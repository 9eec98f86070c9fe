---------------------------- MODULE ConnectProofs ----------------------------
(***************************************************************************)
(* Opening one connection, for any number of answers and any setting of    *)
(* the scheduler: a race that is lost has tried every address, and neither *)
(* family waits for more than the other's share.  And the mark by which    *)
(* concurrent requests share one connect, for any tasks and origins.       *)
(***************************************************************************)
EXTENDS Connect, SingleFlight, NaturalsInduction, WellFoundedInduction, TLAPS

------------------------------------------------------------------------------
(* The larger of two numbers, and the least of a queue.                    *)

LEMMA MaxOfTwo ==
  ASSUME NEW a \in Nat, NEW b \in Nat
  PROVE  Max({a, b}) \in {a, b} /\ a <= Max({a, b}) /\ b <= Max({a, b})
<1>1. \E x \in {a, b} : \A y \in {a, b} : x >= y
  <2>1. CASE a >= b
    BY <2>1
  <2>2. CASE b >= a
    BY <2>2
  <2> QED
    BY <2>1, <2>2
<1> QED
  BY <1>1 DEF Max

LEMMA MaxOfThree ==
  ASSUME NEW a \in Nat, NEW b \in Nat, NEW c \in Nat
  PROVE  /\ Max({a, b, c}) \in Nat
         /\ a <= Max({a, b, c}) /\ b <= Max({a, b, c}) /\ c <= Max({a, b, c})
<1>1. \E x \in {a, b, c} : \A y \in {a, b, c} : x >= y
  <2>1. CASE a >= b /\ a >= c
    BY <2>1
  <2>2. CASE b >= a /\ b >= c
    BY <2>2
  <2>3. CASE c >= a /\ c >= b
    BY <2>3
  <2> QED
    BY <2>1, <2>2, <2>3
<1> QED
  BY <1>1 DEF Max

\* pop_front takes an address that is queued.
LEMMA MinOfQueue ==
  ASSUME NEW T, T \subseteq Nat, T # {}
  PROVE  Min(T) \in T
<1>1. PICK x \in T : \A y \in T : ~(<<y, x>> \in OpToRel(<, Nat))
  BY NatLessThanWellFounded, WFMin, Zenon
<1>2. \A y \in T : ~(y < x)
  BY <1>1 DEF OpToRel
<1>3. \A y \in T : x <= y
  BY <1>2
<1> QED
  BY <1>3 DEF Min

------------------------------------------------------------------------------
(* The inductive invariant.                                                *)

\* ConnectTypeOK in parts, with the shape of the functions it leaves open.
EnvTyped ==
    /\ pc \in Ended \cup {"discover", "bounded", "poll", "wait", "drain", "secure"}
    /\ secure \in BOOLEAN
    /\ ans \in [Families -> [seen : Seq(Kinds), done : BOOLEAN]]
    /\ \A f \in Families : Len(ans[f].seen) <= MaxAnswers[f]
    /\ rec \in [used : BOOLEAN, hints : SUBSET Families]
    /\ suppressed \in BOOLEAN
    /\ err \in {"none", "timeout", "resolve", "connect", "lookup", "tls"}

ClocksTyped ==
    /\ age \in 0 .. Max({ResolutionDelay, ResolveBound + 1})
    /\ gap \in 0 .. AttemptDelay
    /\ left \in 0 .. LongestWait

StreamsTyped ==
    /\ at \in [Families -> Nat]
    /\ queue \in [Families -> SUBSET Nat]
    /\ \A f \in Families : at[f] \in 0 .. Len(ans[f].seen) + 1
    /\ \A f \in Families : queue[f] \subseteq 0 .. at[f] - 1
    /\ fin \subseteq Families

RaceTyped == tried \subseteq Addresses /\ flying \subseteq tried

\* A family marked done was read to its end.
DoneIsRead == \A f \in fin : ans[f].done /\ at[f] = Len(ans[f].seen) + 1

\* What a stream was read of is queued or was tried.
ReadIsOffered ==
    \A f \in Families : \A i \in 1 .. at[f] - 1 :
        ans[f].seen[i] = "addr" => i \in queue[f] \/ <<f, i>> \in tried

\* A race is drained, and lost, only with nothing left to offer.
LostIsExhausted ==
    (pc = "drain" \/ (pc = "failed" /\ err \in {"connect", "resolve", "lookup"}))
        => Exhausted

\* An IPv4 address waits for the run of IPv6 attempts that is counted, and an
\* IPv6 one that waits was passed by the IPv4 attempt that ended the run.
Turns ==
    /\ streak \in 0 .. FirstFamilyCount
    /\ behind \in [Families -> Nat]
    /\ tried = {} => streak = 0 /\ behind["v4"] = 0 /\ behind["v6"] = 0
    /\ behind["v4"] <= streak \/ (FirstFamilyCount = 0 /\ behind["v4"] <= 1)
    /\ FirstFamilyCount # 0 => behind["v6"] = 0 \/ (behind["v6"] = 1 /\ streak = 0)

ConnectInv ==
    /\ EnvTyped /\ ClocksTyped /\ StreamsTyped /\ RaceTyped
    /\ DoneIsRead /\ ReadIsOffered /\ LostIsExhausted /\ Turns

------------------------------------------------------------------------------
(* Steps that leave the race where it is, and steps that start one.        *)

LEMMA ConstantsAreNat ==
  /\ ResolutionDelay \in Nat /\ AttemptDelay \in Nat /\ FirstFamilyCount \in Nat
  /\ ResolveBound \in Nat /\ MaxAnswers["v6"] \in Nat /\ MaxAnswers["v4"] \in Nat
  /\ MaxAnswers \in [Families -> Nat]
  BY ConnectAssumption DEF Families

LEMMA LongestWaitIsLong ==
  /\ LongestWait \in Nat
  /\ ResolutionDelay <= LongestWait /\ AttemptDelay <= LongestWait
  /\ ResolveBound <= LongestWait
  BY ConstantsAreNat, MaxOfThree DEF LongestWait

LEMMA OldestAgeIsOldest ==
  /\ Max({ResolutionDelay, ResolveBound + 1}) \in Nat
  /\ \A p : OldestAge(p) \in 0 .. Max({ResolutionDelay, ResolveBound + 1})
<1>1. ResolveBound + 1 \in Nat
  BY ConstantsAreNat
<1> QED
  BY <1>1, ConstantsAreNat, MaxOfTwo DEF OldestAge

\* Where neither the race nor the answers move, what is kept about them holds.
LEMMA RaceStands ==
  ASSUME ConnectInv, UNCHANGED <<heVars, ans>>,
         pc' \in Ended \cup {"discover", "bounded", "poll", "wait", "drain", "secure"},
         secure' \in BOOLEAN, suppressed' \in BOOLEAN,
         rec' \in [used : BOOLEAN, hints : SUBSET Families],
         err' \in {"none", "timeout", "resolve", "connect", "lookup", "tls"},
         left' \in 0 .. LongestWait,
         LostIsExhausted'
  PROVE  ConnectInv'
<1>1. EnvTyped'
  BY DEF ConnectInv, EnvTyped
<1>2. ClocksTyped'
  BY DEF ConnectInv, ClocksTyped, heVars
<1>3. StreamsTyped' /\ RaceTyped' /\ DoneIsRead' /\ ReadIsOffered'
  BY DEF ConnectInv, heVars, StreamsTyped, RaceTyped, DoneIsRead, ReadIsOffered
<1>4. Turns'
  BY DEF ConnectInv, heVars, Turns
<1> QED
  BY <1>1, <1>2, <1>3, <1>4 DEF ConnectInv

\* A race that starts over has read nothing and tried nothing.
LEMMA RaceBegins ==
  ASSUME ConnectInv, NEW r \in [used : BOOLEAN, hints : SUBSET Families],
         RaceFrom(r), ans' = ans,
         secure' \in BOOLEAN, suppressed' \in BOOLEAN,
         err' \in {"none", "timeout", "resolve", "connect", "lookup", "tls"},
         left' \in 0 .. LongestWait
  PROVE  ConnectInv'
<1>1. EnvTyped'
  BY DEF ConnectInv, EnvTyped, RaceFrom
<1>2. ClocksTyped'
  BY ConstantsAreNat, OldestAgeIsOldest DEF ClocksTyped, RaceFrom
<1>3. \A f \in Families : at'[f] \in {0, 1} /\ queue'[f] = {}
  BY DEF RaceFrom, StreamStart, ReplayFrom
<1>4. \A f \in Families : Len(ans'[f].seen) \in Nat
  BY DEF ConnectInv, EnvTyped
<1>5. StreamsTyped'
  <2>1. at' \in [Families -> Nat] /\ queue' \in [Families -> SUBSET Nat]
    BY DEF RaceFrom, StreamStart, ReplayFrom
  <2> QED
    BY <1>3, <1>4, <2>1 DEF StreamsTyped, RaceFrom
<1>6. RaceTyped' /\ DoneIsRead'
  BY DEF RaceTyped, DoneIsRead, RaceFrom
<1>7. ReadIsOffered'
  BY <1>3 DEF ReadIsOffered
<1>8. LostIsExhausted'
  BY DEF LostIsExhausted, RaceFrom
<1>9. Turns'
  BY ConstantsAreNat DEF Turns, RaceFrom, Families
<1> QED
  BY <1>1, <1>2, <1>5, <1>6, <1>7, <1>8, <1>9 DEF ConnectInv

\* Onward either starts the race or goes and waits for an address first.
LEMMA OnwardStep ==
  ASSUME ConnectInv, NEW r \in Records, Onward(r), pc \notin {"drain", "failed"},
         UNCHANGED <<ans, err>>, secure' \in BOOLEAN, suppressed' \in BOOLEAN
  PROVE  ConnectInv'
<1>1. r \in [used : BOOLEAN, hints : SUBSET Families]
  <2>1. CASE r = NoRecord
    BY <2>1 DEF NoRecord
  <2>2. CASE r \in [used : {TRUE}, hints : SUBSET Families]
    BY <2>2
  <2> QED
    BY <2>1, <2>2 DEF Records
<1>2. err' \in {"none", "timeout", "resolve", "connect", "lookup", "tls"}
  BY DEF ConnectInv, EnvTyped
<1>3. CASE RaceFrom(r) /\ UNCHANGED left
  <2>1. left' \in 0 .. LongestWait
    BY <1>3 DEF ConnectInv, ClocksTyped
  <2> QED
    BY <1>1, <1>2, <1>3, <2>1, RaceBegins
<1>4. CASE /\ pc' = "bounded" /\ rec' = r /\ left' = ResolveBound
           /\ UNCHANGED heVars
  <2>1. left' \in 0 .. LongestWait
    BY <1>4, LongestWaitIsLong, ConstantsAreNat
  <2>2. LostIsExhausted'
    BY <1>4 DEF LostIsExhausted
  <2> QED
    BY <1>1, <1>2, <1>4, <2>1, <2>2, RaceStands
<1> QED
  BY <1>3, <1>4, Zenon DEF Onward

\* Fails either starts the race again without the record or ends the connect.
LEMMA FailsStep ==
  ASSUME ConnectInv, NEW e \in {"resolve", "connect", "lookup", "tls"}, Fails(e),
         e # "tls" => Exhausted, UNCHANGED <<secure, ans, left>>
  PROVE  ConnectInv'
<1>1. NoRecord \in [used : BOOLEAN, hints : SUBSET Families]
  BY DEF NoRecord
<1>2. /\ secure' \in BOOLEAN
      /\ left' \in 0 .. LongestWait
  BY DEF ConnectInv, EnvTyped, ClocksTyped
<1>3. CASE RaceFrom(NoRecord) /\ suppressed' = TRUE /\ UNCHANGED err
  <2>1. err' \in {"none", "timeout", "resolve", "connect", "lookup", "tls"}
    BY <1>3 DEF ConnectInv, EnvTyped
  <2> QED
    BY <1>1, <1>2, <1>3, <2>1, RaceBegins
<1>4. CASE pc' = "failed" /\ err' = e /\ UNCHANGED <<rec, heVars, suppressed>>
  <2>1. rec' \in [used : BOOLEAN, hints : SUBSET Families] /\ suppressed' \in BOOLEAN
    BY <1>4 DEF ConnectInv, EnvTyped
  <2>2. LostIsExhausted'
    BY <1>4 DEF LostIsExhausted, Exhausted, heVars
  <2> QED
    BY <1>2, <1>4, <2>1, <2>2, RaceStands DEF Ended
<1> QED
  BY <1>3, <1>4, Zenon DEF Fails

------------------------------------------------------------------------------
(* The scheduler: an attempt is started, what an attempt came to.          *)

LEMMA OtherFamily ==
  Other("v6") = "v4" /\ Other("v4") = "v6"
  BY DEF Other, Families

LEMMA QueuedIsAddress ==
  ASSUME ConnectInv, NEW f \in Families, NEW i \in queue[f]
  PROVE  <<f, i>> \in Addresses
<1>1. Len(ans[f].seen) \in Nat /\ Len(ans[f].seen) <= MaxAnswers[f] /\ MaxAnswers[f] \in Nat
  BY ConstantsAreNat DEF ConnectInv, EnvTyped
<1>2. i \in 0 .. at[f] - 1 /\ at[f] \in 0 .. Len(ans[f].seen) + 1
  BY DEF ConnectInv, StreamsTyped
<1>3. i \in Positions(f)
  BY <1>1, <1>2 DEF Positions
<1> QED
  BY <1>3 DEF Addresses

LEMMA StartStep ==
  ASSUME ConnectInv, Start
  PROVE  ConnectInv'
<1> DEFINE f == Picked
           i == Min(queue[f])
<1>1. f \in Families
  BY DEF Picked, Families
<1>2. queue[f] # {} /\ queue[f] \subseteq Nat
  BY <1>1 DEF Start, ConnectInv, StreamsTyped
<1>3. i \in queue[f]
  BY <1>2, MinOfQueue
<1>4. /\ queue' = [queue EXCEPT ![f] = @ \ {i}]
      /\ tried' = tried \cup {<<f, i>>}
      /\ flying' = flying \cup {<<f, i>>}
      /\ gap' = 0
      /\ streak' = IF f = "v6" THEN CapAt(streak + 1, FirstFamilyCount) ELSE 0
      /\ behind' = [behind EXCEPT ![f] = 0,
                                  ![Other(f)] = IF queue[Other(f)] = {} THEN 0 ELSE @ + 1]
      /\ UNCHANGED <<pc, secure, rec, left, err, at, fin, age, ans, suppressed>>
  BY DEF Start, envVars
<1>5. <<f, i>> \in Addresses
  BY <1>1, <1>3, QueuedIsAddress
<1>6. f = "v6" => queue["v4"] = {} \/ tried = {} \/ streak < FirstFamilyCount
  BY DEF Picked, PicksV6
<1>7. f = "v4" => queue["v6"] = {} \/ streak >= FirstFamilyCount
  <2>1. streak \in Nat /\ FirstFamilyCount \in Nat
    BY ConstantsAreNat DEF ConnectInv, Turns
  <2> QED
    BY <1>2, <2>1 DEF Picked, PicksV6
<1>8. pc = "poll"
  BY DEF Start
<1> HIDE DEF f, i
<1>9. EnvTyped'
  BY <1>4 DEF ConnectInv, EnvTyped
<1>10. ClocksTyped'
  BY <1>4, ConstantsAreNat DEF ConnectInv, ClocksTyped
<1>11. StreamsTyped'
  BY <1>1, <1>4 DEF ConnectInv, StreamsTyped
<1>12. RaceTyped'
  BY <1>4, <1>5 DEF ConnectInv, RaceTyped
<1>13. DoneIsRead'
  BY <1>4 DEF ConnectInv, DoneIsRead
<1>14. ReadIsOffered'
  <2> SUFFICES ASSUME NEW g \in Families, NEW j \in 1 .. at[g] - 1,
                      ans[g].seen[j] = "addr"
               PROVE  j \in queue'[g] \/ <<g, j>> \in tried'
    BY <1>4 DEF ReadIsOffered
  <2>1. j \in queue[g] \/ <<g, j>> \in tried
    BY DEF ConnectInv, ReadIsOffered
  <2>2. CASE j \in queue[g] /\ <<g, j>> # <<f, i>>
    BY <1>1, <1>4, <2>2 DEF ConnectInv, StreamsTyped
  <2> QED
    BY <1>4, <2>1, <2>2
<1>15. LostIsExhausted'
  BY <1>4, <1>8 DEF LostIsExhausted
<1>16. Turns'
  <2>1. /\ streak \in 0 .. FirstFamilyCount /\ FirstFamilyCount \in Nat
        /\ behind \in [Families -> Nat] /\ tried' # {}
        /\ behind["v4"] \in Nat /\ behind["v6"] \in Nat
    BY <1>4, ConstantsAreNat DEF ConnectInv, Turns, Families
  <2>2. CASE f = "v6"
    <3>1. streak' = IF streak + 1 > FirstFamilyCount THEN FirstFamilyCount ELSE streak + 1
      BY <1>4, <2>2 DEF CapAt
    <3>2. behind' = [behind EXCEPT !["v6"] = 0,
                                   !["v4"] = IF queue["v4"] = {} THEN 0 ELSE @ + 1]
      BY <1>4, <2>2, OtherFamily
    <3>3. /\ behind'["v6"] = 0 /\ behind' \in [Families -> Nat]
          /\ behind'["v4"] = IF queue["v4"] = {} THEN 0 ELSE behind["v4"] + 1
      BY <2>1, <3>2 DEF Families
    <3>4. behind'["v4"] <= streak' \/ (FirstFamilyCount = 0 /\ behind'["v4"] <= 1)
      BY <1>6, <2>1, <2>2, <3>1, <3>3 DEF ConnectInv, Turns
    <3> QED
      BY <2>1, <3>1, <3>3, <3>4 DEF Turns
  <2>3. CASE f = "v4"
    <3>1. streak' = 0
      BY <1>4, <2>3
    <3>2. behind' = [behind EXCEPT !["v4"] = 0,
                                   !["v6"] = IF queue["v6"] = {} THEN 0 ELSE @ + 1]
      BY <1>4, <2>3, OtherFamily
    <3>3. /\ behind'["v4"] = 0 /\ behind' \in [Families -> Nat]
          /\ behind'["v6"] = IF queue["v6"] = {} THEN 0 ELSE behind["v6"] + 1
      BY <2>1, <3>2 DEF Families
    <3>4. FirstFamilyCount # 0 => behind'["v6"] = 0 \/ (behind'["v6"] = 1 /\ streak' = 0)
      BY <1>7, <2>1, <2>3, <3>1, <3>3 DEF ConnectInv, Turns
    <3> QED
      BY <2>1, <3>1, <3>3, <3>4 DEF Turns
  <2> QED
    BY <1>1, <2>2, <2>3 DEF Families
<1> QED
  BY <1>9, <1>10, <1>11, <1>12, <1>13, <1>14, <1>15, <1>16 DEF ConnectInv

\* An attempt that ends leaves nothing but itself.
LEMMA AttemptStep ==
  ASSUME ConnectInv, flying' \subseteq flying,
         pc' \in Ended \cup {"discover", "bounded", "poll", "wait", "drain", "secure"},
         pc' = "drain" => pc = "drain", pc' # "failed",
         UNCHANGED <<secure, rec, left, err, at, queue, fin, age, gap, streak, tried,
                     behind, ans, suppressed>>
  PROVE  ConnectInv'
<1>1. EnvTyped'
  BY DEF ConnectInv, EnvTyped
<1>2. ClocksTyped'
  BY DEF ConnectInv, ClocksTyped
<1>3. StreamsTyped' /\ RaceTyped' /\ DoneIsRead' /\ ReadIsOffered'
  BY DEF ConnectInv, StreamsTyped, RaceTyped, DoneIsRead, ReadIsOffered
<1>4. LostIsExhausted'
  BY DEF ConnectInv, LostIsExhausted, Exhausted
<1>5. Turns'
  BY DEF ConnectInv, Turns
<1> QED
  BY <1>1, <1>2, <1>3, <1>4, <1>5 DEF ConnectInv

\* The scheduler says to wait, or that it has nothing left.
LEMMA WaitStep ==
  ASSUME ConnectInv, Wait
  PROVE  ConnectInv'
<1>1. /\ gap \in 0 .. AttemptDelay /\ age \in Nat
      /\ LongestWait \in Nat /\ ResolutionDelay \in Nat /\ AttemptDelay \in Nat
  BY LongestWaitIsLong, ConstantsAreNat, OldestAgeIsOldest DEF ConnectInv, ClocksTyped
<1>2. WaitFor \in 0 .. LongestWait
  <2>1. CASE Paced
    BY <1>1, <2>1, LongestWaitIsLong DEF WaitFor
  <2>2. CASE ~Paced /\ HeldForV6
    BY <1>1, <2>2, LongestWaitIsLong DEF WaitFor, HeldForV6
  <2>3. CASE ~Paced /\ ~HeldForV6
    BY <1>1, <2>3, LongestWaitIsLong DEF WaitFor
  <2> QED
    BY <2>1, <2>2, <2>3
<1>3. left' \in 0 .. LongestWait
  BY <1>2 DEF Wait
<1>4. LostIsExhausted'
  BY DEF Wait, LostIsExhausted
<1>5. EnvTyped
  BY DEF ConnectInv
<1> QED
  BY <1>3, <1>4, <1>5, RaceStands DEF Wait, EnvTyped, envVars

LEMMA DrainStep ==
  ASSUME ConnectInv, Drain
  PROVE  ConnectInv'
<1>1. LostIsExhausted'
  BY DEF Drain, LostIsExhausted, Exhausted, heVars
<1>2. left' \in 0 .. LongestWait
  BY DEF ConnectInv, ClocksTyped, Drain
<1>3. EnvTyped
  BY DEF ConnectInv
<1> QED
  BY <1>1, <1>2, <1>3, RaceStands DEF Drain, EnvTyped, envVars

LEMMA TimedOutStep ==
  ASSUME ConnectInv, TimedOut
  PROVE  ConnectInv'
<1>1. LostIsExhausted'
  BY DEF TimedOut, LostIsExhausted
<1>2. left' \in 0 .. LongestWait
  BY DEF ConnectInv, ClocksTyped, TimedOut
<1>3. EnvTyped
  BY DEF ConnectInv
<1> QED
  BY <1>1, <1>2, <1>3, RaceStands DEF TimedOut, EnvTyped, envVars

------------------------------------------------------------------------------
(* The streams: an item is read, an answer arrives, a lookup ends.         *)

LEMMA ReadStreamStep ==
  ASSUME ConnectInv, ReadStream
  PROVE  ConnectInv'
<1> DEFINE f == NextStream
<1>1. f \in Families
  BY DEF NextStream, Families
<1>2. /\ pc = "wait" /\ StreamReady(f) /\ pc' = "poll"
      /\ UNCHANGED <<secure, rec, left, err, age, gap, streak, flying, tried, behind,
                     ans, suppressed>>
  BY DEF ReadStream, envVars
<1>3. \/ /\ HasItem(f)
         /\ at' = [at EXCEPT ![f] = AfterHint(f)]
         /\ queue' = IF Item(f) = "addr"
                       THEN [queue EXCEPT ![f] = @ \cup {at[f]}] ELSE queue
         /\ fin' = fin
      \/ /\ ~HasItem(f)
         /\ fin' = fin \cup {f}
         /\ UNCHANGED <<at, queue>>
  BY Zenon DEF ReadStream
<1> HIDE DEF f
<1>4. EnvTyped'
  BY <1>2 DEF ConnectInv, EnvTyped
<1>5. ClocksTyped'
  BY <1>2 DEF ConnectInv, ClocksTyped
<1>6. RaceTyped'
  BY <1>2 DEF ConnectInv, RaceTyped
<1>7. LostIsExhausted'
  BY <1>2 DEF LostIsExhausted
<1>8. Turns'
  BY <1>2 DEF ConnectInv, Turns
<1>9. /\ at \in [Families -> Nat] /\ queue \in [Families -> SUBSET Nat] /\ fin \subseteq Families
      /\ \A g \in Families : Len(ans[g].seen) \in Nat
      /\ \A g \in Families : at[g] \in 0 .. Len(ans[g].seen) + 1
      /\ \A g \in Families : queue[g] \subseteq 0 .. at[g] - 1
  BY DEF ConnectInv, StreamsTyped, EnvTyped
<1>10. CASE /\ HasItem(f)
            /\ at' = [at EXCEPT ![f] = AfterHint(f)]
            /\ queue' = IF Item(f) = "addr"
                          THEN [queue EXCEPT ![f] = @ \cup {at[f]}] ELSE queue
            /\ fin' = fin
  <2>1. /\ AfterHint(f) = at[f] + 1 /\ AfterHint(f) \in Nat
        /\ AfterHint(f) <= Len(ans[f].seen) + 1
    BY <1>1, <1>9, <1>10 DEF AfterHint, HasItem, ReplayFrom
  <2>2. at' \in [Families -> Nat] /\ at'[f] = at[f] + 1
    BY <1>1, <1>9, <1>10, <2>1
  <2>3. queue' \in [Families -> SUBSET Nat] /\ queue'[f] \subseteq queue[f] \cup {at[f]}
    <3>1. CASE Item(f) = "addr"
      BY <1>1, <1>9, <1>10, <3>1
    <3>2. CASE Item(f) # "addr"
      BY <1>1, <1>9, <1>10, <3>2
    <3> QED
      BY <3>1, <3>2
  <2>4. Item(f) = "addr" => at[f] \in queue'[f]
    BY <1>1, <1>9, <1>10
  <2>5. \A g \in Families : queue[g] \subseteq queue'[g]
    BY <1>1, <1>9, <1>10
  <2>6. \A g \in Families : g # f => at'[g] = at[g] /\ queue'[g] = queue[g]
    BY <1>1, <1>9, <1>10
  <2>7. StreamsTyped'
    <3>1. at'[f] \in 0 .. Len(ans[f].seen) + 1
      BY <1>1, <1>9, <2>1, <2>2
    <3>2. queue'[f] \subseteq 0 .. at'[f] - 1
      BY <1>1, <1>9, <2>2, <2>3
    <3> QED
      BY <1>2, <1>9, <1>10, <2>2, <2>3, <2>6, <3>1, <3>2 DEF StreamsTyped
  <2>8. DoneIsRead'
    <3> SUFFICES ASSUME NEW g \in fin PROVE ans[g].done /\ at'[g] = Len(ans[g].seen) + 1
      BY <1>2, <1>10 DEF DoneIsRead
    <3>1. g # f
      BY <1>2 DEF StreamReady
    <3> QED
      BY <1>9, <2>6, <3>1 DEF ConnectInv, DoneIsRead
  <2>9. ReadIsOffered'
    <3> SUFFICES ASSUME NEW g \in Families, NEW j \in 1 .. at'[g] - 1,
                        ans[g].seen[j] = "addr"
                 PROVE  j \in queue'[g] \/ <<g, j>> \in tried
      BY <1>2 DEF ReadIsOffered
    <3>1. CASE j \in 1 .. at[g] - 1
      BY <2>5, <3>1 DEF ConnectInv, ReadIsOffered
    <3>2. CASE j \notin 1 .. at[g] - 1
      <4>1. g = f /\ j = at[f] /\ at[f] # 0
        BY <1>1, <1>9, <2>2, <2>6, <3>2
      <4> QED
        BY <2>4, <4>1 DEF Item
    <3> QED
      BY <3>1, <3>2
  <2> QED
    BY <1>4, <1>5, <1>6, <1>7, <1>8, <2>7, <2>8, <2>9 DEF ConnectInv
<1>11. CASE /\ ~HasItem(f)
            /\ fin' = fin \cup {f}
            /\ UNCHANGED <<at, queue>>
  <2>1. ans[f].done /\ at[f] = Len(ans[f].seen) + 1
    BY <1>1, <1>2, <1>9, <1>11 DEF HasItem, StreamReady
  <2>2. StreamsTyped'
    BY <1>1, <1>2, <1>11 DEF ConnectInv, StreamsTyped
  <2>3. DoneIsRead'
    BY <1>2, <1>11, <2>1 DEF ConnectInv, DoneIsRead
  <2>4. ReadIsOffered'
    BY <1>2, <1>11 DEF ConnectInv, ReadIsOffered
  <2> QED
    BY <1>4, <1>5, <1>6, <1>7, <1>8, <2>2, <2>3, <2>4 DEF ConnectInv
<1> QED
  BY <1>3, <1>10, <1>11

\* What the answers of a connect may do beside the race: grow at the end, and
\* only where the lookup is not over.
LEMMA AnswersGrow ==
  ASSUME ConnectInv, UNCHANGED <<pc, secure, rec, left, err, heVars, suppressed>>,
         ans' \in [Families -> [seen : Seq(Kinds), done : BOOLEAN]],
         \A f \in Families :
            /\ Len(ans'[f].seen) >= Len(ans[f].seen)
            /\ Len(ans'[f].seen) <= MaxAnswers[f]
            /\ \A i \in 1 .. Len(ans[f].seen) : ans'[f].seen[i] = ans[f].seen[i]
            /\ ans[f].done => ans'[f] = ans[f]
  PROVE  ConnectInv'
<1>1. EnvTyped'
  BY DEF ConnectInv, EnvTyped
<1>2. ClocksTyped'
  BY DEF ConnectInv, ClocksTyped, heVars
<1>3. \A f \in Families : /\ Len(ans'[f].seen) \in Nat /\ Len(ans[f].seen) \in Nat
                          /\ at[f] \in 0 .. Len(ans[f].seen) + 1
  BY DEF ConnectInv, EnvTyped, StreamsTyped
<1>4. StreamsTyped'
  <2>1. \A f \in Families : at'[f] \in 0 .. Len(ans'[f].seen) + 1
    BY <1>3 DEF heVars
  <2>2. \A f \in Families : queue'[f] \subseteq 0 .. at'[f] - 1
    BY DEF ConnectInv, StreamsTyped, heVars
  <2> QED
    BY <2>1, <2>2 DEF ConnectInv, StreamsTyped, heVars
<1>5. RaceTyped' /\ DoneIsRead'
  BY DEF ConnectInv, RaceTyped, DoneIsRead, StreamsTyped, heVars
<1>6. ReadIsOffered'
  <2> SUFFICES ASSUME NEW f \in Families, NEW i \in 1 .. at[f] - 1,
                      ans'[f].seen[i] = "addr"
               PROVE  i \in queue[f] \/ <<f, i>> \in tried
    BY DEF ReadIsOffered, heVars
  <2>1. i \in 1 .. Len(ans[f].seen)
    BY <1>3
  <2>2. ans[f].seen[i] = "addr"
    BY <2>1
  <2> QED
    BY <2>2 DEF ConnectInv, ReadIsOffered
<1>7. LostIsExhausted'
  BY DEF ConnectInv, LostIsExhausted, Exhausted, heVars
<1>8. Turns'
  BY DEF ConnectInv, Turns, heVars
<1> QED
  BY <1>1, <1>2, <1>4, <1>5, <1>6, <1>7, <1>8 DEF ConnectInv

LEMMA AnswerStep ==
  ASSUME ConnectInv, NEW f \in Families, NEW item \in Items[f], Answer(f, item)
  PROVE  ConnectInv'
<1>1. item \in Kinds
  BY ConnectAssumption
<1> DEFINE s == ans[f].seen
<1>2. /\ s \in Seq(Kinds) /\ ans[f] \in [seen : Seq(Kinds), done : BOOLEAN] /\ ~ans[f].done
      /\ ans \in [Families -> [seen : Seq(Kinds), done : BOOLEAN]]
      /\ \A g \in Families : Len(ans[g].seen) \in Nat /\ Len(ans[g].seen) <= MaxAnswers[g]
      /\ Len(s) < MaxAnswers[f]
  BY DEF ConnectInv, EnvTyped, Answer
<1>3. ans' = [ans EXCEPT ![f] = [ans[f] EXCEPT !.seen = Append(s, item)]]
  BY <1>2 DEF Answer
<1>4. /\ Append(s, item) \in Seq(Kinds) /\ Len(Append(s, item)) = Len(s) + 1
      /\ \A i \in 1 .. Len(s) : Append(s, item)[i] = s[i]
  BY <1>1, <1>2
<1>5. /\ ans' \in [Families -> [seen : Seq(Kinds), done : BOOLEAN]]
      /\ ans'[f].seen = Append(s, item)
      /\ \A g \in Families : g # f => ans'[g] = ans[g]
  BY <1>2, <1>3, <1>4
<1>6. MaxAnswers[f] \in Nat
  BY ConstantsAreNat
<1>7. \A g \in Families :
         /\ Len(ans'[g].seen) >= Len(ans[g].seen)
         /\ Len(ans'[g].seen) <= MaxAnswers[g]
         /\ \A i \in 1 .. Len(ans[g].seen) : ans'[g].seen[i] = ans[g].seen[i]
         /\ ans[g].done => ans'[g] = ans[g]
  <2> TAKE g \in Families
  <2>1. CASE g = f
    <3>1. ans'[g].seen = Append(s, item) /\ ans[g].seen = s /\ Len(s) \in Nat
      BY <1>2, <1>5, <2>1
    <3> HIDE DEF s
    <3>2. Len(ans'[g].seen) >= Len(ans[g].seen) /\ Len(ans'[g].seen) <= MaxAnswers[g]
      BY <1>2, <1>4, <1>6, <2>1, <3>1
    <3>3. \A i \in 1 .. Len(ans[g].seen) : ans'[g].seen[i] = ans[g].seen[i]
      BY <1>4, <3>1
    <3> QED
      BY <1>2, <2>1, <3>2, <3>3
  <2>2. CASE g # f
    BY <1>2, <1>5, <2>2
  <2> QED
    BY <2>1, <2>2
<1> QED
  BY <1>5, <1>7, AnswersGrow DEF Answer

LEMMA LookupEndsStep ==
  ASSUME ConnectInv, NEW f \in Families, LookupEnds(f)
  PROVE  ConnectInv'
<1>1. /\ ans \in [Families -> [seen : Seq(Kinds), done : BOOLEAN]]
      /\ \A g \in Families : Len(ans[g].seen) \in Nat /\ Len(ans[g].seen) <= MaxAnswers[g]
      /\ ~ans[f].done
  BY DEF ConnectInv, EnvTyped, LookupEnds
<1>2. ans' = [ans EXCEPT ![f] = [ans[f] EXCEPT !.done = TRUE]]
  BY <1>1 DEF LookupEnds
<1>3. /\ ans' \in [Families -> [seen : Seq(Kinds), done : BOOLEAN]]
      /\ \A g \in Families : ans'[g].seen = ans[g].seen
      /\ \A g \in Families : ans[g].done => ans'[g] = ans[g]
  BY <1>1, <1>2
<1> QED
  BY <1>1, <1>3, AnswersGrow DEF LookupEnds

------------------------------------------------------------------------------
(* The clock, and the connect that is dropped.                             *)

LEMMA TickStep ==
  ASSUME ConnectInv, Tick
  PROVE  ConnectInv'
<1>1. EnvTyped'
  BY DEF ConnectInv, EnvTyped, Tick, envVars
<1>2. ClocksTyped'
  <2> DEFINE top == OldestAge(pc)
             most == Max({ResolutionDelay, ResolveBound + 1})
  <2>1. most \in Nat /\ top \in 0 .. most
    BY OldestAgeIsOldest
  <2>2. /\ age \in 0 .. most /\ gap \in 0 .. AttemptDelay /\ left \in 0 .. LongestWait
        /\ AttemptDelay \in Nat /\ LongestWait \in Nat
    BY ConstantsAreNat, LongestWaitIsLong DEF ConnectInv, ClocksTyped
  <2>3. age' = CapAt(age + 1, top) /\ gap' = IF tried = {} THEN gap ELSE CapAt(gap + 1, AttemptDelay)
    BY DEF Tick
  <2>4. left' = left \/ (left > 0 /\ left' = left - 1)
    BY DEF Tick
  <2> HIDE DEF top, most
  <2>5. age' \in 0 .. most
    BY <2>1, <2>2, <2>3 DEF CapAt
  <2>6. gap' \in 0 .. AttemptDelay
    BY <2>2, <2>3 DEF CapAt
  <2>7. left' \in 0 .. LongestWait
    BY <2>2, <2>4
  <2> QED
    BY <2>5, <2>6, <2>7 DEF ClocksTyped, most
<1>3. StreamsTyped' /\ RaceTyped' /\ DoneIsRead' /\ ReadIsOffered'
  BY DEF ConnectInv, StreamsTyped, RaceTyped, DoneIsRead, ReadIsOffered, Tick, envVars
<1>4. LostIsExhausted'
  BY DEF Tick, LostIsExhausted
<1>5. Turns'
  BY DEF ConnectInv, Turns, Tick
<1> QED
  BY <1>1, <1>2, <1>3, <1>4, <1>5 DEF ConnectInv

\* A connect that has not begun.
Fresh ==
    /\ pc = "idle" /\ secure = FALSE /\ rec = NoRecord /\ ans = NoAnswers
    /\ at = [f \in Families |-> 1]
    /\ queue = [f \in Families |-> {}]
    /\ behind = [f \in Families |-> 0]
    /\ fin = {} /\ age = 0 /\ gap = 0 /\ streak = 0
    /\ flying = {} /\ tried = {}
    /\ left = 0 /\ err = "none"
    /\ suppressed \in BOOLEAN

LEMMA FreshHolds ==
  Fresh => ConnectInv
<1> SUFFICES ASSUME Fresh PROVE ConnectInv
  OBVIOUS
<1>1. \A f \in Families : /\ ans[f] = [seen |-> <<>>, done |-> FALSE]
                          /\ Len(ans[f].seen) = 0 /\ MaxAnswers[f] \in Nat
  BY ConstantsAreNat DEF Fresh, NoAnswers
<1>2. ans \in [Families -> [seen : Seq(Kinds), done : BOOLEAN]]
  BY DEF Fresh, NoAnswers
<1>3. rec \in [used : BOOLEAN, hints : SUBSET Families]
  BY DEF Fresh, NoRecord
<1>4. EnvTyped
  <2>1. \A f \in Families : Len(ans[f].seen) <= MaxAnswers[f]
    BY <1>1
  <2> QED
    BY <1>2, <1>3, <2>1 DEF EnvTyped, Fresh, Ended
<1>5. ClocksTyped
  BY ConstantsAreNat, OldestAgeIsOldest, LongestWaitIsLong DEF ClocksTyped, Fresh
<1>6. StreamsTyped /\ RaceTyped /\ DoneIsRead /\ ReadIsOffered
  BY <1>1 DEF StreamsTyped, RaceTyped, DoneIsRead, ReadIsOffered, Fresh
<1>7. LostIsExhausted
  BY DEF LostIsExhausted, Fresh
<1>8. Turns
  BY ConstantsAreNat DEF Turns, Fresh, Families
<1> QED
  BY <1>4, <1>5, <1>6, <1>7, <1>8 DEF ConnectInv

------------------------------------------------------------------------------
(* Every step, and what follows from the invariant.                        *)

LEMMA ConnectInvHolds ==
  ConnectSpec => []ConnectInv
<1>1. ConnectInit => ConnectInv
  <2> SUFFICES ASSUME ConnectInit PROVE Fresh
    BY FreshHolds
  <2> QED
    BY DEF ConnectInit, Fresh
<1>2. ConnectInv /\ [ConnectNext]_vars => ConnectInv'
  <2> SUFFICES ASSUME ConnectInv, [ConnectNext]_vars PROVE ConnectInv'
    OBVIOUS
  <2>1. /\ secure \in BOOLEAN /\ suppressed \in BOOLEAN
        /\ pc \in Ended \cup {"discover", "bounded", "poll", "wait", "drain", "secure"}
        /\ rec \in [used : BOOLEAN, hints : SUBSET Families]
        /\ err \in {"none", "timeout", "resolve", "connect", "lookup", "tls"}
        /\ left \in 0 .. LongestWait
    BY DEF ConnectInv, EnvTyped, ClocksTyped
  <2>2. CASE UNCHANGED vars
    <3>1. LostIsExhausted'
      BY <2>2 DEF vars, heVars, ConnectInv, LostIsExhausted, Exhausted
    <3> QED
      BY <2>1, <2>2, <3>1, RaceStands DEF vars, envVars
  <2>3. CASE RaceLost
    <3>1. Exhausted /\ UNCHANGED <<secure, ans, left>>
      BY <2>3 DEF RaceLost, ConnectInv, LostIsExhausted
    <3>2. PICK e \in {"resolve", "connect", "lookup", "tls"} : Fails(e) /\ e # "tls"
      <4>1. CASE Fails(IF tried = {} THEN "resolve" ELSE "connect")
        <5>1. CASE tried = {}
          BY <4>1, <5>1
        <5>2. CASE tried # {}
          BY <4>1, <5>2
        <5> QED
          BY <5>1, <5>2
      <4>2. CASE Fails("lookup")
        BY <4>2
      <4> QED
        BY <2>3, <4>1, <4>2 DEF RaceLost
    <3> QED
      BY <3>1, <3>2, FailsStep
  <2>4. CASE FirstAddress
    BY <2>1, <2>4, RaceBegins DEF FirstAddress, envVars
  <2>5. CASE ResolveTimedOut
    <3>1. LostIsExhausted'
      BY <2>5 DEF ResolveTimedOut, LostIsExhausted
    <3> QED
      BY <2>1, <2>5, <3>1, RaceStands DEF ResolveTimedOut, envVars, Ended
  <2>6. ASSUME NEW a \in flying, AttemptFails(a)
        PROVE  ConnectInv'
    <3>1. pc' \in {"poll", "drain"} /\ (pc' = "drain" => pc = "drain")
      BY <2>6 DEF AttemptFails, AttemptsHeard
    <3> QED
      BY <2>6, <3>1, AttemptStep DEF AttemptFails, envVars
  <2>7. ASSUME NEW a \in flying, AttemptWins(a)
        PROVE  ConnectInv'
    <3>1. pc' \in {"secure", "ok"}
      BY <2>7 DEF AttemptWins
    <3> QED
      BY <2>7, <3>1, AttemptStep DEF AttemptWins, envVars, Ended
  <2>8. CASE Secured
    <3>1. LostIsExhausted'
      BY <2>8 DEF Secured, LostIsExhausted
    <3> QED
      BY <2>1, <2>8, <3>1, RaceStands DEF Secured, envVars, Ended
  <2>9. CASE NotSecured
    BY <2>9, FailsStep DEF NotSecured
  <2>10. ASSUME NEW r \in Records, Discovered(r)
         PROVE  ConnectInv'
    BY <2>1, <2>10, OnwardStep DEF Discovered, envVars
  <2>11. CASE BeginProxied
    <3>1. NoRecord \in [used : BOOLEAN, hints : SUBSET Families]
      BY DEF NoRecord
    <3> QED
      BY <2>1, <2>11, <3>1, RaceBegins DEF BeginProxied, envVars
  <2>12. ASSUME NEW t \in BOOLEAN, NEW asks \in BOOLEAN, NEW expired \in BOOLEAN,
                BeginDirect(t, asks, expired)
         PROVE  ConnectInv'
    <3>1. /\ pc = "idle" /\ secure' \in BOOLEAN /\ suppressed' \in BOOLEAN
          /\ UNCHANGED <<err, ans>>
      BY <2>1, <2>12 DEF BeginDirect
    <3>2. CASE Onward(NoRecord)
      BY <3>1, <3>2, OnwardStep DEF Records
    <3>3. CASE pc' = "discover" /\ rec' = NoRecord /\ UNCHANGED <<left, heVars>>
      <4>1. LostIsExhausted'
        BY <3>3 DEF LostIsExhausted
      <4>2. rec' \in [used : BOOLEAN, hints : SUBSET Families]
        BY <3>3 DEF NoRecord
      <4> QED
        BY <2>1, <3>1, <3>3, <4>1, <4>2, RaceStands
    <3> QED
      BY <2>12, <3>2, <3>3, Zenon DEF BeginDirect
  <2>13. ASSUME NEW r \in Records, BeginPrefetched(r)
         PROVE  ConnectInv'
    BY <2>1, <2>13, OnwardStep DEF BeginPrefetched, envVars
  <2>14. CASE Dropped
    <3>1. Fresh'
      BY <2>1, <2>14 DEF Dropped, Fresh
    <3>2. (Fresh => ConnectInv)'
      BY FreshHolds, PTL
    <3> QED
      BY <3>1, <3>2
  <2>15. CASE Serve
    BY <2>3, <2>4, <2>5, <2>15, StartStep, WaitStep, DrainStep, ReadStreamStep, TimedOutStep,
       TickStep DEF Serve
  <2>16. CASE Ends
    BY <2>6, <2>7, <2>8, <2>9, <2>10, <2>16 DEF Ends
  <2>17. ASSUME NEW f \in Families,
                LookupEnds(f) \/ \E item \in Items[f] : Answer(f, item)
         PROVE  ConnectInv'
    BY <2>17, LookupEndsStep, AnswerStep
  <2> QED
    BY <2>2, <2>11, <2>12, <2>13, <2>14, <2>15, <2>16, <2>17 DEF ConnectNext
<1> QED
  BY <1>1, <1>2, PTL DEF ConnectSpec

\* A connect that ends because its race was lost had tried every address the
\* resolver gave it, for any number of answers in any order (connect.rs, drive,
\* with Answers and Replay).
THEOREM EverythingIsTried ==
  ConnectSpec => []ConnectIsSound
<1>1. ConnectInv => ConnectIsSound
  <2> SUFFICES ASSUME ConnectInv PROVE ConnectIsSound
    OBVIOUS
  <2>1. ConnectTypeOK
    BY DEF ConnectInv, EnvTyped, ClocksTyped, StreamsTyped, RaceTyped, Turns, ConnectTypeOK
  <2>2. NothingLeftUntried
    <3> SUFFICES ASSUME pc = "failed" /\ err \in {"connect", "resolve", "lookup"},
                        NEW f \in Families
                 PROVE  /\ ans[f].done
                        /\ \A i \in DOMAIN ans[f].seen :
                              ans[f].seen[i] = "addr" => <<f, i>> \in tried
      BY DEF NothingLeftUntried
    <3>1. f \in fin /\ queue[f] = {}
      BY DEF ConnectInv, LostIsExhausted, Exhausted
    <3>2. ans[f].done /\ at[f] = Len(ans[f].seen) + 1
      BY <3>1 DEF ConnectInv, DoneIsRead
    <3>3. DOMAIN ans[f].seen = 1 .. at[f] - 1
      <4>1. ans[f].seen \in Seq(Kinds)
        BY DEF ConnectInv, EnvTyped
      <4> QED
        BY <3>2, <4>1
    <3> QED
      BY <3>1, <3>2, <3>3 DEF ConnectInv, ReadIsOffered
  <2> QED
    BY <2>1, <2>2 DEF ConnectIsSound
<1> QED
  BY <1>1, ConnectInvHolds, PTL

\* Neither family starts more than its share while the other has an address
\* queued, for any first_family_count (happy_eyeballs.rs, Scheduler::poll).
THEOREM TurnsAreTaken ==
  ConnectSpec => []FamiliesTakeTurns
<1>1. ConnectInv => FamiliesTakeTurns
  <2> SUFFICES ASSUME Turns PROVE FamiliesTakeTurns
    BY DEF ConnectInv
  <2> DEFINE share == Max({FirstFamilyCount, 1})
  <2>1. share \in {FirstFamilyCount, 1} /\ FirstFamilyCount <= share /\ 1 <= share
    BY ConstantsAreNat, MaxOfTwo
  <2>2. behind["v4"] \in Nat /\ behind["v6"] \in Nat /\ FirstFamilyCount \in Nat
    BY ConstantsAreNat DEF Turns, Families
  <2>3. behind["v4"] <= FirstFamilyCount \/ behind["v4"] <= 1
    BY <2>2 DEF Turns
  <2> HIDE DEF share
  <2>4. behind["v4"] <= share
    BY <2>1, <2>2, <2>3
  <2> QED
    BY <2>2, <2>4 DEF Turns, FamiliesTakeTurns, share
<1> QED
  BY <1>1, ConnectInvHolds, PTL

------------------------------------------------------------------------------
(* The single-flight mark (pool.rs): for any set of tasks and any set of  *)
(* keys it has exactly one owner, only its owner releases it, and no       *)
(* parked task's waker is ever lost.                                       *)

\* Every step leaves the variables within their types.
LEMMA SFTypeInductive ==
  SFTypeOK /\ [SFNext]_sfVars => SFTypeOK'
<1> SUFFICES ASSUME SFTypeOK, [SFNext]_sfVars PROVE SFTypeOK'
  OBVIOUS
<1> USE DEF SFTypeOK, Flights
<1>1. ASSUME NEW t \in Tasks, SFStep(t) PROVE SFTypeOK'
  <2>1. ASSUME NEW k \in Keys, Arrive(t, k) PROVE SFTypeOK'
    BY <2>1 DEF Arrive, BeginConnect
  <2>2. CASE PollWait(t)
    BY <2>2 DEF PollWait, Waiting
  <2>3. CASE Retake(t)
    BY <2>3 DEF Retake, BeginConnect
  <2>4. CASE DropGuard(t)
    BY <2>4 DEF DropGuard
  <2>5. ASSUME NEW w \in Tasks, WakeOne(t, w) PROVE SFTypeOK'
    BY <2>5 DEF WakeOne
  <2>6. CASE Woke(t)
    BY <2>6 DEF Woke
  <2>7. CASE Leave(t)
    BY <2>7 DEF Leave, Waiting
  <2> QED
    BY <1>1, <2>1, <2>2, <2>3, <2>4, <2>5, <2>6, <2>7 DEF SFStep
<1>2. CASE UNCHANGED sfVars
  BY <1>2 DEF sfVars
<1> QED
  BY <1>1, <1>2 DEF SFNext

\* The type invariant holds in every reachable state (pool.rs, `connecting'
\* and the futures that use it).
THEOREM SFTypeCorrect == SFSpec => []SFTypeOK
<1>1. SFInit => SFTypeOK
  BY DEF SFInit, SFTypeOK, Flights
<1> QED
  BY <1>1, SFTypeInductive, PTL DEF SFSpec

-----------------------------------------------------------------------------
\* MarkHasOneOwner without the set it counts: the form the provers step.
Guards(t, k) == flight[t] = "guarded" /\ want[t] = k

OwnerInv ==
  \A k \in Keys :
    /\ mark[k] => \E t \in Tasks : Guards(t, k)
    /\ \A s, t \in Tasks : Guards(s, k) /\ Guards(t, k) => s = t
    /\ \A t \in Tasks : Guards(t, k) => mark[k]

\* The two forms say the same.
LEMMA OwnerInvIsMarkHasOneOwner ==
  ASSUME SFTypeOK PROVE OwnerInv <=> MarkHasOneOwner
<1> USE DEF SFTypeOK
<1>1. ASSUME OwnerInv PROVE MarkHasOneOwner
  BY <1>1 DEF OwnerInv, MarkHasOneOwner, Guards
<1>2. ASSUME MarkHasOneOwner PROVE OwnerInv
  BY <1>2 DEF OwnerInv, MarkHasOneOwner, Guards
<1> QED
  BY <1>1, <1>2

\* begin_connect, wherever it is called from, keeps one owner per mark: it
\* takes a free mark or changes no guard.
LEMMA BeginKeepsOwner ==
  ASSUME NEW t \in Tasks, NEW k \in Keys, NEW o \in {"begun", "bare"},
         SFTypeOK, OwnerInv, flight[t] # "guarded",
         BeginConnect(t, k, o),
         want' = [want EXCEPT ![t] = k]
  PROVE  OwnerInv'
<1> USE DEF SFTypeOK, OwnerInv, Guards
<1>1. CASE mark[k]
  BY <1>1 DEF BeginConnect
<1>2. CASE ~mark[k]
  BY <1>2 DEF BeginConnect
<1> QED
  BY <1>1, <1>2

\* One owner per mark is preserved by every step.
LEMMA OwnerInductive ==
  SFTypeOK /\ OwnerInv /\ [SFNext]_sfVars => OwnerInv'
<1> SUFFICES ASSUME SFTypeOK, OwnerInv, [SFNext]_sfVars PROVE OwnerInv'
  OBVIOUS
<1>1. ASSUME NEW t \in Tasks, SFStep(t) PROVE OwnerInv'
  <2>1. ASSUME NEW k \in Keys, Arrive(t, k) PROVE OwnerInv'
    BY <2>1, BeginKeepsOwner DEF Arrive
  <2>2. CASE PollWait(t)
    BY <2>2 DEF PollWait, Waiting, OwnerInv, Guards, SFTypeOK
  <2>3. CASE Retake(t)
    <3>1. want' = [want EXCEPT ![t] = want[t]] /\ want[t] \in Keys
      BY <2>3 DEF Retake, SFTypeOK
    <3> QED
      BY <2>3, <3>1, BeginKeepsOwner DEF Retake
  <2>4. CASE DropGuard(t)
    BY <2>4 DEF DropGuard, OwnerInv, Guards, SFTypeOK
  <2>5. ASSUME NEW w \in Tasks, WakeOne(t, w) PROVE OwnerInv'
    BY <2>5 DEF WakeOne, OwnerInv, Guards, SFTypeOK
  <2>6. CASE Woke(t)
    BY <2>6 DEF Woke, OwnerInv, Guards, SFTypeOK
  <2>7. CASE Leave(t)
    BY <2>7 DEF Leave, Waiting, OwnerInv, Guards, SFTypeOK
  <2> QED
    BY <1>1, <2>1, <2>2, <2>3, <2>4, <2>5, <2>6, <2>7 DEF SFStep
<1>2. CASE UNCHANGED sfVars
  BY <1>2 DEF sfVars, OwnerInv, Guards
<1> QED
  BY <1>1, <1>2 DEF SFNext

\* A mark is held by exactly one live Connecting guard, for any number of
\* tasks and origins (Pool::begin_connect and Connecting's Drop).
THEOREM OneOwner == SFSpec => []MarkHasOneOwner
<1>1. SFInit => OwnerInv
  BY DEF SFInit, OwnerInv, Guards
<1>2. SFSpec => []OwnerInv
  BY <1>1, SFTypeCorrect, OwnerInductive, PTL DEF SFSpec
<1> QED
  BY <1>2, SFTypeCorrect, OwnerInvIsMarkHasOneOwner, PTL

-----------------------------------------------------------------------------
\* Nothing but the drop of the owner's guard frees a mark, and the drop takes
\* every stored waker with it (finish_connect).
THEOREM ReleasedByOwner == SFSpec => OnlyOwnerReleases
<1> DEFINE Released ==
      \A k \in Keys :
        mark[k] /\ ~mark'[k] =>
          \E t \in Tasks :
            /\ flight[t] = "guarded" /\ want[t] = k
            /\ flight'[t] = "waking"
            /\ waking'[t] = wakers[k]
<1>1. SFTypeOK /\ [SFNext]_sfVars => [Released]_sfVars
  <2> SUFFICES ASSUME SFTypeOK, NEW t \in Tasks, SFStep(t) PROVE Released
    BY DEF SFNext
  <2> USE DEF SFTypeOK
  <2>1. ASSUME NEW k \in Keys, Arrive(t, k) PROVE Released
    BY <2>1 DEF Arrive, BeginConnect
  <2>2. CASE Retake(t)
    BY <2>2 DEF Retake, BeginConnect
  <2>3. CASE DropGuard(t)
    BY <2>3 DEF DropGuard
  <2>4. ASSUME mark' = mark PROVE Released
    BY <2>4
  <2> QED
    BY <2>1, <2>2, <2>3, <2>4
       DEF SFStep, PollWait, WakeOne, Woke, Leave
<1> QED
  BY <1>1, SFTypeCorrect, PTL DEF SFSpec, OnlyOwnerReleases

-----------------------------------------------------------------------------
\* No step leaves a parked task without a waker that is stored or about to be
\* woken.
LEMMA NoLostWakeupInductive ==
  SFTypeOK /\ NoLostWakeup /\ [SFNext]_sfVars => NoLostWakeup'
<1> SUFFICES ASSUME SFTypeOK, NoLostWakeup, [SFNext]_sfVars,
                    NEW p \in Tasks, flight'[p] = "parked"
             PROVE  \/ mark'[want'[p]] /\ p \in wakers'[want'[p]]
                    \/ \E f \in Tasks : flight'[f] = "waking" /\ p \in waking'[f]
  BY DEF NoLostWakeup
<1> DEFINE Safe == \/ mark'[want'[p]] /\ p \in wakers'[want'[p]]
                   \/ \E f \in Tasks :
                        flight'[f] = "waking" /\ p \in waking'[f]
<1> USE DEF SFTypeOK, NoLostWakeup
<1>1. ASSUME NEW t \in Tasks, SFStep(t) PROVE Safe
  <2>1. ASSUME NEW k \in Keys, Arrive(t, k) PROVE Safe
    BY <2>1 DEF Arrive, BeginConnect
  <2>2. CASE PollWait(t)
    BY <2>2 DEF PollWait, Waiting
  <2>3. CASE Retake(t)
    BY <2>3 DEF Retake, BeginConnect
  <2>4. CASE DropGuard(t)
    BY <2>4 DEF DropGuard
  <2>5. ASSUME NEW w \in Tasks, WakeOne(t, w) PROVE Safe
    BY <2>5 DEF WakeOne
  <2>6. CASE Woke(t)
    BY <2>6 DEF Woke
  <2>7. CASE Leave(t)
    BY <2>7 DEF Leave, Waiting
  <2> QED
    BY <1>1, <2>1, <2>2, <2>3, <2>4, <2>5, <2>6, <2>7 DEF SFStep
<1>2. CASE UNCHANGED sfVars
  BY <1>2 DEF sfVars
<1> QED
  BY <1>1, <1>2 DEF SFNext

\* A parked request can always be reached by a wake: the end of the connect
\* it waits for finds its waker (WaitForConnect::poll and finish_connect).
THEOREM WakeupsAreKept == SFSpec => []NoLostWakeup
<1>1. SFInit => NoLostWakeup
  BY DEF SFInit, NoLostWakeup
<1> QED
  BY <1>1, SFTypeCorrect, NoLostWakeupInductive, PTL DEF SFSpec
=============================================================================
