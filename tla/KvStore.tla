------------------------------ MODULE KvStore -------------------------------
(***************************************************************************)
(* The cookie and response stores over a byte store (KvStore of            *)
(* hclient/src/cookie/kv.rs and of hclient/src/cache/kv.rs).  The byte     *)
(* store appends, so a replacement is a remove and a put; the bound is a   *)
(* counter in the wrapper; and every call of the byte store is an await,   *)
(* between which other operations of the same client run.                  *)
(*                                                                         *)
(* A key is a cookie's whole key, or the variant of a response; a group is *)
(* a cookie's domain, or the request whose variants they are.              *)
(***************************************************************************)
EXTENDS Integers, Sequences, FiniteSets, SequencesExt

CONSTANTS
  KvKeys,
  Group,      \* Group[k]: the group of a key
  Values,     \* what is stored
  Writers,    \* concurrent operations on the store
  Capacity,   \* max_cookies, or the capacity in variants
  PerGroup,   \* max_per_domain
  HeldMax     \* bound on the counter: past the capacity its value is one

ASSUME KvConstants ==
  /\ Capacity \in Nat \ {0} /\ PerGroup \in Nat \ {0} /\ HeldMax \in Nat /\ HeldMax > Capacity
  /\ Values # {} /\ DOMAIN Group = KvKeys
  /\ \A k \in KvKeys : Group[k] \notin {"none", "all", "touch"}
  /\ IsFiniteSet(KvKeys) /\ IsFiniteSet(Writers)

VARIABLES
  kind,   \* "cookie" or "cache": which of the two stores this is
  kv,     \* the byte store: the values under every key
  held,   \* the counter, read as huge below zero (the usize wrapped)
  work,   \* the operations under way
  alone   \* history: no operation overlapped another, was dropped half-way,
          \* or removed what was not there

kvVars == <<kind, kv, held, work, alone>>

(***************************************************************************)
(* pc     idle, reading (a scan is under way), running (todo is under way) *)
(* plan   what the scan is for: evict from everything or from one group,   *)
(*        or touch the cookies `keys'                                      *)
(* todo   the steps left: <<"remove", k>>, <<"put", k, v>>,                *)
(*        <<"group", g>> and <<"clear">>                                   *)
(***************************************************************************)
NoWork == [pc |-> "idle", plan |-> "none", keys |-> {}, todo |-> <<>>]

Groups == {Group[k] : k \in KvKeys}

\* What a scan finds: one element per stored value.
Found(keys) == {e \in keys \X (1..Cardinality(Writers) + 1) : e[2] \in DOMAIN kv[e[1]]}
Total == Cardinality(Found(KvKeys))

KvInit ==
  /\ kind \in {"cookie", "cache"}
  /\ kv = [k \in KvKeys |-> <<>>]
  /\ held = 0
  /\ work = [w \in Writers |-> NoWork]
  /\ alone = TRUE

-----------------------------------------------------------------------------
\* Mutant: the bound is compared with the count before the insertion.
FullLate(h) == h < 0 \/ h > Capacity + 1

\* held > capacity, of an unsigned counter.
Full(h) == h < 0 \/ h > Capacity

Plus(h)     == IF h < HeldMax THEN h + 1 ELSE h
Minus(h, n) == IF h - n < 0 - HeldMax THEN 0 - HeldMax ELSE h - n

\* Whether w starts while another operation is under way.
Overlaps(w) == \E v \in Writers \ {w} : work[v].pc # "idle"

Begin(w, x, ok) ==
  /\ work[w].pc = "idle"
  /\ work' = [work EXCEPT ![w] = x]
  /\ alone' = (alone /\ ok /\ ~Overlaps(w))

\* CookieStore::put and CacheStore::put: the counter first; then a scan of
\* everything where the bound is passed, for a cookie of its domain otherwise.
PutStart(w, k, v) ==
  LET write == <<<<"remove", k>>, <<"put", k, v>>>> IN
  /\ held' = Plus(held)
  /\ IF Full(held')
       THEN Begin(w, [NoWork EXCEPT !.pc = "reading", !.plan = "all", !.todo = write], TRUE)
       ELSE IF kind = "cookie"
         THEN Begin(w, [NoWork EXCEPT !.pc = "reading", !.plan = Group[k], !.todo = write], TRUE)
         ELSE Begin(w, [NoWork EXCEPT !.pc = "running", !.todo = write], TRUE)
  /\ UNCHANGED <<kind, kv>>

\* CookieStore::remove and CacheStore::remove: the counter, whether or not
\* the key is there.
RemoveStart(w, k) ==
  /\ held' = Minus(held, 1)
  /\ Begin(w, [NoWork EXCEPT !.pc = "running", !.todo = <<<<"remove", k>>>>], kv[k] # <<>>)
  /\ UNCHANGED <<kind, kv>>

\* CookieStore::touch of the cookies attached to a request.
TouchStart(w, ks) ==
  /\ kind = "cookie" /\ ks # {}
  /\ Begin(w, [NoWork EXCEPT !.pc = "reading", !.plan = "touch", !.keys = ks], TRUE)
  /\ UNCHANGED <<kind, kv, held>>

\* CacheStore::invalidate: every variant goes, and the counter stays.
InvalidateStart(w, g) ==
  /\ kind = "cache"
  /\ Begin(w, [NoWork EXCEPT !.pc = "running", !.todo = <<<<"group", g>>>>], TRUE)
  /\ UNCHANGED <<kind, kv, held>>

ClearStart(w) ==
  /\ held' = 0
  /\ Begin(w, [NoWork EXCEPT !.pc = "running", !.todo = <<<<"clear">>>>], TRUE)
  /\ UNCHANGED <<kind, kv>>

Removes(keys) == SetToSeq({<<"remove", k>> : k \in keys})

Runs(todo) == IF todo = <<>> THEN NoWork ELSE [NoWork EXCEPT !.pc = "running", !.todo = todo]

\* The scan of an eviction answers: the oldest entries past the bound, less
\* one for the entry to come, are to be removed first.  Which are the oldest
\* is not told apart.
Evict(w) ==
  LET all    == work[w].plan = "all"
      found  == Found(IF all THEN KvKeys ELSE {k \in KvKeys : Group[k] = work[w].plan})
      bound  == IF all THEN Capacity ELSE PerGroup
      over   == Cardinality(found) - (bound - 1)
  IN
  /\ work[w].pc = "reading" /\ work[w].plan # "touch"
  /\ \E victims \in kSubset(IF over < 0 THEN 0 ELSE over, found) :
       /\ work' = [work EXCEPT ![w] = Runs(Removes({e[1] : e \in victims}) \o @.todo)]
       /\ held' = IF all THEN Minus(held, Cardinality(victims)) ELSE held
  /\ UNCHANGED <<kind, kv, alone>>

\* The scan of a touch answers: every value it found is written again, in
\* place of whatever its key holds by then.
Touch(w) ==
  LET found == SetToSeq(Found(work[w].keys))
      again(i) == LET e == found[(i + 1) \div 2]
                  IN  IF i % 2 = 1 THEN <<"remove", e[1]>> ELSE <<"put", e[1], kv[e[1]][e[2]]>>
  IN
  /\ work[w].pc = "reading" /\ work[w].plan = "touch"
  /\ work' = [work EXCEPT ![w] = Runs([i \in 1..2 * Len(found) |-> again(i)])]
  /\ UNCHANGED <<kind, kv, held, alone>>

\* The byte store after one step.
After(step) ==
  CASE step[1] = "remove" -> [kv EXCEPT ![step[2]] = <<>>]
    [] step[1] = "put"    -> [kv EXCEPT ![step[2]] = Append(@, step[3])]
    [] step[1] = "group"  -> [k \in KvKeys |-> IF Group[k] = step[2] THEN <<>> ELSE kv[k]]
    [] step[1] = "clear"  -> [k \in KvKeys |-> <<>>]

Step(w) ==
  /\ work[w].pc = "running"
  /\ kv' = After(Head(work[w].todo))
  /\ work' = [work EXCEPT ![w] = Runs(Tail(@.todo))]
  /\ UNCHANGED <<kind, held, alone>>

\* The operation's future is dropped at an await.
Drop(w) ==
  /\ work[w].pc # "idle"
  /\ work' = [work EXCEPT ![w] = NoWork]
  /\ alone' = FALSE
  /\ UNCHANGED <<kind, kv, held>>

KvNext ==
  \E w \in Writers :
    \/ \E k \in KvKeys : \/ \E v \in Values : PutStart(w, k, v)
                         \/ RemoveStart(w, k)
    \/ \E ks \in SUBSET KvKeys : TouchStart(w, ks)
    \/ \E g \in Groups : InvalidateStart(w, g)
    \/ ClearStart(w)
    \/ Evict(w) \/ Touch(w) \/ Step(w) \/ Drop(w)

KvSpec == KvInit /\ [][KvNext]_kvVars

-----------------------------------------------------------------------------
(***************************************************************************)
(* Types.  However many writers race, a key holds no more values than      *)
(* there are writers: every write of a key removes it first.               *)
(***************************************************************************)
KvTypeOK ==
  /\ held \in (0 - HeldMax)..HeldMax
  /\ kv \in [KvKeys -> Seq(Values)]
  /\ \A k \in KvKeys : Len(kv[k]) <= Cardinality(Writers)
  /\ \A w \in Writers : work[w].pc = "running" => work[w].todo # <<>>

\* One operation at a time, the store keeps its capacity and its keys: no more
\* entries than the capacity (cookies or variants), one value under a key, and
\* a counter that may be too high but never too low ("the under-claiming
\* direction").
BoundHoldsAlone ==
  alone => /\ Total <= Capacity
           /\ \A k \in KvKeys : Len(kv[k]) <= 1
           /\ (\A w \in Writers : work[w].pc = "idle") => held >= Total

\* "`max_per_domain` is exact" (cookie/kv.rs): one operation at a time, a
\* domain has no more cookies than its bound.
PerDomainIsExact ==
  (alone /\ kind = "cookie") =>
    \A g \in Groups : Cardinality(Found({k \in KvKeys : Group[k] = g})) <= PerGroup
=============================================================================
