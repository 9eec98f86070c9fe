-------------------------------- MODULE Hsts --------------------------------
(***************************************************************************)
(* The known HSTS hosts of a client (hclient/src/hsts/mod.rs, Hsts) over   *)
(* the byte store (hsts/kv.rs, KvStore): upgrade reads the policies of a   *)
(* host and of its parents and evicts those it found expired; note writes  *)
(* what a response asserted.  Every call of the store is an await.         *)
(***************************************************************************)
EXTENDS Naturals, FiniteSets

CONSTANTS
  Domains,
  Parents,       \* Parents[d]: the domains above d
  HstsTasks,     \* concurrent calls of upgrade and note
  MaxAge,        \* the largest max-age asserted, MAX_AGE_CAP
  HstsMaxTime    \* bound on the wall clock

ASSUME HstsConstants == MaxAge \in Nat /\ HstsMaxTime \in Nat /\ Parents \in [Domains -> SUBSET Domains]

VARIABLES
  wall,      \* SystemTime::now
  policies,  \* the entries stored under every domain
  task,      \* the calls under way
  raced      \* history: domains that two notes wrote at once

hstsVars == <<wall, policies, task, raced>>

Policies == [expires : 0..(HstsMaxTime + MaxAge), subdomains : BOOLEAN]

(***************************************************************************)
(* pc       idle, evicting (upgrade has read, `expired' is what is left to *)
(*          remove), removing and writing (the two halves of a put),       *)
(*          forgetting (max-age=0), clearing                               *)
(* host     what the call is about                                         *)
(* found    history: what upgrade read under the domains it will remove    *)
(* policy   what a put writes                                              *)
(***************************************************************************)
NoTask == [pc |-> "idle", host |-> "none", expired |-> {},
           found |-> [d \in Domains |-> {}],
           policy |-> [expires |-> 0, subdomains |-> FALSE]]

HstsInit ==
  /\ wall = 0
  /\ policies = [d \in Domains |-> {}]
  /\ task = [t \in HstsTasks |-> NoTask]
  /\ raced = {}

\* candidate_domains.
Candidates(h) == {h} \cup Parents[h]

ExpiredAt(p, now) == p.expires <= now

\* What is_known answers for h where `found' is stored: some policy in force is
\* the host's own, or a parent's that includes its subdomains.
Known(h, found) ==
  \E d \in Candidates(h) : \E p \in found[d] : ~ExpiredAt(p, wall) /\ (d = h \/ p.subdomains)

\* is_known up to its first await: the clock was read, the policies are read,
\* and the domains of the expired ones are to be removed.
UpgradeReads(t, h) ==
  LET gone  == {d \in Candidates(h) : \E p \in policies[d] : ExpiredAt(p, wall)}
      found == [d \in Domains |-> IF d \in gone THEN policies[d] ELSE {}]
  IN
  /\ task[t].pc = "idle"
  /\ task' = [task EXCEPT ![t] =
       IF gone = {} THEN NoTask
       ELSE [NoTask EXCEPT !.pc = "evicting", !.host = h,
                           !.expired = gone, !.found = found]]
  /\ UNCHANGED <<wall, policies, raced>>

\* One remove of is_known's loop: everything the domain has.
EvictsOne(t, d) ==
  LET left == task[t].expired \ {d} IN
  /\ task[t].pc = "evicting" /\ d \in task[t].expired
  /\ policies' = [policies EXCEPT ![d] = {}]
  /\ task' = [task EXCEPT ![t] = IF left = {} THEN NoTask ELSE [@ EXCEPT !.expired = left]]
  /\ UNCHANGED <<wall, raced>>

\* Whether t is changing what is stored under d.
Writes(t, d) ==
  \/ task[t].pc \in {"removing", "writing", "forgetting"} /\ task[t].host = d
  \/ task[t].pc = "clearing"

\* note: max-age=0 forgets, anything else is a put of the capped policy.
NoteStarts(t, h, age, sub) ==
  /\ task[t].pc = "idle"
  /\ task' = [task EXCEPT ![t] =
       [NoTask EXCEPT !.pc = IF age = 0 THEN "forgetting" ELSE "removing", !.host = h,
          !.policy = [expires |-> wall + age, subdomains |-> sub]]]
  /\ raced' = IF \E u \in HstsTasks \ {t} : Writes(u, h) THEN raced \cup {h} ELSE raced
  /\ UNCHANGED <<wall, policies>>

\* Mutant: what the host withdraws is withdrawn of its parents too.
NoteForgetsAll(t) ==
  /\ task[t].pc = "forgetting"
  /\ policies' = [d \in Domains |-> IF d \in Candidates(task[t].host) THEN {} ELSE policies[d]]
  /\ task' = [task EXCEPT ![t] = NoTask]
  /\ UNCHANGED <<wall, raced>>

NoteForgets(t) ==
  /\ task[t].pc = "forgetting"
  /\ policies' = [policies EXCEPT ![task[t].host] = {}]
  /\ task' = [task EXCEPT ![t] = NoTask]
  /\ UNCHANGED <<wall, raced>>

\* Put::Removing.
NoteRemoves(t) ==
  /\ task[t].pc = "removing"
  /\ policies' = [policies EXCEPT ![task[t].host] = {}]
  /\ task' = [task EXCEPT ![t].pc = "writing"]
  /\ UNCHANGED <<wall, raced>>

\* Put::Writing: the byte store appends.
NoteWrites(t) ==
  /\ task[t].pc = "writing"
  /\ policies' = [policies EXCEPT ![task[t].host] = @ \cup {task[t].policy}]
  /\ task' = [task EXCEPT ![t] = NoTask]
  /\ UNCHANGED <<wall, raced>>

\* HstsStore::clear.
ClearStarts(t) ==
  /\ task[t].pc = "idle"
  /\ task' = [task EXCEPT ![t].pc = "clearing"]
  /\ UNCHANGED <<wall, policies, raced>>

Clears(t) ==
  /\ task[t].pc = "clearing"
  /\ policies' = [d \in Domains |-> {}]
  /\ task' = [task EXCEPT ![t] = NoTask]
  /\ UNCHANGED <<wall, raced>>

\* The operation is dropped at an await.
HstsDrop(t) ==
  /\ task[t].pc # "idle"
  /\ task' = [task EXCEPT ![t] = NoTask]
  /\ UNCHANGED <<wall, policies, raced>>

HstsTick == wall < HstsMaxTime /\ wall' = wall + 1 /\ UNCHANGED <<policies, task, raced>>

HstsNext ==
  \/ \E t \in HstsTasks :
       \/ \E h \in Domains : \/ UpgradeReads(t, h)
                             \/ EvictsOne(t, h)
                             \/ \E age \in 0..MaxAge, sub \in BOOLEAN : NoteStarts(t, h, age, sub)
       \/ NoteForgets(t) \/ NoteRemoves(t) \/ NoteWrites(t) \/ ClearStarts(t) \/ Clears(t) \/ HstsDrop(t)
  \/ HstsTick

HstsSpec == HstsInit /\ [][HstsNext]_hstsVars

-----------------------------------------------------------------------------
\* Types; and one policy under a name, as the seam obliges a store ("two
\* entries under one name is a state RFC 6797 has no reading for"), unless
\* two responses of one host were noted at once.
HstsTypeOK ==
  /\ wall \in 0..HstsMaxTime
  /\ policies \in [Domains -> SUBSET Policies]
  /\ \A d \in Domains \ raced : Cardinality(policies[d]) <= 1

\* A host known to be HTTPS-only stays known until its policy expires, unless
\* the host itself, or the parent whose policy covers it, is writing its own
\* policy, or the store is cleared; or through a race: an upgrade that saw an expired policy removes the
\* domain whatever has been noted since, and two policies under one name go
\* together.  A host that withdraws its policy leaves its parents' alone.
KnownUntilExpired ==
  [][\A h \in Domains :
       (wall' = wall /\ Known(h, policies) /\ ~Known(h, policies')) =>
         \E d \in Candidates(h) :
           \/ \E t \in HstsTasks : Writes(t, d) /\ task'[t] # task[t]
           \/ d \in raced
           \/ \E t \in HstsTasks : /\ task[t].pc = "evicting" /\ d \in task[t].expired
                                   /\ task[t].found[d] # policies[d]]_hstsVars
=============================================================================
