----------------------------- MODULE PoolBucket -----------------------------
(***************************************************************************)
(* One bucket of the connection pool: the Vec<Idle> under one PoolKey, and *)
(* what put, take, forget_shared and reap of hclient-native/src/pool.rs do *)
(* to it.  Each of them is one scope of the pool's lock.                   *)
(*                                                                         *)
(* Times are milliseconds of the owning transport's Timer.                 *)
(***************************************************************************)
EXTENDS Naturals, Sequences, FiniteSets

CONSTANTS
  IdleTimeout,  \* PoolConfig::idle_timeout
  MaxIdle       \* PoolConfig::max_idle_per_key

ASSUME PoolConfigIsNat == IdleTimeout \in Nat /\ MaxIdle \in Nat

(***************************************************************************)
(* An Idle entry: the connection, whether the entry is a borrowable        *)
(* H2Shared handle, and its deadline.  `since' is history: when the entry  *)
(* was last put or borrowed.                                               *)
(***************************************************************************)
Idle(c, shared, at, since) ==
  [conn |-> c, shared |-> shared, at |-> at, since |-> since]

\* Pool::put: push, then drop the oldest entry past the bound.
PutIn(b, e) ==
  LET pushed == Append(b, e)
  IN  IF MaxIdle = 0 THEN b
      ELSE IF Len(pushed) > MaxIdle THEN Tail(pushed) ELSE pushed

\* The positions take may hand out.
Live(b, now) == {i \in DOMAIN b : b[i].at > now}

\* Mutant of take: every entry is lent like a shared one.
TakeFromLendsAll(b, now, clock) ==
  IF Live(b, now) = {}
    THEN [got |-> {}, rest |-> <<>>]
    ELSE LET top == CHOOSE i \in Live(b, now) : \A j \in Live(b, now) : j <= i
         IN  [got |-> {b[top]}, rest |-> SubSeq(b, 1, top)]

(***************************************************************************)
(* Pool::take at clock reading `now': expired entries at the end are       *)
(* dropped on the way to the last live one.  An exclusive entry is popped; *)
(* a shared one stays and its deadline is renewed from `now'.  `got' is    *)
(* the set of entries handed out, {} for a miss.                           *)
(***************************************************************************)
TakeFrom(b, now, clock) ==
  IF Live(b, now) = {}
    THEN [got |-> {}, rest |-> <<>>]
    ELSE LET top == CHOOSE i \in Live(b, now) : \A j \in Live(b, now) : j <= i
             e == b[top]
         IN  [got |-> {e},
              rest |-> IF e.shared
                         THEN Append(SubSeq(b, 1, top - 1),
                                Idle(e.conn, TRUE, now + IdleTimeout, clock))
                         ELSE SubSeq(b, 1, top - 1)]

\* Vec::retain: the entries of b at the positions `keep', in their order.
Retain(b, keep) ==
  LET upTo[i \in 0..Len(b)] ==
        IF i = 0 THEN <<>>
        ELSE IF i \in keep THEN Append(upTo[i - 1], b[i]) ELSE upTo[i - 1]
  IN  upTo[Len(b)]

\* Pool::forget_shared: every handle of one shared connection leaves.
ForgetIn(b, c) == Retain(b, {i \in DOMAIN b : ~(b[i].shared /\ b[i].conn = c)})

\* Mutants of reap: an entry goes one tick early; shared handles never go.
ReapInEarly(b, now) == Retain(b, Live(b, now + 1))
ReapInSparesShared(b, now) == Retain(b, {i \in DOMAIN b : b[i].shared} \cup Live(b, now))

\* Pool::reap on one bucket.
ReapIn(b, now) == Retain(b, Live(b, now))

Entries(b) == {b[i] : i \in DOMAIN b}
=============================================================================
