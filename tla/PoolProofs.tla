----------------------------- MODULE PoolProofs -----------------------------
(***************************************************************************)
(* What take, put, forget_shared and reap do to a bucket of any length,    *)
(* and, from it, that the pool keeps every connection in one place and     *)
(* every deadline in order, for any number of callers, keys and            *)
(* connections and any bounds.  Induction over positions is over a set of  *)
(* naturals, by its least element.                                         *)
(***************************************************************************)
EXTENDS Reaper, NaturalsInduction, WellFoundedInduction, FiniteSetTheorems, TLAPS

\* A set of naturals has a least element.
LEMMA LeastNatural ==
  ASSUME NEW T, T \subseteq Nat, T # {}
  PROVE  \E x \in T : \A y \in T : x <= y
<1>1. PICK x \in T : \A y \in T : ~(<<y, x>> \in OpToRel(<, Nat))
  BY NatLessThanWellFounded, WFMin, Zenon
<1>2. \A y \in T : ~(y < x)
  BY <1>1 DEF OpToRel
<1> QED
  BY <1>2

\* Induction, for the property of being in a set.
LEMMA InSet ==
  ASSUME NEW T, 0 \in T, \A n \in Nat : n \in T => n + 1 \in T
  PROVE  \A n \in Nat : n \in T
<1> SUFFICES ASSUME NEW m \in Nat, m \notin T PROVE FALSE
  OBVIOUS
<1> DEFINE Out == {n \in Nat : n \notin T}
<1>1. PICK x \in Out : \A y \in Out : x <= y
  BY LeastNatural
<1>2. x # 0 /\ x - 1 \in Nat /\ x - 1 \notin Out
  BY <1>1
<1> QED
  BY <1>1, <1>2

\* A non-empty set of positions has a last one.
LEMMA LastPosition ==
  ASSUME NEW n \in Nat, NEW T, T \subseteq 1..n, T # {}
  PROVE  \E x \in T : \A y \in T : y <= x
<1> DEFINE Bounds == {k \in Nat : \A y \in T : y <= k}
<1>1. n \in Bounds
  OBVIOUS
<1>2. PICK m \in Bounds : \A k \in Bounds : m <= k
  BY <1>1, LeastNatural
<1>3. m \in T
  <2> SUFFICES ASSUME m \notin T PROVE FALSE
    OBVIOUS
  <2>1. m # 0
    <3>1. PICK y \in T : y \in 1..n
      OBVIOUS
    <3> QED
      BY <1>2, <3>1
  <2>2. m - 1 \in Bounds
    BY <1>2, <2>1
  <2> QED
    BY <1>2, <2>2
<1> QED
  BY <1>2, <1>3

-----------------------------------------------------------------------------
(* Vec::retain.                                                            *)

\* f is the sequence of what retain has kept after each position of b.
Kept(f, b, keep) ==
  f = [i \in 0..Len(b) |-> IF i = 0 THEN <<>>
                           ELSE IF i \in keep THEN Append(f[i - 1], b[i]) ELSE f[i - 1]]

\* f is such a sequence up to position n.
KeptUpTo(n, f, S, b, keep) ==
  /\ f \in [0..n -> Seq(S)] /\ f[0] = <<>>
  /\ \A i \in 1..n : f[i] = IF i \in keep THEN Append(f[i - 1], b[i]) ELSE f[i - 1]

\* The recursion has a solution, step by step.
LEMMA KeptSoFar ==
  ASSUME NEW S, NEW b \in Seq(S), NEW keep
  PROVE  \A n \in Nat : n <= Len(b) => \E f : KeptUpTo(n, f, S, b, keep)
<1> DEFINE T == {n \in Nat : n <= Len(b) => \E f : KeptUpTo(n, f, S, b, keep)}
<1>1. 0 \in T
  <2>1. KeptUpTo(0, [i \in 0..0 |-> <<>>], S, b, keep)
    BY DEF KeptUpTo
  <2> QED
    BY <2>1
<1>2. ASSUME NEW n \in Nat, n \in T, n + 1 <= Len(b)
      PROVE  \E f : KeptUpTo(n + 1, f, S, b, keep)
  <2>0. Len(b) \in Nat /\ n <= Len(b)
    BY <1>2
  <2>1. PICK f : KeptUpTo(n, f, S, b, keep)
    <3>1. \E f : KeptUpTo(n, f, S, b, keep)
      BY <1>2, <2>0
    <3> QED
      BY <3>1, Zenon
  <2> DEFINE x == IF n + 1 \in keep THEN Append(f[n], b[n + 1]) ELSE f[n]
  <2> DEFINE g == [i \in 0..(n + 1) |-> IF i = n + 1 THEN x ELSE f[i]]
  <2>2. f[n] \in Seq(S) /\ b[n + 1] \in S
    BY <1>2, <2>1 DEF KeptUpTo
  <2>3. x \in Seq(S)
    BY <2>2
  <2> HIDE DEF x
  <2>4. g \in [0..(n + 1) -> Seq(S)] /\ g[0] = <<>> /\ g[n + 1] = x /\ \A i \in 0..n : g[i] = f[i]
    BY <2>1, <2>3 DEF KeptUpTo
  <2> HIDE DEF g
  <2>5. ASSUME NEW i \in 1..(n + 1)
        PROVE  g[i] = IF i \in keep THEN Append(g[i - 1], b[i]) ELSE g[i - 1]
    <3>1. CASE i = n + 1
      BY <2>4, <3>1 DEF x
    <3>2. CASE i # n + 1
      <4>1. i \in 1..n /\ i - 1 \in 0..n /\ i \in 0..n
        BY <3>2
      <4> QED
        BY <2>1, <2>4, <4>1 DEF KeptUpTo
    <3> QED
      BY <3>1, <3>2
  <2>6. KeptUpTo(n + 1, g, S, b, keep)
    BY <2>4, <2>5 DEF KeptUpTo
  <2> QED
    BY <2>6
<1>3. ASSUME NEW n \in Nat, n \in T PROVE n + 1 \in T
  BY <1>2, <1>3
<1> HIDE DEF T
<1>4. \A n \in Nat : n \in T
  BY <1>1, <1>3, InSet
<1> QED
  BY <1>4 DEF T

\* Retain is the last of a sequence of sequences, each the one before it with
\* the next entry or without it.
LEMMA RetainSteps ==
  ASSUME NEW S, NEW b \in Seq(S), NEW keep
  PROVE  \E f : KeptUpTo(Len(b), f, S, b, keep) /\ Retain(b, keep) = f[Len(b)]
<1> DEFINE u == CHOOSE f : Kept(f, b, keep)
<1>0. Len(b) \in Nat /\ Len(b) <= Len(b)
  OBVIOUS
<1>1. PICK f : KeptUpTo(Len(b), f, S, b, keep)
  BY <1>0, KeptSoFar, Zenon
<1>2. Kept(f, b, keep)
  <2> DEFINE F(i) == IF i = 0 THEN <<>>
                     ELSE IF i \in keep THEN Append(f[i - 1], b[i]) ELSE f[i - 1]
  <2>1. ASSUME NEW i \in 0..Len(b) PROVE f[i] = F(i)
    <3>1. CASE i = 0
      BY <1>1, <3>1 DEF KeptUpTo
    <3>2. CASE i # 0
      <4>1. i \in 1..Len(b)
        BY <1>0, <3>2
      <4> QED
        BY <1>1, <3>2, <4>1 DEF KeptUpTo
    <3> QED
      BY <3>1, <3>2
  <2>2. f = [i \in 0..Len(b) |-> f[i]]
    BY <1>1 DEF KeptUpTo
  <2> HIDE DEF F
  <2>3. f = [i \in 0..Len(b) |-> F(i)]
    BY <2>1, <2>2
  <2> QED
    BY <2>3 DEF Kept, F
<1>3. Kept(u, b, keep)
  BY <1>2, Zenon
<1>4. Retain(b, keep) = u[Len(b)]
  BY DEF Retain, Kept
<1> HIDE DEF u
<1>5. ASSUME NEW i \in 0..Len(b)
      PROVE  u[i] = IF i = 0 THEN <<>>
                    ELSE IF i \in keep THEN Append(u[i - 1], b[i]) ELSE u[i - 1]
  BY <1>3 DEF Kept
<1>6. \A n \in Nat : n <= Len(b) => u[n] = f[n]
  <2> DEFINE T == {n \in Nat : n <= Len(b) => u[n] = f[n]}
  <2>1. 0 \in T
    <3>1. 0 \in 0..Len(b)
      BY <1>0
    <3> QED
      BY <1>1, <1>5, <3>1 DEF KeptUpTo
  <2>2. ASSUME NEW n \in Nat, n \in T PROVE n + 1 \in T
    <3> SUFFICES ASSUME n + 1 <= Len(b) PROVE u[n + 1] = f[n + 1]
      OBVIOUS
    <3>1. /\ n + 1 \in 1..Len(b) /\ n + 1 \in 0..Len(b) /\ n + 1 # 0
          /\ (n + 1) - 1 = n /\ u[n] = f[n]
      BY <1>0, <2>2
    <3>2. u[n + 1] = IF n + 1 \in keep THEN Append(u[n], b[n + 1]) ELSE u[n]
      BY <1>5, <3>1
    <3>3. f[n + 1] = IF n + 1 \in keep THEN Append(f[n], b[n + 1]) ELSE f[n]
      BY <1>1, <3>1 DEF KeptUpTo
    <3> QED
      BY <3>1, <3>2, <3>3
  <2> HIDE DEF T
  <2>3. \A n \in Nat : n \in T
    BY <2>1, <2>2, InSet
  <2> QED
    BY <2>3 DEF T
<1>7. Retain(b, keep) = f[Len(b)]
  BY <1>0, <1>4, <1>6
<1> QED
  BY <1>1, <1>7

\* What holds of the prefix retain has kept of the positions up to n.
KeptWell(n, p, b, keep) ==
  /\ Len(p) <= n
  /\ \A k \in DOMAIN p : \E j \in keep : j <= n /\ p[k] = b[j]
  /\ \A j \in keep : j <= n => \E k \in DOMAIN p : p[k] = b[j]
  /\ \A k, l \in DOMAIN p :
       k # l => \E i, j \in keep : i <= n /\ j <= n /\ i # j /\ p[k] = b[i] /\ p[l] = b[j]

\* One position more, kept.
LEMMA KeepsOneMore ==
  ASSUME NEW S, NEW b \in Seq(S), NEW keep, keep \subseteq DOMAIN b, NEW n \in Nat,
         n + 1 \in keep, NEW p \in Seq(S), KeptWell(n, p, b, keep)
  PROVE  KeptWell(n + 1, Append(p, b[n + 1]), b, keep)
<1> DEFINE m == Len(p) + 1
<1> DEFINE q == Append(p, b[n + 1])
<1>1. b[n + 1] \in S /\ \A j \in keep : j \in Nat
  OBVIOUS
<1>2. /\ m \in Nat /\ DOMAIN q = 1..m /\ DOMAIN p = 1..(m - 1)
      /\ q[m] = b[n + 1] /\ Len(q) = m /\ m <= n + 1 /\ m \in 1..m
      /\ \A k \in 1..(m - 1) : q[k] = p[k] /\ k \in 1..m
  BY <1>1 DEF KeptWell
<1> HIDE DEF m, q
<1>3. \A k \in 1..m : k = m \/ k \in 1..(m - 1)
  BY <1>2
<1>4. \A j \in keep : j <= n + 1 => j = n + 1 \/ j <= n
  BY <1>1
<1>5. \A j \in keep : j <= n => j <= n + 1 /\ j # n + 1
  BY <1>1
<1>6. n + 1 <= n + 1
  OBVIOUS
<1>7. ASSUME NEW k \in 1..m
      PROVE  \E j \in keep : j <= n + 1 /\ q[k] = b[j]
  <2>1. CASE k = m
    BY <1>2, <1>6, <2>1
  <2>2. CASE k \in 1..(m - 1)
    <3>1. PICK j \in keep : j <= n /\ p[k] = b[j]
      BY <1>2, <2>2 DEF KeptWell
    <3> QED
      BY <1>2, <1>5, <2>2, <3>1
  <2> QED
    BY <1>3, <2>1, <2>2
<1>8. ASSUME NEW j \in keep, j <= n + 1
      PROVE  \E k \in 1..m : q[k] = b[j]
  <2>1. CASE j = n + 1
    BY <1>2, <2>1
  <2>2. CASE j <= n
    <3>1. PICK k \in 1..(m - 1) : p[k] = b[j]
      BY <1>2, <2>2 DEF KeptWell
    <3> QED
      BY <1>2, <3>1
  <2> QED
    BY <1>4, <1>8, <2>1, <2>2
<1>9. ASSUME NEW k \in 1..m, NEW l \in 1..m, k # l
      PROVE  \E i, j \in keep : i <= n + 1 /\ j <= n + 1 /\ i # j /\ q[k] = b[i] /\ q[l] = b[j]
  <2>1. CASE k = m /\ l \in 1..(m - 1)
    <3>1. PICK j \in keep : j <= n /\ p[l] = b[j]
      BY <1>2, <2>1 DEF KeptWell
    <3> QED
      BY <1>2, <1>5, <1>6, <2>1, <3>1
  <2>2. CASE l = m /\ k \in 1..(m - 1)
    <3>1. PICK j \in keep : j <= n /\ p[k] = b[j]
      BY <1>2, <2>2 DEF KeptWell
    <3> QED
      BY <1>2, <1>5, <1>6, <2>2, <3>1
  <2>3. CASE k \in 1..(m - 1) /\ l \in 1..(m - 1)
    <3>0. k \in DOMAIN p /\ l \in DOMAIN p
      BY <1>2, <2>3
    <3>1. PICK i \in keep, j \in keep : i <= n /\ j <= n /\ i # j /\ p[k] = b[i] /\ p[l] = b[j]
      BY <1>9, <3>0, Zenon DEF KeptWell
    <3> QED
      BY <1>2, <1>5, <2>3, <3>1
  <2> QED
    BY <1>3, <1>9, <2>1, <2>2, <2>3
<1>10. KeptWell(n + 1, q, b, keep)
  <2>1. Len(q) <= n + 1 /\ DOMAIN q = 1..m
    BY <1>2
  <2>2. \A k \in DOMAIN q : \E j \in keep : j <= n + 1 /\ q[k] = b[j]
    BY <1>7, <2>1
  <2>3. \A j \in keep : j <= n + 1 => \E k \in DOMAIN q : q[k] = b[j]
    BY <1>8, <2>1
  <2>4. \A k, l \in DOMAIN q :
          k # l => \E i, j \in keep :
                     i <= n + 1 /\ j <= n + 1 /\ i # j /\ q[k] = b[i] /\ q[l] = b[j]
    BY <1>9, <2>1
  <2> QED
    BY <2>1, <2>2, <2>3, <2>4 DEF KeptWell
<1> QED
  BY <1>10 DEF q

\* What Retain returns: entries of b from the positions kept, all of them,
\* different positions for different positions.
LEMMA RetainIs ==
  ASSUME NEW S, NEW b \in Seq(S), NEW keep, keep \subseteq DOMAIN b
  PROVE  /\ Retain(b, keep) \in Seq(S)
         /\ KeptWell(Len(b), Retain(b, keep), b, keep)
<1>0. Len(b) \in Nat /\ Len(b) <= Len(b)
  OBVIOUS
<1>1. PICK f : KeptUpTo(Len(b), f, S, b, keep) /\ Retain(b, keep) = f[Len(b)]
  BY RetainSteps, Zenon
<1> DEFINE T == {n \in Nat : n <= Len(b) => KeptWell(n, f[n], b, keep)}
<1>2. 0 \in T
  <2>1. f[0] = <<>> /\ DOMAIN b = 1..Len(b)
    BY <1>1 DEF KeptUpTo
  <2> QED
    BY <2>1 DEF KeptWell
<1>3. ASSUME NEW n \in Nat, n \in T, n + 1 <= Len(b)
      PROVE  KeptWell(n + 1, f[n + 1], b, keep)
  <2>1. /\ n \in 0..Len(b) /\ n + 1 \in 1..Len(b) /\ (n + 1) - 1 = n
        /\ KeptWell(n, f[n], b, keep)
    BY <1>0, <1>3
  <2>2. f[n] \in Seq(S)
    BY <1>1, <2>1 DEF KeptUpTo
  <2>3. f[n + 1] = IF n + 1 \in keep THEN Append(f[n], b[n + 1]) ELSE f[n]
    BY <1>1, <2>1 DEF KeptUpTo
  <2>4. CASE n + 1 \in keep
    BY <2>1, <2>2, <2>3, <2>4, KeepsOneMore
  <2>5. CASE n + 1 \notin keep
    <3>1. \A j \in keep : j <= n + 1 <=> j <= n
      BY <2>5
    <3>2. f[n + 1] = f[n]
      BY <2>3, <2>5
    <3>3. Len(f[n]) <= n + 1
      BY <2>1, <2>2 DEF KeptWell
    <3> QED
      BY <2>1, <3>1, <3>2, <3>3 DEF KeptWell
  <2> QED
    BY <2>4, <2>5
<1>4. ASSUME NEW n \in Nat, n \in T PROVE n + 1 \in T
  BY <1>3, <1>4
<1> HIDE DEF T
<1>5. \A n \in Nat : n \in T
  BY <1>2, <1>4, InSet
<1>6. KeptWell(Len(b), f[Len(b)], b, keep)
  BY <1>0, <1>5 DEF T
<1>7. f[Len(b)] \in Seq(S)
  BY <1>0, <1>1 DEF KeptUpTo
<1> QED
  BY <1>1, <1>6, <1>7

-----------------------------------------------------------------------------
(* Pool::take and Pool::put, position by position.                         *)

\* take finds the last live entry, at top; what is after it goes, what is before
\* it stays, and it stays itself, renewed, when it is a shared handle.
TookAt(top, t, S, b, now, clk) ==
  /\ top \in Live(b, now) /\ \A j \in Live(b, now) : j <= top
  /\ t.got = {b[top]}
  /\ t.rest \in Seq(S \cup {Idle(b[top].conn, TRUE, now + IdleTimeout, clk)})
  /\ \A i \in 1..(top - 1) : t.rest[i] = b[i]
  /\ b[top].shared =>
       /\ DOMAIN t.rest = 1..top /\ Len(t.rest) = top
       /\ t.rest[top] = Idle(b[top].conn, TRUE, now + IdleTimeout, clk)
  /\ ~b[top].shared => DOMAIN t.rest = 1..(top - 1) /\ Len(t.rest) = top - 1

LEMMA TakeIs ==
  ASSUME NEW S, NEW b \in Seq(S), NEW now, NEW clk, Live(b, now) # {}
  PROVE  \E top : TookAt(top, TakeFrom(b, now, clk), S, b, now, clk)
<1> DEFINE top == CHOOSE i \in Live(b, now) : \A j \in Live(b, now) : j <= i
<1>1. Live(b, now) \subseteq 1..Len(b) /\ Len(b) \in Nat
  BY DEF Live
<1>2. top \in Live(b, now) /\ \A j \in Live(b, now) : j <= top
  BY <1>1, LastPosition
<1>3. top \in 1..Len(b)
  BY <1>1, <1>2
<1> DEFINE new == Idle(b[top].conn, TRUE, now + IdleTimeout, clk)
<1>4. /\ TakeFrom(b, now, clk).got = {b[top]}
      /\ TakeFrom(b, now, clk).rest = IF b[top].shared
                                        THEN Append(SubSeq(b, 1, top - 1), new)
                                        ELSE SubSeq(b, 1, top - 1)
  BY DEF TakeFrom
<1> HIDE DEF top, new
<1> DEFINE q == SubSeq(b, 1, top - 1)
<1>5. /\ q \in Seq(S) /\ Len(q) = top - 1 /\ DOMAIN q = 1..(top - 1)
      /\ \A i \in 1..(top - 1) : q[i] = b[i]
  BY <1>3
<1> HIDE DEF q
<1>6. q \in Seq(S \cup {new}) /\ Append(q, new) \in Seq(S \cup {new})
  BY <1>5
<1>7. /\ Len(Append(q, new)) = top /\ DOMAIN Append(q, new) = 1..top
      /\ Append(q, new)[top] = new /\ \A i \in 1..(top - 1) : Append(q, new)[i] = q[i]
  BY <1>3, <1>5
<1> DEFINE rest == TakeFrom(b, now, clk).rest
<1>8. rest = IF b[top].shared THEN Append(q, new) ELSE q
  BY <1>4 DEF q
<1> HIDE DEF rest
<1>9. /\ rest \in Seq(S \cup {new}) /\ \A i \in 1..(top - 1) : rest[i] = b[i]
      /\ b[top].shared => DOMAIN rest = 1..top /\ Len(rest) = top /\ rest[top] = new
      /\ ~b[top].shared => DOMAIN rest = 1..(top - 1) /\ Len(rest) = top - 1
  BY <1>5, <1>7, <1>8, <1>6
<1> QED
  BY <1>2, <1>4, <1>9 DEF rest, new, TookAt

\* put appends, and past the bound every entry moves down by one.
PutDone(r, b, e) ==
  /\ Len(r) > 0 /\ r[Len(r)] = e
  /\ \/ /\ Len(b) < MaxIdle /\ Len(r) = Len(b) + 1
        /\ \A i \in DOMAIN b : i \in DOMAIN r /\ i < Len(r) /\ r[i] = b[i]
     \/ /\ Len(b) = MaxIdle /\ Len(r) = Len(b)
        /\ \A i \in DOMAIN r : i < Len(r) => i + 1 \in DOMAIN b /\ r[i] = b[i + 1]
        /\ \A i \in DOMAIN b : i > 1 => i - 1 \in DOMAIN r /\ i - 1 < Len(r) /\ r[i - 1] = b[i]

LEMMA PutIs ==
  ASSUME NEW S, NEW b \in Seq(S), NEW e \in S, Len(b) <= MaxIdle
  PROVE  /\ PutIn(b, e) \in Seq(S) /\ Len(PutIn(b, e)) <= MaxIdle
         /\ MaxIdle = 0 => PutIn(b, e) = b
         /\ MaxIdle # 0 => PutDone(PutIn(b, e), b, e)
<1> USE PoolConfigIsNat
<1> DEFINE q == Append(b, e)
<1>1. /\ Len(b) \in Nat /\ DOMAIN b = 1..Len(b)
      /\ q \in Seq(S) /\ Len(q) = Len(b) + 1 /\ q[Len(q)] = e /\ \A i \in 1..Len(b) : q[i] = b[i]
  OBVIOUS
<1> HIDE DEF q
<1>2. CASE MaxIdle = 0
  BY SMTT(30), <1>2 DEF PutIn
<1>3. CASE MaxIdle # 0 /\ Len(b) < MaxIdle
  <2>0. ~(Len(q) > MaxIdle)
    BY <1>1, <1>3
  <2>1. PutIn(b, e) = q
    BY <1>3, <2>0 DEF PutIn, q
  <2>2. /\ Len(q) <= MaxIdle /\ Len(q) > 0
        /\ \A i \in DOMAIN b : i \in DOMAIN q /\ i < Len(q) /\ q[i] = b[i]
    BY <1>1, <2>0
  <2> QED
    BY <1>1, <1>3, <2>1, <2>2 DEF PutDone
<1>4. CASE MaxIdle # 0 /\ Len(b) = MaxIdle
  <2>1. PutIn(b, e) = Tail(q)
    BY <1>1, <1>4 DEF PutIn, q
  <2> DEFINE t == Tail(q)
  <2>2. t \in Seq(S) /\ Len(t) = Len(b) /\ DOMAIN t = 1..Len(b) /\ \A i \in 1..Len(b) : t[i] = q[i + 1]
    BY <1>1, <1>4
  <2> HIDE DEF t
  <2>3. t[Len(t)] = e
    BY <1>1, <1>4, <2>2
  <2>4. \A i \in DOMAIN t : i < Len(t) => i + 1 \in DOMAIN b /\ t[i] = b[i + 1]
    BY <1>1, <2>2
  <2>5. \A i \in DOMAIN b : i > 1 => i - 1 \in DOMAIN t /\ i - 1 < Len(t) /\ t[i - 1] = b[i]
    BY <1>1, <2>2
  <2>6. PutIn(b, e) = t
    BY <2>1 DEF t
  <2> QED
    BY <1>1, <1>4, <2>2, <2>3, <2>4, <2>5, <2>6 DEF PutDone
<1>5. MaxIdle = 0 \/ (MaxIdle # 0 /\ Len(b) < MaxIdle) \/ (MaxIdle # 0 /\ Len(b) = MaxIdle)
  <2>1. Len(b) \in Nat /\ MaxIdle \in Nat /\ Len(b) <= MaxIdle
    BY <1>1
  <2> QED
    BY ONLY <2>1
<1> QED
  BY <1>2, <1>3, <1>4, <1>5, Zenon

-----------------------------------------------------------------------------
(* Custody, and what makes it inductive.                                   *)

\* The parts of Custody, of given buckets B and calls C, one sentence each.
HoldsIn(C, r, c) == C[r].st \in {"holding", "body"} /\ C[r].conn = c
UsesIn(C, r, c)  == C[r].st \in {"borrowing", "using"} /\ C[r].conn = c

OneHolder(C) ==
  \A c \in Conns : \A r, s \in Callers : HoldsIn(C, r, c) /\ HoldsIn(C, s, c) => r = s
OneSlot(B) ==
  \A k, l \in Keys : \A i \in DOMAIN B[k], j \in DOMAIN B[l] :
    B[k][i].conn = B[l][j].conn => k = l /\ i = j
HeldIsOut(B, C) ==
  \A c \in Conns : \A r \in Callers : HoldsIn(C, r, c) =>
    \A k \in Keys : \A i \in DOMAIN B[k] : B[k][i].conn # c
HeldIsNotUsed(C) ==
  \A c \in Conns : \A r, s \in Callers : HoldsIn(C, r, c) => ~UsesIn(C, s, c)

\* What Custody needs besides itself: a connection somebody multiplexes on is
\* in the pool only as a handle, so take never hands it out for keeps.
UsedIsShared(B, C) ==
  \A c \in Conns : \A r \in Callers : UsesIn(C, r, c) =>
    \A k \in Keys : \A i \in DOMAIN B[k] : B[k][i].conn = c => B[k][i].shared

Places(B, C) ==
  /\ OneHolder(C) /\ OneSlot(B) /\ HeldIsOut(B, C)
  /\ HeldIsNotUsed(C) /\ UsedIsShared(B, C)

\* Buckets as PoolTypeOK has them, with deadlines in order at clock reading clk.
GoodBuckets(B, clk) ==
  /\ B \in [Keys -> Seq(Idles)]
  /\ \A k \in Keys : Len(B[k]) <= MaxIdle
  /\ \A k \in Keys : \A i \in DOMAIN B[k] :
       B[k][i].since <= clk /\ B[k][i].at <= B[k][i].since + IdleTimeout

\* No caller is ahead of the clock, and one that has a connection has a real one.
Fits(C) ==
  \A r \in Callers :
    /\ C[r].now <= clock
    /\ C[r].st \in {"holding", "body", "borrowing", "using"} => C[r].conn \in Conns

\* WeakPool::upgrade would still find the pool.
Reachable == transport \/ \E r \in Callers : call[r].st = "body"

\* Without the transport callers are out or bodies, which alone keep the pool.
CallsInv ==
  /\ Fits(call)
  /\ ~transport => \A r \in Callers : call[r].st \in {"out", "body"}
  /\ ~Reachable => idle = Empty

\* The inductive invariant.
PoolInv == PoolTypeOK /\ GoodBuckets(idle, clock) /\ Places(idle, call) /\ CallsInv

-----------------------------------------------------------------------------
(* What the operations do to a bucket.                                     *)

\* Bucket d has only entries of b, in fewer places, except that an entry may
\* have been renewed at clk.
Shrinks(d, b, clk) ==
  /\ d \in Seq(Idles) /\ Len(d) <= Len(b)
  /\ \A k \in DOMAIN d : \E i \in DOMAIN b :
       /\ d[k].conn = b[i].conn /\ d[k].shared = b[i].shared
       /\ \/ d[k] = b[i]
          \/ d[k].since = clk /\ d[k].at <= clk + IdleTimeout
  /\ \A k, l \in DOMAIN d : k # l =>
       \E i, j \in DOMAIN b : i # j /\ d[k].conn = b[i].conn /\ d[l].conn = b[j].conn

LEMMA SameShrinks ==
  ASSUME NEW b \in Seq(Idles), NEW clk
  PROVE  Shrinks(b, b, clk)
BY DEF Shrinks

LEMMA EmptyShrinks ==
  ASSUME NEW b \in Seq(Idles), NEW clk
  PROVE  Shrinks(<<>>, b, clk)
BY DEF Shrinks

LEMMA RetainShrinks ==
  ASSUME NEW b \in Seq(Idles), NEW keep, keep \subseteq DOMAIN b, NEW clk
  PROVE  Shrinks(Retain(b, keep), b, clk)
<1> DEFINE d == Retain(b, keep)
<1>1. d \in Seq(Idles) /\ KeptWell(Len(b), d, b, keep)
  BY RetainIs
<1> HIDE DEF d
<1>2. \A k \in DOMAIN d : \E j \in DOMAIN b : d[k] = b[j]
  BY <1>1 DEF KeptWell
<1>3. ASSUME NEW k \in DOMAIN d, NEW l \in DOMAIN d, k # l
      PROVE  \E i, j \in DOMAIN b : i # j /\ d[k] = b[i] /\ d[l] = b[j]
  <2>1. PICK i \in keep, j \in keep : i # j /\ d[k] = b[i] /\ d[l] = b[j]
    BY ZenonT(60), <1>1, <1>3 DEF KeptWell
  <2> QED
    BY <2>1
<1>4. Len(d) <= Len(b)
  BY <1>1 DEF KeptWell
<1>5. Shrinks(d, b, clk)
  BY SMTT(30), <1>1, <1>2, <1>3, <1>4 DEF Shrinks
<1> QED
  BY <1>5 DEF d

LEMMA TakeShrinks ==
  ASSUME NEW b \in Seq(Idles), NEW now \in 0..MaxTime, NEW clk \in 0..MaxTime, now <= clk
  PROVE  Shrinks(TakeFrom(b, now, clk).rest, b, clk)
<1> USE PoolConfigIsNat, PoolConstants
<1>1. CASE Live(b, now) = {}
  BY <1>1, EmptyShrinks DEF TakeFrom
<1>2. CASE Live(b, now) # {}
  <2> DEFINE d == TakeFrom(b, now, clk).rest
  <2>0. PICK top : TookAt(top, TakeFrom(b, now, clk), Idles, b, now, clk)
    BY <1>2, TakeIs, Zenon
  <2>1. /\ top \in Live(b, now) /\ d \in Seq(Idles \cup {Idle(b[top].conn, TRUE, now + IdleTimeout, clk)})
        /\ \A i \in 1..(top - 1) : d[i] = b[i]
        /\ b[top].shared =>
             /\ DOMAIN d = 1..top /\ Len(d) = top
             /\ d[top] = Idle(b[top].conn, TRUE, now + IdleTimeout, clk)
        /\ ~b[top].shared => DOMAIN d = 1..(top - 1) /\ Len(d) = top - 1
    BY <2>0 DEF TookAt
  <2> DEFINE new == Idle(b[top].conn, TRUE, now + IdleTimeout, clk)
  <2> HIDE DEF d
  <2>2. top \in DOMAIN b /\ b[top] \in Idles /\ \A i \in 1..(top - 1) : i \in DOMAIN b
    BY <2>1 DEF Live
  <2>3. now + IdleTimeout \in 0..(MaxTime + IdleTimeout) /\ now + IdleTimeout <= clk + IdleTimeout
    OBVIOUS
  <2>4. new \in Idles /\ new.conn = b[top].conn /\ new.shared = TRUE /\ new.since = clk /\ new.at = now + IdleTimeout
    BY <2>2, <2>3 DEF Idles, Idle
  <2> HIDE DEF new
  <2>5. d \in Seq(Idles)
    <3>1. Idles \cup {new} = Idles
      BY <2>4
    <3> QED
      BY <2>1, <3>1 DEF new
  <2>6. b[top].shared => DOMAIN d = 1..top /\ Len(d) = top /\ d[top] = new
    BY <2>1 DEF new
  <2>7. Len(d) <= Len(b) /\ DOMAIN d \subseteq 1..top /\ (top \in DOMAIN d => b[top].shared)
    BY <2>1, <2>2, <2>6
  <2>8. ASSUME NEW k \in DOMAIN d
        PROVE  /\ k \in DOMAIN b /\ d[k].conn = b[k].conn /\ d[k].shared = b[k].shared
               /\ d[k] = b[k] \/ (d[k].since = clk /\ d[k].at <= clk + IdleTimeout)
    <3>1. CASE k = top
      <4>1. b[top].shared = TRUE /\ d[k] = new
        BY <2>2, <2>6, <2>7, <3>1 DEF Idles
      <4> QED
        BY <2>2, <2>3, <2>4, <3>1, <4>1
    <3>2. CASE k # top
      <4>1. k \in 1..(top - 1)
        BY <2>2, <2>7, <3>2
      <4> QED
        BY <2>1, <2>2, <4>1
    <3> QED
      BY <3>1, <3>2
  <2>9. Shrinks(d, b, clk)
    BY <2>5, <2>7, <2>8 DEF Shrinks
  <2> QED
    BY <2>9 DEF d
<1> QED
  BY <1>1, <1>2

\* Put at clk, with a deadline in order: what is in the bucket afterwards is the
\* new entry, in one place, and entries that were there, in different places.
LEMMA PutFits ==
  ASSUME NEW b \in Seq(Idles), NEW e \in Idles, Len(b) <= MaxIdle
  PROVE  /\ PutIn(b, e) \in Seq(Idles) /\ Len(PutIn(b, e)) <= MaxIdle
         /\ \A k \in DOMAIN PutIn(b, e) :
              PutIn(b, e)[k] = e \/ \E i \in DOMAIN b : PutIn(b, e)[k] = b[i]
         /\ \A k, l \in DOMAIN PutIn(b, e) : k # l =>
              \/ \E i, j \in DOMAIN b : i # j /\ PutIn(b, e)[k] = b[i] /\ PutIn(b, e)[l] = b[j]
              \/ \E i \in DOMAIN b : PutIn(b, e)[k] = b[i] /\ PutIn(b, e)[l] = e
              \/ \E i \in DOMAIN b : PutIn(b, e)[l] = b[i] /\ PutIn(b, e)[k] = e
<1> USE PoolConfigIsNat
<1> DEFINE r == PutIn(b, e)
<1>0. /\ r \in Seq(Idles) /\ Len(r) <= MaxIdle
      /\ MaxIdle = 0 => r = b
      /\ MaxIdle # 0 => PutDone(r, b, e)
  BY PutIs, Zenon
<1> HIDE DEF r
<1>1. /\ r \in Seq(Idles) /\ Len(r) <= MaxIdle
      /\ MaxIdle = 0 => r = b
      /\ MaxIdle # 0 =>
           /\ Len(r) > 0 /\ r[Len(r)] = e
           /\ \/ /\ Len(b) < MaxIdle /\ Len(r) = Len(b) + 1
                 /\ \A i \in DOMAIN b : i \in DOMAIN r /\ i < Len(r) /\ r[i] = b[i]
              \/ \A i \in DOMAIN r : i < Len(r) => i + 1 \in DOMAIN b /\ r[i] = b[i + 1]
  BY <1>0 DEF PutDone
<1>2. /\ Len(b) \in Nat /\ DOMAIN b = 1..Len(b) /\ Len(r) \in Nat /\ DOMAIN r = 1..Len(r)
  BY <1>1
<1>3. CASE MaxIdle = 0
  BY <1>1, <1>3 DEF r
<1>4. CASE MaxIdle # 0
  \* where an entry before the last one came from
  <2>1. PICK d \in {0, 1} : \A i \in DOMAIN r : i # Len(r) => i + d \in DOMAIN b /\ r[i] = b[i + d]
    <3>1. CASE /\ Len(b) < MaxIdle /\ Len(r) = Len(b) + 1
               /\ \A i \in DOMAIN b : i \in DOMAIN r /\ i < Len(r) /\ r[i] = b[i]
      <4>1. \A i \in DOMAIN r : i # Len(r) => i + 0 \in DOMAIN b /\ r[i] = b[i + 0]
        BY <1>2, <3>1
      <4> QED
        BY <4>1
    <3>2. CASE \A i \in DOMAIN r : i < Len(r) => i + 1 \in DOMAIN b /\ r[i] = b[i + 1]
      <4>1. \A i \in DOMAIN r : i # Len(r) => i + 1 \in DOMAIN b /\ r[i] = b[i + 1]
        BY <1>2, <3>2
      <4> QED
        BY <4>1
    <3> QED
      BY <1>1, <1>4, <3>1, <3>2
  <2>2. \A k \in DOMAIN r : r[k] = e \/ \E i \in DOMAIN b : r[k] = b[i]
    BY <1>1, <1>4, <2>1
  <2>3. ASSUME NEW k \in DOMAIN r, NEW l \in DOMAIN r, k # l
        PROVE  \/ \E i, j \in DOMAIN b : i # j /\ r[k] = b[i] /\ r[l] = b[j]
               \/ \E i \in DOMAIN b : r[k] = b[i] /\ r[l] = e
               \/ \E i \in DOMAIN b : r[l] = b[i] /\ r[k] = e
    <3>1. CASE k = Len(r)
      BY <1>1, <1>4, <2>1, <2>3, <3>1
    <3>2. CASE l = Len(r)
      BY <1>1, <1>4, <2>1, <2>3, <3>2
    <3>3. CASE k # Len(r) /\ l # Len(r)
      <4>1. k + d # l + d
        BY <1>2, <2>3
      <4> QED
        BY <2>1, <3>3, <4>1
    <3> QED
      BY <3>1, <3>2, <3>3
  <2> QED
    BY <1>1, <2>2, <2>3 DEF r
<1> QED
  BY <1>3, <1>4

-----------------------------------------------------------------------------
(* What the operations do to the buckets and the calls.                    *)

\* Every entry of D was put or renewed at clk, or is as old as one of B.
AsOld(D, B, clk) ==
  \A k \in Keys : \A i \in DOMAIN D[k] :
    D[k][i].since = clk \/ \E j \in DOMAIN B[k] : D[k][i].since = B[k][j].since

\* Everybody may hold and use less.
Fewer(E, C) ==
  \A r \in Callers, c \in Conns :
    (HoldsIn(E, r, c) => HoldsIn(C, r, c)) /\ (UsesIn(E, r, c) => UsesIn(C, r, c))

\* Buckets that shrink stay good.
LEMMA ShrunkGood ==
  ASSUME NEW B, NEW D, NEW clk \in 0..MaxTime, GoodBuckets(B, clk), OneSlot(B),
         D = [k \in Keys |-> D[k]], \A k \in Keys : Shrinks(D[k], B[k], clk)
  PROVE  GoodBuckets(D, clk) /\ OneSlot(D) /\ AsOld(D, B, clk)
<1> USE PoolConfigIsNat, PoolConstants
<1>1. D \in [Keys -> Seq(Idles)]
  BY DEF Shrinks
<1>2. \A k \in Keys : Len(D[k]) <= MaxIdle
  <2> SUFFICES ASSUME NEW k \in Keys PROVE Len(D[k]) <= MaxIdle
    OBVIOUS
  <2>1. /\ Len(D[k]) \in Nat /\ Len(B[k]) \in Nat /\ MaxIdle \in Nat
        /\ Len(D[k]) <= Len(B[k]) /\ Len(B[k]) <= MaxIdle
    BY <1>1 DEF GoodBuckets, Shrinks
  <2> QED
    BY ONLY <2>1
<1>3. ASSUME NEW k \in Keys, NEW i \in DOMAIN D[k]
      PROVE  \E j \in DOMAIN B[k] :
               /\ D[k][i].conn = B[k][j].conn /\ D[k][i].shared = B[k][j].shared
               /\ D[k][i] = B[k][j] \/ (D[k][i].since = clk /\ D[k][i].at <= clk + IdleTimeout)
  BY DEF Shrinks
<1>4. ASSUME NEW k \in Keys, NEW i \in DOMAIN D[k]
      PROVE  D[k][i].since <= clk /\ D[k][i].at <= D[k][i].since + IdleTimeout
  BY <1>3 DEF GoodBuckets
<1>5. OneSlot(D)
  <2> SUFFICES ASSUME NEW k \in Keys, NEW l \in Keys, NEW i \in DOMAIN D[k], NEW j \in DOMAIN D[l],
                      D[k][i].conn = D[l][j].conn
               PROVE  k = l /\ i = j
    BY DEF OneSlot
  <2>1. k = l
    <3>1. PICK m \in DOMAIN B[k] : D[k][i].conn = B[k][m].conn
      BY <1>3
    <3>2. PICK n \in DOMAIN B[l] : D[l][j].conn = B[l][n].conn
      BY <1>3
    <3> QED
      BY <3>1, <3>2 DEF OneSlot
  <2>2. i = j
    <3> SUFFICES ASSUME i # j PROVE FALSE
      OBVIOUS
    <3>1. PICK m \in DOMAIN B[k], n \in DOMAIN B[k] :
            m # n /\ D[k][i].conn = B[k][m].conn /\ D[k][j].conn = B[k][n].conn
      <4>1. i \in DOMAIN D[k] /\ j \in DOMAIN D[k] /\ Shrinks(D[k], B[k], clk)
        BY <2>1
      <4> QED
        BY <4>1, Zenon DEF Shrinks
    <3> QED
      BY <2>1, <3>1 DEF OneSlot
  <2> QED
    BY <2>1, <2>2
<1>6. AsOld(D, B, clk)
  BY <1>3 DEF AsOld
<1> QED
  BY <1>1, <1>2, <1>4, <1>5, <1>6 DEF GoodBuckets

\* Buckets that shrink and callers that let go keep everything in one place.
LEMMA ShrunkPlaces ==
  ASSUME NEW B, NEW D, NEW C, NEW E, NEW clk \in 0..MaxTime, GoodBuckets(B, clk), Places(B, C),
         D = [k \in Keys |-> D[k]], \A k \in Keys : Shrinks(D[k], B[k], clk), Fewer(E, C)
  PROVE  GoodBuckets(D, clk) /\ Places(D, E) /\ AsOld(D, B, clk)
<1>1. GoodBuckets(D, clk) /\ OneSlot(D) /\ AsOld(D, B, clk)
  BY ShrunkGood DEF Places
<1>2. ASSUME NEW k \in Keys, NEW i \in DOMAIN D[k]
      PROVE  \E j \in DOMAIN B[k] : D[k][i].conn = B[k][j].conn /\ D[k][i].shared = B[k][j].shared
  BY DEF Shrinks
<1>3. OneHolder(E) /\ HeldIsNotUsed(E)
  BY DEF Places, OneHolder, HeldIsNotUsed, Fewer
<1>4. HeldIsOut(D, E)
  BY <1>2 DEF Places, HeldIsOut, Fewer
<1>5. UsedIsShared(D, E)
  BY <1>2 DEF Places, UsedIsShared, Fewer
<1> QED
  BY <1>1, <1>3, <1>4, <1>5 DEF Places

\* A caller comes to hold a connection that is nowhere else.
LEMMA NewHolder ==
  ASSUME NEW B, NEW C, NEW E, NEW r \in Callers, NEW c \in Conns, Places(B, C),
         \A s \in Callers \ {r} : E[s] = C[s] /\ ~HoldsIn(C, s, c) /\ ~UsesIn(C, s, c),
         HoldsIn(E, r, c),
         \A k \in Keys : \A i \in DOMAIN B[k] : B[k][i].conn # c
  PROVE  Places(B, E)
<1>1. \A x \in Conns : HoldsIn(E, r, x) => x = c
  BY DEF HoldsIn
<1>2. \A x \in Conns : ~UsesIn(E, r, x)
  BY DEF HoldsIn, UsesIn
<1>3. \A s \in Callers \ {r}, x \in Conns :
        (HoldsIn(E, s, x) <=> HoldsIn(C, s, x)) /\ (UsesIn(E, s, x) <=> UsesIn(C, s, x))
  BY DEF HoldsIn, UsesIn
<1>4. OneHolder(E)
  BY <1>1, <1>3 DEF Places, OneHolder
<1>5. HeldIsOut(B, E)
  BY <1>1, <1>3 DEF Places, HeldIsOut
<1>6. HeldIsNotUsed(E)
  BY <1>1, <1>2, <1>3 DEF Places, HeldIsNotUsed
<1>7. UsedIsShared(B, E)
  BY <1>2, <1>3 DEF Places, UsedIsShared
<1> QED
  BY <1>4, <1>5, <1>6, <1>7 DEF Places

\* A caller comes to use a connection nobody holds, in the pool only as a handle.
LEMMA NewUser ==
  ASSUME NEW B, NEW C, NEW E, NEW r \in Callers, NEW c \in Conns, Places(B, C),
         \A s \in Callers \ {r} : E[s] = C[s] /\ ~HoldsIn(C, s, c),
         UsesIn(E, r, c),
         \A k \in Keys : \A i \in DOMAIN B[k] : B[k][i].conn = c => B[k][i].shared
  PROVE  Places(B, E)
<1>1. \A x \in Conns : UsesIn(E, r, x) => x = c
  BY DEF UsesIn
<1>2. \A x \in Conns : ~HoldsIn(E, r, x)
  BY DEF HoldsIn, UsesIn
<1>3. \A s \in Callers \ {r}, x \in Conns :
        (HoldsIn(E, s, x) <=> HoldsIn(C, s, x)) /\ (UsesIn(E, s, x) <=> UsesIn(C, s, x))
  BY DEF HoldsIn, UsesIn
<1>4. OneHolder(E)
  BY <1>2, <1>3 DEF Places, OneHolder
<1>5. HeldIsOut(B, E)
  BY <1>2, <1>3 DEF Places, HeldIsOut
<1>6. HeldIsNotUsed(E)
  BY <1>1, <1>2, <1>3 DEF Places, HeldIsNotUsed
<1>7. UsedIsShared(B, E)
  BY <1>1, <1>3 DEF Places, UsedIsShared
<1> QED
  BY <1>4, <1>5, <1>6, <1>7 DEF Places

\* A connection nobody holds and no bucket has goes into the pool, as a handle
\* unless nobody uses it.
LEMMA PutPlaces ==
  ASSUME NEW B, NEW C, NEW k \in Keys, NEW e \in Idles, NEW clk \in 0..MaxTime,
         GoodBuckets(B, clk), Places(B, C), e.since = clk, e.at <= clk + IdleTimeout,
         \A l \in Keys : \A i \in DOMAIN B[l] : B[l][i].conn # e.conn,
         \A r \in Callers : ~HoldsIn(C, r, e.conn),
         e.shared \/ \A r \in Callers : ~UsesIn(C, r, e.conn)
  PROVE  LET D == [B EXCEPT ![k] = PutIn(@, e)] IN
         GoodBuckets(D, clk) /\ Places(D, C) /\ AsOld(D, B, clk)
<1> USE PoolConfigIsNat, PoolConstants
<1> DEFINE p == PutIn(B[k], e)
<1> DEFINE D == [B EXCEPT ![k] = p]
<1>0. B[k] \in Seq(Idles) /\ Len(B[k]) <= MaxIdle
  BY DEF GoodBuckets
<1>1. /\ p \in Seq(Idles) /\ Len(p) <= MaxIdle
      /\ \A i \in DOMAIN p : p[i] = e \/ \E j \in DOMAIN B[k] : p[i] = B[k][j]
      /\ \A i, j \in DOMAIN p : i # j =>
           \/ \E m, n \in DOMAIN B[k] : m # n /\ p[i] = B[k][m] /\ p[j] = B[k][n]
           \/ \E m \in DOMAIN B[k] : p[i] = B[k][m] /\ p[j] = e
           \/ \E m \in DOMAIN B[k] : p[j] = B[k][m] /\ p[i] = e
  BY ZenonT(60), <1>0, PutFits
<1> HIDE DEF p
<1>2. D \in [Keys -> Seq(Idles)] /\ D[k] = p /\ \A l \in Keys \ {k} : D[l] = B[l]
  BY <1>1 DEF GoodBuckets
<1> HIDE DEF D
<1>3. ASSUME NEW l \in Keys, NEW i \in DOMAIN D[l]
      PROVE  (l = k /\ D[l][i] = e) \/ \E j \in DOMAIN B[l] : D[l][i] = B[l][j]
  BY <1>1, <1>2
<1>4. GoodBuckets(D, clk)
  <2>1. \A l \in Keys : Len(D[l]) <= MaxIdle
    BY <1>1, <1>2 DEF GoodBuckets
  <2>2. ASSUME NEW l \in Keys, NEW i \in DOMAIN D[l]
        PROVE  D[l][i].since <= clk /\ D[l][i].at <= D[l][i].since + IdleTimeout
    <3>1. CASE D[l][i] = e
      BY <3>1
    <3>2. CASE \E j \in DOMAIN B[l] : D[l][i] = B[l][j]
      BY <3>2 DEF GoodBuckets
    <3> QED
      BY <1>3, <3>1, <3>2
  <2> QED
    BY <1>2, <2>1, <2>2 DEF GoodBuckets
<1>5. OneSlot(D)
  <2> SUFFICES ASSUME NEW l \in Keys, NEW m \in Keys, NEW i \in DOMAIN D[l], NEW j \in DOMAIN D[m],
                      D[l][i].conn = D[m][j].conn
               PROVE  l = m /\ i = j
    BY DEF OneSlot
  <2>1. l = m
    <3>1. CASE l = k /\ D[l][i] = e
      BY <1>3, <3>1
    <3>2. CASE m = k /\ D[m][j] = e
      BY <1>3, <3>2
    <3>3. CASE /\ \E x \in DOMAIN B[l] : D[l][i] = B[l][x]
               /\ \E x \in DOMAIN B[m] : D[m][j] = B[m][x]
      BY <3>3 DEF Places, OneSlot
    <3> QED
      BY <1>3, <3>1, <3>2, <3>3
  <2>2. CASE l # k
    BY SMTT(30), <1>2, <2>1, <2>2 DEF Places, OneSlot
  <2>3. CASE l = k
    <3> SUFFICES ASSUME i # j PROVE FALSE
      BY <2>1
    <3>1. i \in DOMAIN p /\ j \in DOMAIN p /\ p[i].conn = p[j].conn
      BY <1>2, <2>1, <2>3
    <3>2. ASSUME NEW x \in DOMAIN B[k], NEW y \in DOMAIN B[k], x # y, p[i] = B[k][x], p[j] = B[k][y]
          PROVE  FALSE
      BY <3>1, <3>2 DEF Places, OneSlot
    <3>3. ASSUME NEW x \in DOMAIN B[k], (p[i] = B[k][x] /\ p[j] = e) \/ (p[j] = B[k][x] /\ p[i] = e)
          PROVE  FALSE
      BY <3>1, <3>3
    <3> QED
      BY <1>1, <3>1, <3>2, <3>3
  <2> QED
    BY <2>1, <2>2, <2>3
<1>6. OneHolder(C) /\ HeldIsNotUsed(C)
  BY DEF Places
<1>7. HeldIsOut(D, C)
  BY <1>3 DEF Places, HeldIsOut
<1>8. UsedIsShared(D, C)
  BY <1>3 DEF Places, UsedIsShared
<1>9. AsOld(D, B, clk)
  BY <1>3 DEF AsOld
<1> QED
  BY <1>4, <1>5, <1>6, <1>7, <1>8, <1>9 DEF Places, D, p

-----------------------------------------------------------------------------
(* The callers' steps.                                                     *)

\* What a caller's step establishes.
CallerDone ==
  /\ GoodBuckets(idle', clock) /\ Places(idle', call') /\ AsOld(idle', idle, clock)
  /\ call' \in [Callers -> Calls] /\ Fits(call')
  /\ ~transport => \A r \in Callers : call'[r].st \in {"out", "body"}
  /\ (~transport /\ \A r \in Callers : call'[r].st # "body") => idle' = Empty
  /\ Reachable
  /\ UNCHANGED <<clock, transport>>

LEMMA WithoutIs ==
  ASSUME NEW st \in {"out", "in", "missed"}, NEW now \in 0..MaxTime
  PROVE  /\ Without(st, now) \in Calls /\ Without(st, now).st = st
         /\ Without(st, now).now = now /\ Without(st, now).conn = NoConn
<1>1. (CHOOSE k \in Keys : TRUE) \in Keys
  BY PoolConstants
<1> QED
  BY <1>1 DEF Without, Calls

\* One caller's call is replaced, by one that holds and uses nothing new.
LEMMA LetsGo ==
  ASSUME NEW C \in [Callers -> Calls], NEW r \in Callers, NEW x \in Calls,
         \/ x.st \notin {"holding", "body", "borrowing", "using"}
         \/ x.conn = C[r].conn /\ x.st \in {"holding", "body"} /\ C[r].st \in {"holding", "body"}
  PROVE  /\ Fewer([C EXCEPT ![r] = x], C)
         /\ [C EXCEPT ![r] = x] \in [Callers -> Calls]
         /\ [C EXCEPT ![r] = x][r] = x
         /\ \A s \in Callers \ {r} : [C EXCEPT ![r] = x][s] = C[s]
BY DEF Fewer, HoldsIn, UsesIn

\* Nothing happens to the buckets.
LEMMA SameBuckets ==
  ASSUME NEW B, NEW C, NEW E, NEW clk \in 0..MaxTime, GoodBuckets(B, clk), Places(B, C), Fewer(E, C)
  PROVE  GoodBuckets(B, clk) /\ Places(B, E) /\ AsOld(B, B, clk)
<1>1. B = [k \in Keys |-> B[k]] /\ \A k \in Keys : B[k] \in Seq(Idles)
  BY DEF GoodBuckets
<1>2. \A k \in Keys : Shrinks(B[k], B[k], clk)
  BY <1>1, SameShrinks
<1> QED
  BY <1>1, <1>2, ShrunkPlaces

\* The facts about the state every step starts from.
LEMMA Before ==
  ASSUME PoolInv
  PROVE  /\ clock \in 0..MaxTime /\ call \in [Callers -> Calls] /\ transport \in BOOLEAN
         /\ GoodBuckets(idle, clock) /\ Places(idle, call)
         /\ idle \in [Keys -> Seq(Idles)] /\ \A k \in Keys : Len(idle[k]) <= MaxIdle
         /\ \A r \in Callers : call[r] \in Calls /\ call[r].now \in 0..MaxTime /\ call[r].now <= clock
         /\ ~transport => \A r \in Callers : call[r].st \in {"out", "body"}
         /\ ~Reachable => idle = Empty
         /\ Fits(call)
BY DEF PoolInv, PoolTypeOK, CallsInv, GoodBuckets, Calls, Fits

LEMMA EnterDone ==
  ASSUME PoolInv, NEW r \in Callers, Enter(r)
  PROVE  CallerDone
<1> USE Before
<1> DEFINE x == Without("in", clock)
<1>1. x \in Calls /\ x.st = "in" /\ x.now = clock
  BY WithoutIs
<1> HIDE DEF x
<1>2. call' = [call EXCEPT ![r] = x] /\ UNCHANGED <<clock, idle, transport>> /\ transport
  BY DEF Enter, x
<1>3. /\ Fewer(call', call) /\ call' \in [Callers -> Calls]
      /\ call'[r] = x /\ \A s \in Callers \ {r} : call'[s] = call[s]
  BY <1>1, <1>2, LetsGo
<1>4. GoodBuckets(idle', clock) /\ Places(idle', call') /\ AsOld(idle', idle, clock)
  BY <1>2, <1>3, SameBuckets
<1>5. Fits(call')
  BY <1>1, <1>3 DEF Fits
<1> QED
  BY <1>2, <1>3, <1>4, <1>5 DEF CallerDone, Reachable

LEMMA SkipDone ==
  ASSUME PoolInv, NEW r \in Callers, Skip(r)
  PROVE  CallerDone
<1> USE Before
<1> DEFINE x == [call[r] EXCEPT !.st = "missed"]
<1>1. x \in Calls /\ x.st = "missed" /\ x.now = call[r].now
  BY DEF Calls
<1>2. call' = [call EXCEPT ![r] = x]
  BY DEF Skip
<1> HIDE DEF x
<1>3. UNCHANGED <<clock, idle, transport>> /\ transport
  BY DEF Skip
<1>4. /\ Fewer(call', call) /\ call' \in [Callers -> Calls]
      /\ call'[r] = x /\ \A s \in Callers \ {r} : call'[s] = call[s]
  BY <1>1, <1>2, LetsGo
<1>5. GoodBuckets(idle', clock) /\ Places(idle', call') /\ AsOld(idle', idle, clock)
  BY <1>3, <1>4, SameBuckets
<1>6. Fits(call')
  BY <1>1, <1>4 DEF Fits
<1> QED
  BY <1>3, <1>4, <1>5, <1>6 DEF CallerDone, Reachable

LEMMA UnsentDone ==
  ASSUME PoolInv, NEW r \in Callers, Unsent(r)
  PROVE  CallerDone
<1> USE Before
<1> DEFINE x == Without("missed", call[r].now)
<1>1. x \in Calls /\ x.st = "missed" /\ x.now = call[r].now
  BY WithoutIs
<1> HIDE DEF x
<1>2. call' = [call EXCEPT ![r] = x] /\ UNCHANGED <<clock, idle, transport>> /\ transport
  BY DEF Unsent, x
<1>3. /\ Fewer(call', call) /\ call' \in [Callers -> Calls]
      /\ call'[r] = x /\ \A s \in Callers \ {r} : call'[s] = call[s]
  BY <1>1, <1>2, LetsGo
<1>4. GoodBuckets(idle', clock) /\ Places(idle', call') /\ AsOld(idle', idle, clock)
  BY <1>2, <1>3, SameBuckets
<1>5. Fits(call')
  BY <1>1, <1>3 DEF Fits
<1> QED
  BY <1>2, <1>3, <1>4, <1>5 DEF CallerDone, Reachable

LEMMA AnswerDone ==
  ASSUME PoolInv, NEW r \in Callers, Answer(r)
  PROVE  CallerDone
<1> USE Before
<1> DEFINE x == [call[r] EXCEPT !.st = "body"]
<1>1. x \in Calls /\ x.st = "body" /\ x.now = call[r].now /\ x.conn = call[r].conn
  BY DEF Calls
<1>2. call' = [call EXCEPT ![r] = x]
  BY DEF Answer
<1> HIDE DEF x
<1>3. UNCHANGED <<clock, idle, transport>> /\ transport /\ call[r].st = "holding"
  BY DEF Answer
<1>4. /\ Fewer(call', call) /\ call' \in [Callers -> Calls]
      /\ call'[r] = x /\ \A s \in Callers \ {r} : call'[s] = call[s]
  BY <1>1, <1>2, <1>3, LetsGo
<1>5. GoodBuckets(idle', clock) /\ Places(idle', call') /\ AsOld(idle', idle, clock)
  BY <1>3, <1>4, SameBuckets
<1>6. Fits(call')
  BY <1>1, <1>3, <1>4 DEF Fits
<1> QED
  BY <1>3, <1>4, <1>5, <1>6 DEF CallerDone, Reachable

\* A dead handle leaves its bucket with every copy of it.
LEMMA StaleDone ==
  ASSUME PoolInv, NEW r \in Callers, Stale(r)
  PROVE  CallerDone
<1> USE Before
<1> DEFINE k == call[r].key
<1>0. k \in Keys
  BY DEF Calls
<1> HIDE DEF k
<1>1. PICK st \in {"in", "missed"} : call' = [call EXCEPT ![r] = Without(st, call[r].now)]
  BY DEF Stale
<1> DEFINE x == Without(st, call[r].now)
<1>2. x \in Calls /\ x.st = st /\ x.now = call[r].now
  BY WithoutIs
<1> HIDE DEF x
<1>3. /\ call' = [call EXCEPT ![r] = x] /\ UNCHANGED <<clock, transport>> /\ transport
      /\ idle' = idle \/ idle' = [idle EXCEPT ![k] = ForgetIn(idle[k], call[r].conn)]
  BY <1>1 DEF Stale, x, k
<1>4. /\ Fewer(call', call) /\ call' \in [Callers -> Calls]
      /\ call'[r] = x /\ \A s \in Callers \ {r} : call'[s] = call[s]
  BY <1>2, <1>3, LetsGo
<1>5. Shrinks(ForgetIn(idle[k], call[r].conn), idle[k], clock)
  BY <1>0, RetainShrinks DEF ForgetIn
<1>6. idle' = [l \in Keys |-> idle'[l]] /\ \A l \in Keys : Shrinks(idle'[l], idle[l], clock)
  BY <1>0, <1>3, <1>5, SameShrinks
<1>7. GoodBuckets(idle', clock) /\ Places(idle', call') /\ AsOld(idle', idle, clock)
  BY <1>4, <1>6, ShrunkPlaces
<1>8. Fits(call')
  BY <1>2, <1>4 DEF Fits
<1> QED
  BY <1>3, <1>4, <1>7, <1>8 DEF CallerDone, Reachable

\* IsFree, in the words of Places.
LEMMA FreeIs ==
  ASSUME PoolInv, NEW c \in Conns, IsFree(c)
  PROVE  /\ \A s \in Callers : ~HoldsIn(call, s, c) /\ ~UsesIn(call, s, c)
         /\ \A k \in Keys : \A i \in DOMAIN idle[k] : idle[k][i].conn # c
<1> USE Before, PoolConfigIsNat
<1>1. \A s \in Callers : ~HoldsIn(call, s, c) /\ ~UsesIn(call, s, c)
  BY DEF IsFree, Holders, Users, HoldsIn, UsesIn
<1>2. ASSUME NEW k \in Keys, NEW i \in DOMAIN idle[k], idle[k][i].conn = c PROVE FALSE
  <2>1. i \in 1..MaxIdle
    <3>1. Len(idle[k]) \in Nat /\ i \in 1..Len(idle[k]) /\ Len(idle[k]) <= MaxIdle /\ MaxIdle \in Nat
      OBVIOUS
    <3> QED
      BY ONLY <3>1
  <2>2. <<k, i>> \in Slots(c)
    BY <1>2, <2>1 DEF Slots
  <2> QED
    BY <2>2 DEF IsFree
<1> QED
  BY <1>1, <1>2

LEMMA ConnectDone ==
  ASSUME PoolInv, NEW r \in Callers, NEW k \in Keys, NEW c \in Conns, Connect(r, k, c)
  PROVE  CallerDone
<1> USE Before
<1> DEFINE x == [call[r] EXCEPT !.st = "holding", !.key = k, !.conn = c]
<1>1. x \in Calls /\ x.st = "holding" /\ x.now = call[r].now /\ x.conn = c
  BY DEF Calls
<1>2. call' = [call EXCEPT ![r] = x]
  BY DEF Connect
<1> HIDE DEF x
<1>3. UNCHANGED <<clock, idle, transport>> /\ transport /\ IsFree(c)
  BY DEF Connect
<1>4. /\ call' \in [Callers -> Calls] /\ call'[r] = x /\ \A s \in Callers \ {r} : call'[s] = call[s]
  BY <1>1, <1>2
<1>5. Places(idle, call')
  <2>1. HoldsIn(call', r, c)
    BY <1>1, <1>4 DEF HoldsIn
  <2> QED
    BY <1>3, <1>4, <2>1, FreeIs, NewHolder
<1>6. AsOld(idle, idle, clock)
  BY DEF AsOld
<1>7. Fits(call')
  BY <1>1, <1>4 DEF Fits
<1> QED
  BY <1>3, <1>4, <1>5, <1>6, <1>7 DEF CallerDone, Reachable

\* The entry a caller's put makes is one of Idles, with a deadline in order.
LEMMA NewEntry ==
  ASSUME PoolInv, NEW r \in Callers, NEW c \in Conns, NEW sh \in BOOLEAN
  PROVE  LET e == Idle(c, sh, Deadline(r), clock) IN
         /\ e \in Idles /\ e.conn = c /\ e.shared = sh
         /\ e.since = clock /\ e.at <= clock + IdleTimeout
<1> USE Before, PoolConfigIsNat, PoolConstants
<1>1. Deadline(r) \in 0..(MaxTime + IdleTimeout) /\ Deadline(r) <= clock + IdleTimeout
  BY DEF Deadline
<1> QED
  BY <1>1 DEF Idle, Idles

LEMMA ShareDone ==
  ASSUME PoolInv, NEW r \in Callers, NEW k \in Keys, NEW c \in Conns, Share(r, k, c)
  PROVE  CallerDone
<1> USE Before
<1> DEFINE x == [call[r] EXCEPT !.st = "using", !.key = k, !.conn = c]
<1>1. x \in Calls /\ x.st = "using" /\ x.now = call[r].now /\ x.conn = c
  BY DEF Calls
<1>2. call' = [call EXCEPT ![r] = x]
  BY DEF Share
<1> HIDE DEF x
<1> DEFINE e == Idle(c, TRUE, Deadline(r), clock)
<1>3. e \in Idles /\ e.conn = c /\ e.shared = TRUE /\ e.since = clock /\ e.at <= clock + IdleTimeout
  BY NewEntry
<1>4. /\ UNCHANGED <<clock, transport>> /\ transport /\ IsFree(c)
      /\ idle' = [idle EXCEPT ![k] = PutIn(idle[k], e)]
  BY DEF Share
<1> HIDE DEF e
<1>5. /\ call' \in [Callers -> Calls] /\ call'[r] = x /\ \A s \in Callers \ {r} : call'[s] = call[s]
  BY <1>1, <1>2
<1>6. /\ \A s \in Callers : ~HoldsIn(call, s, c) /\ ~UsesIn(call, s, c)
      /\ \A l \in Keys : \A i \in DOMAIN idle[l] : idle[l][i].conn # c
  BY <1>4, FreeIs
<1>7. GoodBuckets(idle', clock) /\ Places(idle', call) /\ AsOld(idle', idle, clock)
  BY <1>3, <1>4, <1>6, PutPlaces
<1>8. \A l \in Keys : \A i \in DOMAIN idle'[l] : idle'[l][i].conn = c => idle'[l][i].shared
  <2>1. \A i \in DOMAIN PutIn(idle[k], e) :
          PutIn(idle[k], e)[i] = e \/ \E j \in DOMAIN idle[k] : PutIn(idle[k], e)[i] = idle[k][j]
    BY <1>3, PutFits
  <2> QED
    BY ZenonT(60), <1>3, <1>4, <1>6, <2>1
<1>9. Places(idle', call')
  <2>1. UsesIn(call', r, c)
    BY <1>1, <1>5 DEF UsesIn
  <2> QED
    BY <1>5, <1>6, <1>7, <1>8, <2>1, NewUser
<1>10. Fits(call')
  BY <1>1, <1>5 DEF Fits
<1> QED
  BY <1>4, <1>5, <1>7, <1>9, <1>10 DEF CallerDone, Reachable

\* take: what it hands out for keeps was in one slot and is in none now; what it
\* lends was a handle and stays one.
LEMMA TakeDone ==
  ASSUME PoolInv, NEW r \in Callers, NEW k \in Keys, Take(r, k)
  PROVE  CallerDone
<1> USE Before
<1> DEFINE t == TakeFrom(idle[k], call[r].now, clock)
<1>1. /\ idle' = [idle EXCEPT ![k] = t.rest] /\ UNCHANGED <<clock, transport>> /\ transport
      /\ call[r].st \in {"in", "missed"}
  BY DEF Take
<1>2. Shrinks(t.rest, idle[k], clock)
  BY SMTT(30), TakeShrinks
<1>3. /\ \/ t.got = {} /\ call' = [call EXCEPT ![r] = [call[r] EXCEPT !.st = "missed"]]
         \/ \E e \in t.got :
              call' = [call EXCEPT ![r] =
                [call[r] EXCEPT !.st = IF e.shared THEN "borrowing" ELSE "holding",
                                !.key = k, !.conn = e.conn]]
  BY DEF Take
<1>4. t.got = {} \/ \E top : TookAt(top, t, Idles, idle[k], call[r].now, clock)
  <2>1. CASE Live(idle[k], call[r].now) = {}
    BY <2>1 DEF TakeFrom
  <2>2. CASE Live(idle[k], call[r].now) # {}
    BY <2>2, TakeIs, Zenon
  <2> QED
    BY <2>1, <2>2
<1> HIDE DEF t
<1>5. idle' = [l \in Keys |-> idle'[l]] /\ \A l \in Keys : Shrinks(idle'[l], idle[l], clock)
  BY <1>1, <1>2, SameShrinks
<1>6. CASE t.got = {}
  <2> DEFINE x == [call[r] EXCEPT !.st = "missed"]
  <2>1. x \in Calls /\ x.st = "missed" /\ x.now = call[r].now /\ call' = [call EXCEPT ![r] = x]
    BY <1>3, <1>6 DEF Calls
  <2> HIDE DEF x
  <2>2. /\ Fewer(call', call) /\ call' \in [Callers -> Calls]
        /\ call'[r] = x /\ \A s \in Callers \ {r} : call'[s] = call[s]
    BY <2>1, LetsGo
  <2>3. GoodBuckets(idle', clock) /\ Places(idle', call') /\ AsOld(idle', idle, clock)
    BY <1>5, <2>2, ShrunkPlaces
  <2>4. Fits(call')
    BY <2>1, <2>2 DEF Fits
  <2> QED
    BY <1>1, <2>2, <2>3, <2>4 DEF CallerDone, Reachable
<1>7. CASE t.got # {}
  <2>1. PICK top : TookAt(top, t, Idles, idle[k], call[r].now, clock)
    BY <1>4, <1>7, Zenon
  <2> DEFINE e == idle[k][top]
  <2> DEFINE c == e.conn
  <2>2. top \in DOMAIN idle[k] /\ t.got = {e} /\ e \in Idles /\ c \in Conns /\ e.shared \in BOOLEAN
    <3>1. top \in DOMAIN idle[k] /\ t.got = {e}
      BY <2>1 DEF TookAt, Live
    <3>2. e \in Idles
      BY <3>1
    <3> QED
      BY <3>1, <3>2 DEF Idles
  <2> HIDE DEF e, c
  <2> DEFINE st == IF e.shared THEN "borrowing" ELSE "holding"
  <2> DEFINE x == [call[r] EXCEPT !.st = st, !.key = k, !.conn = c]
  <2>3. call' = [call EXCEPT ![r] = x]
    BY <1>3, <2>2 DEF c
  <2>4. x \in Calls /\ x.st = st /\ x.now = call[r].now /\ x.conn = c
    BY <2>2 DEF Calls
  <2> HIDE DEF x, st
  <2>5. /\ call' \in [Callers -> Calls] /\ call'[r] = x /\ \A s \in Callers \ {r} : call'[s] = call[s]
    BY <2>3, <2>4
  <2>6. GoodBuckets(idle', clock) /\ Places(idle', call) /\ AsOld(idle', idle, clock)
    <3>1. Fewer(call, call)
      BY DEF Fewer
    <3> QED
      BY <1>5, <3>1, ShrunkPlaces
  <2>7. \A s \in Callers : ~HoldsIn(call, s, c)
    BY <2>2 DEF Places, HeldIsOut, c, e
  <2>8. ASSUME e.shared PROVE Places(idle', call')
    <3>1. UsesIn(call', r, c)
      BY <2>4, <2>5, <2>8 DEF UsesIn, st
    <3>2. \A l \in Keys : \A i \in DOMAIN idle[l] : idle[l][i].conn = c => idle[l][i].shared
      BY <2>2, <2>8 DEF Places, OneSlot, c, e
    <3>3. \A l \in Keys : \A i \in DOMAIN idle'[l] : \E j \in DOMAIN idle[l] :
            idle'[l][i].conn = idle[l][j].conn /\ idle'[l][i].shared = idle[l][j].shared
      BY <1>5 DEF Shrinks
    <3>4. \A l \in Keys : \A i \in DOMAIN idle'[l] : idle'[l][i].conn = c => idle'[l][i].shared
      <4> SUFFICES ASSUME NEW l \in Keys, NEW i \in DOMAIN idle'[l], idle'[l][i].conn = c
                   PROVE  idle'[l][i].shared
        OBVIOUS
      <4>1. PICK j \in DOMAIN idle[l] :
              idle'[l][i].conn = idle[l][j].conn /\ idle'[l][i].shared = idle[l][j].shared
        BY <3>3
      <4>2. idle[l][j].shared
        BY <3>2, <4>1
      <4> QED
        BY <4>1, <4>2
    <3> QED
      BY <2>2, <2>5, <2>6, <2>7, <3>1, <3>4, NewUser
  <2>9. ASSUME ~e.shared PROVE Places(idle', call')
    <3>1. HoldsIn(call', r, c)
      BY <2>4, <2>5, <2>9 DEF HoldsIn, st
    <3>2. \A s \in Callers : ~UsesIn(call, s, c)
      BY <2>2, <2>9 DEF Places, UsedIsShared, c, e
    <3>3. ASSUME NEW l \in Keys, NEW i \in DOMAIN idle'[l], idle'[l][i].conn = c
          PROVE  FALSE
      <4>1. CASE l = k
        <5>1. idle'[l] = t.rest
          BY <1>1, <4>1
        <5>2. i \in 1..(top - 1) /\ t.rest[i] = idle[k][i]
          BY <2>1, <2>9, <3>3, <5>1 DEF TookAt, e
        <5>3. i \in DOMAIN idle[k] /\ i # top
          BY <2>2, <5>2
        <5> QED
          BY <2>2, <3>3, <5>1, <5>2, <5>3 DEF Places, OneSlot, c, e
      <4>2. CASE l # k
        <5>1. idle'[l] = idle[l]
          BY <1>1, <4>2
        <5> QED
          BY <2>2, <3>3, <4>2, <5>1 DEF Places, OneSlot, c, e
      <4> QED
        BY <4>1, <4>2
    <3> QED
      BY <2>2, <2>5, <2>6, <2>7, <3>1, <3>2, <3>3, NewHolder
  <2>10. Fits(call')
    BY <2>2, <2>4, <2>5 DEF Fits
  <2> QED
    BY <1>1, <2>5, <2>6, <2>8, <2>9, <2>10 DEF CallerDone, Reachable
<1> QED
  BY <1>6, <1>7

\* The idle connections close.
LEMMA EmptyIs ==
  ASSUME NEW B \in [Keys -> Seq(Idles)], NEW clk
  PROVE  Empty = [k \in Keys |-> Empty[k]] /\ \A k \in Keys : Shrinks(Empty[k], B[k], clk)
BY EmptyShrinks DEF Empty

\* A step that lets a caller out, leaving the buckets D behind, or none.
LEMMA LeavingDone ==
  ASSUME PoolInv, NEW r \in Callers, NEW D, Leaving(r, D), UNCHANGED <<clock, transport>>,
         call' = [call EXCEPT ![r] = NoCall], call[r].st # "out",
         GoodBuckets(D, clock), Places(D, call'), AsOld(D, idle, clock)
  PROVE  CallerDone
<1> USE Before, PoolConstants
<1>1. NoCall \in Calls /\ NoCall.st = "out" /\ NoCall.now = 0
  BY WithoutIs DEF NoCall
<1>2. /\ Fewer(call', call) /\ call' \in [Callers -> Calls]
      /\ call'[r] = NoCall /\ \A s \in Callers \ {r} : call'[s] = call[s]
  BY ZenonT(60), <1>1, LetsGo
<1>3. GoodBuckets(idle', clock) /\ Places(idle', call') /\ AsOld(idle', idle, clock)
  <2>1. CASE idle' = D
    BY <2>1
  <2>2. CASE idle' = Empty
    <3>1. Empty = [k \in Keys |-> Empty[k]] /\ \A k \in Keys : Shrinks(Empty[k], idle[k], clock)
      BY EmptyIs
    <3> QED
      BY <1>2, <2>2, <3>1, ShrunkPlaces
  <2> QED
    BY <2>1, <2>2 DEF Leaving
<1>4. Fits(call')
  BY <1>1, <1>2 DEF Fits
<1>5. ~transport => \A s \in Callers : call'[s].st \in {"out", "body"}
  BY <1>1, <1>2
<1>6. (~transport /\ \A s \in Callers : call'[s].st # "body") => idle' = Empty
  BY <1>2 DEF Leaving
<1>7. Reachable
  BY DEF Reachable
<1> QED
  BY <1>2, <1>3, <1>4, <1>5, <1>6, <1>7 DEF CallerDone

LEMMA AbandonDone ==
  ASSUME PoolInv, NEW r \in Callers, Abandon(r)
  PROVE  CallerDone
<1> USE Before, PoolConstants
<1>1. NoCall \in Calls /\ NoCall.st = "out"
  BY WithoutIs DEF NoCall
<1>2. call' = [call EXCEPT ![r] = NoCall] /\ call[r].st # "out" /\ Leaving(r, idle) /\ UNCHANGED <<clock, transport>>
  BY DEF Abandon
<1>3. Fewer(call', call)
  BY <1>1, <1>2, LetsGo
<1>4. GoodBuckets(idle, clock) /\ Places(idle, call') /\ AsOld(idle, idle, clock)
  BY <1>3, SameBuckets
<1> QED
  BY <1>2, <1>4, LeavingDone

LEMMA CheckInPutDone ==
  ASSUME PoolInv, NEW r \in Callers, CheckInPut(r)
  PROVE  CallerDone
<1> USE Before, PoolConstants
<1>1. NoCall \in Calls /\ NoCall.st = "out"
  BY WithoutIs DEF NoCall
<1> DEFINE k == call[r].key
<1> DEFINE c == call[r].conn
<1> DEFINE e == Idle(c, FALSE, Deadline(r), clock)
<1>2. k \in Keys
  BY DEF Calls
<1>3. /\ call' = [call EXCEPT ![r] = NoCall] /\ call[r].st = "body" /\ UNCHANGED <<clock, transport>>
      /\ Leaving(r, [idle EXCEPT ![k] = PutIn(idle[k], e)])
  BY DEF CheckInPut
<1>4. c \in Conns
  BY <1>3 DEF Fits
<1>5. e \in Idles /\ e.conn = c /\ e.shared = FALSE /\ e.since = clock /\ e.at <= clock + IdleTimeout
  BY <1>4, NewEntry
<1>6. HoldsIn(call, r, c)
  BY <1>3 DEF HoldsIn
<1> HIDE DEF e, k, c
<1>7. /\ Fewer(call', call) /\ call'[r] = NoCall /\ \A s \in Callers \ {r} : call'[s] = call[s]
  BY <1>1, <1>3, LetsGo
<1>8. GoodBuckets(idle, clock) /\ Places(idle, call')
  BY <1>7, SameBuckets
<1>9. \A l \in Keys : \A i \in DOMAIN idle[l] : idle[l][i].conn # c
  BY <1>4, <1>6 DEF Places, HeldIsOut
<1>10. \A s \in Callers : ~HoldsIn(call', s, c) /\ ~UsesIn(call', s, c)
  <2>1. ~HoldsIn(call', r, c) /\ ~UsesIn(call', r, c)
    BY <1>1, <1>7 DEF HoldsIn, UsesIn
  <2>2. \A s \in Callers \ {r} : ~HoldsIn(call, s, c) /\ ~UsesIn(call, s, c)
    BY <1>4, <1>6 DEF Places, OneHolder, HeldIsNotUsed
  <2> QED
    BY <1>4, <1>7, <2>1, <2>2 DEF Fewer
<1> DEFINE D == [idle EXCEPT ![k] = PutIn(idle[k], e)]
<1>11. GoodBuckets(D, clock) /\ Places(D, call') /\ AsOld(D, idle, clock)
  BY <1>2, <1>5, <1>8, <1>9, <1>10, PutPlaces
<1> HIDE DEF D
<1>12. Leaving(r, D) /\ call[r].st # "out"
  BY <1>3 DEF D
<1> QED
  BY <1>3, <1>11, <1>12, LeavingDone

LEMMA CallerStepDone ==
  ASSUME PoolInv, NEW r \in Callers, CallerStep(r)
  PROVE  CallerDone
BY EnterDone, TakeDone, SkipDone, StaleDone, UnsentDone, ConnectDone, ShareDone,
   AnswerDone, CheckInPutDone, AbandonDone DEF CallerStep

-----------------------------------------------------------------------------
(* The steps of the pool.                                                  *)

\* A caller's step keeps the invariant.
LEMMA CallersKeep ==
  ASSUME PoolInv, CallerDone
  PROVE  PoolInv'
<1> USE Before
<1>1. PoolTypeOK'
  BY DEF CallerDone, PoolTypeOK, GoodBuckets
<1>2. GoodBuckets(idle, clock)' /\ Places(idle, call)'
  BY DEF CallerDone
<1>3. Fits(call)'
  BY DEF CallerDone, Fits
<1>4. CallsInv'
  BY <1>3 DEF CallerDone, CallsInv, Reachable
<1> QED
  BY <1>1, <1>2, <1>4 DEF PoolInv

LEMMA DropKeeps ==
  ASSUME PoolInv, DropTransport
  PROVE  PoolInv' /\ AsOld(idle', idle, clock)
<1> USE Before
<1>1. /\ UNCHANGED <<clock, call>> /\ transport' = FALSE
      /\ \A r \in Callers : call[r].st \in {"out", "body"}
      /\ idle' = idle \/ idle' = Empty
      /\ (\A r \in Callers : call[r].st # "body") => idle' = Empty
  BY DEF DropTransport
<1>2. idle' = [k \in Keys |-> idle'[k]] /\ \A k \in Keys : Shrinks(idle'[k], idle[k], clock)
  BY <1>1, EmptyIs, SameShrinks
<1>3. Fewer(call, call)
  BY DEF Fewer
<1>4. GoodBuckets(idle', clock) /\ Places(idle', call) /\ AsOld(idle', idle, clock)
  BY <1>2, <1>3, ShrunkPlaces
<1>5. PoolTypeOK'
  BY <1>1, <1>4 DEF PoolTypeOK, GoodBuckets
<1>6. CallsInv'
  BY <1>1 DEF CallsInv, Reachable, Fits
<1> QED
  BY <1>1, <1>4, <1>5, <1>6 DEF PoolInv

LEMMA TickKeeps ==
  ASSUME PoolInv, Tick
  PROVE  PoolInv'
<1> USE Before, PoolConstants
<1>1. UNCHANGED <<idle, call, transport>> /\ clock' = clock + 1 /\ clock' \in 0..MaxTime
  BY DEF Tick
<1>2. PoolTypeOK'
  BY <1>1 DEF PoolInv, PoolTypeOK
<1>3. GoodBuckets(idle, clock)'
  <2>1. ASSUME NEW k \in Keys, NEW i \in DOMAIN idle[k]
        PROVE  idle[k][i].since <= clock + 1
    <3>1. idle[k][i].since \in 0..MaxTime
      <4>1. idle[k][i] \in Idles
        OBVIOUS
      <4> QED
        BY <4>1 DEF Idles
    <3>2. idle[k][i].since <= clock
      BY DEF GoodBuckets
    <3> QED
      BY <3>1, <3>2
  <2> QED
    BY <1>1, <2>1 DEF GoodBuckets
<1>4. Places(idle, call)'
  BY <1>1
<1>5. CallsInv'
  BY <1>1 DEF PoolInv, CallsInv, Fits, Reachable
<1> QED
  BY <1>2, <1>3, <1>4, <1>5 DEF PoolInv

\* Every reap keeps the entries that are live, as they are, and no other.
LEMMA ReapIs ==
  ASSUME NEW b \in Seq(Idles), NEW now
  PROVE  /\ \A i \in DOMAIN ReapIn(b, now) : \E j \in Live(b, now) : ReapIn(b, now)[i] = b[j]
         /\ \A j \in Live(b, now) : \E i \in DOMAIN ReapIn(b, now) : ReapIn(b, now)[i] = b[j]
         /\ Shrinks(ReapIn(b, now), b, now)
<1>1. Live(b, now) \subseteq DOMAIN b /\ Len(b) \in Nat /\ DOMAIN b = 1..Len(b)
  BY DEF Live
<1>2. KeptWell(Len(b), ReapIn(b, now), b, Live(b, now)) /\ Shrinks(ReapIn(b, now), b, now)
  BY <1>1, RetainIs, RetainShrinks DEF ReapIn
<1>3. \A j \in Live(b, now) : j <= Len(b)
  BY <1>1
<1> QED
  BY <1>2, <1>3 DEF KeptWell

LEMMA ReapKeeps ==
  ASSUME PoolInv, ReapAll, UNCHANGED <<clock, call, transport>>
  PROVE  PoolInv'
<1> USE Before
<1>1. idle' = [k \in Keys |-> ReapIn(idle[k], clock)]
  BY DEF ReapAll
<1>2. idle' = [k \in Keys |-> idle'[k]] /\ \A k \in Keys : Shrinks(idle'[k], idle[k], clock)
  BY <1>1, ReapIs
<1>3. Fewer(call, call)
  BY DEF Fewer
<1>4. GoodBuckets(idle', clock) /\ Places(idle', call)
  BY <1>2, <1>3, ShrunkPlaces
<1>5. PoolTypeOK'
  BY <1>4 DEF PoolTypeOK, GoodBuckets
<1>6. Fits(call)' /\ (~transport => \A r \in Callers : call[r].st \in {"out", "body"})'
  BY DEF Fits
<1>7. ~Reachable' => idle' = Empty
  <2> SUFFICES ASSUME ~Reachable PROVE idle' = Empty
    BY DEF Reachable
  <2>1. idle = Empty
    OBVIOUS
  <2>2. ASSUME NEW k \in Keys PROVE ReapIn(idle[k], clock) = <<>>
    <3>1. idle[k] = <<>> /\ Shrinks(ReapIn(idle[k], clock), idle[k], clock)
      BY <2>1, ReapIs DEF Empty
    <3> QED
      BY <3>1 DEF Shrinks
  <2> QED
    BY <1>1, <2>2 DEF Empty
<1> QED
  BY <1>4, <1>5, <1>6, <1>7 DEF PoolInv, CallsInv

LEMMA PoolStarts ==
  ASSUME PoolInit
  PROVE  PoolInv
<1> USE PoolConstants, PoolConfigIsNat
<1>1. NoCall \in Calls /\ NoCall.st = "out" /\ NoCall.now = 0
  BY WithoutIs DEF NoCall
<1>2. clock = 0 /\ idle = Empty /\ call = [r \in Callers |-> NoCall] /\ transport = TRUE
  BY DEF PoolInit
<1>3. \A r \in Callers : call[r].st = "out" /\ call[r].now = 0
  BY <1>1, <1>2
<1>4. idle \in [Keys -> Seq(Idles)] /\ \A k \in Keys : idle[k] = <<>>
  BY <1>2 DEF Empty
<1>5. PoolTypeOK
  BY <1>1, <1>2, <1>4 DEF PoolTypeOK
<1>6. GoodBuckets(idle, clock)
  BY <1>4 DEF GoodBuckets
<1>7. Places(idle, call)
  BY <1>3, <1>4 DEF Places, OneHolder, OneSlot, HeldIsOut, HeldIsNotUsed, UsedIsShared, HoldsIn, UsesIn
<1>8. CallsInv
  BY <1>2, <1>3 DEF CallsInv, Fits, Reachable
<1> QED
  BY <1>5, <1>6, <1>7, <1>8 DEF PoolInv

LEMMA PoolSteps ==
  ASSUME PoolInv, [PoolNext]_poolVars
  PROVE  PoolInv'
<1>1. ASSUME NEW r \in Callers, CallerStep(r) PROVE PoolInv'
  BY <1>1, CallerStepDone, CallersKeep
<1>2. CASE Reap
  BY <1>2, ReapKeeps DEF Reap
<1>3. CASE DropTransport
  BY <1>3, DropKeeps
<1>4. CASE Tick
  BY <1>4, TickKeeps
<1>5. CASE UNCHANGED poolVars
  BY <1>5 DEF PoolInv, PoolTypeOK, CallsInv, Fits, Reachable, poolVars
<1> QED
  BY <1>1, <1>2, <1>3, <1>4, <1>5 DEF PoolNext

\* The invariant says what Custody says, in cardinalities.
LEMMA InvIsCustody ==
  ASSUME PoolInv
  PROVE  PoolTypeOK /\ Custody /\ DeadlineNeverLate
<1> USE Before
<1>1. ASSUME NEW c \in Conns
      PROVE  /\ Cardinality(Holders(c)) + Cardinality(Slots(c)) <= 1
             /\ Holders(c) # {} => Users(c) = {}
  <2>1. \A r, s \in Holders(c) : r = s
    BY DEF Holders, Places, OneHolder, HoldsIn
  <2>2. \A x, y \in Slots(c) : x = y
    BY DEF Slots, Places, OneSlot
  <2>3. Holders(c) = {} \/ Slots(c) = {}
    BY DEF Holders, Slots, Places, HeldIsOut, HoldsIn
  <2>4. Holders(c) # {} => Users(c) = {}
    BY DEF Holders, Users, Places, HeldIsNotUsed, HoldsIn, UsesIn
  <2>5. ASSUME NEW T, \A x, y \in T : x = y PROVE Cardinality(T) \in {0, 1} /\ (T = {} => Cardinality(T) = 0)
    <3>1. CASE T = {}
      BY <3>1, FS_EmptySet
    <3>2. CASE T # {}
      <4>1. PICK x \in T : T = {x}
        BY <2>5, <3>2
      <4> QED
        BY <3>2, <4>1, FS_Singleton
    <3> QED
      BY <3>1, <3>2
  <2>6. /\ Cardinality(Holders(c)) \in {0, 1} /\ (Holders(c) = {} => Cardinality(Holders(c)) = 0)
        /\ Cardinality(Slots(c)) \in {0, 1} /\ (Slots(c) = {} => Cardinality(Slots(c)) = 0)
    BY <2>1, <2>2, <2>5
  <2> QED
    BY <2>3, <2>4, <2>6
<1>2. DeadlineNeverLate
  BY DEF DeadlineNeverLate, GoodBuckets, Entries
<1> QED
  BY <1>1, <1>2 DEF Custody, PoolInv

\* The pool as Native::run uses it, however stale a caller's clock reading: a
\* connection is in one slot or one caller's hands, a multiplexed one is nobody's
\* to check in, no bucket is over its bound and no deadline late (pool.rs, take,
\* put, forget_shared, reap and CheckIn).
THEOREM PoolKeepsCustody == PoolSpec => [](PoolTypeOK /\ Custody /\ DeadlineNeverLate)
<1>1. PoolInv /\ [PoolNext]_poolVars => PoolInv'
  BY PoolSteps
<1>2. PoolInit => PoolInv
  BY PoolStarts
<1>3. PoolInv => PoolTypeOK /\ Custody /\ DeadlineNeverLate
  BY InvIsCustody
<1> QED
  BY <1>1, <1>2, <1>3, PTL DEF PoolSpec

-----------------------------------------------------------------------------
(* A live entry leaves only for a reason.                                  *)

\* The step left a reason for every live entry that is gone.
Reasons ==
  \A k \in Keys : \A i \in DOMAIN idle[k] :
    LET e == idle[k][i] IN
    (e.at > clock /\ \A j \in DOMAIN idle'[k] : idle'[k][j].conn # e.conn) =>
      \/ \E r \in Callers : call'[r].st = "holding" /\ call'[r].conn = e.conn
      \/ e.shared /\ \E r \in Callers : call[r].conn = e.conn /\ Stale(r)
      \/ Len(idle[k]) = MaxIdle /\ Len(idle'[k]) = MaxIdle /\ e = Head(idle[k])
      \/ idle' = Empty /\ ~transport'

LEMMA SameReasons ==
  ASSUME idle' = idle
  PROVE  Reasons
BY DEF Reasons

LEMMA EmptyReasons ==
  ASSUME idle' = Empty, ~transport'
  PROVE  Reasons
BY DEF Reasons

\* put drops the oldest entry, and only at the bound.
LEMMA PutReasons ==
  ASSUME PoolInv, NEW k \in Keys, NEW e \in Idles, idle' = [idle EXCEPT ![k] = PutIn(@, e)]
  PROVE  Reasons
<1> USE Before, PoolConfigIsNat
<1> DEFINE p == PutIn(idle[k], e)
<1>1. idle[k] \in Seq(Idles) /\ Len(idle[k]) <= MaxIdle
  OBVIOUS
<1>2. /\ p \in Seq(Idles) /\ MaxIdle = 0 => p = idle[k]
      /\ MaxIdle # 0 => PutDone(p, idle[k], e)
  BY <1>1, PutIs, Zenon
<1>3. idle'[k] = p /\ \A l \in Keys \ {k} : idle'[l] = idle[l]
  OBVIOUS
<1> HIDE DEF p
<1> SUFFICES ASSUME NEW l \in Keys, NEW i \in DOMAIN idle[l],
                    \A j \in DOMAIN idle'[l] : idle'[l][j].conn # idle[l][i].conn
             PROVE  Len(idle[l]) = MaxIdle /\ Len(idle'[l]) = MaxIdle /\ idle[l][i] = Head(idle[l])
  BY DEF Reasons
<1>4. l = k /\ MaxIdle # 0
  BY <1>2, <1>3
<1>5. PutDone(p, idle[k], e) /\ \A j \in DOMAIN p : p[j].conn # idle[k][i].conn
  BY <1>2, <1>3, <1>4
<1>6. i \in DOMAIN idle[k] /\ i \in 1..Len(idle[k])
  BY <1>1, <1>4
<1>7. Len(idle[k]) = MaxIdle /\ Len(p) = MaxIdle /\ ~(i > 1)
  BY SMTT(30), <1>5, <1>6 DEF PutDone
<1>8. i = 1
  BY <1>6, <1>7
<1> QED
  BY <1>3, <1>4, <1>7, <1>8

LEMMA TakeReasons ==
  ASSUME PoolInv, NEW r \in Callers, NEW k \in Keys, Take(r, k)
  PROVE  Reasons
<1> USE Before
<1> DEFINE t == TakeFrom(idle[k], call[r].now, clock)
<1> DEFINE now == call[r].now
<1>1. /\ idle' = [idle EXCEPT ![k] = t.rest]
      /\ t.got # {} => \E e \in t.got :
           call' = [call EXCEPT ![r] =
             [call[r] EXCEPT !.st = IF e.shared THEN "borrowing" ELSE "holding",
                             !.key = k, !.conn = e.conn]]
  BY DEF Take
<1>2. idle'[k] = t.rest /\ \A l \in Keys \ {k} : idle'[l] = idle[l]
  BY <1>1
<1>3. Live(idle[k], now) # {} => \E top : TookAt(top, t, Idles, idle[k], now, clock)
  BY TakeIs, Zenon
<1> HIDE DEF t
<1> SUFFICES ASSUME NEW l \in Keys, NEW i \in DOMAIN idle[l], idle[l][i].at > clock,
                    \A j \in DOMAIN idle'[l] : idle'[l][j].conn # idle[l][i].conn
             PROVE  \E s \in Callers : call'[s].st = "holding" /\ call'[s].conn = idle[l][i].conn
  BY DEF Reasons
<1>4. l = k
  BY <1>2
<1>5. i \in Live(idle[k], now)
  <2>1. idle[k][i] \in Idles
    BY <1>4
  <2>2. idle[k][i].at \in 0..(MaxTime + IdleTimeout)
    BY <2>1 DEF Idles
  <2>3. idle[k][i].at > now
    BY <1>4, <2>2, PoolConfigIsNat, PoolConstants
  <2> QED
    BY <1>4, <2>3 DEF Live
<1>6. PICK top : TookAt(top, t, Idles, idle[k], now, clock)
  BY <1>3, <1>5, Zenon
<1>7. top \in DOMAIN idle[k] /\ i <= top /\ i \in 1..Len(idle[k]) /\ top \in 1..Len(idle[k])
  BY <1>4, <1>5, <1>6 DEF TookAt, Live
<1>8. idle[k][top] \in Idles
  BY <1>7
<1>9. \A j \in DOMAIN t.rest : t.rest[j].conn # idle[k][i].conn
  BY <1>2, <1>4
<1>10. i = top /\ ~idle[k][top].shared
  <2>1. idle[k][top].shared => i # top
    <3> SUFFICES ASSUME idle[k][top].shared PROVE i # top
      OBVIOUS
    <3>1. top \in DOMAIN t.rest /\ t.rest[top].conn = idle[k][top].conn
      BY <1>6, <1>7 DEF TookAt, Idle
    <3> QED
      BY <1>9, <3>1
  <2>2. i = top
    <3> SUFFICES ASSUME i # top PROVE FALSE
      OBVIOUS
    <3>1. i \in 1..(top - 1) /\ i \in 1..top
      BY <1>7
    <3>2. i \in DOMAIN t.rest /\ t.rest[i] = idle[k][i]
      BY <1>6, <3>1 DEF TookAt
    <3> QED
      BY <1>9, <3>2
  <2> QED
    BY <2>1, <2>2
<1>11. t.got = {idle[k][top]}
  BY <1>6 DEF TookAt
<1>12. call' = [call EXCEPT ![r] =
          [call[r] EXCEPT !.st = "holding", !.key = k, !.conn = idle[k][top].conn]]
  BY <1>1, <1>10, <1>11
<1>13. call'[r].st = "holding" /\ call'[r].conn = idle[k][top].conn
  BY <1>12 DEF Calls
<1> QED
  BY <1>4, <1>10, <1>13

LEMMA StaleReasons ==
  ASSUME PoolInv, NEW r \in Callers, Stale(r)
  PROVE  Reasons
<1> USE Before
<1> DEFINE k == call[r].key
<1> DEFINE c == call[r].conn
<1>0. k \in Keys
  BY DEF Calls
<1>1. idle' = idle \/ idle' = [idle EXCEPT ![k] = ForgetIn(idle[k], c)]
  BY DEF Stale
<1> HIDE DEF k
<1>2. CASE idle' = idle
  BY <1>2, SameReasons
<1>3. CASE idle' = [idle EXCEPT ![k] = ForgetIn(idle[k], c)]
  <2> SUFFICES ASSUME NEW l \in Keys, NEW i \in DOMAIN idle[l],
                      \A j \in DOMAIN idle'[l] : idle'[l][j].conn # idle[l][i].conn
               PROVE  idle[l][i].shared /\ c = idle[l][i].conn
    BY DEF Reasons
  <2> DEFINE keep == {j \in DOMAIN idle[k] : ~(idle[k][j].shared /\ idle[k][j].conn = c)}
  <2> DEFINE d == ForgetIn(idle[k], c)
  <2>1. idle[k] \in Seq(Idles) /\ keep \subseteq DOMAIN idle[k]
    BY <1>0
  <2>2. KeptWell(Len(idle[k]), d, idle[k], keep)
    BY <2>1, RetainIs DEF ForgetIn
  <2>3. l = k /\ idle'[k] = d
    BY <1>0, <1>3
  <2> HIDE DEF d
  <2>4. i \in DOMAIN idle[k] /\ i <= Len(idle[k])
    BY <2>1, <2>3
  <2>5. i \notin keep
    BY <2>2, <2>3, <2>4 DEF KeptWell
  <2> QED
    BY <2>3, <2>4, <2>5
<1> QED
  BY <1>1, <1>2, <1>3

LEMMA ReapReasons ==
  ASSUME PoolInv, ReapAll
  PROVE  Reasons
<1> USE Before
<1> SUFFICES ASSUME NEW k \in Keys, NEW i \in DOMAIN idle[k], idle[k][i].at > clock
             PROVE  \E j \in DOMAIN idle'[k] : idle'[k][j].conn = idle[k][i].conn
  BY DEF Reasons
<1>1. i \in Live(idle[k], clock)
  BY DEF Live
<1>2. idle'[k] = ReapIn(idle[k], clock)
  BY DEF ReapAll
<1> QED
  BY <1>1, <1>2, ReapIs

LEMMA LeavingReasons ==
  ASSUME PoolInv, NEW r \in Callers, NEW D, Leaving(r, D), UNCHANGED transport,
         idle' = D => Reasons
  PROVE  Reasons
<1>1. idle' = D \/ (idle' = Empty /\ ~transport')
  BY DEF Leaving
<1> QED
  BY <1>1, EmptyReasons

LEMMA CallerReasons ==
  ASSUME PoolInv, NEW r \in Callers, CallerStep(r)
  PROVE  Reasons
<1> USE Before
<1>1. ASSUME NEW k \in Keys, Take(r, k) PROVE Reasons
  BY <1>1, TakeReasons
<1>2. CASE Enter(r) \/ Skip(r) \/ Unsent(r) \/ Answer(r)
  BY <1>2, SameReasons DEF Enter, Skip, Unsent, Answer
<1>3. CASE Stale(r)
  BY <1>3, StaleReasons
<1>4. ASSUME NEW k \in Keys, NEW c \in Conns, Connect(r, k, c) PROVE Reasons
  BY <1>4, SameReasons DEF Connect
<1>5. ASSUME NEW k \in Keys, NEW c \in Conns, Share(r, k, c) PROVE Reasons
  <2>1. Idle(c, TRUE, Deadline(r), clock) \in Idles
    BY NewEntry
  <2> QED
    BY <1>5, <2>1, PutReasons DEF Share
<1>6. CASE CheckInPut(r)
  <2> DEFINE k == call[r].key
  <2> DEFINE e == Idle(call[r].conn, FALSE, Deadline(r), clock)
  <2> DEFINE D == [idle EXCEPT ![k] = PutIn(@, e)]
  <2>1. k \in Keys
    BY DEF Calls
  <2>2. call[r].conn \in Conns
    BY <1>6 DEF CheckInPut, Fits
  <2>3. e \in Idles
    BY <2>2, NewEntry
  <2>4. Leaving(r, D) /\ UNCHANGED transport
    BY <1>6 DEF CheckInPut
  <2> HIDE DEF e, k
  <2>5. idle' = D => Reasons
    BY <2>1, <2>3, PutReasons
  <2> HIDE DEF D
  <2> QED
    BY <2>4, <2>5, LeavingReasons
<1>7. CASE Abandon(r)
  <2>1. Leaving(r, idle) /\ UNCHANGED transport
    BY <1>7 DEF Abandon
  <2> QED
    BY <2>1, SameReasons, LeavingReasons
<1> QED
  BY <1>1, <1>2, <1>3, <1>4, <1>5, <1>6, <1>7 DEF CallerStep

LEMMA StepReasons ==
  ASSUME PoolInv, [PoolNext]_poolVars
  PROVE  Reasons
<1>1. ASSUME DropTransport PROVE Reasons
  BY <1>1, SameReasons, EmptyReasons DEF DropTransport
<1>2. CASE Tick \/ UNCHANGED poolVars
  BY <1>2, SameReasons DEF Tick, poolVars
<1>3. CASE Reap
  BY <1>3, ReapReasons DEF Reap
<1> QED
  BY <1>1, <1>2, <1>3, CallerReasons DEF PoolNext

\* The pool gives a live connection up only by handing it out, by forgetting a
\* dead handle, by making room at its bound, or with the pool itself (pool.rs,
\* take, forget_shared, put, reap): no reap and no check-in loses one.
THEOREM LiveEntriesAreKept == PoolSpec => KeepsLiveEntries
<1>1. PoolInv /\ [PoolNext]_poolVars => PoolInv'
  BY PoolSteps
<1>2. PoolInit => PoolInv
  BY PoolStarts
<1>3. PoolInv /\ [PoolNext]_poolVars => Reasons
  BY StepReasons
<1>4. Reasons =>
        \A k \in Keys : \A e \in Entries(idle[k]) :
          (e.at > clock /\ \A f \in Entries(idle'[k]) : f.conn # e.conn) =>
            \/ \E r \in Callers : call'[r].st = "holding" /\ call'[r].conn = e.conn
            \/ e.shared /\ \E r \in Callers : call[r].conn = e.conn /\ Stale(r)
            \/ Len(idle[k]) = MaxIdle /\ Len(idle'[k]) = MaxIdle /\ e = Head(idle[k])
            \/ idle' = Empty /\ ~transport'
  BY DEF Reasons, Entries
<1> QED
  BY <1>1, <1>2, <1>3, <1>4, PTL DEF PoolSpec, KeepsLiveEntries

------------------------------------------------------------------------------
(* The reaper's part of PoolSafe, from the pool's invariant and the bounds *)
(* on its sleep.                                                           *)

\* The task is never asleep past what a put made now would ask for.
SleepInv ==
  /\ reaper \in [st : {"asleep", "ended"}, at : 0..(MaxTime + Longest)]
  /\ reaper.st = "asleep" => reaper.at <= clock + Longest
  /\ LateByOneExchange
  /\ reaper.st = "ended" => ~Reachable

ReaperInv == PoolInv /\ SleepInv

LEMMA UpgradesIsReachable == Upgrades <=> Reachable
BY DEF Upgrades, Reachable

LEMMA ReaperArith ==
  /\ MinReapInterval = 1 /\ Longest \in Nat /\ IdleTimeout \in Nat /\ MaxTime \in Nat
  /\ Longest >= IdleTimeout /\ Longest >= 1
BY PoolConfigIsNat, PoolConstants DEF MinReapInterval, Longest, Larger

\* What callers put is as young as the clock, so the sleep is in time for it; a
\* pool nobody can reach has no callers left to put anything.
LEMMA OthersKeep ==
  ASSUME ReaperInv, UNCHANGED <<clock, reaper>>, PoolInv', AsOld(idle', idle, clock), Reachable
  PROVE  ReaperInv'
<1> USE Before, ReaperArith DEF ReaperInv
<1>1. LateByOneExchange'
  <2> SUFFICES ASSUME reaper.st = "asleep", NEW k \in Keys, NEW i \in DOMAIN idle'[k]
               PROVE  reaper.at <= idle'[k][i].since + Longest
    BY DEF LateByOneExchange, Entries
  <2>1. CASE idle'[k][i].since = clock
    BY <2>1 DEF ReaperInv, SleepInv
  <2>2. CASE \E j \in DOMAIN idle[k] : idle'[k][i].since = idle[k][j].since
    BY <2>2 DEF ReaperInv, SleepInv, LateByOneExchange, Entries
  <2> QED
    BY <2>1, <2>2 DEF AsOld
<1>2. reaper.st # "ended"
  BY DEF SleepInv
<1> QED
  BY <1>1, <1>2 DEF SleepInv

LEMMA PassesKeeps ==
  ASSUME ReaperInv, Passes
  PROVE  ReaperInv'
<1> USE Before, ReaperArith DEF ReaperInv
<1>1. PoolInv' /\ UNCHANGED <<idle, call, transport, reaper>> /\ clock' = clock + 1
  BY TickKeeps DEF Passes, Tick
<1>2. SleepInv'
  BY <1>1 DEF SleepInv, LateByOneExchange, Reachable
<1> QED
  BY <1>1, <1>2

\* The task sleeps until the earliest deadline left, or one idle timeout.
LEMMA WakeIs ==
  ASSUME NEW B \in [Keys -> Seq(Idles)]
  PROVE  \/ Deadlines(B) = {} /\ Wake(B) = Larger(1, IdleTimeout)
         \/ \E d \in Deadlines(B) :
              Wake(B) = Larger(1, d - clock) /\ \A e \in Deadlines(B) : d <= e
<1> USE ReaperArith
<1>1. Deadlines(B) \subseteq Nat
  <2>1. ASSUME NEW k \in Keys, NEW e \in Entries(B[k]) PROVE e.at \in Nat
    <3>1. PICK i \in DOMAIN B[k] : e = B[k][i]
      BY DEF Entries
    <3>2. B[k][i] \in Idles
      OBVIOUS
    <3>3. B[k][i].at \in 0..(MaxTime + IdleTimeout)
      BY <3>2 DEF Idles
    <3> QED
      BY <3>1, <3>3
  <2> QED
    BY <2>1 DEF Deadlines
<1>2. CASE Deadlines(B) = {}
  BY <1>2 DEF Wake
<1>3. CASE Deadlines(B) # {}
  <2> DEFINE d == CHOOSE x \in Deadlines(B) : \A e \in Deadlines(B) : x <= e
  <2>1. d \in Deadlines(B) /\ \A e \in Deadlines(B) : d <= e
    BY <1>1, <1>3, LeastNatural
  <2>2. Wake(B) = Larger(1, d - clock)
    BY <1>3 DEF Wake
  <2> QED
    BY <2>1, <2>2
<1> QED
  BY <1>2, <1>3

\* A reap sets the sleep to the earliest deadline left.
LEMMA SleepKeeps ==
  ASSUME ReaperInv, ReapAndSleep
  PROVE  ReaperInv'
<1> USE Before, ReaperArith DEF ReaperInv
<1>1. /\ UNCHANGED <<clock, call, transport>> /\ Upgrades /\ reaper.st = "asleep"
      /\ idle' = [k \in Keys |-> ReapIn(idle[k], clock)]
      /\ reaper' = [reaper EXCEPT !.at = clock + Wake(idle')]
  BY DEF ReapAndSleep, ReapAll
<1>2. PoolInv'
  BY ReapKeeps DEF ReapAndSleep
<1>3. ASSUME NEW k \in Keys, NEW i \in DOMAIN idle'[k]
      PROVE  LET e == idle'[k][i] IN
             /\ e.at \in Nat /\ e.since \in Nat /\ e.at > clock /\ e.since <= clock
             /\ e.at <= e.since + IdleTimeout
  <2>1. PICK j \in Live(idle[k], clock) : idle'[k][i] = idle[k][j]
    BY <1>1, ReapIs
  <2>2. j \in DOMAIN idle[k] /\ idle[k][j].at > clock
    BY DEF Live
  <2>3. idle[k][j] \in Idles
    BY <2>2
  <2>4. idle[k][j].at \in 0..(MaxTime + IdleTimeout) /\ idle[k][j].since \in 0..MaxTime
    BY <2>3 DEF Idles
  <2>5. idle[k][j].since <= clock /\ idle[k][j].at <= idle[k][j].since + IdleTimeout
    BY <2>2 DEF GoodBuckets
  <2> QED
    BY <2>1, <2>2, <2>4, <2>5
<1>4. ASSUME NEW d \in Deadlines(idle')
      PROVE  \E k \in Keys : \E i \in DOMAIN idle'[k] : d = idle'[k][i].at
  BY DEF Deadlines, Entries
<1> DEFINE w == Wake(idle')
<1>5. \/ Deadlines(idle') = {} /\ w = Larger(1, IdleTimeout)
      \/ \E d \in Deadlines(idle') :
           w = Larger(1, d - clock) /\ \A e \in Deadlines(idle') : d <= e
  BY <1>2, WakeIs DEF PoolInv, PoolTypeOK
<1> HIDE DEF w
<1>6. w \in Nat /\ w <= Longest
  <2>1. CASE w = Larger(1, IdleTimeout)
    BY <2>1 DEF Larger, Longest, MinReapInterval
  <2>2. CASE \E d \in Deadlines(idle') : w = Larger(1, d - clock)
    <3>1. PICK k \in Keys : \E i \in DOMAIN idle'[k] : w = Larger(1, idle'[k][i].at - clock)
      BY <1>4, <2>2
    <3>2. PICK i \in DOMAIN idle'[k] : w = Larger(1, idle'[k][i].at - clock)
      BY <3>1
    <3>3. /\ idle'[k][i].at \in Nat /\ idle'[k][i].since \in Nat /\ idle'[k][i].since <= clock
          /\ idle'[k][i].at <= idle'[k][i].since + IdleTimeout /\ clock \in Nat
      BY <1>3
    <3> QED
      BY ONLY <3>2, <3>3, ReaperArith DEF Larger
  <2> QED
    BY <1>5, <2>1, <2>2
<1>7. reaper' = [reaper EXCEPT !.at = clock + w]
  BY <1>1 DEF w
<1>8. /\ reaper' \in [st : {"asleep", "ended"}, at : 0..(MaxTime + Longest)]
       /\ reaper'.st = "asleep" /\ reaper'.at = clock + w
  <2>1. clock + w \in 0..(MaxTime + Longest)
    BY <1>6
  <2>2. reaper \in [st : {"asleep", "ended"}, at : 0..(MaxTime + Longest)]
    BY DEF SleepInv
  <2> QED
    BY <1>1, <1>7, <2>1, <2>2
<1>9. LateByOneExchange'
  <2> SUFFICES ASSUME NEW k \in Keys, NEW i \in DOMAIN idle'[k]
               PROVE  clock + w <= idle'[k][i].since + Longest
    BY <1>8 DEF LateByOneExchange, Entries
  <2>1. idle'[k][i].at \in Deadlines(idle')
    BY DEF Deadlines, Entries
  <2>2. PICK d \in Deadlines(idle') : w = Larger(1, d - clock) /\ d <= idle'[k][i].at
    BY <1>5, <2>1
  <2>3. d \in Nat
    BY SMTT(30), <1>3, <1>4
  <2>4. /\ idle'[k][i].at \in Nat /\ idle'[k][i].since \in Nat /\ idle'[k][i].at > clock
        /\ idle'[k][i].at <= idle'[k][i].since + IdleTimeout /\ clock \in Nat
    BY <1>3
  <2> QED
    BY ONLY <2>2, <2>3, <2>4, ReaperArith DEF Larger
<1>10. SleepInv'
  BY <1>1, <1>6, <1>8, <1>9 DEF SleepInv
<1> QED
  BY <1>2, <1>10

LEMMA EndKeeps ==
  ASSUME ReaperInv, EndReaper
  PROVE  ReaperInv'
<1> USE DEF ReaperInv
<1>1. UNCHANGED poolVars /\ ~Upgrades /\ reaper' = [reaper EXCEPT !.st = "ended"]
  BY DEF EndReaper
<1>2. PoolInv'
  BY <1>1, PoolSteps
<1>3. /\ reaper' \in [st : {"asleep", "ended"}, at : 0..(MaxTime + Longest)]
      /\ reaper'.st = "ended"
  BY <1>1 DEF SleepInv
<1>4. SleepInv'
  BY <1>1, <1>3, UpgradesIsReachable DEF SleepInv, LateByOneExchange, Reachable, poolVars
<1> QED
  BY <1>2, <1>4

LEMMA ReaperSteps ==
  ASSUME ReaperInv, [ReaperNext]_reaperVars
  PROVE  ReaperInv'
<1> USE DEF ReaperInv
<1>1. CASE Others
  <2>1. ASSUME NEW r \in Callers, CallerStep(r) PROVE ReaperInv'
    <3>1. CallerDone
      BY <2>1, CallerStepDone
    <3> QED
      BY <1>1, <3>1, CallersKeep, OthersKeep DEF Others, CallerDone
  <2>2. ASSUME DropTransport PROVE ReaperInv'
    BY <1>1, <2>2, DropKeeps, OthersKeep DEF Others, DropTransport, Reachable
  <2> QED
    BY <1>1, <2>1, <2>2 DEF Others
<1>2. CASE Passes
  BY <1>2, PassesKeeps
<1>3. CASE ReapAndSleep
  BY <1>3, SleepKeeps
<1>4. CASE EndReaper
  BY <1>4, EndKeeps
<1>5. CASE UNCHANGED reaperVars
  <2>1. PoolInv'
    BY <1>5, PoolSteps DEF reaperVars, poolVars
  <2> QED
    BY <1>5, <2>1 DEF SleepInv, LateByOneExchange, Reachable, reaperVars
<1> QED
  BY <1>1, <1>2, <1>3, <1>4, <1>5 DEF ReaperNext

LEMMA ReaperStarts ==
  ASSUME ReaperInit
  PROVE  ReaperInv
<1> USE ReaperArith
<1>1. PoolInv
  BY PoolStarts DEF ReaperInit
<1>2. /\ clock = 0 /\ idle = Empty /\ transport = TRUE
      /\ reaper = [st |-> "asleep", at |-> IdleTimeout]
  BY DEF ReaperInit, PoolInit
<1>3. IdleTimeout \in 0..(MaxTime + Longest)
  OBVIOUS
<1>4. SleepInv
  BY <1>2, <1>3 DEF SleepInv, LateByOneExchange, Entries, Empty
<1> QED
  BY <1>1, <1>4 DEF ReaperInv

\* The pool and its reaper are safe, whatever the callers do and however long
\* they keep a clock reading: a connection is in one place, no deadline is late,
\* the reaper sleeps past none by more than one exchange, and it ends only with
\* the pool (pool.rs, take, put, forget_shared, reap, CheckIn and Reaper::poll).
THEOREM PoolIsSafe == ReaperSpec => []PoolSafe
<1>1. ReaperInv /\ [ReaperNext]_reaperVars => ReaperInv'
  BY ReaperSteps
<1>2. ReaperInit => ReaperInv
  BY ReaperStarts
<1>3. ReaperInv => PoolSafe
  BY InvIsCustody, UpgradesIsReachable
     DEF ReaperInv, SleepInv, PoolInv, CallsInv, PoolSafe, ReaperTypeOK, StopsWithThePool
<1> QED
  BY <1>1, <1>2, <1>3, PTL DEF ReaperSpec

\* The reaper only ever does to the pool what the pool allows: every step of the
\* two is a step of the pool alone, so all that holds of every PoolSpec holds
\* here, KeepsLiveEntries with it.
THEOREM ReaperUsesPool == ReaperSpec => PoolSpec /\ KeepsLiveEntries
<1>1. ReaperInit => PoolInit
  BY DEF ReaperInit
<1>2. [ReaperNext]_reaperVars => [PoolNext]_poolVars
  BY DEF ReaperNext, reaperVars, poolVars, Others, Passes, ReapAndSleep, EndReaper, Reap, PoolNext
<1>3. ReaperSpec => PoolSpec
  BY <1>1, <1>2, PTL DEF ReaperSpec, PoolSpec
<1> QED
  BY <1>3, LiveEntriesAreKept, PTL
=============================================================================
