---------------------------- MODULE SeamProofs ----------------------------
(***************************************************************************)
(* The seams to a runtime and to TLS, proved for any number of tasks,      *)
(* sockets and records and any sizes of buffers: no socket of the embassy  *)
(* pool is lost or given twice, and no record is lost or repeated at a     *)
(* Pending of the transport under rustls.                                  *)
(* And WinHTTP, for any number of frames and sends: what is lent stays in  *)
(* place, and each completion reaches the half it is for.                  *)
(***************************************************************************)
EXTENDS Embassy, TlsStream, WinHttp, FiniteSetTheorems, SequenceTheorems, NaturalsInduction,
        WellFoundedInduction, TLAPS

------------------------------------------------------------------------------
(* Induction over an interval, and the existence of what a loop computes.  *)

\* A set that holds 0 and, with a number, the next, holds the interval.
LEMMA UpTo ==
  ASSUME NEW N \in Nat, NEW T, 0 \in T,
         \A n \in 0 .. N : n < N /\ n \in T => n + 1 \in T
  PROVE  \A n \in 0 .. N : n \in T
<1> DEFINE B == {n \in 0 .. N : n \notin T}
<1> SUFFICES ASSUME B # {} PROVE FALSE
  OBVIOUS
<1>0. B \subseteq Nat
  OBVIOUS
<1>1. PICK x \in B : \A y \in B : ~(<<y, x>> \in OpToRel(<, Nat))
  BY <1>0, NatLessThanWellFounded, WFMin, Zenon
<1>2. \A y \in B : ~(y < x)
  BY <1>0, <1>1 DEF OpToRel
<1>3. x \in 0 .. N /\ x # 0 /\ x - 1 \in 0 .. N /\ x - 1 < x /\ x - 1 < N
  OBVIOUS
<1>4. x - 1 \in T
  BY <1>2, <1>3
<1>5. (x - 1) + 1 = x
  BY <1>3
<1> QED
  BY <1>3, <1>4, <1>5

------------------------------------------------------------------------------
(* The members of a list that are in a set, in its order (Sockets, Datas).  *)

Filters(f, N, s, S) ==
  f = [i \in 0 .. N |-> IF i = 0 THEN <<>>
                        ELSE IF s[i] \in S THEN Append(f[i - 1], s[i]) ELSE f[i - 1]]

LEMMA FilterExists ==
  ASSUME NEW N \in Nat, NEW s, NEW S
  PROVE  \E f : Filters(f, N, s, S)
<1> DEFINE Runs(m, g) == DOMAIN g = 0 .. m /\ Filters(g, m, s, S)
           T == {m \in 0 .. N : \E g : Runs(m, g)}
<1>1. 0 \in T
  <2> DEFINE z == [i \in 0 .. 0 |-> <<>>]
  <2>1. Runs(0, z)
    BY DEF Filters
  <2>2. 0 \in 0 .. N
    OBVIOUS
  <2> HIDE DEF z, Runs
  <2> QED
    BY <2>1, <2>2
<1>2. ASSUME NEW m \in 0 .. N, m < N, m \in T PROVE m + 1 \in T
  <2>1. PICK g : Runs(m, g)
    BY <1>2
  <2> DEFINE next == IF s[m + 1] \in S THEN Append(g[m], s[m + 1]) ELSE g[m]
             h == [i \in 0 .. m + 1 |-> IF i = m + 1 THEN next ELSE g[i]]
  <2>2. m \in Nat /\ m + 1 \in 0 .. N /\ m + 1 # 0
    BY <1>2
  <2>3. ASSUME NEW n \in 0 .. m + 1
        PROVE  h[n] = IF n = 0 THEN <<>>
                      ELSE IF s[n] \in S THEN Append(h[n - 1], s[n]) ELSE h[n - 1]
    <3>1. CASE n = m + 1
      <4> HIDE DEF next
      <4>1. h[n - 1] = g[m] /\ h[n] = next
        BY <2>2, <3>1
      <4> QED
        BY <2>2, <3>1, <4>1 DEF next
    <3>2. CASE n = 0
      <4>1. h[0] = g[0] /\ g[0] = <<>>
        BY <2>1, <2>2 DEF Filters
      <4> QED
        BY <3>2, <4>1
    <3>3. CASE n \in 1 .. m
      <4>1. n - 1 \in 0 .. m /\ n \in 0 .. m /\ n # 0
        BY <2>2, <3>3
      <4>2. h[n] = g[n] /\ h[n - 1] = g[n - 1]
        BY <2>2, <4>1
      <4>3. g[n] = IF s[n] \in S THEN Append(g[n - 1], s[n]) ELSE g[n - 1]
        BY <2>1, <4>1 DEF Filters
      <4> HIDE DEF h
      <4> QED
        BY <4>1, <4>2, <4>3
    <3> QED
      BY <2>2, <3>1, <3>2, <3>3
  <2>4. h = [n \in 0 .. m + 1 |-> h[n]] /\ DOMAIN h = 0 .. m + 1
    OBVIOUS
  <2> HIDE DEF h
  <2>5. Runs(m + 1, h)
    BY <2>3, <2>4 DEF Filters
  <2> HIDE DEF Runs
  <2> QED
    BY <2>2, <2>5
<1> HIDE DEF T
<1>3. N \in T
  <2>1. \A n \in 0 .. N : n \in T
    BY <1>1, <1>2, UpTo
  <2> QED
    BY <2>1
<1> QED
  BY <1>3 DEF T

LEMMA FilterIs ==
  ASSUME NEW E, NEW s \in Seq(E), NEW S
  PROVE  \E f : /\ Sockets(s, S) = f[Len(s)] /\ f[0] = <<>>
                /\ \A i \in 1 .. Len(s) :
                     f[i] = IF s[i] \in S THEN Append(f[i - 1], s[i]) ELSE f[i - 1]
<1> DEFINE f == CHOOSE g : Filters(g, Len(s), s, S)
<1>1. Len(s) \in Nat
  OBVIOUS
<1>2. Filters(f, Len(s), s, S)
  BY <1>1, FilterExists
<1>3. Sockets(s, S) = f[Len(s)]
  BY DEF Sockets, Filters
<1> HIDE DEF f
<1>4. PICK n \in Nat : n = Len(s)
  BY <1>1
<1>5. f[0] = <<>>
  BY <1>2, <1>4 DEF Filters
<1>6. ASSUME NEW i \in 1 .. n
      PROVE  f[i] = IF s[i] \in S THEN Append(f[i - 1], s[i]) ELSE f[i - 1]
  <2>1. i \in 0 .. n /\ i # 0
    BY <1>4
  <2> QED
    BY <1>2, <1>4, <2>1 DEF Filters
<1> QED
  BY <1>3, <1>4, <1>5, <1>6

LEMMA DatasAreFiltered == \A s, max : Datas(s, max) = Sockets(s, 1 .. max)
  BY DEF Datas, Sockets

LEMMA FilterEmpty ==
  ASSUME NEW S
  PROVE  Sockets(<<>>, S) = <<>>
<1>1. \A e : e = <<>> => e \in Seq({}) /\ Len(e) = 0
  OBVIOUS
<1>2. PICK e : e = <<>>
  OBVIOUS
<1>3. e \in Seq({}) /\ Len(e) = 0
  BY <1>1, <1>2
<1>4. PICK N : N = {}
  OBVIOUS
<1>5. e \in Seq(N)
  BY <1>3, <1>4
<1>6. PICK f : Sockets(e, S) = f[Len(e)] /\ f[0] = <<>>
  BY <1>5, FilterIs
<1> QED
  BY <1>2, <1>3, <1>6

LEMMA FilterAppend ==
  ASSUME NEW E, NEW s \in Seq(E), NEW x \in E, NEW S
  PROVE  Sockets(Append(s, x), S) = IF x \in S THEN Append(Sockets(s, S), x) ELSE Sockets(s, S)
<1>1. PICK f : /\ Sockets(s, S) = f[Len(s)] /\ f[0] = <<>>
               /\ \A i \in 1 .. Len(s) :
                    f[i] = IF s[i] \in S THEN Append(f[i - 1], s[i]) ELSE f[i - 1]
  BY FilterIs
<1>2. PICK n \in Nat, q \in Seq(E) : n = Len(s) /\ q = Append(s, x)
  <2>1. Len(s) \in Nat /\ Append(s, x) \in Seq(E)
    OBVIOUS
  <2> QED
    BY <2>1
<1>3. Len(q) = n + 1 /\ q[n + 1] = x /\ \A i \in 1 .. n : q[i] = s[i]
  BY <1>2
<1>4. PICK g : /\ Sockets(q, S) = g[Len(q)] /\ g[0] = <<>>
               /\ \A i \in 1 .. Len(q) :
                    g[i] = IF q[i] \in S THEN Append(g[i - 1], q[i]) ELSE g[i - 1]
  BY FilterIs
<1> DEFINE T == {i \in 0 .. n : g[i] = f[i]}
<1>5. 0 \in T
  BY <1>1, <1>2, <1>4
<1>6. ASSUME NEW i \in 0 .. n, i < n, i \in T PROVE i + 1 \in T
  <2>1. i + 1 \in 1 .. n /\ i + 1 \in 1 .. n + 1 /\ (i + 1) - 1 = i /\ i + 1 \in 0 .. n
    BY <1>6
  <2>2. g[i] = f[i] /\ q[i + 1] = s[i + 1]
    BY <1>3, <1>6, <2>1
  <2>3. f[i + 1] = IF s[i + 1] \in S THEN Append(f[i], s[i + 1]) ELSE f[i]
    BY <1>1, <1>2, <2>1
  <2>4. g[i + 1] = IF q[i + 1] \in S THEN Append(g[i], q[i + 1]) ELSE g[i]
    BY <1>3, <1>4, <2>1
  <2> QED
    BY <2>1, <2>2, <2>3, <2>4
<1> HIDE DEF T
<1>7. \A i \in 0 .. n : i \in T
  BY <1>5, <1>6, UpTo
<1>8. g[n] = f[n]
  BY <1>7 DEF T
<1>9. g[n + 1] = IF x \in S THEN Append(g[n], x) ELSE g[n]
  BY <1>3, <1>4
<1> QED
  BY <1>1, <1>2, <1>3, <1>4, <1>8, <1>9

LEMMA PrefixEnds ==
  ASSUME NEW E, NEW s \in Seq(E)
  PROVE  SubSeq(s, 1, 0) = <<>> /\ SubSeq(s, 1, Len(s)) = s
  BY SubSeqEmpty, SubSeqFull

\* Any sequence is built of its prefixes.
LEMMA PrefixGrows ==
  ASSUME NEW E, NEW s \in Seq(E), NEW n \in 0 .. Len(s)
  PROVE  /\ SubSeq(s, 1, n) \in Seq(E) /\ Len(SubSeq(s, 1, n)) = n
         /\ \A i \in 1 .. n : SubSeq(s, 1, n)[i] = s[i]
         /\ n < Len(s) => s[n + 1] \in E /\ SubSeq(s, 1, n + 1) = Append(SubSeq(s, 1, n), s[n + 1])
<1>2. PICK N \in Nat : N = Len(s)
  OBVIOUS
<1>3. \A i \in 1 .. N : s[i] \in E
  BY <1>2
<1>4. ASSUME NEW k \in 0 .. N
      PROVE  /\ SubSeq(s, 1, k) \in Seq(E) /\ Len(SubSeq(s, 1, k)) = k
             /\ \A i \in 1 .. k : SubSeq(s, 1, k)[i] = s[i]
  <2>1. 1 \in Int /\ k \in Int /\ \A i \in 1 .. k : s[i] \in E
    BY <1>3
  <2>2. /\ SubSeq(s, 1, k) \in Seq(E)
        /\ Len(SubSeq(s, 1, k)) = IF 1 <= k THEN k - 1 + 1 ELSE 0
        /\ \A i \in 1 .. k - 1 + 1 : SubSeq(s, 1, k)[i] = s[1 + i - 1]
    BY <2>1, SubSeqProperties
  <2> QED
    BY <2>2
<1>5. ASSUME n < N
      PROVE  s[n + 1] \in E /\ SubSeq(s, 1, n + 1) = Append(SubSeq(s, 1, n), s[n + 1])
  <2>1. n + 1 \in 0 .. N /\ n + 1 \in 1 .. N
    BY <1>5
  <2>2. PICK p, q : p = SubSeq(s, 1, n) /\ q = SubSeq(s, 1, n + 1)
    OBVIOUS
  <2>02. p \in Seq(E) /\ q \in Seq(E)
    <3>1. n \in 0 .. N
      BY <1>2
    <3> QED
      BY <1>4, <2>1, <2>2, <3>1
  <2>3. Len(p) = n /\ Len(q) = n + 1 /\ \A i \in 1 .. n : p[i] = s[i]
    BY <1>2, <1>4, <2>1, <2>2
  <2>4. \A i \in 1 .. n + 1 : q[i] = s[i]
    BY <1>4, <2>1, <2>2
  <2>5. s[n + 1] \in E
    BY <1>3, <2>1
  <2>6. Append(p, s[n + 1]) \in Seq(E) /\ Len(Append(p, s[n + 1])) = n + 1
        /\ \A i \in 1 .. n + 1 : Append(p, s[n + 1])[i] = IF i = n + 1 THEN s[n + 1] ELSE p[i]
    BY <2>02, <2>3, <2>5
  <2>7. \A i \in 1 .. n + 1 : q[i] = Append(p, s[n + 1])[i]
    BY <2>3, <2>4, <2>6
  <2>8. q = Append(p, s[n + 1])
    BY <2>02, <2>3, <2>6, <2>7, SeqEqual
  <2> QED
    BY <2>2, <2>5, <2>8
<1> QED
  BY <1>2, <1>4, <1>5

\* What is left is what was in the set, once for every time it was listed.
LEMMA FilterHolds ==
  ASSUME NEW E, NEW s \in Seq(E), NEW S
  PROVE  /\ Sockets(s, S) \in Seq(E \cap S)
         /\ \A x : (\E i \in 1 .. Len(Sockets(s, S)) : Sockets(s, S)[i] = x)
                     <=> x \in S /\ \E i \in 1 .. Len(s) : s[i] = x
         /\ (\A i, j \in 1 .. Len(s) : s[i] = s[j] => i = j) =>
              \A i, j \in 1 .. Len(Sockets(s, S)) : Sockets(s, S)[i] = Sockets(s, S)[j] => i = j
         /\ s \in Seq(S) => Sockets(s, S) = s
<1>1. PICK f : /\ Sockets(s, S) = f[Len(s)] /\ f[0] = <<>>
               /\ \A i \in 1 .. Len(s) :
                    f[i] = IF s[i] \in S THEN Append(f[i - 1], s[i]) ELSE f[i - 1]
  BY FilterIs
<1>2. PICK N \in Nat : N = Len(s)
  OBVIOUS
<1> DEFINE Once(q) == \A i, j \in 1 .. Len(q) : q[i] = q[j] => i = j
           Fine(n, q) ==
             /\ q \in Seq(E \cap S)
             /\ \A x : (\E i \in 1 .. Len(q) : q[i] = x) <=> x \in S /\ \E i \in 1 .. n : s[i] = x
             /\ Once(s) => Once(q)
             /\ s \in Seq(S) => q = SubSeq(s, 1, n)
           T == {n \in 0 .. N : Fine(n, f[n])}
<1>3. 0 \in T
  <2>1. SubSeq(s, 1, 0) = <<>>
    BY PrefixEnds
  <2>2. /\ <<>> \in Seq(E \cap S) /\ Len(<<>>) = 0
        /\ ~ \E i \in 1 .. 0 : TRUE
    OBVIOUS
  <2>3. Fine(0, <<>>)
    BY <2>1, <2>2
  <2> HIDE DEF Fine
  <2> QED
    BY <1>1, <2>3
<1>4. ASSUME NEW n \in 0 .. N, n < N, n \in T PROVE n + 1 \in T
  <2>1. n + 1 \in 1 .. N /\ (n + 1) - 1 = n /\ n + 1 \in 0 .. N /\ s[n + 1] \in E
    BY SMTT(30), <1>2, <1>4
  <2>2. PICK q \in Seq(E \cap S), x \in E : q = f[n] /\ x = s[n + 1]
    BY <1>4, <2>1
  <2>3. PICK r : r = IF x \in S THEN Append(q, x) ELSE q
    OBVIOUS
  <2>4. f[n + 1] = r
    BY <1>1, <1>2, <2>1, <2>2, <2>3
  <2>5. Fine(n, q)
    BY <1>4, <2>2
  <2>6. \A y : (\E i \in 1 .. n + 1 : s[i] = y) <=> y = x \/ \E i \in 1 .. n : s[i] = y
    BY <2>2
  <2>7. r \in Seq(E \cap S)
    BY <2>2, <2>3
  <2>8. \A y : (\E i \in 1 .. Len(r) : r[i] = y)
                 <=> (y = x /\ x \in S) \/ \E i \in 1 .. Len(q) : q[i] = y
    <3>1. CASE x \in S
      <4>1. Len(r) = Len(q) + 1 /\ Len(q) \in Nat /\ r[Len(q) + 1] = x /\ \A i \in 1 .. Len(q) : r[i] = q[i]
        BY <2>2, <2>3, <3>1
      <4> QED
        BY <3>1, <4>1
    <3>2. CASE x \notin S
      BY <2>3, <3>2
    <3> QED
      BY <3>1, <3>2
  <2>9. Once(s) => Once(r)
    <3> SUFFICES ASSUME Once(s) PROVE Once(r)
      OBVIOUS
    <3>1. CASE x \in S
      <4>1. Len(r) = Len(q) + 1 /\ Len(q) \in Nat /\ r[Len(q) + 1] = x /\ \A i \in 1 .. Len(q) : r[i] = q[i]
        BY <2>2, <2>3, <3>1
      <4>2. ~ \E i \in 1 .. n : s[i] = x
        BY <1>2, <2>1, <2>2
      <4>3. ~ \E i \in 1 .. Len(q) : q[i] = x
        BY <2>5, <4>2
      <4>4. Once(q)
        BY <2>5
      <4> QED
        BY SMTT(30), <4>1, <4>3, <4>4
    <3>2. CASE x \notin S
      BY <2>3, <2>5, <3>2
    <3> QED
      BY <3>1, <3>2
  <2>10. s \in Seq(S) => r = SubSeq(s, 1, n + 1)
    <3> SUFFICES ASSUME s \in Seq(S) PROVE r = SubSeq(s, 1, n + 1)
      OBVIOUS
    <3>1. x \in S
      BY <1>2, <2>1, <2>2
    <3>2. SubSeq(s, 1, n + 1) = Append(SubSeq(s, 1, n), x)
      BY <1>2, <1>4, <2>2, PrefixGrows
    <3> QED
      BY <2>3, <2>5, <3>1, <3>2
  <2>11. Fine(n + 1, r)
    <3>1. \A y : (\E i \in 1 .. Len(r) : r[i] = y) <=> y \in S /\ \E i \in 1 .. n + 1 : s[i] = y
      BY <2>5, <2>6, <2>8
    <3> QED
      BY <2>7, <2>9, <2>10, <3>1
  <2> QED
    BY ZenonT(60), <2>1, <2>4, <2>11
<1> HIDE DEF T
<1>5. \A n \in 0 .. N : n \in T
  BY <1>3, <1>4, UpTo
<1>6. N \in T
  BY <1>5
<1>7. Fine(N, Sockets(s, S))
  BY <1>1, <1>2, <1>6 DEF T
<1>8. SubSeq(s, 1, N) = s
  BY <1>2, PrefixEnds
<1> QED
  BY <1>2, <1>7, <1>8

LEMMA FilterConcat ==
  ASSUME NEW E, NEW s \in Seq(E), NEW t \in Seq(E), NEW S
  PROVE  Sockets(s \o t, S) = Sockets(s, S) \o Sockets(t, S)
<1>1. PICK N \in Nat : N = Len(t)
  OBVIOUS
<1> DEFINE p(n) == SubSeq(t, 1, n)
           T == {n \in 0 .. N : Sockets(s \o p(n), S) = Sockets(s, S) \o Sockets(p(n), S)}
<1>2. PICK u \in Seq(E \cap S) : u = Sockets(s, S)
  BY FilterHolds
<1>3. 0 \in T
  <2>1. p(0) = <<>> /\ Sockets(<<>>, S) = <<>>
    BY PrefixEnds, FilterEmpty
  <2>2. s \o <<>> = s /\ u \o <<>> = u
    BY ConcatEmptySeq
  <2>3. Sockets(s \o p(0), S) = u
    BY <1>2, <2>1, <2>2
  <2> HIDE DEF p
  <2> QED
    BY <1>2, <2>1, <2>2, <2>3
<1>4. ASSUME NEW n \in 0 .. N, n < N, n \in T PROVE n + 1 \in T
  <2>1. PICK q \in Seq(E), x \in E : q = p(n) /\ x = t[n + 1] /\ p(n + 1) = Append(q, x)
    <3>1. n \in 0 .. Len(t) /\ n < Len(t)
      BY <1>1, <1>4
    <3>2. p(n) \in Seq(E) /\ t[n + 1] \in E /\ p(n + 1) = Append(p(n), t[n + 1])
      BY <3>1, PrefixGrows
    <3> HIDE DEF p
    <3> QED
      BY <3>2
  <2>2. PICK v \in Seq(E \cap S) : v = Sockets(q, S)
    BY FilterHolds
  <2>3. Sockets(s \o q, S) = u \o v
    BY <1>2, <1>4, <2>1, <2>2
  <2>4. s \o q \in Seq(E) /\ s \o Append(q, x) = Append(s \o q, x)
    BY SMTT(30)
  <2>5. u \o Append(v, x) = Append(u \o v, x)
    OBVIOUS
  <2>6. Sockets(Append(q, x), S) = IF x \in S THEN Append(v, x) ELSE v
    BY ZenonT(60), <2>2, FilterAppend
  <2>7. Sockets(Append(s \o q, x), S) = IF x \in S THEN Append(u \o v, x) ELSE u \o v
    BY ZenonT(60), <2>3, <2>4, FilterAppend
  <2>8. Sockets(s \o p(n + 1), S) = u \o Sockets(p(n + 1), S)
    BY <2>1, <2>4, <2>5, <2>6, <2>7
  <2> QED
    BY <1>2, <1>4, <2>8
<1> HIDE DEF T
<1>5. \A n \in 0 .. N : n \in T
  BY <1>3, <1>4, UpTo
<1>6. N \in T
  BY <1>5
<1>7. p(N) = t
  BY <1>1, PrefixEnds
<1> QED
  BY <1>6, <1>7 DEF T

------------------------------------------------------------------------------
(* The sockets of the embassy pool (hclient-rt-embassy sockets.rs).         *)

SlotsType ==
  [free : Seq(Slots), closing : Seq(Slots), waiters : SUBSET SocketTasks,
   tcp : [Slots -> TcpStates], timeout : [Slots -> BOOLEAN], lost : SUBSET Slots, cut : BOOLEAN]

SocketDial ==
  [pc : {"idle", "asks", "parked", "finishing", "connecting", "open", "refused"},
   slot : SUBSET Slots, woken : BOOLEAN]

Listed(q) == {q[i] : i \in 1 .. Len(q)}
Once(q) == \A i, j \in 1 .. Len(q) : q[i] = q[j] => i = j

\* Every socket of X, and no other, is in one place.
Housed(p, dl, X) ==
  /\ p \in SlotsType /\ dl \in [SocketTasks -> SocketDial] /\ X \subseteq Slots
  /\ Once(p.free) /\ Once(p.closing)
  /\ \A s \in Slots : s \in X <=> \/ s \in Listed(p.free) \/ s \in Listed(p.closing)
                                  \/ s \in p.lost \/ \E d \in SocketTasks : s \in dl[d].slot
  /\ \A s \in Listed(p.free) : s \notin Listed(p.closing) /\ s \notin p.lost
  /\ \A s \in Listed(p.closing) : s \notin p.lost
  /\ \A d \in SocketTasks : \A s \in dl[d].slot :
       /\ s \notin Listed(p.free) /\ s \notin Listed(p.closing) /\ s \notin p.lost
       /\ \A u \in dl[d].slot : u = s
       /\ \A e \in SocketTasks : s \in dl[e].slot => e = d

\* The pool with the sockets of X, the others being nowhere for the moment.
SocketsFit(p, dl, X) ==
  /\ Housed(p, dl, X)
  /\ \A d \in SocketTasks : dl[d].pc \in {"idle", "asks", "parked"} => dl[d].slot = {}
  /\ \A s \in Listed(p.free) : Finished(p.tcp[s])
  /\ \A s \in Listed(p.closing) : p.timeout[s]
  /\ \A d \in SocketTasks : dl[d].pc # "refused"
  /\ \A d \in SocketTasks : \A s \in dl[d].slot : p.timeout[s] <=> dl[d].pc = "finishing"
  /\ ~p.cut
  /\ \A d \in SocketTasks : dl[d].pc = "parked" /\ ~dl[d].woken =>
       d \in p.waiters /\ p.free = <<>> /\ p.closing = <<>>

SocketsInv == SocketsFit(slots, dial, Slots)

LEMMA NoDialIs == NoDial \in SocketDial /\ NoDial.pc = "idle" /\ NoDial.slot = {} /\ NoDial.woken = FALSE
  BY DEF NoDial, SocketDial

LEMMA EmptyListed == Listed(<<>>) = {} /\ Once(<<>>)
<1>1. \A q : q = <<>> => Len(q) = 0
  OBVIOUS
<1> QED
  BY <1>1 DEF Listed, Once

\* reclaim_finished moves what has finished and loses nothing.
LEMMA ReclaimIsSound ==
  ASSUME NEW p, SocketsFit(p, dial, Slots), NEW r, r = ReclaimFinished(p)
  PROVE  SocketsFit(r, dial, Slots)
<1>1. /\ p \in SlotsType /\ Once(p.free) /\ Once(p.closing)
      /\ p.free \in Seq(Slots) /\ p.closing \in Seq(Slots) /\ p.tcp \in [Slots -> TcpStates]
      /\ \A s \in Listed(p.free) : s \notin Listed(p.closing) /\ s \notin p.lost
  BY DEF SocketsFit, Housed, SlotsType
<1>2. PICK over : over = {s \in Slots : Finished(p.tcp[s])}
  OBVIOUS
<1>3. PICK c : c = p.closing
  OBVIOUS
<1>4. PICK a, b : a = Sockets(c, over) /\ b = Sockets(c, Slots \ over)
  OBVIOUS
<1>5. r = [p EXCEPT !.free = p.free \o a, !.closing = b]
  BY <1>2, <1>3, <1>4 DEF ReclaimFinished
<1>6. c \in Seq(Slots) /\ Once(c) /\ over \subseteq Slots
  BY <1>1, <1>2, <1>3
<1>7. /\ a \in Seq(Slots) /\ Once(a)
      /\ \A s : s \in Listed(a) <=> s \in over /\ s \in Listed(c)
  <2>1. /\ Sockets(c, over) \in Seq(Slots \cap over)
        /\ \A x : (\E i \in 1 .. Len(Sockets(c, over)) : Sockets(c, over)[i] = x)
                    <=> x \in over /\ \E i \in 1 .. Len(c) : c[i] = x
        /\ (\A i, j \in 1 .. Len(c) : c[i] = c[j] => i = j) =>
             \A i, j \in 1 .. Len(Sockets(c, over)) : Sockets(c, over)[i] = Sockets(c, over)[j] => i = j
    BY <1>6, FilterHolds
  <2>2. /\ a \in Seq(Slots \cap over)
        /\ \A x : (\E i \in 1 .. Len(a) : a[i] = x) <=> x \in over /\ \E i \in 1 .. Len(c) : c[i] = x
        /\ Once(c) => Once(a)
    BY <1>4, <2>1 DEF Once
  <2>3. a \in Seq(Slots)
    BY <2>2
  <2> QED
    BY <1>6, <2>2, <2>3 DEF Listed
<1>8. /\ b \in Seq(Slots) /\ Once(b)
      /\ \A s : s \in Listed(b) <=> s \in Slots \ over /\ s \in Listed(c)
  <2> DEFINE still == Slots \ over
  <2>1. /\ Sockets(c, still) \in Seq(Slots \cap still)
        /\ \A x : (\E i \in 1 .. Len(Sockets(c, still)) : Sockets(c, still)[i] = x)
                    <=> x \in still /\ \E i \in 1 .. Len(c) : c[i] = x
        /\ (\A i, j \in 1 .. Len(c) : c[i] = c[j] => i = j) =>
             \A i, j \in 1 .. Len(Sockets(c, still)) : Sockets(c, still)[i] = Sockets(c, still)[j] => i = j
    BY ZenonT(60), <1>6, FilterHolds
  <2>2. /\ b \in Seq(Slots \cap still)
        /\ \A x : (\E i \in 1 .. Len(b) : b[i] = x) <=> x \in still /\ \E i \in 1 .. Len(c) : c[i] = x
        /\ Once(c) => Once(b)
    BY <1>4, <2>1 DEF Once
  <2>3. b \in Seq(Slots)
    BY <2>2
  <2> QED
    BY <1>6, <2>2, <2>3 DEF Listed
<1>9. PICK f, g : f = p.free /\ g = f \o a
  OBVIOUS
<1>10. f \in Seq(Slots) /\ Once(f) /\ (\A s \in Listed(f) : s \notin Listed(c))
  BY <1>1, <1>3, <1>9
<1>11. g \in Seq(Slots) /\ Len(g) = Len(f) + Len(a)
       /\ \A i \in 1 .. Len(g) : g[i] = IF i <= Len(f) THEN f[i] ELSE a[i - Len(f)]
  BY <1>7, <1>9, <1>10, ConcatProperties
<1>12. PICK n, m \in Nat : n = Len(f) /\ m = Len(a)
  BY <1>7, <1>10
<1>13. \A s : s \in Listed(g) <=> s \in Listed(f) \/ s \in Listed(a)
  <2>1. ASSUME NEW i \in 1 .. n + m PROVE g[i] \in Listed(f) \/ g[i] \in Listed(a)
    <3>1. CASE i <= n
      BY <1>11, <1>12, <3>1 DEF Listed
    <3>2. CASE i > n
      <4>1. i - n \in 1 .. m /\ g[i] = a[i - n]
        BY <1>11, <1>12, <3>2
      <4> QED
        BY <1>12, <4>1 DEF Listed
    <3> QED
      BY <3>1, <3>2
  <2>2. ASSUME NEW i \in 1 .. n PROVE f[i] \in Listed(g)
    <3>1. i \in 1 .. Len(g) /\ g[i] = f[i]
      BY <1>11, <1>12
    <3> QED
      BY <3>1 DEF Listed
  <2>3. ASSUME NEW i \in 1 .. m PROVE a[i] \in Listed(g)
    <3>1. i + n \in 1 .. Len(g) /\ g[i + n] = a[i]
      BY <1>11, <1>12
    <3> QED
      BY <3>1 DEF Listed
  <2> QED
    BY <1>11, <1>12, <2>1, <2>2, <2>3 DEF Listed
<1>14. Once(g)
  <2> SUFFICES ASSUME NEW i \in 1 .. n + m, NEW j \in 1 .. n + m, g[i] = g[j] PROVE i = j
    BY <1>11, <1>12 DEF Once
  <2>1. ASSUME NEW k \in 1 .. n + m, k > n
        PROVE  k - n \in 1 .. m /\ g[k] = a[k - n] /\ g[k] \in Listed(a) /\ g[k] \notin Listed(f)
    <3>1. k - n \in 1 .. m /\ g[k] = a[k - n]
      BY SMTT(30), <1>11, <1>12, <2>1
    <3>2. g[k] \in Listed(a)
      BY <1>12, <3>1 DEF Listed
    <3> QED
      BY <1>7, <1>10, <3>1, <3>2
  <2>2. ASSUME NEW k \in 1 .. n + m, k <= n
        PROVE  k \in 1 .. n /\ g[k] = f[k] /\ g[k] \in Listed(f)
    <3>1. k \in 1 .. n /\ g[k] = f[k]
      BY <1>11, <1>12, <2>2
    <3> QED
      BY <1>12, <3>1 DEF Listed
  <2>3. CASE i > n /\ j > n
    <3>1. i - n = j - n
      BY SMTT(30), <1>7, <1>12, <2>1, <2>3 DEF Once
    <3> QED
      BY <3>1
  <2>4. CASE i <= n /\ j <= n
    BY <1>10, <1>12, <2>2, <2>4 DEF Once
  <2>5. CASE i <= n /\ j > n
    BY <2>1, <2>2, <2>5
  <2>6. CASE i > n /\ j <= n
    BY <2>1, <2>2, <2>6
  <2> QED
    BY <2>3, <2>4, <2>5, <2>6
<1>15. /\ r.free = g /\ r.closing = b /\ r.waiters = p.waiters /\ r.tcp = p.tcp /\ r.timeout = p.timeout
       /\ r.lost = p.lost /\ r.cut = p.cut /\ r \in SlotsType
  BY <1>1, <1>5, <1>8, <1>9, <1>11 DEF SlotsType
<1>16. Housed(r, dial, Slots)
  <2>1. \A s \in Slots : s \in Listed(g) \/ s \in Listed(b) <=> s \in Listed(f) \/ s \in Listed(c)
    BY <1>7, <1>8, <1>13
  <2>2. \A s : s \in Listed(g) \/ s \in Listed(b) => s \in Listed(f) \/ s \in Listed(c)
    BY <1>7, <1>8, <1>13
  <2>3. \A s \in Listed(g) : s \notin Listed(b)
    BY <1>7, <1>8, <1>10, <1>13
  <2>4. /\ dial \in [SocketTasks -> SocketDial]
        /\ \A s \in Slots : \/ s \in Listed(f) \/ s \in Listed(c)
                            \/ s \in p.lost \/ \E d \in SocketTasks : s \in dial[d].slot
        /\ \A s \in Listed(f) : s \notin p.lost
        /\ \A s \in Listed(c) : s \notin p.lost
        /\ \A d \in SocketTasks : \A s \in dial[d].slot :
             /\ s \notin Listed(f) /\ s \notin Listed(c) /\ s \notin p.lost
             /\ \A u \in dial[d].slot : u = s
             /\ \A e \in SocketTasks : s \in dial[e].slot => e = d
    BY <1>3, <1>9 DEF SocketsFit, Housed
  <2> QED
    BY <1>8, <1>14, <1>15, <2>1, <2>2, <2>3, <2>4 DEF Housed
<1>17. \A s \in Listed(g) : Finished(p.tcp[s])
  BY <1>2, <1>7, <1>9, <1>13 DEF SocketsFit
<1>18. \A s \in Listed(b) : p.timeout[s]
  BY <1>3, <1>8 DEF SocketsFit
<1>19. p.free = <<>> /\ p.closing = <<>> => g = <<>> /\ b = <<>>
  <2>1. ASSUME p.free = <<>>, p.closing = <<>> PROVE g = <<>> /\ b = <<>>
    <3>1. a = <<>> /\ b = <<>>
      BY <1>3, <1>4, <2>1, FilterEmpty
    <3>2. Len(f) = 0 /\ Len(a) = 0
      <4>1. \A q : q = <<>> => Len(q) = 0
        OBVIOUS
      <4> QED
        BY <1>9, <2>1, <3>1, <4>1
    <3> QED
      BY <1>11, <3>1, <3>2
  <2> QED
    BY <2>1
<1> QED
  BY <1>15, <1>16, <1>17, <1>18, <1>19 DEF SocketsFit

LEMMA LastTaken ==
  ASSUME NEW q \in Seq(Slots), q # <<>>, Once(q)
  PROVE  /\ Last(q) \in Slots /\ Last(q) \in Listed(q)
         /\ Front(q) \in Seq(Slots) /\ Once(Front(q))
         /\ \A s : s \in Listed(Front(q)) <=> s \in Listed(q) /\ s # Last(q)
<1>1. PICK n \in Nat : n = Len(q) /\ n >= 1
  OBVIOUS
<1>2. PICK f, z : f = Front(q) /\ z = Last(q)
  OBVIOUS
<1>3. z = q[n] /\ f = SubSeq(q, 1, n - 1)
  BY <1>1, <1>2 DEF Front, Last
<1>4. n - 1 \in 0 .. Len(q) /\ n \in 1 .. Len(q)
  BY <1>1
<1>5. f \in Seq(Slots) /\ Len(f) = n - 1 /\ \A i \in 1 .. n - 1 : f[i] = q[i]
  BY <1>3, <1>4, PrefixGrows
<1>6. z \in Slots /\ z \in Listed(q)
  BY <1>3, <1>4 DEF Listed
<1>7. Once(f)
  BY <1>1, <1>5 DEF Once
<1>8. ASSUME NEW s, s \in Listed(f) PROVE s \in Listed(q) /\ s # z
  <2>1. PICK i \in 1 .. n - 1 : s = q[i]
    BY <1>5, <1>8 DEF Listed
  <2>2. i \in 1 .. Len(q) /\ i # n
    BY <1>1, <2>1
  <2> QED
    BY <1>3, <1>4, <2>1, <2>2 DEF Listed, Once
<1>9. ASSUME NEW s \in Listed(q), s # z PROVE s \in Listed(f)
  <2>1. PICK i \in 1 .. n : s = q[i]
    BY <1>1, <1>9 DEF Listed
  <2>2. i \in 1 .. n - 1
    BY <1>1, <1>3, <1>9, <2>1
  <2> QED
    BY <1>5, <2>1, <2>2 DEF Listed
<1> QED
  BY <1>2, <1>5, <1>6, <1>7, <1>8, <1>9

\* acquire takes the last free socket ...
LEMMA FreeTaken ==
  ASSUME NEW p, SocketsFit(p, dial, Slots), p.free # <<>>,
         NEW s, s = Last(p.free), NEW r, r = [p EXCEPT !.free = Front(@)]
  PROVE  /\ s \in Slots /\ Finished(r.tcp[s]) /\ SocketsFit(r, dial, Slots \ {s})
<1>1. /\ p \in SlotsType /\ p.free \in Seq(Slots) /\ Once(p.free)
  BY DEF SocketsFit, Housed, SlotsType
<1>2. PICK f, g : f = p.free /\ g = Front(p.free)
  OBVIOUS
<1>3. /\ s \in Slots /\ s \in Listed(f) /\ g \in Seq(Slots) /\ Once(g)
      /\ \A u : u \in Listed(g) <=> u \in Listed(f) /\ u # s
  BY <1>1, <1>2, LastTaken
<1>4. /\ r.free = g /\ r.closing = p.closing /\ r.waiters = p.waiters /\ r.tcp = p.tcp
      /\ r.timeout = p.timeout /\ r.lost = p.lost /\ r.cut = p.cut /\ r \in SlotsType
  BY <1>1, <1>2, <1>3 DEF SlotsType
<1>5. /\ dial \in [SocketTasks -> SocketDial] /\ Once(p.closing)
      /\ \A u \in Slots : \/ u \in Listed(f) \/ u \in Listed(p.closing)
                          \/ u \in p.lost \/ \E d \in SocketTasks : u \in dial[d].slot
      /\ \A u \in Listed(f) : u \notin Listed(p.closing) /\ u \notin p.lost
      /\ \A u \in Listed(p.closing) : u \notin p.lost
      /\ \A d \in SocketTasks : \A u \in dial[d].slot :
           /\ u \notin Listed(f) /\ u \notin Listed(p.closing) /\ u \notin p.lost
           /\ \A v \in dial[d].slot : v = u
           /\ \A e \in SocketTasks : u \in dial[e].slot => e = d
  BY <1>2 DEF SocketsFit, Housed
<1>6. Housed(r, dial, Slots \ {s})
  <2>1. \A u \in Slots : u \in Slots \ {s}
          <=> \/ u \in Listed(g) \/ u \in Listed(p.closing)
              \/ u \in p.lost \/ \E d \in SocketTasks : u \in dial[d].slot
    BY <1>3, <1>5
  <2> QED
    BY <1>3, <1>4, <1>5, <2>1 DEF Housed
<1>7. Finished(r.tcp[s]) /\ \A u \in Listed(g) : Finished(r.tcp[u])
  BY <1>2, <1>3, <1>4 DEF SocketsFit
<1> QED
  BY <1>3, <1>4, <1>6, <1>7 DEF SocketsFit

\* ... or the last one that is closing.
LEMMA ClosingTaken ==
  ASSUME NEW p, SocketsFit(p, dial, Slots), p.closing # <<>>,
         NEW s, s = Last(p.closing), NEW r, r = [p EXCEPT !.closing = Front(@)]
  PROVE  /\ s \in Slots /\ r.timeout[s] /\ SocketsFit(r, dial, Slots \ {s})
<1>1. /\ p \in SlotsType /\ p.closing \in Seq(Slots) /\ Once(p.closing)
  BY DEF SocketsFit, Housed, SlotsType
<1>2. PICK f, g : f = p.closing /\ g = Front(p.closing)
  OBVIOUS
<1>3. /\ s \in Slots /\ s \in Listed(f) /\ g \in Seq(Slots) /\ Once(g)
      /\ \A u : u \in Listed(g) <=> u \in Listed(f) /\ u # s
  BY <1>1, <1>2, LastTaken
<1>4. /\ r.free = p.free /\ r.closing = g /\ r.waiters = p.waiters /\ r.tcp = p.tcp
      /\ r.timeout = p.timeout /\ r.lost = p.lost /\ r.cut = p.cut /\ r \in SlotsType
  BY <1>1, <1>2, <1>3 DEF SlotsType
<1>5. /\ dial \in [SocketTasks -> SocketDial] /\ Once(p.free)
      /\ \A u \in Slots : \/ u \in Listed(p.free) \/ u \in Listed(f)
                          \/ u \in p.lost \/ \E d \in SocketTasks : u \in dial[d].slot
      /\ \A u \in Listed(p.free) : u \notin Listed(f) /\ u \notin p.lost
      /\ \A u \in Listed(f) : u \notin p.lost
      /\ \A d \in SocketTasks : \A u \in dial[d].slot :
           /\ u \notin Listed(p.free) /\ u \notin Listed(f) /\ u \notin p.lost
           /\ \A v \in dial[d].slot : v = u
           /\ \A e \in SocketTasks : u \in dial[e].slot => e = d
  BY <1>2 DEF SocketsFit, Housed
<1>6. Housed(r, dial, Slots \ {s})
  <2>1. \A u \in Slots : u \in Slots \ {s}
          <=> \/ u \in Listed(p.free) \/ u \in Listed(g)
              \/ u \in p.lost \/ \E d \in SocketTasks : u \in dial[d].slot
    BY <1>3, <1>5
  <2> QED
    BY <1>3, <1>4, <1>5, <2>1 DEF Housed
<1>7. r.timeout[s] /\ \A u \in Listed(g) : r.timeout[u]
  BY <1>2, <1>3, <1>4 DEF SocketsFit
<1> QED
  BY <1>3, <1>4, <1>6, <1>7 DEF SocketsFit

\* A socket that is nowhere goes to a task that has none.
LEMMA SocketGiven ==
  ASSUME NEW p, NEW dl, NEW s \in Slots, NEW d \in SocketTasks,
         SocketsFit(p, dl, Slots \ {s}), dl[d].slot = {},
         NEW pc \in {"finishing", "connecting"},
         NEW q \in SocketDial, q = [pc |-> pc, slot |-> {s}, woken |-> FALSE],
         NEW r \in SlotsType, NEW state \in TcpStates, NEW timed \in BOOLEAN,
         r = [p EXCEPT !.timeout[s] = timed, !.tcp[s] = state],
         timed <=> pc = "finishing",
         NEW e, e = [dl EXCEPT ![d] = q]
  PROVE  SocketsFit(r, e, Slots)
<1>1. /\ p \in SlotsType /\ dl \in [SocketTasks -> SocketDial] /\ Once(p.free) /\ Once(p.closing)
      /\ p.tcp \in [Slots -> TcpStates] /\ p.timeout \in [Slots -> BOOLEAN]
      /\ \A u \in Slots : u # s <=> \/ u \in Listed(p.free) \/ u \in Listed(p.closing)
                                    \/ u \in p.lost \/ \E t \in SocketTasks : u \in dl[t].slot
      /\ \A u \in Listed(p.free) : u \notin Listed(p.closing) /\ u \notin p.lost
      /\ \A u \in Listed(p.closing) : u \notin p.lost
      /\ \A t \in SocketTasks : \A u \in dl[t].slot :
           /\ u \notin Listed(p.free) /\ u \notin Listed(p.closing) /\ u \notin p.lost
           /\ \A v \in dl[t].slot : v = u
           /\ \A x \in SocketTasks : u \in dl[x].slot => x = t
  BY DEF SocketsFit, Housed, SlotsType
<1>2. /\ r.free = p.free /\ r.closing = p.closing /\ r.waiters = p.waiters /\ r.lost = p.lost
      /\ r.cut = p.cut /\ r.timeout[s] = timed
      /\ \A u \in Slots : u # s => r.tcp[u] = p.tcp[u] /\ r.timeout[u] = p.timeout[u]
  BY <1>1 DEF SlotsType
<1>3. /\ e \in [SocketTasks -> SocketDial] /\ e[d] = q
      /\ \A t \in SocketTasks : t # d => e[t] = dl[t]
      /\ q.pc = pc /\ q.slot = {s}
  BY <1>1
<1>4. s \notin Listed(p.free) /\ s \notin Listed(p.closing) /\ s \notin p.lost
      /\ \A t \in SocketTasks : s \notin dl[t].slot
  BY <1>1
<1>5. \A t \in SocketTasks : \A u : u \in e[t].slot <=> u \in dl[t].slot \/ (t = d /\ u = s)
  BY <1>3
<1>6. Housed(r, e, Slots)
  <2>1. \A u \in Slots : \/ u \in Listed(p.free) \/ u \in Listed(p.closing)
                         \/ u \in p.lost \/ \E t \in SocketTasks : u \in e[t].slot
    <3> SUFFICES ASSUME NEW u \in Slots
                 PROVE  \/ u \in Listed(p.free) \/ u \in Listed(p.closing)
                        \/ u \in p.lost \/ \E t \in SocketTasks : u \in e[t].slot
      OBVIOUS
    <3>1. CASE u = s
      BY <1>5, <3>1
    <3>2. CASE u # s
      BY <1>1, <1>5, <3>2
    <3> QED
      BY <3>1, <3>2
  <2>2. \A t \in SocketTasks : \A u \in e[t].slot :
           /\ u \notin Listed(p.free) /\ u \notin Listed(p.closing) /\ u \notin p.lost
           /\ \A v \in e[t].slot : v = u
           /\ \A x \in SocketTasks : u \in e[x].slot => x = t
    <3> SUFFICES ASSUME NEW t \in SocketTasks, NEW u \in e[t].slot
                 PROVE  /\ u \notin Listed(p.free) /\ u \notin Listed(p.closing) /\ u \notin p.lost
                        /\ \A v \in e[t].slot : v = u
                        /\ \A x \in SocketTasks : u \in e[x].slot => x = t
      OBVIOUS
    <3>1. CASE t = d
      <4>1. u = s
        BY <1>3, <3>1
      <4> QED
        BY <1>3, <1>4, <1>5, <3>1, <4>1
    <3>2. CASE t # d
      <4>1. u \in dl[t].slot /\ u # s /\ e[t] = dl[t]
        BY <1>3, <1>4, <3>2
      <4> QED
        BY <1>1, <1>5, <4>1
    <3> QED
      BY <3>1, <3>2
  <2> QED
    BY <1>1, <1>2, <1>3, <2>1, <2>2 DEF Housed
<1>7. \A u \in Listed(p.free) : u \in Slots /\ u # s
  <2>1. Listed(p.free) \subseteq Slots
    BY <1>1 DEF Listed, SlotsType
  <2> QED
    BY <1>4, <2>1
<1>8. \A u \in Listed(p.closing) : u \in Slots /\ u # s
  <2>1. Listed(p.closing) \subseteq Slots
    BY <1>1 DEF Listed, SlotsType
  <2> QED
    BY <1>4, <2>1
<1>9. \A u \in Listed(r.free) : Finished(r.tcp[u])
  BY <1>2, <1>7 DEF SocketsFit
<1>10. \A u \in Listed(r.closing) : r.timeout[u]
  BY <1>2, <1>8 DEF SocketsFit
<1>11. \A t \in SocketTasks : \A u \in e[t].slot : r.timeout[u] <=> e[t].pc = "finishing"
  <2> SUFFICES ASSUME NEW t \in SocketTasks, NEW u \in e[t].slot
               PROVE  r.timeout[u] <=> e[t].pc = "finishing"
    OBVIOUS
  <2>1. CASE t = d
    BY <1>2, <1>3, <2>1
  <2>2. CASE t # d
    <3>1. e[t] = dl[t] /\ u \in dl[t].slot /\ u # s /\ u \in Slots
      BY <1>1, <1>3, <1>4, <2>2 DEF SocketDial
    <3> QED
      BY <1>2, <3>1 DEF SocketsFit
  <2> QED
    BY <2>1, <2>2
<1>12. \A t \in SocketTasks : e[t].pc = "parked" /\ ~e[t].woken =>
         t \in r.waiters /\ r.free = <<>> /\ r.closing = <<>>
  BY <1>2, <1>3 DEF SocketsFit
<1>13. \A t \in SocketTasks : /\ e[t].pc # "refused"
                              /\ e[t].pc \in {"idle", "asks", "parked"} => e[t].slot = {}
  BY <1>3 DEF SocketsFit
<1>14. ~r.cut
  BY <1>2 DEF SocketsFit
<1> QED
  BY <1>6, <1>9, <1>10, <1>11, <1>12, <1>13, <1>14 DEF SocketsFit

LEMMA TaskTaken ==
  ASSUME NEW p, SocketsFit(p, dial, Slots), NEW d \in SocketTasks, NEW s \in dial[d].slot,
         NEW dl, dl = [dial EXCEPT ![d] = NoDial]
  PROVE  s \in Slots /\ dl[d].slot = {} /\ SocketsFit(p, dl, Slots \ {s})
<1>1. /\ p \in SlotsType /\ dial \in [SocketTasks -> SocketDial] /\ Once(p.free) /\ Once(p.closing)
      /\ \A u \in Slots : \/ u \in Listed(p.free) \/ u \in Listed(p.closing)
                          \/ u \in p.lost \/ \E t \in SocketTasks : u \in dial[t].slot
      /\ \A u \in Listed(p.free) : u \notin Listed(p.closing) /\ u \notin p.lost
      /\ \A u \in Listed(p.closing) : u \notin p.lost
      /\ \A t \in SocketTasks : \A u \in dial[t].slot :
           /\ u \notin Listed(p.free) /\ u \notin Listed(p.closing) /\ u \notin p.lost
           /\ \A v \in dial[t].slot : v = u
           /\ \A x \in SocketTasks : u \in dial[x].slot => x = t
  BY DEF SocketsFit, Housed
<1>2. s \in Slots /\ dial[d].slot = {s}
  BY <1>1 DEF SocketDial
<1>3. /\ dl \in [SocketTasks -> SocketDial] /\ dl[d] = NoDial /\ dl[d].slot = {}
      /\ \A t \in SocketTasks : t # d => dl[t] = dial[t]
  BY <1>1, NoDialIs
<1>4. \A t \in SocketTasks : \A u : u \in dl[t].slot <=> u \in dial[t].slot /\ u # s
  BY <1>1, <1>2, <1>3
<1>5. Housed(p, dl, Slots \ {s})
  <2>1. \A u \in Slots : u \in Slots \ {s}
          <=> \/ u \in Listed(p.free) \/ u \in Listed(p.closing)
              \/ u \in p.lost \/ \E t \in SocketTasks : u \in dl[t].slot
    BY <1>1, <1>2, <1>4
  <2>2. \A t \in SocketTasks : \A u \in dl[t].slot :
           /\ u \notin Listed(p.free) /\ u \notin Listed(p.closing) /\ u \notin p.lost
           /\ \A v \in dl[t].slot : v = u
           /\ \A x \in SocketTasks : u \in dl[x].slot => x = t
    BY <1>1, <1>4
  <2> QED
    BY <1>1, <1>3, <2>1, <2>2 DEF Housed
<1>6. \A t \in SocketTasks : \A u \in dl[t].slot : p.timeout[u] <=> dl[t].pc = "finishing"
  BY <1>3 DEF SocketsFit
<1>7. \A t \in SocketTasks : dl[t].pc = "parked" /\ ~dl[t].woken =>
         t \in p.waiters /\ p.free = <<>> /\ p.closing = <<>>
  BY <1>3, NoDialIs DEF SocketsFit
<1>8. \A t \in SocketTasks : /\ dl[t].pc # "refused"
                             /\ dl[t].pc \in {"idle", "asks", "parked"} => dl[t].slot = {}
  BY <1>3, NoDialIs DEF SocketsFit
<1> QED
  BY <1>2, <1>3, <1>5, <1>6, <1>7, <1>8 DEF SocketsFit

LEMMA ConnectWithFits ==
  ASSUME NEW d \in SocketTasks, NEW p, NEW dl, NEW s \in Slots,
         SocketsFit(p, dl, Slots \ {s}), dl[d].slot = {}, Finished(p.tcp[s]),
         \A q : [dial EXCEPT ![d] = q] = [dl EXCEPT ![d] = q],
         ConnectWith(d, p, s)
  PROVE  SocketsInv'
<1>1. p \in SlotsType /\ p.tcp \in [Slots -> TcpStates] /\ p.timeout \in [Slots -> BOOLEAN]
  BY DEF SocketsFit, Housed, SlotsType
<1>2. PICK r : r = [p EXCEPT !.timeout[s] = FALSE, !.tcp[s] = "syn"]
  OBVIOUS
<1>3. PICK q : q = [pc |-> "connecting", slot |-> {s}, woken |-> FALSE]
  OBVIOUS
<1>4. PICK e : e = [dl EXCEPT ![d] = q]
  OBVIOUS
<1>5. slots' = r /\ dial' = [dial EXCEPT ![d] = q]
  BY <1>2, <1>3 DEF ConnectWith
<1>6. dial' = e
  BY <1>4, <1>5
<1>7. q \in SocketDial
  BY <1>3 DEF SocketDial
<1>8. r \in SlotsType
  <2>1. "syn" \in TcpStates
    BY DEF TcpStates
  <2> QED
    BY <1>1, <1>2, <2>1 DEF SlotsType
<1>9. SocketsFit(r, e, Slots)
  <2>1. "syn" \in TcpStates
    BY DEF TcpStates
  <2>2. PICK pc \in {"finishing", "connecting"} : pc = "connecting"
    OBVIOUS
  <2>3. q = [pc |-> pc, slot |-> {s}, woken |-> FALSE]
    BY <1>3, <2>2
  <2>4. PICK state \in TcpStates, timed \in BOOLEAN : state = "syn" /\ timed = FALSE
    BY <2>1
  <2>5. r = [p EXCEPT !.timeout[s] = timed, !.tcp[s] = state]
    BY <1>2, <2>4
  <2>6. timed <=> pc = "finishing"
    BY <2>2, <2>4
  <2> QED
    BY ZenonT(60), <1>4, <1>7, <1>8, <2>3, <2>5, <2>6, SocketGiven
<1> QED
  BY <1>5, <1>6, <1>9 DEF SocketsInv

\* finish_closing leaves a socket that connect accepts, and takes no FIN back.
LEMMA AbortedFits ==
  ASSUME NEW p, NEW dl, NEW s \in Slots, SocketsFit(p, dl, Slots \ {s}), Flushed(p, s),
         NEW r, r = AbortUnfinished(p, s)
  PROVE  SocketsFit(r, dl, Slots \ {s}) /\ Finished(r.tcp[s])
<1>1. /\ p \in SlotsType /\ p.tcp \in [Slots -> TcpStates] /\ Listed(p.free) \subseteq Slots
      /\ ~p.cut /\ s \notin Listed(p.free)
  BY DEF SocketsFit, Housed, SlotsType, Listed
<1>2. CASE Finished(p.tcp[s])
  BY <1>2 DEF AbortUnfinished
<1>3. CASE ~Finished(p.tcp[s])
  <2>1. r = [p EXCEPT !.tcp[s] = "closed", !.cut = FALSE]
    BY <1>1, <1>3 DEF AbortUnfinished, Flushed, SlotsType
  <2>2. "closed" \in TcpStates
    BY DEF TcpStates
  <2>3. /\ r \in SlotsType /\ r.free = p.free /\ r.closing = p.closing /\ r.waiters = p.waiters
        /\ r.timeout = p.timeout /\ r.lost = p.lost /\ r.cut = FALSE /\ r.tcp[s] = "closed"
        /\ \A u \in Slots : u # s => r.tcp[u] = p.tcp[u]
    <3>1. PICK t : t = [p.tcp EXCEPT ![s] = "closed"]
      OBVIOUS
    <3>2. t \in [Slots -> TcpStates] /\ t[s] = "closed" /\ \A u \in Slots : u # s => t[u] = p.tcp[u]
      BY <1>1, <2>2, <3>1
    <3>3. r = [p EXCEPT !.tcp = t, !.cut = FALSE]
      BY <1>1, <2>1, <3>1 DEF SlotsType
    <3> QED
      BY <1>1, <3>2, <3>3 DEF SlotsType
  <2>4. Housed(r, dl, Slots \ {s})
    BY <2>3 DEF SocketsFit, Housed
  <2>5. \A u \in Listed(r.free) : Finished(r.tcp[u])
    BY <1>1, <2>3 DEF SocketsFit
  <2>6. Finished(r.tcp[s])
    BY <2>3 DEF Finished
  <2> QED
    BY <2>3, <2>4, <2>5, <2>6 DEF SocketsFit
<1> QED
  BY <1>2, <1>3

LEMMA AcquireStep ==
  ASSUME SocketsInv, NEW d \in SocketTasks, Acquire(d)
  PROVE  SocketsInv'
<1>1. PICK was, p : was = slots /\ p = ReclaimFinished(was)
  OBVIOUS
<1>2. SocketsFit(p, dial, Slots)
  BY <1>1, ReclaimIsSound DEF SocketsInv
<1>3. /\ dial \in [SocketTasks -> SocketDial] /\ dial[d].slot = {} /\ p \in SlotsType
  BY <1>2 DEF Acquire, SocketsFit, Housed
<1>4. \A q : [dial EXCEPT ![d] = q] = [dial EXCEPT ![d] = q]
  OBVIOUS
<1>5. PICK dl : dl = dial
  OBVIOUS
<1>6. \/ p.free # <<>> /\ ConnectWith(d, [p EXCEPT !.free = Front(@)], Last(p.free))
      \/ /\ p.free = <<>> /\ p.closing # <<>>
         /\ LET s == Last(p.closing)
                out == [p EXCEPT !.closing = Front(@)]
            IN  IF Flushed(out, s)
                THEN ConnectWith(d, AbortUnfinished(out, s), s)
                ELSE /\ slots' = out
                     /\ dial' = [dial EXCEPT ![d] =
                          [pc |-> "finishing", slot |-> {s}, woken |-> FALSE]]
      \/ /\ p.free = <<>> /\ p.closing = <<>>
         /\ slots' = [p EXCEPT !.waiters = @ \cup {d}]
         /\ dial' = [dial EXCEPT ![d].pc = "parked", ![d].woken = FALSE]
  BY <1>1 DEF Acquire
<1>7. CASE p.free # <<>> /\ ConnectWith(d, [p EXCEPT !.free = Front(@)], Last(p.free))
  <2>1. PICK s, r : s = Last(p.free) /\ r = [p EXCEPT !.free = Front(@)]
    OBVIOUS
  <2>2. s \in Slots /\ Finished(r.tcp[s]) /\ SocketsFit(r, dial, Slots \ {s})
    BY <1>2, <1>7, <2>1, FreeTaken
  <2>3. ConnectWith(d, r, s)
    BY <1>7, <2>1
  <2>4. SocketsFit(r, dl, Slots \ {s}) /\ dl[d].slot = {}
        /\ \A q : [dial EXCEPT ![d] = q] = [dl EXCEPT ![d] = q]
    BY <1>3, <1>5, <2>2
  <2> QED
    BY <2>2, <2>3, <2>4, ConnectWithFits
<1>8. CASE /\ p.free = <<>> /\ p.closing # <<>>
           /\ LET s == Last(p.closing)
                  out == [p EXCEPT !.closing = Front(@)]
              IN  IF Flushed(out, s)
                  THEN ConnectWith(d, AbortUnfinished(out, s), s)
                  ELSE /\ slots' = out
                       /\ dial' = [dial EXCEPT ![d] =
                            [pc |-> "finishing", slot |-> {s}, woken |-> FALSE]]
  <2>1. PICK s, out : s = Last(p.closing) /\ out = [p EXCEPT !.closing = Front(@)]
    OBVIOUS
  <2>2. s \in Slots /\ out.timeout[s] /\ SocketsFit(out, dial, Slots \ {s})
    BY <1>2, <1>8, <2>1, ClosingTaken
  <2>3. SocketsFit(out, dl, Slots \ {s}) /\ dl[d].slot = {}
        /\ \A q : [dial EXCEPT ![d] = q] = [dl EXCEPT ![d] = q]
    BY <1>3, <1>5, <2>2
  <2>4. CASE Flushed(out, s)
    <3>1. PICK r : r = AbortUnfinished(out, s)
      OBVIOUS
    <3>2. SocketsFit(r, dl, Slots \ {s}) /\ Finished(r.tcp[s])
      BY <2>2, <2>3, <2>4, <3>1, AbortedFits
    <3>3. ConnectWith(d, r, s)
      BY <1>8, <2>1, <2>4, <3>1
    <3> QED
      BY <2>2, <2>3, <3>2, <3>3, ConnectWithFits
  <2>5. CASE ~Flushed(out, s)
    <3>1. PICK q : q = [pc |-> "finishing", slot |-> {s}, woken |-> FALSE]
      OBVIOUS
    <3>2. PICK e : e = [dl EXCEPT ![d] = q]
      OBVIOUS
    <3>3. slots' = out /\ dial' = e
      BY <1>8, <2>1, <2>3, <2>5, <3>1, <3>2
    <3>4. /\ out \in SlotsType /\ out.tcp \in [Slots -> TcpStates]
          /\ out.timeout \in [Slots -> BOOLEAN]
      BY <2>2 DEF SocketsFit, Housed, SlotsType
    <3>5. PICK pc \in {"finishing", "connecting"}, state \in TcpStates, timed \in BOOLEAN :
            pc = "finishing" /\ state = out.tcp[s] /\ timed = TRUE
      BY <2>2, <3>4
    <3>6. out = [out EXCEPT !.timeout[s] = timed, !.tcp[s] = state]
      BY <2>2, <3>4, <3>5 DEF SlotsType
    <3>7. q \in SocketDial /\ q = [pc |-> pc, slot |-> {s}, woken |-> FALSE]
      BY <2>2, <3>1, <3>5 DEF SocketDial
    <3>8. SocketsFit(out, e, Slots)
      <4>1. timed <=> pc = "finishing"
        BY <3>5
      <4>2. PICK r \in SlotsType : r = out
        BY <3>4
      <4>3. r = [out EXCEPT !.timeout[s] = timed, !.tcp[s] = state]
        BY <3>6, <4>2
      <4>4. s \in Slots /\ SocketsFit(out, dl, Slots \ {s}) /\ dl[d].slot = {}
        BY <2>2, <2>3
      <4>5. pc \in {"finishing", "connecting"} /\ state \in TcpStates /\ timed \in BOOLEAN
        BY <3>5
      <4>6. SocketsFit(r, e, Slots)
        BY <3>2, <3>7, <4>1, <4>3, <4>4, <4>5, SocketGiven
      <4> QED
        BY <4>2, <4>6
    <3> QED
      BY <3>3, <3>8 DEF SocketsInv
  <2> QED
    BY <2>4, <2>5
<1>9. CASE /\ p.free = <<>> /\ p.closing = <<>>
           /\ slots' = [p EXCEPT !.waiters = @ \cup {d}]
           /\ dial' = [dial EXCEPT ![d].pc = "parked", ![d].woken = FALSE]
  <2>1. PICK r : r = [p EXCEPT !.waiters = p.waiters \cup {d}]
    OBVIOUS
  <2>2. /\ r \in SlotsType /\ r.free = p.free /\ r.closing = p.closing /\ r.tcp = p.tcp
        /\ r.timeout = p.timeout /\ r.lost = p.lost /\ r.cut = p.cut /\ r.waiters = p.waiters \cup {d}
    BY <1>3, <2>1 DEF SlotsType
  <2>3. PICK e : e = [dial EXCEPT ![d].pc = "parked", ![d].woken = FALSE]
    OBVIOUS
  <2>4. /\ e \in [SocketTasks -> SocketDial]
        /\ \A t \in SocketTasks : e[t].slot = dial[t].slot
        /\ \A t \in SocketTasks : t # d => e[t] = dial[t]
        /\ e[d].pc = "parked" /\ e[d].slot = {}
    BY <1>3, <2>3 DEF SocketDial
  <2>5. Housed(r, e, Slots)
    BY <1>2, <2>2, <2>4 DEF SocketsFit, Housed
  <2>6. SocketsFit(r, e, Slots)
    BY <1>2, <1>9, <2>2, <2>4, <2>5 DEF SocketsFit
  <2> QED
    BY <1>9, <2>1, <2>3, <2>6 DEF SocketsInv
<1> QED
  BY <1>6, <1>7, <1>8, <1>9

LEMMA FinishClosingStep ==
  ASSUME SocketsInv, NEW d \in SocketTasks, FinishClosing(d)
  PROVE  SocketsInv'
<1>1. PICK p, dl : p = slots /\ dl = [dial EXCEPT ![d] = NoDial]
  OBVIOUS
<1>2. PICK s \in dial[d].slot : Flushed(p, s) /\ ConnectWith(d, AbortUnfinished(p, s), s)
  BY <1>1 DEF FinishClosing
<1>3. SocketsFit(p, dial, Slots) /\ dial \in [SocketTasks -> SocketDial]
  BY <1>1 DEF SocketsInv, SocketsFit, Housed
<1>4. s \in Slots /\ dl[d].slot = {} /\ SocketsFit(p, dl, Slots \ {s})
  BY <1>1, <1>2, <1>3, TaskTaken
<1>5. PICK r : r = AbortUnfinished(p, s)
  OBVIOUS
<1>6. SocketsFit(r, dl, Slots \ {s}) /\ Finished(r.tcp[s])
  BY <1>2, <1>4, <1>5, AbortedFits
<1>7. ConnectWith(d, r, s)
  BY <1>2, <1>5
<1>8. \A q : [dial EXCEPT ![d] = q] = [dl EXCEPT ![d] = q]
  BY <1>1, <1>3
<1> QED
  BY <1>4, <1>6, <1>7, <1>8, ConnectWithFits

\* A dropped socket goes to the closing list with its timeout on, and everyone
\* parked is woken.
LEMMA ReleaseStep ==
  ASSUME SocketsInv, NEW d \in SocketTasks, ReleaseSocket(d)
  PROVE  SocketsInv'
<1>1. PICK p, dl : p = slots /\ dl = [dial EXCEPT ![d] = NoDial]
  OBVIOUS
<1>2. PICK s \in dial[d].slot :
        slots' = [p EXCEPT !.timeout[s] = TRUE, !.tcp[s] = ClosedTcp(@),
                           !.closing = Append(@, s), !.waiters = {}]
  BY <1>1 DEF ReleaseSocket
<1>3. SocketsFit(p, dial, Slots) /\ dial \in [SocketTasks -> SocketDial]
  BY <1>1 DEF SocketsInv, SocketsFit, Housed
<1>4. s \in Slots /\ dl[d].slot = {} /\ SocketsFit(p, dl, Slots \ {s})
  BY <1>1, <1>3, TaskTaken
<1>5. PICK e : e = [t \in SocketTasks |-> IF t = d THEN NoDial
                    ELSE [dial[t] EXCEPT !.woken = @ \/ t \in p.waiters]]
  OBVIOUS
<1>6. dial' = e
  BY <1>1, <1>5 DEF ReleaseSocket
<1>7. /\ e \in [SocketTasks -> SocketDial] /\ e[d] = NoDial
      /\ \A t \in SocketTasks : t # d =>
           /\ e[t].slot = dial[t].slot /\ e[t].pc = dial[t].pc
           /\ e[t].woken = (dial[t].woken \/ t \in p.waiters)
  <2>1. e[d] = NoDial /\ DOMAIN e = SocketTasks /\ e = [t \in SocketTasks |-> e[t]]
    BY <1>5
  <2>2. ASSUME NEW t \in SocketTasks, t # d
        PROVE  /\ e[t] \in SocketDial
               /\ e[t].slot = dial[t].slot /\ e[t].pc = dial[t].pc
               /\ e[t].woken = (dial[t].woken \/ t \in p.waiters)
    <3>1. PICK b \in BOOLEAN : b = (dial[t].woken \/ t \in p.waiters)
      <4>1. (dial[t].woken \/ t \in p.waiters) \in BOOLEAN
        OBVIOUS
      <4> QED
        BY <4>1
    <3>2. e[t] = [dial[t] EXCEPT !.woken = b]
      BY <1>5, <2>2, <3>1
    <3>3. dial[t] \in SocketDial
      BY <1>3
    <3> QED
      BY <3>1, <3>2, <3>3 DEF SocketDial
  <2> QED
    BY <2>1, <2>2, NoDialIs
<1>8. dl \in [SocketTasks -> SocketDial] /\ \A t \in SocketTasks : e[t].slot = dl[t].slot
  BY <1>1, <1>3, <1>7, NoDialIs
<1>9. /\ p \in SlotsType /\ p.tcp \in [Slots -> TcpStates] /\ p.timeout \in [Slots -> BOOLEAN]
      /\ p.closing \in Seq(Slots) /\ p.free \in Seq(Slots) /\ Once(p.closing)
      /\ Listed(p.free) \subseteq Slots /\ Listed(p.closing) \subseteq Slots
      /\ s \notin Listed(p.free) /\ s \notin Listed(p.closing) /\ s \notin p.lost
      /\ \A t \in SocketTasks : s \notin dl[t].slot
  BY <1>4 DEF SocketsFit, Housed, SlotsType, Listed
<1>10. PICK c, g : c = p.closing /\ g = Append(c, s)
  OBVIOUS
<1>11. g \in Seq(Slots) /\ Once(g) /\ \A u : u \in Listed(g) <=> u \in Listed(c) \/ u = s
  <2>1. PICK n \in Nat : n = Len(c)
    BY <1>9, <1>10
  <2>2. g \in Seq(Slots) /\ Len(g) = n + 1 /\ g[n + 1] = s /\ \A i \in 1 .. n : g[i] = c[i]
    BY <1>4, <1>9, <1>10, <2>1
  <2>3. \A i \in 1 .. n : g[i] # s
    BY <1>9, <1>10, <2>1, <2>2 DEF Listed
  <2>4. Once(g)
    BY <1>9, <1>10, <2>1, <2>2, <2>3 DEF Once
  <2>5. ASSUME NEW u, u \in Listed(g) PROVE u \in Listed(c) \/ u = s
    BY <2>1, <2>2, <2>5 DEF Listed
  <2>6. ASSUME NEW u, u \in Listed(c) \/ u = s PROVE u \in Listed(g)
    <3>1. CASE u = s
      <4>1. n + 1 \in 1 .. Len(g) /\ g[n + 1] = s
        BY <2>2
      <4> QED
        BY <3>1, <4>1 DEF Listed
    <3>2. CASE u \in Listed(c)
      <4>1. PICK i \in 1 .. n : u = c[i]
        BY <2>1, <3>2 DEF Listed
      <4>2. i \in 1 .. Len(g) /\ g[i] = u
        BY <2>2, <4>1
      <4> QED
        BY <4>2 DEF Listed
    <3> QED
      BY <2>6, <3>1, <3>2
  <2> QED
    BY <2>2, <2>4, <2>5, <2>6
<1>12. PICK t, o : t = [p.tcp EXCEPT ![s] = ClosedTcp(@)] /\ o = [p.timeout EXCEPT ![s] = TRUE]
  OBVIOUS
<1>13. /\ t \in [Slots -> TcpStates] /\ o \in [Slots -> BOOLEAN] /\ o[s]
       /\ \A u \in Slots : u # s => t[u] = p.tcp[u] /\ o[u] = p.timeout[u]
  <2>1. ClosedTcp(p.tcp[s]) \in TcpStates
    BY <1>4, <1>9 DEF ClosedTcp, TcpStates
  <2> QED
    BY <1>4, <1>9, <1>12, <2>1
<1>14. PICK r : r = [p EXCEPT !.timeout = o, !.tcp = t, !.closing = g, !.waiters = {}]
  OBVIOUS
<1>15. slots' = r
  BY <1>2, <1>9, <1>10, <1>12, <1>14 DEF SlotsType
<1>16. /\ r \in SlotsType /\ r.free = p.free /\ r.closing = g /\ r.waiters = {} /\ r.tcp = t
       /\ r.timeout = o /\ r.lost = p.lost /\ r.cut = p.cut
  BY <1>9, <1>11, <1>13, <1>14 DEF SlotsType
<1>17. Housed(r, e, Slots)
  <2>1. /\ Once(p.free)
        /\ \A u \in Slots : u # s <=> \/ u \in Listed(p.free) \/ u \in Listed(c)
                                      \/ u \in p.lost \/ \E x \in SocketTasks : u \in dl[x].slot
        /\ \A u \in Listed(p.free) : u \notin Listed(c) /\ u \notin p.lost
        /\ \A u \in Listed(c) : u \notin p.lost
        /\ \A x \in SocketTasks : \A u \in dl[x].slot :
             /\ u \notin Listed(p.free) /\ u \notin Listed(c) /\ u \notin p.lost
             /\ \A v \in dl[x].slot : v = u
             /\ \A y \in SocketTasks : u \in dl[y].slot => y = x
    BY <1>4, <1>10 DEF SocketsFit, Housed
  <2>2. \A u \in Slots : \/ u \in Listed(p.free) \/ u \in Listed(g)
                         \/ u \in p.lost \/ \E x \in SocketTasks : u \in e[x].slot
    BY <1>8, <1>11, <2>1
  <2>3. \A u \in Listed(p.free) : u \notin Listed(g) /\ u \notin p.lost
    BY <1>9, <1>11, <2>1
  <2>4. \A u \in Listed(g) : u \notin p.lost
    BY <1>9, <1>11, <2>1
  <2>5. \A x \in SocketTasks : \A u \in e[x].slot :
             /\ u \notin Listed(p.free) /\ u \notin Listed(g) /\ u \notin p.lost
             /\ \A v \in e[x].slot : v = u
             /\ \A y \in SocketTasks : u \in e[y].slot => y = x
    BY SMTT(30), <1>8, <1>9, <1>11, <2>1
  <2> QED
    BY <1>7, <1>11, <1>16, <2>1, <2>2, <2>3, <2>4, <2>5 DEF Housed
<1>18. \A u \in Listed(p.free) : Finished(t[u])
  BY <1>4, <1>9, <1>13 DEF SocketsFit
<1>19. \A u \in Listed(g) : o[u]
  BY <1>4, <1>9, <1>10, <1>11, <1>13 DEF SocketsFit
<1>20. \A x \in SocketTasks : \A u \in e[x].slot : o[u] <=> e[x].pc = "finishing"
  <2> SUFFICES ASSUME NEW x \in SocketTasks, NEW u \in e[x].slot PROVE o[u] <=> e[x].pc = "finishing"
    OBVIOUS
  <2>1. x # d
    BY <1>7, NoDialIs
  <2>2. u \in dl[x].slot /\ e[x].pc = dl[x].pc
    BY <1>1, <1>3, <1>7, <1>8, <2>1
  <2>3. u \in Slots /\ u # s
    BY <1>8, <1>9, <2>2 DEF SocketDial
  <2> QED
    BY <1>4, <1>13, <2>2, <2>3 DEF SocketsFit
<1>21. \A x \in SocketTasks : /\ e[x].pc # "refused"
                              /\ e[x].pc \in {"idle", "asks", "parked"} => e[x].slot = {}
  BY <1>3, <1>7, NoDialIs DEF SocketsFit
<1>22. \A x \in SocketTasks : ~(e[x].pc = "parked" /\ ~e[x].woken)
  BY <1>3, <1>7, NoDialIs DEF SocketsFit
<1>23. SocketsFit(r, e, Slots)
  BY <1>4, <1>16, <1>17, <1>18, <1>19, <1>20, <1>21, <1>22 DEF SocketsFit
<1> QED
  BY <1>6, <1>15, <1>23 DEF SocketsInv

\* A connect dropped in acquire takes its socket with it.
LEMMA AcquireDroppedStep ==
  ASSUME SocketsInv, NEW d \in SocketTasks, AcquireDropped(d)
  PROVE  SocketsInv'
<1>1. PICK p, e, r : /\ p = slots /\ e = [dial EXCEPT ![d] = NoDial]
                     /\ r = [p EXCEPT !.lost = p.lost \cup dial[d].slot]
  OBVIOUS
<1>2. slots' = r /\ dial' = e
  BY <1>1 DEF AcquireDropped
<1>3. /\ SocketsFit(p, dial, Slots) /\ dial \in [SocketTasks -> SocketDial] /\ p \in SlotsType
      /\ \A u \in Slots : \/ u \in Listed(p.free) \/ u \in Listed(p.closing)
                          \/ u \in p.lost \/ \E x \in SocketTasks : u \in dial[x].slot
      /\ \A x \in SocketTasks : \A u \in dial[x].slot :
           /\ u \notin Listed(p.free) /\ u \notin Listed(p.closing) /\ u \notin p.lost
           /\ \A v \in dial[x].slot : v = u
           /\ \A y \in SocketTasks : u \in dial[y].slot => y = x
  BY <1>1 DEF SocketsInv, SocketsFit, Housed
<1>4. /\ e \in [SocketTasks -> SocketDial] /\ e[d] = NoDial
      /\ \A t \in SocketTasks : t # d => e[t] = dial[t]
  BY <1>1, <1>3, NoDialIs
<1>5. dial[d].slot \subseteq Slots
  BY <1>3 DEF SocketDial
<1>6. /\ r \in SlotsType /\ r.free = p.free /\ r.closing = p.closing /\ r.tcp = p.tcp
      /\ r.timeout = p.timeout /\ r.lost = p.lost \cup dial[d].slot /\ r.cut = p.cut
      /\ r.waiters = p.waiters
  BY <1>1, <1>3, <1>5 DEF SlotsType
<1>7. \A t \in SocketTasks : \A u : u \in e[t].slot <=> u \in dial[t].slot /\ t # d
  BY <1>4, NoDialIs
<1>8. Housed(r, e, Slots)
  <2>1. \A u \in Slots : \/ u \in Listed(p.free) \/ u \in Listed(p.closing)
                         \/ u \in r.lost \/ \E x \in SocketTasks : u \in e[x].slot
    BY <1>3, <1>6, <1>7
  <2>2. \A u \in Listed(p.free) : u \notin Listed(p.closing) /\ u \notin r.lost
    BY <1>3, <1>6 DEF SocketsFit, Housed
  <2>3. \A u \in Listed(p.closing) : u \notin r.lost
    BY <1>3, <1>6 DEF SocketsFit, Housed
  <2>4. \A x \in SocketTasks : \A u \in e[x].slot :
           /\ u \notin Listed(p.free) /\ u \notin Listed(p.closing) /\ u \notin r.lost
           /\ \A v \in e[x].slot : v = u
           /\ \A y \in SocketTasks : u \in e[y].slot => y = x
    BY <1>3, <1>6, <1>7
  <2>5. Once(p.free) /\ Once(p.closing)
    BY <1>3 DEF SocketsFit, Housed
  <2> QED
    BY <1>4, <1>6, <2>1, <2>2, <2>3, <2>4, <2>5 DEF Housed
<1>9. \A t \in SocketTasks : \A u \in e[t].slot : p.timeout[u] <=> e[t].pc = "finishing"
  BY <1>3, <1>4, NoDialIs DEF SocketsFit
<1>10. \A t \in SocketTasks : e[t].pc = "parked" /\ ~e[t].woken =>
         t \in p.waiters /\ p.free = <<>> /\ p.closing = <<>>
  BY <1>3, <1>4, NoDialIs DEF SocketsFit
<1>11. \A t \in SocketTasks : /\ e[t].pc # "refused"
                              /\ e[t].pc \in {"idle", "asks", "parked"} => e[t].slot = {}
  BY <1>3, <1>4, NoDialIs DEF SocketsFit
<1>12. SocketsFit(r, e, Slots)
  BY <1>3, <1>6, <1>8, <1>9, <1>10, <1>11 DEF SocketsFit
<1> QED
  BY <1>2, <1>12 DEF SocketsInv

\* What changes only the state of one socket, in a way that a finished one
\* stays finished, disturbs nothing.
LEMMA StackFits ==
  ASSUME SocketsInv, NEW s \in Slots, NEW state \in TcpStates,
         Finished(slots.tcp[s]) => Finished(state),
         slots' = [slots EXCEPT !.tcp[s] = state], dial' = dial
  PROVE  SocketsInv'
<1>1. PICK p : p = slots
  OBVIOUS
<1>2. SocketsFit(p, dial, Slots) /\ p \in SlotsType /\ p.tcp \in [Slots -> TcpStates]
      /\ Listed(p.free) \subseteq Slots
  <2>1. SocketsFit(p, dial, Slots)
    BY <1>1 DEF SocketsInv
  <2>2. p \in SlotsType
    BY <2>1 DEF SocketsFit, Housed
  <2>3. p.tcp \in [Slots -> TcpStates] /\ p.free \in Seq(Slots)
    BY <2>2 DEF SlotsType
  <2>4. \A i \in 1 .. Len(p.free) : p.free[i] \in Slots
    BY <2>3
  <2> QED
    BY <2>1, <2>2, <2>3, <2>4 DEF Listed
<1>3. PICK t, r, e : t = [p.tcp EXCEPT ![s] = state] /\ r = [p EXCEPT !.tcp = t] /\ e = dial
  OBVIOUS
<1>4. slots' = r /\ dial' = e
  BY <1>1, <1>2, <1>3 DEF SlotsType
<1>5. t \in [Slots -> TcpStates] /\ \A u \in Slots : Finished(p.tcp[u]) => Finished(t[u])
  BY <1>1, <1>2, <1>3
<1>6. /\ r \in SlotsType /\ r.free = p.free /\ r.closing = p.closing /\ r.waiters = p.waiters
      /\ r.timeout = p.timeout /\ r.lost = p.lost /\ r.cut = p.cut /\ r.tcp = t
  BY <1>2, <1>3, <1>5 DEF SlotsType
<1>7. Housed(r, e, Slots)
  BY <1>2, <1>3, <1>6 DEF SocketsFit, Housed
<1>8. SocketsFit(r, e, Slots)
  BY <1>2, <1>3, <1>5, <1>6, <1>7 DEF SocketsFit
<1> QED
  BY <1>4, <1>8 DEF SocketsInv

LEMMA StackStep ==
  ASSUME SocketsInv, StackMoves
  PROVE  SocketsInv'
<1>1. /\ "finwait2" \in TcpStates /\ "closed" \in TcpStates /\ "timewait" \in TcpStates
      /\ "resetting" \in TcpStates /\ Finished("closed") /\ Finished("timewait")
      /\ Finished("resetting") /\ ~Finished("fin")
  BY DEF TcpStates, Finished
<1>2. PICK s \in Slots \ slots.lost :
       \/ /\ slots.tcp[s] = "fin"
          /\ \E t \in {"finwait2", "closed"} : slots' = [slots EXCEPT !.tcp[s] = t]
       \/ /\ slots.tcp[s] = "finwait2" /\ slots' = [slots EXCEPT !.tcp[s] = "timewait"]
       \/ /\ slots.tcp[s] \in {"timewait", "resetting"}
          /\ slots' = [slots EXCEPT !.tcp[s] = "closed"]
       \/ /\ slots.tcp[s] \in {"syn", "open", "fin", "finwait2"}
          /\ slots' = [slots EXCEPT !.tcp[s] = "closed"]
       \/ /\ slots.timeout[s] /\ ~Finished(slots.tcp[s])
          /\ slots' = [slots EXCEPT !.tcp[s] = "resetting"]
  BY DEF StackMoves
<1>3. \E state \in TcpStates : /\ slots' = [slots EXCEPT !.tcp[s] = state]
                               /\ Finished(slots.tcp[s]) => Finished(state)
  BY <1>1, <1>2
<1>4. dial' = dial
  BY DEF StackMoves
<1> QED
  BY <1>2, <1>3, <1>4, StackFits

\* What changes only one task, which keeps its socket or has none.
LEMMA DialFits ==
  ASSUME SocketsInv, NEW d \in SocketTasks, NEW q \in SocketDial,
         q.slot = dial[d].slot, q.pc \in {"asks", "connecting", "open"},
         q.pc = "asks" => dial[d].pc = "idle", dial[d].pc # "finishing",
         slots' = slots, dial' = [dial EXCEPT ![d] = q]
  PROVE  SocketsInv'
<1>1. PICK p, e : p = slots /\ e = [dial EXCEPT ![d] = q]
  OBVIOUS
<1>2. SocketsFit(p, dial, Slots) /\ dial \in [SocketTasks -> SocketDial]
  BY <1>1 DEF SocketsInv, SocketsFit, Housed
<1>3. /\ e \in [SocketTasks -> SocketDial] /\ e[d] = q
      /\ \A t \in SocketTasks : e[t].slot = dial[t].slot
      /\ \A t \in SocketTasks : t # d => e[t] = dial[t]
  BY <1>1, <1>2
<1>4. Housed(p, e, Slots)
  BY <1>2, <1>3 DEF SocketsFit, Housed
<1>5. \A t \in SocketTasks : \A u \in e[t].slot : p.timeout[u] <=> e[t].pc = "finishing"
  BY <1>2, <1>3 DEF SocketsFit
<1>6. \A t \in SocketTasks : e[t].pc \in {"idle", "asks", "parked"} => e[t].slot = {}
  BY <1>2, <1>3 DEF SocketsFit
<1>7. \A t \in SocketTasks : /\ e[t].pc # "refused"
                             /\ e[t].pc = "parked" /\ ~e[t].woken =>
                                  t \in p.waiters /\ p.free = <<>> /\ p.closing = <<>>
  BY <1>2, <1>3 DEF SocketsFit
<1>8. SocketsFit(p, e, Slots)
  BY <1>2, <1>4, <1>5, <1>6, <1>7 DEF SocketsFit
<1> QED
  BY <1>1, <1>8 DEF SocketsInv

LEMMA AskSocketStep ==
  ASSUME SocketsInv, NEW d \in SocketTasks, AskSocket(d)
  PROVE  SocketsInv'
<1>1. dial \in [SocketTasks -> SocketDial]
  BY DEF SocketsInv, SocketsFit, Housed
<1>2. PICK q : q = [dial[d] EXCEPT !.pc = "asks"]
  OBVIOUS
<1>3. q \in SocketDial /\ q.slot = dial[d].slot /\ q.pc = "asks"
  BY <1>1, <1>2 DEF SocketDial
<1>4. slots' = slots /\ dial' = [dial EXCEPT ![d] = q] /\ dial[d].pc = "idle"
  BY <1>1, <1>2 DEF AskSocket
<1> QED
  BY <1>3, <1>4, DialFits

LEMMA HandshakeEndsStep ==
  ASSUME SocketsInv, NEW d \in SocketTasks, HandshakeEnds(d)
  PROVE  SocketsInv'
<1>1. dial \in [SocketTasks -> SocketDial]
  BY DEF SocketsInv, SocketsFit, Housed
<1>2. CASE ReleaseSocket(d)
  BY <1>2, ReleaseStep
<1>3. CASE \E s \in dial[d].slot : /\ slots.tcp[s] = "syn"
                                   /\ slots' = [slots EXCEPT !.tcp[s] = "open"]
                                   /\ dial' = [dial EXCEPT ![d].pc = "open"]
  <2>1. PICK s \in dial[d].slot : /\ slots.tcp[s] = "syn"
                                  /\ slots' = [slots EXCEPT !.tcp[s] = "open"]
                                  /\ dial' = [dial EXCEPT ![d].pc = "open"]
    BY <1>3
  <2>2. PICK p, e, q, t, r : /\ p = slots /\ q = [dial[d] EXCEPT !.pc = "open"]
                             /\ e = [dial EXCEPT ![d] = q]
                             /\ t = [p.tcp EXCEPT ![s] = "open"] /\ r = [p EXCEPT !.tcp = t]
    OBVIOUS
  <2>3. SocketsFit(p, dial, Slots) /\ p \in SlotsType /\ p.tcp \in [Slots -> TcpStates]
        /\ Listed(p.free) \subseteq Slots
    <3>1. SocketsFit(p, dial, Slots)
      BY <2>2 DEF SocketsInv
    <3>2. p \in SlotsType /\ p.free \in Seq(Slots)
      BY <3>1 DEF SocketsFit, Housed, SlotsType
    <3> QED
      BY <3>1, <3>2 DEF SlotsType, Listed
  <2>4. slots' = r /\ dial' = e
    BY <1>1, <2>1, <2>2, <2>3 DEF SlotsType
  <2>5. s \in Slots /\ "open" \in TcpStates /\ ~Finished("syn") /\ dial[d].pc = "connecting"
    BY <1>1, <2>1 DEF SocketDial, TcpStates, Finished, HandshakeEnds
  <2>6. t \in [Slots -> TcpStates] /\ \A u \in Slots : Finished(p.tcp[u]) => Finished(t[u])
    BY <2>1, <2>2, <2>3, <2>5
  <2>7. /\ r \in SlotsType /\ r.free = p.free /\ r.closing = p.closing /\ r.waiters = p.waiters
        /\ r.timeout = p.timeout /\ r.lost = p.lost /\ r.cut = p.cut /\ r.tcp = t
    BY <2>2, <2>3, <2>6 DEF SlotsType
  <2>8. q \in SocketDial /\ q.slot = dial[d].slot /\ q.pc = "open"
    BY <1>1, <2>2 DEF SocketDial
  <2>9. /\ e \in [SocketTasks -> SocketDial] /\ e[d] = q
        /\ \A x \in SocketTasks : e[x].slot = dial[x].slot
        /\ \A x \in SocketTasks : x # d => e[x] = dial[x]
    BY <1>1, <2>2, <2>8
  <2>10. Housed(r, e, Slots)
    BY <2>3, <2>7, <2>9 DEF SocketsFit, Housed
  <2>11. \A x \in SocketTasks : \A u \in e[x].slot : p.timeout[u] <=> e[x].pc = "finishing"
    BY <2>3, <2>5, <2>8, <2>9 DEF SocketsFit
  <2>12. \A x \in SocketTasks : e[x].pc \in {"idle", "asks", "parked"} => e[x].slot = {}
    BY <2>3, <2>8, <2>9 DEF SocketsFit
  <2>13. \A x \in SocketTasks : /\ e[x].pc # "refused"
                                /\ e[x].pc = "parked" /\ ~e[x].woken =>
                                     x \in p.waiters /\ p.free = <<>> /\ p.closing = <<>>
    BY <2>3, <2>8, <2>9 DEF SocketsFit
  <2>14. \A u \in Listed(p.free) : Finished(t[u])
    BY <2>3, <2>6 DEF SocketsFit
  <2>15. SocketsFit(r, e, Slots)
    BY <2>3, <2>7, <2>10, <2>11, <2>12, <2>13, <2>14 DEF SocketsFit
  <2> QED
    BY <2>4, <2>15 DEF SocketsInv
<1> QED
  BY <1>2, <1>3 DEF HandshakeEnds

LEMMA SocketsKeep == SocketsInv /\ [EmbassyNext]_embassyVars => SocketsInv'
<1> SUFFICES ASSUME SocketsInv, [EmbassyNext]_embassyVars PROVE SocketsInv'
  OBVIOUS
<1>1. CASE UNCHANGED embassyVars
  BY <1>1 DEF embassyVars, SocketsInv
<1>2. CASE \E d \in SocketTasks : AskSocket(d)
  BY <1>2, AskSocketStep
<1>3. CASE \E d \in SocketTasks : Acquire(d)
  BY <1>3, AcquireStep
<1>4. CASE \E d \in SocketTasks : FinishClosing(d)
  BY <1>4, FinishClosingStep
<1>5. CASE \E d \in SocketTasks : ReleaseSocket(d)
  BY <1>5, ReleaseStep
<1>6. CASE \E d \in SocketTasks : AcquireDropped(d)
  BY <1>6, AcquireDroppedStep
<1>7. CASE \E d \in SocketTasks : HandshakeEnds(d)
  BY <1>7, HandshakeEndsStep
<1>8. CASE StackMoves
  BY <1>8, StackStep
<1> QED
  BY <1>1, <1>2, <1>3, <1>4, <1>5, <1>6, <1>7, <1>8 DEF EmbassyNext

LEMMA SocketsBegin == EmbassyInit => SocketsInv
<1> SUFFICES ASSUME EmbassyInit PROVE SocketsInv
  OBVIOUS
<1>1. PICK p, dl : p = slots /\ dl = dial
  OBVIOUS
<1>2. /\ dl = [d \in SocketTasks |-> NoDial] /\ p.free \in SetToSeqs(Slots) /\ p.closing = <<>>
      /\ p.waiters = {} /\ p.lost = {} /\ p.cut = FALSE
      /\ p.tcp = [s \in Slots |-> "closed"] /\ p.timeout = [s \in Slots |-> FALSE]
      /\ p = [free |-> p.free, closing |-> p.closing, waiters |-> p.waiters, tcp |-> p.tcp,
              timeout |-> p.timeout, lost |-> p.lost, cut |-> p.cut]
  BY <1>1 DEF EmbassyInit
<1>3. PICK f : f = p.free
  OBVIOUS
<1>4. PICK n \in Nat : n = Cardinality(Slots) /\ IsFiniteSet(Slots)
  BY SocketsAssumption, FS_CardinalityType
<1>5. f \in [1 .. n -> Slots] /\ \A i, j \in 1 .. n : i # j => f[i] # f[j]
  BY <1>2, <1>3, <1>4 DEF SetToSeqs
<1>6. f \in Seq(Slots) /\ Len(f) = n
  BY <1>5
<1>7. Once(f)
  BY <1>5, <1>6 DEF Once
<1>8. Listed(f) = Slots
  <2>1. f \in Injection(1 .. n, Slots)
    BY <1>5 DEF Injection, IsInjective
  <2>2. IsFiniteSet(1 .. n) /\ Cardinality(1 .. n) = n
    <3>1. 1 \in Int /\ n \in Int
      OBVIOUS
    <3>2. IsFiniteSet(1 .. n) /\ Cardinality(1 .. n) = IF 1 > n THEN 0 ELSE n - 1 + 1
      BY <3>1, FS_Interval
    <3> QED
      BY <3>1, <3>2
  <2>3. f \in Surjection(1 .. n, Slots)
    BY <1>4, <2>1, <2>2, FS_Injection
  <2>4. \A s \in Slots : \E i \in 1 .. n : f[i] = s
    BY <2>3 DEF Surjection
  <2> QED
    BY <1>6, <2>4 DEF Listed
<1>9. dl \in [SocketTasks -> SocketDial] /\ \A d \in SocketTasks : dl[d] = NoDial
  BY <1>2, NoDialIs
<1>10. p \in SlotsType
  <2>1. p.closing \in Seq(Slots) /\ "closed" \in TcpStates
    BY <1>2 DEF TcpStates
  <2>2. p.tcp \in [Slots -> TcpStates] /\ p.timeout \in [Slots -> BOOLEAN]
    BY <1>2, <2>1
  <2> QED
    BY <1>2, <1>3, <1>6, <2>1, <2>2 DEF SlotsType
<1>11. Listed(p.closing) = {} /\ Once(p.closing)
  BY <1>2, EmptyListed
<1>12. Housed(p, dl, Slots)
  BY <1>2, <1>3, <1>7, <1>8, <1>9, <1>10, <1>11, NoDialIs DEF Housed
<1>13. \A s \in Slots : Finished(p.tcp[s])
  BY <1>2 DEF Finished
<1>14. SocketsFit(p, dl, Slots)
  BY <1>2, <1>3, <1>8, <1>9, <1>11, <1>12, <1>13, NoDialIs DEF SocketsFit
<1> QED
  BY <1>1, <1>14 DEF SocketsInv

\* A set of which one of its elements is all.
LEMMA OneOrNone ==
  ASSUME NEW A, NEW P, P \subseteq A, \A x, y \in P : x = y
  PROVE  Cardinality(P) = IF P = {} THEN 0 ELSE 1
<1>1. CASE P = {}
  BY <1>1, FS_EmptySet
<1>2. CASE P # {}
  <2>1. PICK x : x \in P
    BY <1>2
  <2>2. P = {x}
    BY <2>1
  <2>3. Cardinality({x}) = 1
    BY FS_Singleton
  <2> QED
    BY <1>2, <2>2, <2>3
<1> QED
  BY <1>1, <1>2

LEMMA SocketsPromise == SocketsInv => SocketsHold
<1> SUFFICES ASSUME SocketsInv PROVE SocketsHold
  OBVIOUS
<1>1. /\ slots \in SlotsType /\ dial \in [SocketTasks -> SocketDial]
      /\ slots.free \in Seq(Slots) /\ slots.closing \in Seq(Slots)
      /\ Once(slots.free) /\ Once(slots.closing)
      /\ \A s \in Slots : \/ s \in Listed(slots.free) \/ s \in Listed(slots.closing)
                          \/ s \in slots.lost \/ \E d \in SocketTasks : s \in dial[d].slot
      /\ \A s \in Listed(slots.free) : s \notin Listed(slots.closing) /\ s \notin slots.lost
      /\ \A s \in Listed(slots.closing) : s \notin slots.lost
      /\ \A d \in SocketTasks : \A s \in dial[d].slot :
           /\ s \notin Listed(slots.free) /\ s \notin Listed(slots.closing) /\ s \notin slots.lost
           /\ \A e \in SocketTasks : s \in dial[e].slot => e = d
  BY DEF SocketsInv, SocketsFit, Housed, SlotsType
<1>2. EmbassyTypeOK
  BY <1>1 DEF EmbassyTypeOK, SlotsType, SocketDial
<1>3. ASSUME NEW s \in Slots PROVE Places(s) = 1
  <2>1. PICK F, C, D : /\ F = {i \in DOMAIN slots.free : slots.free[i] = s}
                       /\ C = {i \in DOMAIN slots.closing : slots.closing[i] = s}
                       /\ D = {d \in SocketTasks : s \in dial[d].slot}
    OBVIOUS
  <2>2. /\ \A x, y \in F : x = y
        /\ \A x, y \in C : x = y
        /\ \A x, y \in D : x = y
    BY SMTT(30), <1>1, <2>1 DEF Once
  <2>3. /\ F # {} <=> s \in Listed(slots.free)
        /\ C # {} <=> s \in Listed(slots.closing)
        /\ D # {} <=> \E d \in SocketTasks : s \in dial[d].slot
    BY <1>1, <2>1 DEF Listed
  <2>4. /\ Cardinality(F) = IF F = {} THEN 0 ELSE 1
        /\ Cardinality(C) = IF C = {} THEN 0 ELSE 1
        /\ Cardinality(D) = IF D = {} THEN 0 ELSE 1
    BY <2>2, OneOrNone
  <2>5. Places(s) = Cardinality(F) + Cardinality(C) + Cardinality(D) + (IF s \in slots.lost THEN 1 ELSE 0)
    BY <2>1 DEF Places
  <2>6. CASE s \in Listed(slots.free)
    <3>1. F # {} /\ C = {} /\ D = {} /\ s \notin slots.lost
      BY <1>1, <2>3, <2>6
    <3> QED
      BY <2>4, <2>5, <3>1
  <2>7. CASE s \in Listed(slots.closing)
    <3>1. F = {} /\ C # {} /\ D = {} /\ s \notin slots.lost
      BY <1>1, <2>3, <2>7
    <3> QED
      BY <2>4, <2>5, <3>1
  <2>8. CASE s \in slots.lost
    <3>1. F = {} /\ C = {} /\ D = {}
      BY <1>1, <2>3, <2>8
    <3> QED
      BY <2>4, <2>5, <2>8, <3>1
  <2>9. CASE \E d \in SocketTasks : s \in dial[d].slot
    <3>1. F = {} /\ C = {} /\ D # {} /\ s \notin slots.lost
      BY <1>1, <2>3, <2>9
    <3> QED
      BY <2>4, <2>5, <3>1
  <2> QED
    BY <1>1, <2>6, <2>7, <2>8, <2>9
<1>4. \A i \in DOMAIN slots.free : Finished(slots.tcp[slots.free[i]])
  BY <1>1 DEF SocketsInv, SocketsFit, Listed
<1> QED
  BY <1>2, <1>3, <1>4 DEF SocketsHold, SocketsInv, SocketsFit

------------------------------------------------------------------------------
(* The stream over rustls (hclient-tls-rustls stream.rs).                   *)

TlsType ==
  [pc : {"handshake", "idle", "reading", "failed"}, shaking : BOOLEAN, given : 0 .. MaxOut,
   out : Seq(0 .. CloseOut), handed : Seq(0 .. CloseOut), flushed : BOOLEAN, room : 0 .. TlsRoom,
   closing : BOOLEAN, fin : BOOLEAN, sent : Seq(0 .. CloseIn), net : Seq(0 .. CloseIn),
   hung : BOOLEAN, carry : Seq(0 .. CloseIn), plain : Seq(1 .. MaxIn), got : Seq(1 .. MaxIn),
   closed : BOOLEAN, eof : BOOLEAN, told : {"no", "clean", "cut"},
   waits : {"none", "room", "flush", "read"}]

\* What the caller wrote is in what was handed over and what is still queued.
OutFits(t) ==
  /\ Datas(t.handed \o t.out, MaxOut) = [i \in 1 .. t.given |-> i]
  /\ t.fin => t.closing /\ t.out = <<>> /\ t.flushed
  /\ t.closing => \E i \in 1 .. Len(t.handed \o t.out) : (t.handed \o t.out)[i] = CloseOut

\* The peer answers first and closes last.
SentFits(s) ==
  /\ Len(Datas(s, MaxIn)) <= MaxIn
  /\ s # <<>> => s[1] = Asks
  /\ \A i \in 1 .. Len(s) : s[i] = CloseIn => i = Len(s)

\* rustls has taken the first k records of the peer ...
Taken(t, k) ==
  /\ t.got \o t.plain = Datas(SubSeq(t.sent, 1, k), MaxIn)
  /\ t.closed <=> \E i \in 1 .. k : t.sent[i] = CloseIn
  /\ t.shaking => k = 0

\* ... and the others are held in their order.
Rest(t, k) ==
  /\ Len(t.carry) + Len(t.net) = Len(t.sent) - k
  /\ \A i \in 1 .. Len(t.carry) : t.carry[i] = t.sent[k + i]
  /\ \A i \in 1 .. Len(t.net) : t.net[i] = t.sent[k + Len(t.carry) + i]

InFits(t) ==
  /\ SentFits(t.sent)
  /\ \E k \in 0 .. Len(t.sent) : Taken(t, k) /\ Rest(t, k)
  /\ t.eof => t.hung /\ t.carry = <<>> /\ t.net = <<>>

\* What the caller was told, and how far the handshake is.
TellFits(t) ==
  /\ t.told # "no" => t.pc = "idle" /\ t.plain = <<>> /\ (t.closed \/ t.eof)
  /\ t.told = "clean" <=> t.told # "no" /\ t.closed
  /\ t.pc = "handshake" => ~t.eof

TlsSound(t) == t \in TlsType /\ OutFits(t) /\ InFits(t) /\ TellFits(t)

TlsFits(t) ==
  /\ TlsSound(t)
  /\ t.waits = "read" => t.plain = <<>> /\ t.carry = <<>> /\ t.out = <<>> /\ ~t.closed /\ ~t.eof

TlsInv == TlsFits(tls)

LEMMA TlsNumbers ==
  /\ MaxOut \in Nat /\ MaxIn \in Nat /\ PlainLimit \in Nat /\ Scratch \in Nat /\ TlsRoom \in Nat
  /\ CloseOut = MaxOut + 1 /\ CloseIn = MaxIn + 1 /\ Asks = 0
  BY TlsAssumption DEF CloseOut, CloseIn, Asks

LEMMA LesserOf ==
  ASSUME NEW a \in Nat, NEW b \in Nat
  PROVE  Min({a, b}) = IF a <= b THEN a ELSE b
<1>1. PICK m : m = IF a <= b THEN a ELSE b
  OBVIOUS
<1>2. m \in {a, b} /\ \A y \in {a, b} : m <= y
  BY <1>1
<1>3. \A x \in {a, b} : (\A y \in {a, b} : x <= y) => x = m
  BY <1>1
<1> QED
  BY <1>1, <1>2, <1>3 DEF Min

LEMMA DatasOf ==
  ASSUME NEW E, NEW s \in Seq(E), NEW max
  PROVE  /\ Datas(s, max) \in Seq(E \cap (1 .. max))
         /\ s \in Seq(1 .. max) => Datas(s, max) = s
<1>1. PICK S : S = 1 .. max
  OBVIOUS
<1>2. \A q : Datas(q, max) = Sockets(q, S)
  BY <1>1, DatasAreFiltered
<1>3. Sockets(s, S) \in Seq(E \cap S) /\ (s \in Seq(S) => Sockets(s, S) = s)
  BY FilterHolds
<1> QED
  BY <1>1, <1>2, <1>3

LEMMA DatasConcat ==
  ASSUME NEW E, NEW s \in Seq(E), NEW t \in Seq(E), NEW max
  PROVE  Datas(s \o t, max) = Datas(s, max) \o Datas(t, max)
<1>1. PICK S : S = 1 .. max
  OBVIOUS
<1>2. \A q : Datas(q, max) = Sockets(q, S)
  BY <1>1, DatasAreFiltered
<1>3. Sockets(s \o t, S) = Sockets(s, S) \o Sockets(t, S)
  BY FilterConcat
<1>4. PICK q : q = s \o t
  OBVIOUS
<1>5. Datas(q, max) = Sockets(q, S) /\ Datas(s, max) = Sockets(s, S) /\ Datas(t, max) = Sockets(t, S)
  BY <1>2
<1> QED
  BY <1>3, <1>4, <1>5

LEMMA DatasAppend ==
  ASSUME NEW E, NEW s \in Seq(E), NEW x \in E, NEW max
  PROVE  Datas(Append(s, x), max) =
           IF x \in 1 .. max THEN Append(Datas(s, max), x) ELSE Datas(s, max)
<1>1. PICK S : S = 1 .. max
  OBVIOUS
<1>2. \A q : Datas(q, max) = Sockets(q, S)
  BY <1>1, DatasAreFiltered
<1>3. Sockets(Append(s, x), S) = IF x \in S THEN Append(Sockets(s, S), x) ELSE Sockets(s, S)
  BY FilterAppend
<1> QED
  BY <1>1, <1>2, <1>3

LEMMA NoDatas == \A max : Datas(<<>>, max) = <<>>
  BY DatasAreFiltered, FilterEmpty

\* What goes out is what was queued, less what was handed over.
LEMMA FlushFits ==
  ASSUME NEW t \in TlsType, OutFits(t), NEW f \in FlushAnswers(t),
         NEW r, r = FlushOutgoing(t, f)
  PROVE  /\ r \in TlsType /\ OutFits(r)
         /\ r.waits \in {"none", "room", "flush"}
         /\ FlushDone(r) => r.out = <<>> /\ r.flushed
         /\ t.out = <<>> => r.out = <<>>
         /\ r.pc = t.pc /\ r.shaking = t.shaking /\ r.given = t.given /\ r.closing = t.closing
         /\ r.fin = t.fin /\ r.sent = t.sent /\ r.net = t.net /\ r.hung = t.hung
         /\ r.carry = t.carry /\ r.plain = t.plain /\ r.got = t.got /\ r.closed = t.closed
         /\ r.eof = t.eof /\ r.told = t.told
<1>1. /\ t.out \in Seq(0 .. CloseOut) /\ t.handed \in Seq(0 .. CloseOut) /\ t.room \in 0 .. TlsRoom
      /\ t.flushed \in BOOLEAN /\ f \in BOOLEAN /\ t.waits \in {"none", "room", "flush", "read"}
  BY DEF TlsType, FlushAnswers
<1>2. PICK N, m \in Nat : N = Len(t.out) /\ m = t.room
  BY <1>1, TlsNumbers
<1>3. PICK n : n = Min({m, N})
  OBVIOUS
<1>4. n \in 0 .. N /\ n <= m /\ n \in Nat /\ N - n \in Nat
  BY <1>2, <1>3, LesserOf
<1>5. PICK o, h, a, rest : /\ o = t.out /\ h = t.handed /\ a = SubSeq(o, 1, n)
                           /\ rest = SubSeq(o, n + 1, N)
  OBVIOUS
<1>6. a \in Seq(0 .. CloseOut) /\ rest \in Seq(0 .. CloseOut) /\ a \o rest = o
      /\ (o = <<>> => rest = <<>>)
  <2>1. o \in Seq(0 .. CloseOut) /\ Len(o) = N
    BY <1>1, <1>2, <1>5
  <2>2. a \in Seq(0 .. CloseOut)
    BY <1>4, <1>5, <2>1, PrefixGrows
  <2>3. \A i \in n + 1 .. N : o[i] \in 0 .. CloseOut
    <3>1. \A i \in n + 1 .. N : i \in 1 .. Len(o)
      BY <1>4, <2>1
    <3> QED
      BY <2>1, <3>1, ElementOfSeq
  <2>4. n + 1 \in Int /\ N \in Int
    BY <1>4
  <2>5. rest \in Seq(0 .. CloseOut)
    BY <1>5, <2>3, <2>4, SubSeqProperties
  <2>6. a \o rest = o
    <3>1. 1 \in 1 .. Len(o) + 1 /\ n \in 1 - 1 .. Len(o) /\ N \in n .. Len(o)
      BY <1>4, <2>1
    <3>2. SubSeq(o, 1, n) \o SubSeq(o, n + 1, N) = SubSeq(o, 1, N)
      BY <2>1, <3>1, ConcatAdjacentSubSeq
    <3>3. SubSeq(o, 1, N) = o
      BY <2>1, PrefixEnds
    <3> QED
      BY <1>5, <3>2, <3>3
  <2>7. o = <<>> => rest = <<>>
    BY <2>2, <2>5, <2>6, ConcatSimplifications
  <2> QED
    BY <2>2, <2>5, <2>6, <2>7
<1>7. PICK h2 : h2 = h \o a
  OBVIOUS
<1>8. h2 \in Seq(0 .. CloseOut) /\ h2 \o rest = h \o o
  <2>1. h \in Seq(0 .. CloseOut)
    BY <1>1, <1>5
  <2>2. (h \o a) \o rest = h \o (a \o rest)
    <3>1. PICK D : D = 0 .. CloseOut
      OBVIOUS
    <3>2. h \in Seq(D) /\ a \in Seq(D) /\ rest \in Seq(D)
      BY <1>6, <2>1, <3>1
    <3>3. \A x, y, z \in Seq(D) : (x \o y) \o z = x \o (y \o z)
      BY SMTT(30), ConcatAssociative
    <3> QED
      BY <3>2, <3>3
  <2>3. h2 \in Seq(0 .. CloseOut)
    BY <1>6, <1>7, <2>1, ConcatProperties
  <2> QED
    BY <1>6, <1>7, <2>2, <2>3
<1>9. PICK fl \in BOOLEAN, w \in {"none", "room", "flush"} :
        /\ fl = IF rest # <<>> THEN t.flushed /\ n = 0 ELSE f
        /\ w = IF rest # <<>> THEN "room" ELSE IF f THEN "none" ELSE "flush"
  BY <1>1
<1>10. PICK m2 \in 0 .. TlsRoom : m2 = m - n
  BY <1>1, <1>2, <1>4, TlsNumbers
<1>11. r = [t EXCEPT !.handed = h2, !.out = rest, !.room = m2, !.flushed = fl, !.waits = w]
  BY <1>2, <1>3, <1>5, <1>7, <1>9, <1>10 DEF FlushOutgoing, TlsType
<1>12. /\ r \in TlsType /\ r.handed = h2 /\ r.out = rest /\ r.flushed = fl /\ r.waits = w
       /\ r.pc = t.pc /\ r.shaking = t.shaking /\ r.given = t.given /\ r.closing = t.closing
       /\ r.fin = t.fin /\ r.sent = t.sent /\ r.net = t.net /\ r.hung = t.hung
       /\ r.carry = t.carry /\ r.plain = t.plain /\ r.got = t.got /\ r.closed = t.closed
       /\ r.eof = t.eof /\ r.told = t.told
  <2>1. /\ h2 \in Seq(0 .. CloseOut) /\ rest \in Seq(0 .. CloseOut) /\ m2 \in 0 .. TlsRoom
        /\ fl \in BOOLEAN /\ w \in {"none", "room", "flush", "read"}
    BY <1>6, <1>8, <1>9, <1>10
  <2>2. r \in TlsType
    BY ZenonT(60), <1>11, <2>1 DEF TlsType
  <2>3. /\ r.handed = h2 /\ r.out = rest /\ r.flushed = fl /\ r.waits = w
    BY <1>11 DEF TlsType
  <2>4. /\ r.pc = t.pc /\ r.shaking = t.shaking /\ r.given = t.given /\ r.closing = t.closing
        /\ r.fin = t.fin /\ r.sent = t.sent /\ r.net = t.net /\ r.hung = t.hung
        /\ r.carry = t.carry /\ r.plain = t.plain /\ r.got = t.got /\ r.closed = t.closed
        /\ r.eof = t.eof /\ r.told = t.told
    BY <1>11
  <2> QED
    BY <2>2, <2>3, <2>4
<1>13. FlushDone(r) => rest = <<>> /\ fl
  BY <1>9, <1>12 DEF FlushDone
<1>14. t.fin => rest = <<>> /\ fl /\ t.closing
  <2>1. ASSUME t.fin PROVE rest = <<>> /\ fl /\ t.closing
    <3>1. o = <<>> /\ t.flushed /\ t.closing
      BY <1>5, <2>1 DEF OutFits
    <3>2. f = TRUE
      BY <1>5, <3>1 DEF FlushAnswers
    <3> QED
      BY <1>6, <1>9, <3>1, <3>2
  <2> QED
    BY <2>1
<1>15. OutFits(r)
  <2>1. r.handed \o r.out = t.handed \o t.out
    BY <1>5, <1>8, <1>12
  <2>2. r.fin => r.closing /\ r.out = <<>> /\ r.flushed
    BY <1>12, <1>14
  <2>3. r.given = t.given /\ r.closing = t.closing
    BY <1>12
  <2> QED
    BY <2>1, <2>2, <2>3, Zenon DEF OutFits
<1> QED
  BY <1>5, <1>6, <1>9, <1>12, <1>13, <1>15

\* What a record leaves alone when it is taken.
Alike(r, t) ==
  /\ r.pc = t.pc /\ r.given = t.given /\ r.handed = t.handed /\ r.flushed = t.flushed
  /\ r.room = t.room /\ r.closing = t.closing /\ r.fin = t.fin /\ r.sent = t.sent /\ r.net = t.net
  /\ r.hung = t.hung /\ r.carry = t.carry /\ r.got = t.got /\ r.eof = t.eof /\ r.told = t.told
  /\ r.waits = t.waits

LEMMA OutFitsStill ==
  ASSUME NEW t, NEW r, OutFits(t), r.handed \o r.out = t.handed \o t.out,
         r.given = t.given, r.closing = t.closing,
         r.fin => r.closing /\ r.out = <<>> /\ r.flushed
  PROVE  OutFits(r)
  BY Zenon DEF OutFits

\* Anything but data may be queued.
LEMMA QueuedFits ==
  ASSUME NEW t \in TlsType, OutFits(t), ~t.fin, NEW x \in 0 .. CloseOut, x \notin 1 .. MaxOut
  PROVE  /\ Append(t.out, x) \in Seq(0 .. CloseOut)
         /\ Datas(t.handed \o Append(t.out, x), MaxOut) = [i \in 1 .. t.given |-> i]
         /\ (t.closing \/ x = CloseOut) =>
              \E i \in 1 .. Len(t.handed \o Append(t.out, x)) :
                 (t.handed \o Append(t.out, x))[i] = CloseOut
<1>1. PICK D : D = 0 .. CloseOut
  OBVIOUS
<1>2. PICK h, o : h = t.handed /\ o = t.out
  OBVIOUS
<1>3. h \in Seq(D) /\ o \in Seq(D) /\ x \in D
  BY <1>1, <1>2 DEF TlsType
<1>4. PICK q, p : q = h \o o /\ p = h \o Append(o, x)
  OBVIOUS
<1>5. q \in Seq(D) /\ p = Append(q, x) /\ Append(o, x) \in Seq(D)
  BY <1>3, <1>4
<1>6. Datas(p, MaxOut) = Datas(q, MaxOut)
  BY <1>3, <1>5, DatasAppend
<1>7. Datas(q, MaxOut) = [i \in 1 .. t.given |-> i]
  BY <1>2, <1>4 DEF OutFits
<1>8. PICK n \in Nat : n = Len(q)
  BY <1>5
<1>9. Len(p) = n + 1 /\ p[n + 1] = x /\ \A i \in 1 .. n : p[i] = q[i]
  BY <1>3, <1>5, <1>8
<1>10. (t.closing \/ x = CloseOut) => \E i \in 1 .. Len(p) : p[i] = CloseOut
  <2>1. CASE x = CloseOut
    <3>1. n + 1 \in 1 .. Len(p)
      BY <1>8, <1>9
    <3> QED
      BY <1>9, <2>1, <3>1
  <2>2. CASE t.closing
    <3>1. PICK i \in 1 .. n : q[i] = CloseOut
      BY <1>2, <1>4, <1>8, <2>2 DEF OutFits
    <3>2. i \in 1 .. Len(p) /\ p[i] = CloseOut
      BY <1>8, <1>9, <3>1
    <3> QED
      BY <3>2
  <2> QED
    BY <2>1, <2>2
<1> QED
  BY <1>1, <1>2, <1>4, <1>5, <1>6, <1>7, <1>10

\* rustls takes the next record of the peer.
LEMMA TakesFits ==
  ASSUME NEW t \in TlsType, OutFits(t), SentFits(t.sent), NEW k \in 0 .. Len(t.sent), Taken(t, k),
         k < Len(t.sent), NEW x, x = t.sent[k + 1], NEW r, r = Takes(t, x)
  PROVE  r \in TlsType /\ OutFits(r) /\ Taken(r, k + 1) /\ Alike(r, t)
<1>1. PICK s : s = t.sent
  OBVIOUS
<1>2. PICK D : D = 0 .. CloseIn
  OBVIOUS
<1>3. s \in Seq(D) /\ Len(s) \in Nat /\ k + 1 \in 1 .. Len(s) /\ k \in Nat
  BY SMTT(30), <1>1, <1>2 DEF TlsType
<1>4. x \in D /\ x = s[k + 1]
  BY <1>1, <1>3
<1>5. PICK p, q : p = SubSeq(s, 1, k) /\ q = SubSeq(s, 1, k + 1)
  OBVIOUS
<1>6. p \in Seq(D) /\ q = Append(p, x)
  <2>1. k \in 0 .. Len(s) /\ k < Len(s)
    BY <1>1
  <2> QED
    BY <1>3, <1>4, <1>5, <2>1, PrefixGrows
<1>7. Datas(q, MaxIn) = IF x \in 1 .. MaxIn THEN Append(Datas(p, MaxIn), x) ELSE Datas(p, MaxIn)
  BY <1>4, <1>6, DatasAppend
<1>8. t.got \o t.plain = Datas(p, MaxIn) /\ t.got \in Seq(1 .. MaxIn) /\ t.plain \in Seq(1 .. MaxIn)
  BY <1>1, <1>5 DEF Taken, TlsType
<1>9. (\E i \in 1 .. k + 1 : s[i] = CloseIn) <=> t.closed \/ x = CloseIn
  <2>1. t.closed <=> \E i \in 1 .. k : s[i] = CloseIn
    BY <1>1 DEF Taken
  <2> QED
    BY <1>3, <1>4, <2>1
<1>10. x # Asks => ~t.shaking
  <2> SUFFICES ASSUME x # Asks, t.shaking PROVE FALSE
    BY DEF TlsType
  <2>1. k = 0
    BY DEF Taken
  <2>2. s # <<>>
    BY <1>3
  <2>3. s[1] = Asks
    BY <1>1, <2>2 DEF SentFits
  <2> QED
    BY <1>4, <2>1, <2>3
<1>11. CloseIn # Asks /\ Asks \notin 1 .. MaxIn /\ CloseIn \notin 1 .. MaxIn
       /\ Asks \in 0 .. CloseOut /\ Asks \notin 1 .. MaxOut /\ Asks # CloseOut
  BY TlsNumbers
<1>12. CASE x = Asks
  <2>1. PICK o : o = IF t.closing THEN t.out ELSE Append(t.out, 0)
    OBVIOUS
  <2>2. r = [t EXCEPT !.out = o, !.shaking = FALSE]
    BY <1>12, <2>1 DEF Takes
  <2>3. o \in Seq(0 .. CloseOut)
        /\ Datas(t.handed \o o, MaxOut) = [i \in 1 .. t.given |-> i]
        /\ (t.closing => \E i \in 1 .. Len(t.handed \o o) : (t.handed \o o)[i] = CloseOut)
        /\ (t.fin => t.closing /\ o = <<>> /\ t.flushed)
    <3>1. CASE t.closing
      BY <2>1, <3>1 DEF OutFits, TlsType
    <3>2. CASE ~t.closing
      <4>1. ~t.fin
        BY <3>2 DEF OutFits
      <4>2. o = Append(t.out, Asks)
        BY <2>1, <3>2, TlsNumbers
      <4> QED
        BY <1>11, <3>2, <4>1, <4>2, QueuedFits
    <3> QED
      BY <3>1, <3>2
  <2>4. r \in TlsType /\ r.out = o /\ r.shaking = FALSE
    BY ZenonT(60), <2>2, <2>3 DEF TlsType
  <2>5. Alike(r, t) /\ r.closed = t.closed /\ r.plain = t.plain
    BY <2>2 DEF Alike
  <2>6. OutFits(r)
    BY <2>3, <2>4, <2>5 DEF OutFits, Alike
  <2>7. Taken(r, k + 1)
    <3>1. r.got \o r.plain = Datas(SubSeq(r.sent, 1, k + 1), MaxIn)
      BY <1>1, <1>5, <1>7, <1>8, <1>11, <1>12, <2>5 DEF Alike
    <3> QED
      BY <1>1, <1>9, <1>11, <1>12, <2>4, <2>5, <3>1 DEF Taken, Alike
  <2> QED
    BY <2>4, <2>5, <2>6, <2>7
<1>13. CASE x = CloseIn
  <2>1. r = [t EXCEPT !.closed = TRUE]
    BY <1>11, <1>13 DEF Takes
  <2>2. r \in TlsType /\ r.closed = TRUE
    BY <2>1 DEF TlsType
  <2>3. Alike(r, t) /\ r.shaking = t.shaking /\ r.plain = t.plain /\ r.out = t.out
    BY <2>1 DEF Alike
  <2>4. OutFits(r)
    <3>1. /\ r.handed = t.handed /\ r.out = t.out /\ r.given = t.given /\ r.fin = t.fin
          /\ r.closing = t.closing /\ r.flushed = t.flushed
      BY <2>3 DEF Alike
    <3>2. r.handed \o r.out = t.handed \o t.out
      BY <3>1
    <3>3. r.fin => r.closing /\ r.out = <<>> /\ r.flushed
      BY <3>1 DEF OutFits
    <3> QED
      BY <3>1, <3>2, <3>3, OutFitsStill
  <2>5. Taken(r, k + 1)
    <3>1. r.got \o r.plain = Datas(SubSeq(r.sent, 1, k + 1), MaxIn)
      BY <1>1, <1>5, <1>7, <1>8, <1>11, <1>13, <2>3 DEF Alike
    <3> QED
      BY ZenonT(60), <1>1, <1>9, <1>10, <1>11, <1>13, <2>2, <2>3, <3>1 DEF Taken, Alike
  <2> QED
    BY <2>2, <2>3, <2>4, <2>5
<1>14. CASE x # Asks /\ x # CloseIn
  <2>1. x \in 1 .. MaxIn
    BY <1>2, <1>4, <1>14, TlsNumbers
  <2>01. PICK I : I = 1 .. MaxIn
    OBVIOUS
  <2>02. x \in I /\ t.got \in Seq(I) /\ t.plain \in Seq(I)
    BY <1>8, <2>01, <2>1
  <2>03. Append(t.plain, x) \in Seq(I)
    BY <2>02
  <2>2. PICK pl \in Seq(1 .. MaxIn) : pl = Append(t.plain, x)
    BY <2>01, <2>03
  <2>3. r = [t EXCEPT !.plain = pl]
    BY <1>14, <2>2 DEF Takes
  <2>4. r \in TlsType /\ r.plain = pl
    BY ZenonT(60), <2>3 DEF TlsType
  <2>5. Alike(r, t) /\ r.shaking = t.shaking /\ r.closed = t.closed /\ r.out = t.out
    BY <2>3 DEF Alike
  <2>6. OutFits(r)
    <3>1. /\ r.handed = t.handed /\ r.out = t.out /\ r.given = t.given /\ r.fin = t.fin
          /\ r.closing = t.closing /\ r.flushed = t.flushed
      BY <2>5 DEF Alike
    <3>2. r.handed \o r.out = t.handed \o t.out
      BY <3>1
    <3>3. r.fin => r.closing /\ r.out = <<>> /\ r.flushed
      BY <3>1 DEF OutFits
    <3> QED
      BY <3>1, <3>2, <3>3, OutFitsStill
  <2>7. t.got \o pl = Append(t.got \o t.plain, x)
    <3>1. PICK g, h : g = t.got /\ h = t.plain
      OBVIOUS
    <3>2. g \in Seq(I) /\ h \in Seq(I) /\ x \in I
      BY <2>02, <3>1
    <3>3. g \o Append(h, x) = Append(g \o h, x)
      BY SMTT(30), <3>2
    <3> QED
      BY <2>2, <3>1, <3>3
  <2>8. Taken(r, k + 1)
    <3>1. r.got \o r.plain = Datas(SubSeq(r.sent, 1, k + 1), MaxIn)
      BY SMTT(30), <1>1, <1>5, <1>7, <1>8, <2>1, <2>4, <2>5, <2>7 DEF Alike
    <3> QED
      BY <1>1, <1>9, <1>10, <1>14, <2>5, <3>1 DEF Taken, Alike
  <2> QED
    BY <2>4, <2>5, <2>6, <2>8
<1> QED
  BY <1>12, <1>13, <1>14

\* feed is a loop, which ends where its records or its room do.
LEMMA FeedIs ==
  ASSUME NEW t, NEW E, NEW rs \in Seq(E)
  PROVE  \E f : /\ Feed(t, rs) = f[Len(rs)] /\ f[0] = [t |-> t, taken |-> 0]
                /\ \A i \in 1 .. Len(rs) :
                     f[i] = IF Len(f[i - 1].t.plain) >= PlainLimit THEN f[i - 1]
                            ELSE [t |-> Takes(f[i - 1].t, rs[i]), taken |-> f[i - 1].taken + 1]
<1> DEFINE More(a, x) == IF Len(a.t.plain) >= PlainLimit THEN a
                         ELSE [t |-> Takes(a.t, x), taken |-> a.taken + 1]
           zero == [t |-> t, taken |-> 0]
           Feeds(m, g) == DOMAIN g = 0 .. m
                          /\ g = [i \in 0 .. m |-> IF i = 0 THEN zero ELSE More(g[i - 1], rs[i])]
<1>1. PICK N \in Nat : N = Len(rs)
  OBVIOUS
<1> DEFINE T == {m \in 0 .. N : \E g : Feeds(m, g)}
<1>2. Feed(t, rs) = (CHOOSE g : g = [i \in 0 .. N |-> IF i = 0 THEN zero ELSE More(g[i - 1], rs[i])])[N]
  BY <1>1 DEF Feed
<1> HIDE DEF More, zero
<1>3. 0 \in T
  <2> DEFINE z == [i \in 0 .. 0 |-> zero]
  <2>1. Feeds(0, z)
    OBVIOUS
  <2>2. 0 \in 0 .. N
    OBVIOUS
  <2> HIDE DEF z, Feeds
  <2> QED
    BY <2>1, <2>2
<1>4. ASSUME NEW m \in 0 .. N, m < N, m \in T PROVE m + 1 \in T
  <2>1. PICK g : Feeds(m, g)
    BY <1>4
  <2> DEFINE h == [i \in 0 .. m + 1 |-> IF i = m + 1 THEN More(g[m], rs[m + 1]) ELSE g[i]]
  <2>2. m \in Nat /\ m + 1 \in 0 .. N /\ m + 1 # 0
    BY <1>4
  <2>3. ASSUME NEW n \in 0 .. m + 1
        PROVE  h[n] = IF n = 0 THEN zero ELSE More(h[n - 1], rs[n])
    <3>1. CASE n = m + 1
      <4>1. h[n - 1] = g[m] /\ h[n] = More(g[m], rs[m + 1])
        BY <2>2, <3>1
      <4> HIDE DEF h
      <4> QED
        BY <2>2, <3>1, <4>1
    <3>2. CASE n = 0
      <4>1. h[0] = g[0] /\ g[0] = zero
        BY <2>1, <2>2
      <4> QED
        BY <3>2, <4>1
    <3>3. CASE n \in 1 .. m
      <4>1. n - 1 \in 0 .. m /\ n \in 0 .. m /\ n # 0
        BY <2>2, <3>3
      <4>2. h[n] = g[n] /\ h[n - 1] = g[n - 1]
        BY <2>2, <4>1
      <4>3. g[n] = More(g[n - 1], rs[n])
        BY <2>1, <4>1
      <4> HIDE DEF h
      <4> QED
        BY <4>1, <4>2, <4>3
    <3> QED
      BY <2>2, <3>1, <3>2, <3>3
  <2>4. h = [n \in 0 .. m + 1 |-> h[n]] /\ DOMAIN h = 0 .. m + 1
    OBVIOUS
  <2> HIDE DEF h
  <2>5. Feeds(m + 1, h)
    BY <2>3, <2>4
  <2> HIDE DEF Feeds
  <2> QED
    BY <2>2, <2>5
<1> HIDE DEF T
<1>5. \A m \in 0 .. N : m \in T
  BY <1>3, <1>4, UpTo
<1>6. N \in T
  BY <1>5
<1>7. \E g : g = [i \in 0 .. N |-> IF i = 0 THEN zero ELSE More(g[i - 1], rs[i])]
  BY <1>6 DEF T
<1>8. PICK f : /\ f = [i \in 0 .. N |-> IF i = 0 THEN zero ELSE More(f[i - 1], rs[i])]
               /\ Feed(t, rs) = f[N]
  BY <1>2, <1>7
<1>9. f[0] = zero
  BY <1>8
<1>10. ASSUME NEW i \in 1 .. N PROVE f[i] = More(f[i - 1], rs[i])
  <2>1. i \in 0 .. N /\ i # 0
    OBVIOUS
  <2> QED
    BY <1>8, <2>1
<1> QED
  BY <1>1, <1>8, <1>9, <1>10 DEF More, zero

LEMMA FeedFits ==
  ASSUME NEW t \in TlsType, OutFits(t), SentFits(t.sent), NEW k \in 0 .. Len(t.sent), Taken(t, k),
         NEW rs \in Seq(0 .. CloseIn), k + Len(rs) <= Len(t.sent),
         \A i \in 1 .. Len(rs) : rs[i] = t.sent[k + i],
         NEW fed, fed = Feed(t, rs)
  PROVE  /\ fed.taken \in 0 .. Len(rs)
         /\ fed.t \in TlsType /\ OutFits(fed.t) /\ Taken(fed.t, k + fed.taken) /\ Alike(fed.t, t)
<1>1. PICK f : /\ Feed(t, rs) = f[Len(rs)] /\ f[0] = [t |-> t, taken |-> 0]
               /\ \A i \in 1 .. Len(rs) :
                    f[i] = IF Len(f[i - 1].t.plain) >= PlainLimit THEN f[i - 1]
                           ELSE [t |-> Takes(f[i - 1].t, rs[i]), taken |-> f[i - 1].taken + 1]
  BY SMTT(30), FeedIs
<1>2. PICK N, L \in Nat : N = Len(rs) /\ L = Len(t.sent)
  BY DEF TlsType
<1>3. k \in Nat /\ k + N <= L
  BY <1>2
<1> DEFINE Fine(i, a) ==
             /\ a.taken \in 0 .. i
             /\ a.taken = i \/ Len(a.t.plain) >= PlainLimit
             /\ a.t \in TlsType /\ OutFits(a.t) /\ Taken(a.t, k + a.taken) /\ Alike(a.t, t)
           T == {i \in 0 .. N : Fine(i, f[i])}
<1>4. 0 \in T
  <2>1. f[0].t = t /\ f[0].taken = 0 /\ k + 0 = k /\ 0 \in 0 .. 0 /\ 0 \in 0 .. N
    BY <1>1, <1>3
  <2>2. Alike(t, t)
    BY DEF Alike
  <2> QED
    BY <2>1, <2>2
<1>5. ASSUME NEW i \in 0 .. N, i < N, i \in T PROVE i + 1 \in T
  <2>1. i + 1 \in 1 .. N /\ (i + 1) - 1 = i /\ i + 1 \in 0 .. N
    BY <1>5
  <2>2. PICK a, b : a = f[i] /\ b = f[i + 1]
    OBVIOUS
  <2>3. b = IF Len(a.t.plain) >= PlainLimit THEN a
            ELSE [t |-> Takes(a.t, rs[i + 1]), taken |-> a.taken + 1]
    BY <1>1, <1>2, <2>1, <2>2
  <2>4. Fine(i, a)
    BY <1>5, <2>2
  <2>5. CASE Len(a.t.plain) >= PlainLimit
    <3>1. b = a /\ a.taken \in 0 .. i + 1
      BY <2>3, <2>4, <2>5
    <3>2. Fine(i + 1, b)
      BY <2>4, <2>5, <3>1
    <3> HIDE DEF Fine
    <3> QED
      BY <2>1, <2>2, <3>2
  <2>6. CASE ~(Len(a.t.plain) >= PlainLimit)
    <3>1. a.taken = i /\ a.t \in TlsType /\ OutFits(a.t) /\ Taken(a.t, k + i) /\ Alike(a.t, t)
      BY <2>4, <2>6
    <3>02. PICK n \in Nat : n = k + i
      BY <1>3
    <3>2. PICK u, x, r : u = a.t /\ x = rs[i + 1] /\ r = Takes(u, x) /\ n = k + i
      BY <3>02
    <3>3. b = [t |-> r, taken |-> i + 1]
      BY <2>3, <2>6, <3>1, <3>2
    <3>4. u.sent = t.sent
      BY <3>1, <3>2 DEF Alike
    <3>5. n \in 0 .. L /\ n < L
      BY <1>3, <1>5, <3>2
    <3>6. x = u.sent[n + 1]
      <4>1. i + 1 \in 1 .. Len(rs) /\ k + (i + 1) = n + 1
        BY <1>2, <1>3, <2>1, <3>2
      <4> QED
        BY <3>2, <3>4, <4>1
    <3>7. /\ u \in TlsType /\ OutFits(u) /\ SentFits(u.sent) /\ Taken(u, n) /\ Len(u.sent) = L
      BY <1>2, <3>1, <3>2, <3>4
    <3>8. r \in TlsType /\ OutFits(r) /\ Taken(r, n + 1) /\ Alike(r, u)
      BY <3>2, <3>5, <3>6, <3>7, TakesFits
    <3>9. Alike(r, t)
      BY <3>1, <3>2, <3>8 DEF Alike
    <3>10. n + 1 = k + (i + 1) /\ i + 1 \in 0 .. i + 1
      BY <1>3, <1>5, <3>2
    <3>11. b.t = r /\ b.taken = i + 1
      BY <3>3
    <3>12. Fine(i + 1, b)
      BY <3>8, <3>9, <3>10, <3>11
    <3> HIDE DEF Fine
    <3> QED
      BY <2>1, <2>2, <3>12
  <2> QED
    BY <2>5, <2>6
<1> HIDE DEF T
<1>6. \A i \in 0 .. N : i \in T
  BY <1>4, <1>5, UpTo
<1>7. Fine(N, f[N])
  BY <1>6 DEF T
<1>8. fed = f[N]
  BY <1>1, <1>2
<1> QED
  BY <1>2, <1>7, <1>8

LEMMA SuffixOf ==
  ASSUME NEW E, NEW s \in Seq(E), NEW n \in 0 .. Len(s)
  PROVE  /\ SubSeq(s, n + 1, Len(s)) \in Seq(E)
         /\ Len(SubSeq(s, n + 1, Len(s))) = Len(s) - n
         /\ \A i \in 1 .. Len(s) - n : SubSeq(s, n + 1, Len(s))[i] = s[n + i]
<1>1. PICK N \in Nat : N = Len(s)
  OBVIOUS
<1>2. n \in Nat /\ n <= N /\ n + 1 \in Int /\ N \in Int
  BY <1>1
<1>3. ASSUME NEW i \in n + 1 .. N PROVE s[i] \in E
  <2>1. i \in 1 .. Len(s)
    BY <1>1, <1>2
  <2> QED
    BY <2>1, ElementOfSeq
<1>4. /\ SubSeq(s, n + 1, N) \in Seq(E)
      /\ Len(SubSeq(s, n + 1, N)) = IF n + 1 <= N THEN N - (n + 1) + 1 ELSE 0
      /\ \A i \in 1 .. N - (n + 1) + 1 : SubSeq(s, n + 1, N)[i] = s[(n + 1) + i - 1]
  BY <1>2, <1>3, SubSeqProperties
<1>5. N - (n + 1) + 1 = N - n /\ \A i \in 1 .. N - n : (n + 1) + i - 1 = n + i
  BY <1>2
<1> QED
  BY <1>1, <1>2, <1>4, <1>5

\* rs are the records after the first k, before those on the wire.
Following(t, k, rs) ==
  /\ rs \in Seq(0 .. CloseIn) /\ Len(rs) + Len(t.net) = Len(t.sent) - k
  /\ \A i \in 1 .. Len(rs) : rs[i] = t.sent[k + i]
  /\ \A i \in 1 .. Len(t.net) : t.net[i] = t.sent[k + Len(rs) + i]

CarriedOn(fed, rs) == [fed.t EXCEPT !.carry = SubSeq(rs, fed.taken + 1, Len(rs))]

\* What is fed of a read is taken, and the rest of it is carried.
LEMMA PumpFits ==
  ASSUME NEW t \in TlsType, OutFits(t), SentFits(t.sent), ~t.eof, NEW k \in 0 .. Len(t.sent),
         Taken(t, k), NEW rs, Following(t, k, rs),
         NEW fed, fed = Feed(t, rs),
         NEW r, r = CarriedOn(fed, rs)
  PROVE  /\ r \in TlsType /\ OutFits(r) /\ InFits(r)
         /\ r.told = t.told /\ r.pc = t.pc /\ r.waits = t.waits /\ ~r.eof
<1>00. /\ rs \in Seq(0 .. CloseIn) /\ Len(rs) + Len(t.net) = Len(t.sent) - k
       /\ \A i \in 1 .. Len(rs) : rs[i] = t.sent[k + i]
       /\ \A i \in 1 .. Len(t.net) : t.net[i] = t.sent[k + Len(rs) + i]
  BY DEF Following
<1>01. Len(rs) \in Nat /\ Len(t.net) \in Nat /\ Len(t.sent) \in Nat
  BY SMTT(30), <1>00 DEF TlsType
<1>1. PICK N, M, L \in Nat : N = Len(rs) /\ M = Len(t.net) /\ L = Len(t.sent)
  BY <1>01
<1>2. k \in Nat /\ N + M = L - k /\ k + N <= L
  BY <1>00, <1>1
<1>3. /\ fed.taken \in 0 .. N
      /\ fed.t \in TlsType /\ OutFits(fed.t) /\ Taken(fed.t, k + fed.taken) /\ Alike(fed.t, t)
  BY <1>00, <1>1, <1>2, FeedFits
<1>4. PICK n \in Nat : n = fed.taken /\ n <= N
  BY <1>1, <1>3
<1>5. PICK w : w = fed.t
  OBVIOUS
<1>6. PICK c : c = SubSeq(rs, n + 1, N)
  OBVIOUS
<1>7. /\ c \in Seq(0 .. CloseIn) /\ Len(c) = N - n
      /\ \A i \in 1 .. N - n : c[i] = rs[n + i]
  <2>1. n \in 0 .. Len(rs)
    BY <1>1, <1>4
  <2> QED
    BY ZenonT(60), <1>00, <1>1, <1>6, <2>1, SuffixOf
<1>8. r = [w EXCEPT !.carry = c]
  BY <1>1, <1>4, <1>5, <1>6 DEF CarriedOn
<1>9. w \in TlsType /\ OutFits(w) /\ Taken(w, k + n) /\ Alike(w, t)
  BY <1>3, <1>4, <1>5
<1>10. /\ r \in TlsType /\ r.carry = c
       /\ r.pc = w.pc /\ r.shaking = w.shaking /\ r.given = w.given /\ r.closing = w.closing
       /\ r.fin = w.fin /\ r.sent = w.sent /\ r.net = w.net /\ r.hung = w.hung
       /\ r.handed = w.handed /\ r.out = w.out /\ r.flushed = w.flushed
       /\ r.plain = w.plain /\ r.got = w.got /\ r.closed = w.closed
       /\ r.eof = w.eof /\ r.told = w.told /\ r.waits = w.waits
  BY ZenonT(60), <1>7, <1>8, <1>9 DEF TlsType
<1>11. OutFits(r)
  <2>1. r.handed \o r.out = w.handed \o w.out
    BY <1>10
  <2>2. r.fin => r.closing /\ r.out = <<>> /\ r.flushed
    BY <1>9, <1>10 DEF OutFits
  <2> QED
    BY <1>9, <1>10, <2>1, <2>2, OutFitsStill
<1>12. r.sent = t.sent /\ r.net = t.net /\ r.told = t.told /\ r.pc = t.pc /\ r.waits = t.waits
       /\ r.eof = t.eof
  BY <1>9, <1>10 DEF Alike
<1>13. k + n \in 0 .. L
  BY <1>2, <1>4
<1>14. Taken(r, k + n)
  BY ZenonT(60), <1>9, <1>10 DEF Taken
<1>15. Rest(r, k + n)
  <2>1. (N - n) + M = L - (k + n)
    <3>1. k \in Nat /\ n \in Nat /\ N \in Nat /\ M \in Nat /\ L \in Nat /\ N + M = L - k
      BY <1>1, <1>2, <1>4
    <3> QED
      BY <3>1
  <2>2. ASSUME NEW i \in 1 .. N - n PROVE c[i] = t.sent[(k + n) + i]
    <3>0. k \in Nat /\ n \in Nat /\ N \in Nat /\ n <= N /\ i \in 1 .. N - n /\ Len(rs) = N
      BY <1>1, <1>2, <1>4
    <3>1. n + i \in 1 .. Len(rs) /\ k + (n + i) = (k + n) + i
      BY <3>0
    <3>2. rs[n + i] = t.sent[k + (n + i)]
      BY <1>00, <3>1
    <3> QED
      BY <1>7, <3>1, <3>2
  <2>3. ASSUME NEW i \in 1 .. M PROVE t.net[i] = t.sent[(k + n) + (N - n) + i]
    <3>1. (k + n) + (N - n) + i = k + N + i
      BY <1>2, <1>4
    <3>2. t.net[i] = t.sent[k + N + i]
      BY <1>00, <1>1
    <3> QED
      BY <3>1, <3>2
  <2>4. /\ Len(r.carry) = N - n /\ Len(r.net) = M /\ Len(r.sent) = L
        /\ r.carry = c /\ r.net = t.net /\ r.sent = t.sent
    BY <1>1, <1>7, <1>10, <1>12
  <2>5. \A i \in 1 .. Len(r.carry) : r.carry[i] = r.sent[(k + n) + i]
    BY <2>2, <2>4
  <2>6. \A i \in 1 .. Len(r.net) : r.net[i] = r.sent[(k + n) + Len(r.carry) + i]
    BY <2>3, <2>4
  <2>7. Len(r.carry) + Len(r.net) = Len(r.sent) - (k + n)
    BY <2>1, <2>4
  <2> QED
    BY <2>5, <2>6, <2>7, Zenon DEF Rest
<1>16. InFits(r)
  BY <1>1, <1>12, <1>13, <1>14, <1>15 DEF InFits
<1> QED
  BY <1>10, <1>11, <1>12, <1>16

LEMMA PumpedFits ==
  ASSUME NEW t \in TlsType, OutFits(t), InFits(t), ~t.eof, t.waits = "none", NEW p \in Pumped(t)
  PROVE  /\ p \in TlsType /\ OutFits(p) /\ InFits(p)
         /\ p.told = t.told /\ p.pc = t.pc
         /\ \/ p.waits = "none"
            \/ p = [t EXCEPT !.waits = "read"] /\ t.carry = <<>>
<1>1. SentFits(t.sent)
  BY DEF InFits
<1>2. PICK k \in 0 .. Len(t.sent) : Taken(t, k) /\ Rest(t, k)
  BY DEF InFits
<1>3. PICK D : D = 0 .. CloseIn
  OBVIOUS
<1>4. PICK cy, onWire : cy = t.carry /\ onWire = t.net
  OBVIOUS
<1>5. cy \in Seq(D) /\ onWire \in Seq(D)
  BY <1>3, <1>4 DEF TlsType
<1>6. PICK C, M, L \in Nat : C = Len(cy) /\ M = Len(onWire) /\ L = Len(t.sent)
  BY <1>5 DEF TlsType
<1>7. /\ k \in Nat /\ k <= L /\ C + M = L - k
      /\ \A i \in 1 .. C : cy[i] = t.sent[k + i]
      /\ \A i \in 1 .. M : onWire[i] = t.sent[k + C + i]
  <2>1. k \in Nat /\ k <= L
    BY <1>6
  <2>2. Len(t.carry) = C /\ Len(t.net) = M /\ Len(t.sent) = L
    BY <1>4, <1>6
  <2>3. C + M = L - k
    BY <1>2, <2>2 DEF Rest
  <2>4. \A i \in 1 .. C : t.carry[i] = t.sent[k + i]
    BY <1>2, <2>2 DEF Rest
  <2>5. \A i \in 1 .. M : t.net[i] = t.sent[k + C + i]
    BY <1>2, <2>2 DEF Rest
  <2> QED
    BY <1>4, <2>1, <2>3, <2>4, <2>5
<1>8. CASE cy # <<>>
  <2>1. p = PumpCarried(t)
    BY <1>4, <1>8 DEF Pumped
  <2>2. PICK fed : fed = Feed(t, cy)
    OBVIOUS
  <2>3. /\ Len(cy) + Len(t.net) = Len(t.sent) - k
        /\ \A i \in 1 .. Len(cy) : cy[i] = t.sent[k + i]
        /\ \A i \in 1 .. Len(t.net) : t.net[i] = t.sent[k + Len(cy) + i]
        /\ cy \in Seq(0 .. CloseIn)
    BY <1>3, <1>4, <1>5, <1>6, <1>7
  <2>4. fed.t.carry = cy
    <3>1. k + Len(cy) <= Len(t.sent)
      BY <1>6, <1>7
    <3>2. Alike(fed.t, t)
      BY <1>1, <1>2, <2>2, <2>3, <3>1, FeedFits
    <3> QED
      BY <1>4, <3>2 DEF Alike
  <2>5. p = CarriedOn(fed, cy)
    BY <1>4, <2>1, <2>2, <2>4 DEF PumpCarried, CarriedOn
  <2>6. p \in TlsType /\ OutFits(p) /\ InFits(p) /\ p.told = t.told /\ p.pc = t.pc
        /\ p.waits = t.waits
    <3>1. Following(t, k, cy)
      BY <2>3 DEF Following
    <3> QED
      BY <1>1, <1>2, <2>2, <2>5, <3>1, PumpFits
  <2> QED
    BY <2>6
<1>9. CASE cy = <<>> /\ Readable(t) = {}
  <2>1. p = [t EXCEPT !.waits = "read"]
    BY <1>4, <1>9 DEF Pumped
  <2>2. /\ p \in TlsType
        /\ p.pc = t.pc /\ p.shaking = t.shaking /\ p.given = t.given /\ p.closing = t.closing
        /\ p.fin = t.fin /\ p.sent = t.sent /\ p.net = t.net /\ p.hung = t.hung
        /\ p.handed = t.handed /\ p.out = t.out /\ p.flushed = t.flushed /\ p.carry = t.carry
        /\ p.plain = t.plain /\ p.got = t.got /\ p.closed = t.closed
        /\ p.eof = t.eof /\ p.told = t.told
    BY <2>1 DEF TlsType
  <2>3. OutFits(p)
    <3>1. p.handed \o p.out = t.handed \o t.out
      BY <2>2
    <3>2. p.fin => p.closing /\ p.out = <<>> /\ p.flushed
      BY <2>2 DEF OutFits
    <3> QED
      BY <2>2, <3>1, <3>2, OutFitsStill
  <2>4. Taken(p, k) /\ Rest(p, k)
    BY ZenonT(60), <1>2, <2>2 DEF Taken, Rest
  <2>5. InFits(p)
    BY <1>1, <2>2, <2>4 DEF InFits
  <2> QED
    BY <1>4, <1>9, <2>1, <2>2, <2>3, <2>5
<1>10. CASE cy = <<>> /\ Readable(t) # {}
  <2>1. PICK n \in Readable(t) : p = PumpRead(t, n)
    BY <1>4, <1>10 DEF Pumped
  <2>2. C = 0
    <3>1. \A q : q = <<>> => Len(q) = 0
      OBVIOUS
    <3> QED
      BY <1>6, <1>10, <3>1
  <2>3. n \in 0 .. M /\ (n > 0 \/ (onWire = <<>> /\ t.hung))
    <3>1. Min({Scratch, M}) \in 0 .. M
      BY TlsNumbers, LesserOf
    <3> QED
      BY <1>4, <1>6, <2>1, <3>1 DEF Readable
  <2>4. CASE n = 0
    <3>1. p = [t EXCEPT !.eof = TRUE]
      BY <2>1, <2>4 DEF PumpRead
    <3>2. /\ p \in TlsType
          /\ p.pc = t.pc /\ p.shaking = t.shaking /\ p.given = t.given /\ p.closing = t.closing
          /\ p.fin = t.fin /\ p.sent = t.sent /\ p.net = t.net /\ p.hung = t.hung
          /\ p.handed = t.handed /\ p.out = t.out /\ p.flushed = t.flushed /\ p.carry = t.carry
          /\ p.plain = t.plain /\ p.got = t.got /\ p.closed = t.closed
          /\ p.waits = t.waits /\ p.told = t.told
      BY <3>1 DEF TlsType
    <3>3. OutFits(p)
      <4>1. p.handed \o p.out = t.handed \o t.out
        BY <3>2
      <4>2. p.fin => p.closing /\ p.out = <<>> /\ p.flushed
        BY <3>2 DEF OutFits
      <4> QED
        BY <3>2, <4>1, <4>2, OutFitsStill
    <3>4. Taken(p, k) /\ Rest(p, k)
      BY ZenonT(60), <1>2, <3>2 DEF Taken, Rest
    <3>5. p.hung /\ p.carry = <<>> /\ p.net = <<>>
      <4>1. onWire = <<>> /\ t.hung
        BY <2>3, <2>4
      <4> QED
        BY <1>4, <1>10, <3>2, <4>1
    <3>6. InFits(p)
      BY <1>1, <3>2, <3>4, <3>5 DEF InFits
    <3> QED
      BY <3>2, <3>3, <3>6
  <2>5. CASE n # 0
    <3>1. PICK rs, left : rs = SubSeq(onWire, 1, n) /\ left = SubSeq(onWire, n + 1, M)
      OBVIOUS
    <3>2. rs \in Seq(D) /\ Len(rs) = n /\ \A i \in 1 .. n : rs[i] = onWire[i]
      <4>1. n \in 0 .. Len(onWire)
        BY <1>6, <2>3
      <4> QED
        BY <1>5, <3>1, <4>1, PrefixGrows
    <3>3. left \in Seq(D) /\ Len(left) = M - n /\ \A i \in 1 .. M - n : left[i] = onWire[n + i]
      <4>1. n \in 0 .. Len(onWire)
        BY <1>6, <2>3
      <4> QED
        BY <1>5, <1>6, <3>1, <4>1, SuffixOf
    <3>4. PICK u, fed : u = [t EXCEPT !.net = left] /\ fed = Feed(u, rs)
      OBVIOUS
    <3>5. p = CarriedOn(fed, rs)
      BY <1>4, <1>6, <2>1, <2>5, <3>1, <3>2, <3>4 DEF PumpRead, CarriedOn
    <3>6. /\ u \in TlsType /\ u.net = left
          /\ u.pc = t.pc /\ u.shaking = t.shaking /\ u.given = t.given /\ u.closing = t.closing
          /\ u.fin = t.fin /\ u.sent = t.sent
          /\ u.handed = t.handed /\ u.out = t.out /\ u.flushed = t.flushed
          /\ u.plain = t.plain /\ u.got = t.got /\ u.closed = t.closed
          /\ u.eof = t.eof /\ u.told = t.told /\ u.waits = t.waits
      BY <1>3, <3>3, <3>4 DEF TlsType
    <3>7. OutFits(u)
      <4>1. u.handed \o u.out = t.handed \o t.out
        BY <3>6
      <4>2. u.fin => u.closing /\ u.out = <<>> /\ u.flushed
        BY <3>6 DEF OutFits
      <4> QED
        BY <3>6, <4>1, <4>2, OutFitsStill
    <3>8. Taken(u, k) /\ SentFits(u.sent) /\ ~u.eof /\ k \in 0 .. Len(u.sent)
      BY <1>1, <1>2, <3>6 DEF Taken
    <3>9. Len(rs) + Len(u.net) = Len(u.sent) - k
      <4>1. n + (M - n) = L - k
        BY <1>7, <2>2, <2>3
      <4> QED
        BY <1>6, <3>2, <3>3, <3>6, <4>1
    <3>10. ASSUME NEW i \in 1 .. Len(rs) PROVE rs[i] = u.sent[k + i]
      <4>1. i \in 1 .. n /\ i \in 1 .. M /\ k + C + i = k + i
        BY <1>7, <2>2, <2>3, <3>2
      <4>2. onWire[i] = t.sent[k + C + i]
        BY <1>7, <4>1
      <4> QED
        BY <3>2, <3>6, <4>1, <4>2
    <3>11. ASSUME NEW i \in 1 .. Len(u.net) PROVE u.net[i] = u.sent[k + Len(rs) + i]
      <4>1. i \in 1 .. M - n /\ n + i \in 1 .. M /\ k + C + (n + i) = k + n + i
        BY <1>7, <2>2, <2>3, <3>3, <3>6
      <4>2. onWire[n + i] = t.sent[k + C + (n + i)]
        BY <1>7, <4>1
      <4> QED
        BY <3>2, <3>3, <3>6, <4>1, <4>2
    <3>12. /\ p \in TlsType /\ OutFits(p) /\ InFits(p)
           /\ p.told = u.told /\ p.pc = u.pc /\ p.waits = u.waits
      <4>1. rs \in Seq(0 .. CloseIn)
        BY <1>3, <3>2
      <4>2. Following(u, k, rs)
        BY <3>9, <3>10, <3>11, <4>1 DEF Following
      <4>3. fed = Feed(u, rs) /\ u \in TlsType
        BY <3>4, <3>6
      <4> QED
        BY <3>5, <3>7, <3>8, <4>2, <4>3, PumpFits
    <3> QED
      BY <3>6, <3>12
  <2> QED
    BY <2>4, <2>5
<1> QED
  BY <1>8, <1>9, <1>10

LEMMA InFitsStill ==
  ASSUME NEW t, NEW r, InFits(t), r.sent = t.sent, r.net = t.net, r.carry = t.carry,
         r.got \o r.plain = t.got \o t.plain, r.closed = t.closed, r.shaking = t.shaking,
         r.eof = t.eof, r.hung = t.hung
  PROVE  InFits(r)
<1>1. PICK k \in 0 .. Len(t.sent) : Taken(t, k) /\ Rest(t, k)
  BY DEF InFits
<1>2. Taken(r, k)
  BY <1>1, Zenon DEF Taken
<1>3. Rest(r, k)
  BY <1>1, Zenon DEF Rest
<1>4. SentFits(r.sent) /\ (r.eof => r.hung /\ r.carry = <<>> /\ r.net = <<>>) /\ k \in 0 .. Len(r.sent)
  BY DEF InFits
<1> QED
  BY <1>2, <1>3, <1>4 DEF InFits

\* Flushing disturbs nothing, and never waits for the peer.
LEMMA FlushSound ==
  ASSUME NEW t, TlsSound(t), NEW f \in FlushAnswers(t), NEW r, r = FlushOutgoing(t, f)
  PROVE  /\ TlsFits(r) /\ r.waits # "read"
         /\ FlushDone(r) => r.out = <<>> /\ r.flushed /\ r.waits = "none"
         /\ r.pc = t.pc /\ r.shaking = t.shaking /\ r.given = t.given /\ r.closing = t.closing
         /\ r.fin = t.fin /\ r.plain = t.plain /\ r.closed = t.closed
         /\ r.eof = t.eof /\ r.told = t.told
<1>1. t \in TlsType /\ OutFits(t) /\ InFits(t) /\ TellFits(t)
  BY DEF TlsSound
<1>2. /\ r \in TlsType /\ OutFits(r)
      /\ r.waits \in {"none", "room", "flush"}
      /\ FlushDone(r) => r.out = <<>> /\ r.flushed
      /\ r.pc = t.pc /\ r.shaking = t.shaking /\ r.given = t.given /\ r.closing = t.closing
      /\ r.fin = t.fin /\ r.sent = t.sent /\ r.net = t.net /\ r.hung = t.hung
      /\ r.carry = t.carry /\ r.plain = t.plain /\ r.got = t.got /\ r.closed = t.closed
      /\ r.eof = t.eof /\ r.told = t.told
  BY <1>1, FlushFits
<1>3. r.got \o r.plain = t.got \o t.plain
  BY <1>2
<1>4. InFits(r)
  BY <1>1, <1>2, <1>3, InFitsStill
<1>5. TellFits(r)
  BY <1>1, <1>2 DEF TellFits
<1> QED
  BY <1>2, <1>4, <1>5 DEF TlsFits, TlsSound, FlushDone

Mark(t, x, y, w) == [t EXCEPT !.pc = x, !.told = y, !.waits = w]

\* Where the caller is and what it was told.
LEMMA Marked ==
  ASSUME NEW t \in TlsType, OutFits(t), InFits(t),
         NEW x \in {"handshake", "idle", "reading", "failed"}, NEW y \in {"no", "clean", "cut"},
         NEW w \in {"none", "room", "flush", "read"},
         NEW r, r = Mark(t, x, y, w)
  PROVE  /\ r \in TlsType /\ OutFits(r) /\ InFits(r) /\ r.pc = x /\ r.told = y /\ r.waits = w
         /\ r.out = t.out /\ r.plain = t.plain /\ r.carry = t.carry
         /\ r.closed = t.closed /\ r.eof = t.eof
<1>1. /\ r \in TlsType /\ r.pc = x /\ r.told = y /\ r.waits = w
      /\ r.shaking = t.shaking /\ r.given = t.given /\ r.closing = t.closing
      /\ r.fin = t.fin /\ r.sent = t.sent /\ r.net = t.net /\ r.hung = t.hung
      /\ r.handed = t.handed /\ r.out = t.out /\ r.flushed = t.flushed /\ r.carry = t.carry
      /\ r.plain = t.plain /\ r.got = t.got /\ r.closed = t.closed /\ r.eof = t.eof
  BY DEF TlsType, Mark
<1>2. r.handed \o r.out = t.handed \o t.out /\ r.got \o r.plain = t.got \o t.plain
  BY <1>1
<1>3. r.fin => r.closing /\ r.out = <<>> /\ r.flushed
  BY <1>1 DEF OutFits
<1>4. OutFits(r)
  BY <1>1, <1>2, <1>3, OutFitsStill
<1>5. InFits(r)
  BY <1>1, <1>2, InFitsStill
<1> QED
  BY <1>1, <1>4, <1>5

\* A stream that shakes hands has read nothing.
LEMMA ShakesUnread ==
  ASSUME NEW t \in TlsType, InFits(t), t.shaking
  PROVE  t.plain = <<>> /\ ~t.closed
<1>1. PICK k \in 0 .. Len(t.sent) : Taken(t, k)
  BY DEF InFits
<1>2. k = 0
  BY <1>1 DEF Taken
<1>3. PICK s, g, p, D : s = t.sent /\ g = t.got /\ p = t.plain /\ D = 1 .. MaxIn
  OBVIOUS
<1>4. g \in Seq(D) /\ p \in Seq(D) /\ s \in Seq(0 .. CloseIn)
  BY <1>3 DEF TlsType
<1>5. SubSeq(s, 1, 0) = <<>>
  BY <1>4, SubSeqEmpty
<1>6. g \o p = <<>>
  BY <1>1, <1>2, <1>3, <1>5, NoDatas DEF Taken
<1>7. p = <<>>
  BY <1>4, <1>6, ConcatEmptySeq
<1>8. ~t.closed
  BY <1>1, <1>2 DEF Taken, TlsType
<1> QED
  BY <1>3, <1>7, <1>8

LEMMA HandshakeFits ==
  ASSUME NEW z, NEW y, TlsFits(z), z.pc = "handshake", NEW f \in FlushAnswers(z),
         NEW t, t = FlushOutgoing(z, f),
         IF ~FlushDone(t) THEN y = t
         ELSE IF ~t.shaking THEN y = [t EXCEPT !.pc = "idle"]
         ELSE \E p \in Pumped(t) : y = IF p.eof THEN [p EXCEPT !.pc = "failed"] ELSE p
  PROVE  TlsFits(y)
<1>1. /\ TlsFits(t) /\ TlsSound(t) /\ t.pc = "handshake" /\ (FlushDone(t) => t.out = <<>> /\ t.waits = "none")
  <2>1. TlsSound(z)
    BY DEF TlsFits
  <2> QED
    BY <2>1, FlushSound DEF TlsFits
<1>2. t \in TlsType /\ OutFits(t) /\ InFits(t) /\ TellFits(t)
  BY <1>1 DEF TlsSound
<1>3. t.told = "no" /\ ~t.eof
  BY <1>1, <1>2 DEF TellFits
<1>4. CASE ~FlushDone(t)
  BY <1>1, <1>4
<1>5. CASE FlushDone(t) /\ ~t.shaking
  <2>1. y = Mark(t, "idle", "no", "none")
    <3>1. t \in TlsType /\ t.told = "no" /\ t.waits = "none" /\ y = [t EXCEPT !.pc = "idle"]
      BY <1>1, <1>2, <1>3, <1>5
    <3> QED
      BY <3>1 DEF TlsType, Mark
  <2>2. y \in TlsType /\ OutFits(y) /\ InFits(y) /\ y.pc = "idle" /\ y.told = "no" /\ y.waits = "none"
    BY <1>2, <2>1, Marked
  <2> QED
    BY <2>2 DEF TlsFits, TlsSound, TellFits
<1>6. CASE FlushDone(t) /\ t.shaking
  <2>1. PICK p \in Pumped(t) : y = IF p.eof THEN [p EXCEPT !.pc = "failed"] ELSE p
    BY <1>6
  <2>2. /\ p \in TlsType /\ OutFits(p) /\ InFits(p)
        /\ p.told = t.told /\ p.pc = t.pc
        /\ \/ p.waits = "none"
           \/ p = [t EXCEPT !.waits = "read"] /\ t.carry = <<>>
    BY <1>1, <1>2, <1>3, <1>6, PumpedFits
  <2>3. p.waits = "read" => p.plain = <<>> /\ p.carry = <<>> /\ p.out = <<>> /\ ~p.closed /\ ~p.eof
    <3>1. t.plain = <<>> /\ ~t.closed
      BY <1>2, <1>6, ShakesUnread
    <3>2. CASE p = [t EXCEPT !.waits = "read"] /\ t.carry = <<>>
      BY <1>1, <1>2, <1>3, <1>6, <3>1, <3>2 DEF TlsType
    <3> QED
      BY <2>2, <3>2
  <2>4. CASE p.eof
    <3>1. y = Mark(p, "failed", "no", p.waits)
      BY ZenonT(60), <1>3, <2>1, <2>2, <2>4 DEF TlsType, Mark
    <3>2. p.waits \in {"none", "room", "flush", "read"}
      BY <2>2 DEF TlsType
    <3>3. /\ y \in TlsType /\ OutFits(y) /\ InFits(y) /\ y.pc = "failed" /\ y.told = "no"
          /\ y.waits = p.waits /\ y.eof = p.eof
      BY SMTT(30), <2>2, <3>1, <3>2, Marked
    <3> QED
      BY <2>3, <2>4, <3>3 DEF TlsFits, TlsSound, TellFits
  <2>5. CASE ~p.eof
    <3>1. y = p
      BY <2>1, <2>5
    <3>2. TellFits(y)
      BY <1>3, <2>2, <2>5, <3>1 DEF TellFits
    <3> QED
      BY <2>2, <2>3, <3>1, <3>2 DEF TlsFits, TlsSound
  <2> QED
    BY <2>4, <2>5
<1> QED
  BY <1>4, <1>5, <1>6

\* The states a pass of poll_read or poll_write leaves.
Received(z, n) == [z EXCEPT !.got = @ \o SubSeq(z.plain, 1, n), !.pc = "idle",
                            !.plain = SubSeq(@, n + 1, Len(@)), !.waits = "none"]

Answered(z) == [z EXCEPT !.told = IF z.closed THEN "clean" ELSE "cut",
                         !.pc = "idle", !.waits = "none"]

At(t, x) == [t EXCEPT !.pc = x]

Unwaiting(t) == [t EXCEPT !.waits = "none"]

LEMMA AtMark ==
  ASSUME NEW t \in TlsType, NEW x
  PROVE  At(t, x) = Mark(t, x, t.told, t.waits)
  BY DEF TlsType, At, Mark

LEMMA ReadFits ==
  ASSUME NEW z, TlsFits(z), z.pc \in {"idle", "reading"}, z.told = "no", z.plain # <<>>,
         NEW n \in 1 .. Len(z.plain),
         NEW y, y = Received(z, n)
  PROVE  TlsFits(y)
<1>1. z \in TlsType /\ OutFits(z) /\ InFits(z) /\ TellFits(z)
  BY DEF TlsFits, TlsSound
<1>2. PICK D, g, p, a, b : /\ D = 1 .. MaxIn /\ g = z.got /\ p = z.plain
                           /\ a = SubSeq(p, 1, n) /\ b = SubSeq(p, n + 1, Len(p))
  OBVIOUS
<1>3. g \in Seq(D) /\ p \in Seq(D) /\ n \in 0 .. Len(p) /\ Len(p) \in Nat
  BY <1>1, <1>2 DEF TlsType
<1>4. a \in Seq(D) /\ b \in Seq(D)
  <2>1. a \in Seq(D)
    BY <1>2, <1>3, PrefixGrows
  <2>2. b \in Seq(D)
    BY <1>2, <1>3, SuffixOf
  <2> QED
    BY <2>1, <2>2
<1>5. a \o b = p
  <2>1. 1 \in 1 .. Len(p) + 1 /\ n \in 1 - 1 .. Len(p) /\ Len(p) \in n .. Len(p)
    BY <1>3
  <2>2. SubSeq(p, 1, n) \o SubSeq(p, n + 1, Len(p)) = SubSeq(p, 1, Len(p))
    BY <1>3, <2>1, ConcatAdjacentSubSeq
  <2>3. SubSeq(p, 1, Len(p)) = p
    BY <1>3, PrefixEnds
  <2> QED
    BY <1>2, <2>2, <2>3
<1>6. PICK ga : ga = g \o a
  OBVIOUS
<1>7. ga \in Seq(D) /\ ga \o b = g \o p
  <2>1. \A u, v, w \in Seq(D) : (u \o v) \o w = u \o (v \o w)
    BY SMTT(30), ConcatAssociative
  <2>2. (g \o a) \o b = g \o (a \o b)
    BY ZenonT(60), <1>3, <1>4, <2>1
  <2> QED
    BY <1>3, <1>4, <1>5, <1>6, <2>2, ConcatProperties
<1>8. y = [z EXCEPT !.got = ga, !.pc = "idle", !.plain = b, !.waits = "none"]
  BY <1>1, <1>2, <1>6 DEF TlsType, Received
<1>9. /\ y \in TlsType /\ y.got = ga /\ y.pc = "idle" /\ y.plain = b /\ y.waits = "none"
      /\ y.shaking = z.shaking /\ y.given = z.given /\ y.closing = z.closing
      /\ y.fin = z.fin /\ y.sent = z.sent /\ y.net = z.net /\ y.hung = z.hung
      /\ y.handed = z.handed /\ y.out = z.out /\ y.flushed = z.flushed /\ y.carry = z.carry
      /\ y.closed = z.closed /\ y.eof = z.eof /\ y.told = z.told
  BY ZenonT(60), <1>1, <1>2, <1>4, <1>7, <1>8 DEF TlsType
<1>10. y.handed \o y.out = z.handed \o z.out /\ y.got \o y.plain = z.got \o z.plain
  BY <1>2, <1>7, <1>9
<1>11. y.fin => y.closing /\ y.out = <<>> /\ y.flushed
  BY <1>1, <1>9 DEF OutFits
<1>12. OutFits(y)
  BY <1>1, <1>9, <1>10, <1>11, OutFitsStill
<1>13. InFits(y)
  BY <1>1, <1>9, <1>10, InFitsStill
<1>14. TellFits(y)
  BY <1>1, <1>9 DEF TellFits
<1> QED
  BY <1>9, <1>12, <1>13, <1>14 DEF TlsFits, TlsSound

LEMMA ToldFits ==
  ASSUME NEW z, TlsFits(z), z.told = "no", z.plain = <<>>, z.closed \/ z.eof,
         NEW y, y = Answered(z)
  PROVE  TlsFits(y)
<1>1. z \in TlsType /\ OutFits(z) /\ InFits(z) /\ TellFits(z)
  BY DEF TlsFits, TlsSound
<1>2. PICK a \in {"no", "clean", "cut"} : a = IF z.closed THEN "clean" ELSE "cut"
  OBVIOUS
<1>3. y = Mark(z, "idle", a, "none")
  BY <1>1, <1>2 DEF TlsType, Mark, Answered
<1>4. /\ y \in TlsType /\ OutFits(y) /\ InFits(y) /\ y.pc = "idle" /\ y.told = a /\ y.waits = "none"
      /\ y.plain = z.plain /\ y.closed = z.closed /\ y.eof = z.eof
  BY <1>1, <1>3, Marked
<1>5. TellFits(y)
  <2>1. z.closed \in BOOLEAN
    BY <1>1 DEF TlsType
  <2>2. a # "no" /\ (a = "clean" <=> z.closed)
    BY <1>2, <2>1
  <2> QED
    BY <1>4, <2>1, <2>2 DEF TellFits
<1> QED
  BY <1>4, <1>5 DEF TlsFits, TlsSound

LEMMA ReadsOn ==
  ASSUME NEW z, NEW y, TlsFits(z), z.pc \in {"idle", "reading"}, z.told = "no", z.plain = <<>>,
         ~z.closed, ~z.eof, NEW f \in FlushAnswers(z), NEW t, t = FlushOutgoing(z, f),
         IF ~FlushDone(t) THEN y = At(t, "idle")
         ELSE \E p \in Pumped(t) : y = At(p, IF p.waits = "read" THEN "idle" ELSE "reading")
  PROVE  TlsFits(y)
<1>1. /\ TlsFits(t) /\ TlsSound(t) /\ (FlushDone(t) => t.out = <<>> /\ t.waits = "none")
      /\ t.plain = <<>> /\ ~t.closed /\ ~t.eof /\ t.told = "no" /\ t.waits # "read"
  <2>1. TlsSound(z)
    BY DEF TlsFits
  <2> QED
    BY <2>1, FlushSound DEF TlsFits
<1>2. t \in TlsType /\ OutFits(t) /\ InFits(t) /\ TellFits(t)
  BY <1>1 DEF TlsSound
<1>3. CASE ~FlushDone(t)
  <2>1. t.waits \in {"none", "room", "flush", "read"}
    BY <1>2 DEF TlsType
  <2>2. y = Mark(t, "idle", "no", t.waits)
    <3>1. y = At(t, "idle") /\ t \in TlsType /\ t.told = "no"
      BY <1>1, <1>2, <1>3
    <3> QED
      BY <3>1, AtMark
  <2>3. /\ y \in TlsType /\ OutFits(y) /\ InFits(y) /\ y.pc = "idle" /\ y.told = "no"
        /\ y.waits = t.waits
    BY SMTT(30), <1>2, <2>1, <2>2, Marked
  <2> QED
    BY <1>1, <2>3 DEF TlsFits, TlsSound, TellFits
<1>4. CASE FlushDone(t)
  <2>1. PICK p \in Pumped(t) : y = At(p, IF p.waits = "read" THEN "idle" ELSE "reading")
    BY <1>4
  <2>2. /\ p \in TlsType /\ OutFits(p) /\ InFits(p)
        /\ p.told = t.told /\ p.pc = t.pc
        /\ \/ p.waits = "none"
           \/ p = [t EXCEPT !.waits = "read"] /\ t.carry = <<>>
    BY <1>1, <1>2, <1>4, PumpedFits
  <2>3. p.waits = "read" => p.plain = <<>> /\ p.carry = <<>> /\ p.out = <<>> /\ ~p.closed /\ ~p.eof
    <3>1. CASE p = [t EXCEPT !.waits = "read"] /\ t.carry = <<>>
      BY <1>1, <1>2, <1>4, <3>1 DEF TlsType
    <3> QED
      BY <2>2, <3>1
  <2>4. PICK x \in {"idle", "reading"} : x = IF p.waits = "read" THEN "idle" ELSE "reading"
    OBVIOUS
  <2>5. p.waits \in {"none", "room", "flush", "read"}
    BY <2>2 DEF TlsType
  <2>6. y = Mark(p, x, "no", p.waits)
    <3>1. y = At(p, x) /\ p \in TlsType /\ p.told = "no"
      BY <1>1, <2>1, <2>2, <2>4
    <3> QED
      BY <3>1, AtMark
  <2>7. /\ y \in TlsType /\ OutFits(y) /\ InFits(y) /\ y.pc = x /\ y.told = "no"
        /\ y.waits = p.waits /\ y.eof = p.eof /\ y.plain = p.plain /\ y.carry = p.carry
        /\ y.out = p.out /\ y.closed = p.closed
    BY SMTT(30), <2>2, <2>4, <2>5, <2>6, Marked
  <2> QED
    BY <2>3, <2>4, <2>7 DEF TlsFits, TlsSound, TellFits
<1> QED
  BY <1>3, <1>4

\* A poll that queues what its caller gave.
LEMMA GivenFits ==
  ASSUME NEW t, TlsFits(t), t.pc = "idle", ~t.closing, t.given < MaxOut,
         NEW w, w = [t EXCEPT !.out = Append(@, t.given + 1), !.given = @ + 1]
  PROVE  TlsSound(w) /\ w.out # <<>>
<1>1. t \in TlsType /\ OutFits(t) /\ InFits(t) /\ TellFits(t)
  BY DEF TlsFits, TlsSound
<1>2. PICK D, h, o, x : /\ D = 0 .. CloseOut /\ h = t.handed /\ o = t.out /\ x = t.given + 1
  OBVIOUS
<1>3. /\ h \in Seq(D) /\ o \in Seq(D) /\ x \in D /\ x \in 1 .. MaxOut /\ x \in 0 .. MaxOut
      /\ x - 1 = t.given /\ x - 1 \in 0 .. MaxOut
  <2>1. t.given \in 0 .. MaxOut /\ h \in Seq(D) /\ o \in Seq(D)
    BY <1>1, <1>2 DEF TlsType
  <2>2. PICK n \in Nat : n = t.given
    BY <2>1, TlsNumbers
  <2>3. x = n + 1 /\ n < MaxOut /\ MaxOut \in Nat /\ CloseOut = MaxOut + 1
    BY <1>2, <2>2, TlsNumbers
  <2>4. x \in 1 .. MaxOut /\ x \in 0 .. MaxOut /\ x \in 0 .. CloseOut /\ x - 1 = n /\ n \in 0 .. MaxOut
    BY <2>3
  <2> QED
    BY <1>2, <2>1, <2>2, <2>4
<1>4. PICK ox : ox = Append(o, x)
  OBVIOUS
<1>5. ox \in Seq(D) /\ ox # <<>> /\ h \o ox = Append(h \o o, x) /\ h \o o \in Seq(D)
  <2>1. h \in Seq(D) /\ o \in Seq(D) /\ x \in D
    BY <1>3
  <2>2. ox \in Seq(D) /\ Len(ox) = Len(o) + 1 /\ Len(o) \in Nat
    BY <1>4, <2>1
  <2>3. ox # <<>>
    BY <2>2
  <2>4. h \o ox = Append(h \o o, x) /\ h \o o \in Seq(D)
    BY <1>4, <2>1
  <2> QED
    BY <2>2, <2>3, <2>4
<1>6. Datas(h \o o, MaxOut) = [i \in 1 .. x - 1 |-> i]
  BY <1>1, <1>2, <1>3 DEF OutFits
<1>7. Datas(h \o ox, MaxOut) = [i \in 1 .. x |-> i]
  <2>1. Datas(h \o ox, MaxOut) = Append(Datas(h \o o, MaxOut), x)
    BY <1>3, <1>5, DatasAppend
  <2>2. Append([i \in 1 .. x - 1 |-> i], x) = [i \in 1 .. x |-> i]
    <3>1. x \in Nat /\ x >= 1
      BY <1>3
    <3>2. PICK q, a : q = [i \in 1 .. x - 1 |-> i] /\ a = Append(q, x)
      OBVIOUS
    <3>3. q \in Seq(Nat) /\ Len(q) = x - 1
      BY <3>1, <3>2
    <3>4. a \in Seq(Nat) /\ Len(a) = x
      BY <3>1, <3>2, <3>3
    <3>5. ASSUME NEW i \in 1 .. x PROVE a[i] = i
      BY <3>1, <3>2, <3>3, <3>5
    <3>6. a = [i \in 1 .. x |-> a[i]]
      BY <3>4
    <3>7. [i \in 1 .. x |-> a[i]] = [i \in 1 .. x |-> i]
      BY <3>5
    <3> QED
      BY <3>2, <3>6, <3>7
  <2> QED
    BY <1>6, <2>1, <2>2
<1>8. w = [t EXCEPT !.out = ox, !.given = x]
  BY <1>1, <1>2, <1>4 DEF TlsType
<1>9. /\ w \in TlsType /\ w.out = ox /\ w.given = x
      /\ w.pc = t.pc /\ w.shaking = t.shaking /\ w.closing = t.closing
      /\ w.fin = t.fin /\ w.sent = t.sent /\ w.net = t.net /\ w.hung = t.hung
      /\ w.handed = t.handed /\ w.flushed = t.flushed /\ w.carry = t.carry
      /\ w.plain = t.plain /\ w.got = t.got
      /\ w.closed = t.closed /\ w.eof = t.eof /\ w.told = t.told /\ w.waits = t.waits
  BY ZenonT(60), <1>1, <1>2, <1>3, <1>5, <1>8 DEF TlsType
<1>10. OutFits(w)
  <2>1. w.handed \o w.out = h \o ox
    BY <1>2, <1>9
  <2>2. ~w.closing /\ ~w.fin
    BY <1>1, <1>9 DEF OutFits
  <2> QED
    BY <1>7, <1>9, <2>1, <2>2, Zenon DEF OutFits
<1>11. w.got \o w.plain = t.got \o t.plain
  BY <1>9
<1>12. InFits(w)
  BY <1>1, <1>9, <1>11, InFitsStill
<1>13. TellFits(w)
  BY <1>1, <1>9 DEF TellFits
<1> QED
  BY <1>5, <1>9, <1>10, <1>12, <1>13 DEF TlsSound

\* A caller that stops waiting leaves the rest as it was.
LEMMA Unwaited ==
  ASSUME NEW v \in TlsType, OutFits(v), InFits(v), NEW y, y = Unwaiting(v)
  PROVE  /\ y \in TlsType /\ OutFits(y) /\ InFits(y) /\ y.pc = v.pc /\ y.told = v.told
         /\ y.waits = "none" /\ y.plain = v.plain /\ y.closed = v.closed /\ y.eof = v.eof
<1>1. v.pc \in {"handshake", "idle", "reading", "failed"} /\ v.told \in {"no", "clean", "cut"}
  BY DEF TlsType
<1>2. y = Mark(v, v.pc, v.told, "none")
  BY DEF TlsType, Mark, Unwaiting
<1> QED
  BY <1>1, <1>2, Marked, SMTT(30)

LEMMA WriteFits ==
  ASSUME NEW z, NEW y, TlsFits(z), z.pc = "idle", ~z.closing, z.given < MaxOut,
         NEW f \in FlushAnswers(z), NEW t, t = FlushOutgoing(z, f), FlushDone(t),
         NEW w, w = [t EXCEPT !.out = Append(@, z.given + 1), !.given = @ + 1],
         NEW g \in BOOLEAN, y = Unwaiting(FlushOutgoing(w, g))
  PROVE  TlsFits(y)
<1>1. TlsFits(t) /\ t.pc = "idle" /\ ~t.closing /\ t.given = z.given /\ t.given < MaxOut
  <2>1. TlsSound(z)
    BY DEF TlsFits
  <2> QED
    BY <2>1, FlushSound
<1>2. w = [t EXCEPT !.out = Append(@, t.given + 1), !.given = @ + 1]
  BY <1>1
<1>3. TlsSound(w) /\ w.out # <<>>
  BY <1>1, <1>2, GivenFits
<1>4. PICK v : v = FlushOutgoing(w, g)
  OBVIOUS
<1>5. g \in FlushAnswers(w)
  BY <1>3 DEF FlushAnswers
<1>6. TlsFits(v) /\ v.waits # "read"
  BY <1>3, <1>4, <1>5, FlushSound
<1>7. v \in TlsType /\ OutFits(v) /\ InFits(v) /\ TellFits(v)
  BY <1>6 DEF TlsFits, TlsSound
<1>8. y = Unwaiting(v)
  BY <1>4
<1>9. /\ y \in TlsType /\ OutFits(y) /\ InFits(y) /\ y.pc = v.pc /\ y.told = v.told
      /\ y.waits = "none" /\ y.plain = v.plain /\ y.closed = v.closed /\ y.eof = v.eof
  BY <1>7, <1>8, Unwaited
<1>10. TellFits(y)
  BY <1>7, <1>9 DEF TellFits
<1> QED
  BY <1>9, <1>10 DEF TlsFits, TlsSound

LEMMA ShutdownFits ==
  ASSUME NEW z, TlsFits(z), ~z.fin, NEW c,
         c = IF z.closing THEN z ELSE [z EXCEPT !.closing = TRUE, !.out = Append(@, CloseOut)]
  PROVE  TlsSound(c) /\ c.closing /\ ~c.fin
<1>1. z \in TlsType /\ OutFits(z) /\ InFits(z) /\ TellFits(z) /\ TlsSound(z)
  BY DEF TlsFits, TlsSound
<1>2. CASE z.closing
  BY <1>1, <1>2
<1>3. CASE ~z.closing
  <2>1. CloseOut \in 0 .. CloseOut /\ CloseOut \notin 1 .. MaxOut
    BY TlsNumbers
  <2>2. PICK o : o = Append(z.out, CloseOut)
    OBVIOUS
  <2>3. /\ o \in Seq(0 .. CloseOut)
        /\ Datas(z.handed \o o, MaxOut) = [i \in 1 .. z.given |-> i]
        /\ \E i \in 1 .. Len(z.handed \o o) : (z.handed \o o)[i] = CloseOut
    BY ZenonT(60), <1>1, <2>1, <2>2, QueuedFits
  <2>4. c = [z EXCEPT !.closing = TRUE, !.out = o]
    BY <1>1, <1>3, <2>2 DEF TlsType
  <2>5. /\ c \in TlsType /\ c.out = o /\ c.closing = TRUE
        /\ c.pc = z.pc /\ c.shaking = z.shaking /\ c.given = z.given
        /\ c.fin = z.fin /\ c.sent = z.sent /\ c.net = z.net /\ c.hung = z.hung
        /\ c.handed = z.handed /\ c.flushed = z.flushed /\ c.carry = z.carry
        /\ c.plain = z.plain /\ c.got = z.got
        /\ c.closed = z.closed /\ c.eof = z.eof /\ c.told = z.told
    BY ZenonT(60), <1>1, <2>3, <2>4 DEF TlsType
  <2>6. c.handed \o c.out = z.handed \o o
    BY <2>5
  <2>7. OutFits(c)
    <3>1. Datas(c.handed \o c.out, MaxOut) = [i \in 1 .. c.given |-> i]
      BY <2>3, <2>5, <2>6
    <3>2. \E i \in 1 .. Len(c.handed \o c.out) : (c.handed \o c.out)[i] = CloseOut
      BY <2>3, <2>6
    <3>3. ~c.fin
      BY <2>5
    <3> QED
      BY <3>1, <3>2, <3>3, Zenon DEF OutFits
  <2>8. c.got \o c.plain = z.got \o z.plain
    BY <2>5
  <2>9. InFits(c)
    BY ZenonT(60), <1>1, <2>5, <2>8, InFitsStill
  <2>10. TellFits(c)
    BY <1>1, <2>5 DEF TellFits
  <2> QED
    BY <2>5, <2>7, <2>9, <2>10 DEF TlsSound
<1> QED
  BY <1>2, <1>3

\* The transport's own half close follows the close_notify.
HalfClosed(t) == [t EXCEPT !.fin = TRUE]

LEMMA FinishFits ==
  ASSUME NEW t, TlsFits(t), t.closing, t.out = <<>>, t.flushed
  PROVE  TlsFits(HalfClosed(t))
<1>1. t \in TlsType /\ OutFits(t) /\ InFits(t) /\ TellFits(t)
  BY DEF TlsFits, TlsSound
<1>2. PICK c : c = HalfClosed(t)
  OBVIOUS
<1>5. /\ c \in TlsType /\ c.out = t.out /\ c.closing = t.closing
      /\ c.pc = t.pc /\ c.shaking = t.shaking /\ c.given = t.given
      /\ c.fin = TRUE /\ c.sent = t.sent /\ c.net = t.net /\ c.hung = t.hung
      /\ c.handed = t.handed /\ c.flushed = t.flushed /\ c.carry = t.carry
      /\ c.plain = t.plain /\ c.got = t.got /\ c.waits = t.waits
      /\ c.closed = t.closed /\ c.eof = t.eof /\ c.told = t.told
  BY <1>1, <1>2 DEF TlsType, HalfClosed
<1>6. c.handed \o c.out = t.handed \o t.out /\ c.got \o c.plain = t.got \o t.plain
  BY <1>5
<1>7. OutFits(c)
  BY <1>1, <1>5, <1>6, OutFitsStill
<1>8. InFits(c)
  BY <1>1, <1>5, <1>6, InFitsStill
<1>9. TellFits(c)
  BY <1>1, <1>5 DEF TellFits
<1>10. c.waits = "read" => c.plain = <<>> /\ c.carry = <<>> /\ c.out = <<>> /\ ~c.closed /\ ~c.eof
  BY <1>5 DEF TlsFits
<1>11. TlsFits(c)
  BY <1>5, <1>7, <1>8, <1>9, <1>10 DEF TlsFits, TlsSound
<1> QED
  BY <1>2, <1>11

\* The peer's next record.
LEMMA SendsFits ==
  ASSUME NEW z, TlsFits(z), ~z.hung, CloseIn \notin Range(z.sent),
         NEW r, r \in IF z.sent = <<>> THEN {Asks}
                      ELSE {Len(Datas(z.sent, MaxIn)) + 1, CloseIn}
                           \cup (IF Last(z.sent) = 1 THEN {Asks} ELSE {}),
         NEW y, y = [z EXCEPT !.sent = Append(@, r), !.net = Append(@, r)]
  PROVE  TlsFits(y)
<1>1. z \in TlsType /\ OutFits(z) /\ InFits(z) /\ TellFits(z)
  BY DEF TlsFits, TlsSound
<1>2. PICK D, s, w, s2, w2 : /\ D = 0 .. CloseIn /\ s = z.sent /\ w = z.net
                             /\ s2 = Append(s, r) /\ w2 = Append(w, r)
  OBVIOUS
<1>3. s \in Seq(D) /\ w \in Seq(D)
  BY <1>1, <1>2 DEF TlsType
<1>4. PICK d : d = Datas(s, MaxIn)
  OBVIOUS
<1>5. d \in Seq(D \cap (1 .. MaxIn)) /\ Len(d) \in Nat /\ Len(d) <= MaxIn
  <2>1. d \in Seq(D \cap (1 .. MaxIn))
    BY <1>3, <1>4, DatasOf
  <2>2. Len(d) <= MaxIn
    BY <1>1, <1>2, <1>4 DEF InFits, SentFits
  <2> QED
    BY <2>1, <2>2
<1>6. /\ r \in {Asks, CloseIn, Len(d) + 1} /\ (s = <<>> => r = Asks)
  BY <1>2, <1>4
<1>7. r \in D /\ (r \in 1 .. MaxIn => r = Len(d) + 1 /\ Len(d) + 1 <= MaxIn)
  BY SMTT(30), <1>2, <1>5, <1>6, TlsNumbers
<1>8. PICK L, M \in Nat : L = Len(s) /\ M = Len(w)
  BY <1>3
<1>9. /\ s2 \in Seq(D) /\ Len(s2) = L + 1 /\ s2[L + 1] = r /\ \A i \in 1 .. L : s2[i] = s[i]
      /\ w2 \in Seq(D) /\ Len(w2) = M + 1 /\ w2[M + 1] = r /\ \A i \in 1 .. M : w2[i] = w[i]
  <2>1. r \in D
    BY <1>7
  <2> QED
    BY <1>2, <1>3, <1>8, <2>1
<1>10. Len(Datas(s2, MaxIn)) <= MaxIn
  <2>1. Datas(s2, MaxIn) = IF r \in 1 .. MaxIn THEN Append(d, r) ELSE d
    <3>1. s \in Seq(D) /\ r \in D
      BY <1>3, <1>7
    <3>2. Datas(Append(s, r), MaxIn) = IF r \in 1 .. MaxIn THEN Append(Datas(s, MaxIn), r)
                                       ELSE Datas(s, MaxIn)
      BY <3>1, DatasAppend
    <3> QED
      BY <1>2, <1>4, <3>2
  <2>2. CASE r \in 1 .. MaxIn
    <3>1. r \in D \cap (1 .. MaxIn)
      BY <1>7, <2>2
    <3>2. Len(Append(d, r)) = Len(d) + 1
      BY <1>5, <3>1
    <3> QED
      BY <1>7, <2>1, <2>2, <3>2
  <2>3. CASE r \notin 1 .. MaxIn
    BY <1>5, <2>1, <2>3
  <2> QED
    BY <2>2, <2>3
<1>11. \A i \in 1 .. L : s[i] # CloseIn
  <2>1. ASSUME NEW i \in 1 .. L, s[i] = CloseIn PROVE FALSE
    <3>1. i \in DOMAIN s
      BY <1>3, <1>8
    <3> QED
      BY <1>2, <2>1, <3>1 DEF Range
  <2> QED
    BY <2>1
<1>12. SentFits(s2)
  <2>1. s2[1] = Asks
    <3>1. CASE s = <<>>
      BY <1>6, <1>8, <1>9, <3>1
    <3>2. CASE s # <<>>
      <4>1. L >= 1 /\ 1 \in 1 .. L
        BY <1>3, <1>8, <3>2
      <4>2. s[1] = Asks
        BY <1>1, <1>2, <3>2 DEF InFits, SentFits
      <4> QED
        BY <1>9, <4>1, <4>2
    <3> QED
      BY <3>1, <3>2
  <2>2. \A i \in 1 .. L + 1 : s2[i] = CloseIn => i = L + 1
    <3>1. \A i \in 1 .. L + 1 : i = L + 1 \/ i \in 1 .. L
      BY <1>8
    <3> QED
      BY <1>9, <1>11, <3>1
  <2> QED
    BY <1>9, <1>10, <2>1, <2>2 DEF SentFits
<1>13. y = [z EXCEPT !.sent = s2, !.net = w2]
  BY <1>1, <1>2 DEF TlsType
<1>14. /\ y \in TlsType /\ y.sent = s2 /\ y.net = w2
       /\ y.pc = z.pc /\ y.shaking = z.shaking /\ y.given = z.given /\ y.closing = z.closing
       /\ y.fin = z.fin /\ y.hung = z.hung
       /\ y.handed = z.handed /\ y.out = z.out /\ y.flushed = z.flushed /\ y.carry = z.carry
       /\ y.plain = z.plain /\ y.got = z.got /\ y.waits = z.waits
       /\ y.closed = z.closed /\ y.eof = z.eof /\ y.told = z.told
  <2>1. s2 \in Seq(0 .. CloseIn) /\ w2 \in Seq(0 .. CloseIn)
    BY <1>2, <1>9
  <2> QED
    BY ZenonT(60), <1>1, <1>13, <2>1 DEF TlsType
<1>15. OutFits(y)
  <2>1. y.handed \o y.out = z.handed \o z.out
    BY <1>14
  <2>2. y.fin => y.closing /\ y.out = <<>> /\ y.flushed
    BY <1>1, <1>14 DEF OutFits
  <2> QED
    BY ZenonT(60), <1>1, <1>14, <2>1, <2>2, OutFitsStill
<1>16. PICK k \in 0 .. L : Taken(z, k) /\ Rest(z, k)
  BY <1>1, <1>2, <1>8 DEF InFits
<1>17. k \in Nat /\ k <= L /\ k \in 0 .. L + 1
  BY <1>16
<1>18. Taken(y, k)
  <2>1. SubSeq(s2, 1, k) = SubSeq(s, 1, k)
    <3>1. PICK a, b : a = SubSeq(s2, 1, k) /\ b = SubSeq(s, 1, k)
      OBVIOUS
    <3>2. k \in 0 .. Len(s2) /\ k \in 0 .. Len(s)
      BY <1>8, <1>9, <1>17
    <3>3. a \in Seq(D) /\ Len(a) = k /\ \A i \in 1 .. k : a[i] = s2[i]
      BY ZenonT(60), <1>9, <3>1, <3>2, PrefixGrows
    <3>4. b \in Seq(D) /\ Len(b) = k /\ \A i \in 1 .. k : b[i] = s[i]
      BY <1>3, <3>1, <3>2, PrefixGrows
    <3>5. \A i \in 1 .. k : a[i] = b[i]
      <4>1. \A i \in 1 .. k : i \in 1 .. L
        BY <1>17
      <4> QED
        BY <1>9, <3>3, <3>4, <4>1
    <3> QED
      BY <3>1, <3>3, <3>4, <3>5, SeqEqual
  <2>2. y.got \o y.plain = Datas(SubSeq(y.sent, 1, k), MaxIn)
    BY <1>2, <1>14, <1>16, <2>1, Zenon DEF Taken
  <2>3. y.closed <=> \E i \in 1 .. k : y.sent[i] = CloseIn
    <3>1. \A i \in 1 .. k : i \in 1 .. L
      BY <1>17
    <3>2. z.closed <=> \E i \in 1 .. k : s[i] = CloseIn
      BY <1>2, <1>16 DEF Taken
    <3> QED
      BY ZenonT(60), <1>9, <1>14, <3>1, <3>2
  <2>4. y.shaking => k = 0
    BY <1>14, <1>16 DEF Taken
  <2> QED
    BY <2>2, <2>3, <2>4 DEF Taken
<1>19. Rest(y, k)
  <2>1. PICK c, C : c = z.carry /\ C = Len(c)
    OBVIOUS
  <2>2. C \in Nat
    BY <1>1, <2>1 DEF TlsType
  <2>3. C + M = L - k
    BY <1>2, <1>8, <1>16, <2>1 DEF Rest
  <2>4. \A i \in 1 .. C : c[i] = s[k + i]
    BY <1>2, <1>8, <1>16, <2>1 DEF Rest
  <2>5. \A i \in 1 .. M : w[i] = s[k + C + i]
    BY <1>2, <1>8, <1>16, <2>1 DEF Rest
  <2>6. C + (M + 1) = (L + 1) - k
    BY SMTT(30), <1>8, <1>17, <2>2, <2>3
  <2>7. ASSUME NEW i \in 1 .. C PROVE c[i] = s2[k + i]
    <3>1. k + i \in 1 .. L
      BY <1>8, <1>17, <2>2, <2>3
    <3> QED
      BY <1>9, <2>4, <3>1
  <2>8. ASSUME NEW i \in 1 .. M + 1 PROVE w2[i] = s2[k + C + i]
    <3>1. CASE i = M + 1
      <4>1. k + C + i = L + 1
        BY SMTT(30), <1>8, <1>17, <2>2, <2>3, <3>1
      <4> QED
        BY <1>9, <3>1, <4>1
    <3>2. CASE i # M + 1
      <4>1. i \in 1 .. M /\ k + C + i \in 1 .. L
        BY SMTT(30), <1>8, <1>17, <2>2, <2>3, <3>2
      <4> QED
        BY <1>9, <2>5, <4>1
    <3> QED
      BY <3>1, <3>2
  <2>9. y.carry = c /\ Len(y.carry) = C /\ Len(y.net) = M + 1 /\ Len(y.sent) = L + 1
    BY <1>9, <1>14, <2>1
  <2>10. \A i \in 1 .. Len(y.carry) : y.carry[i] = y.sent[k + i]
    BY ZenonT(60), <1>14, <2>7, <2>9
  <2>11. \A i \in 1 .. Len(y.net) : y.net[i] = y.sent[k + Len(y.carry) + i]
    BY <1>14, <2>8, <2>9
  <2>12. Len(y.carry) + Len(y.net) = Len(y.sent) - k
    BY <2>6, <2>9
  <2> QED
    BY <2>10, <2>11, <2>12, Zenon DEF Rest
<1>20. ~y.eof
  <2>1. z.eof => z.hung
    BY <1>1 DEF InFits
  <2> QED
    BY <1>14, <2>1
<1>21. InFits(y)
  <2>1. k \in 0 .. Len(y.sent)
    BY <1>9, <1>14, <1>17
  <2> QED
    BY <1>12, <1>14, <1>18, <1>19, <1>20, <2>1 DEF InFits
<1>22. TellFits(y)
  BY <1>1, <1>14 DEF TellFits
<1>23. y.waits = "read" => y.plain = <<>> /\ y.carry = <<>> /\ y.out = <<>> /\ ~y.closed /\ ~y.eof
  BY <1>14 DEF TlsFits
<1> QED
  BY <1>14, <1>15, <1>21, <1>22, <1>23 DEF TlsFits, TlsSound

\* The peer goes, or makes room.
LEMMA PeerFits ==
  ASSUME NEW z, TlsFits(z), NEW h \in BOOLEAN, z.hung => h, NEW m \in 0 .. TlsRoom,
         NEW y, y = [z EXCEPT !.hung = h, !.room = m]
  PROVE  TlsFits(y)
<1>1. z \in TlsType /\ OutFits(z) /\ InFits(z) /\ TellFits(z)
  BY DEF TlsFits, TlsSound
<1>2. /\ y \in TlsType /\ y.hung = h
      /\ y.pc = z.pc /\ y.shaking = z.shaking /\ y.given = z.given /\ y.closing = z.closing
      /\ y.fin = z.fin /\ y.sent = z.sent /\ y.net = z.net
      /\ y.handed = z.handed /\ y.out = z.out /\ y.flushed = z.flushed /\ y.carry = z.carry
      /\ y.plain = z.plain /\ y.got = z.got /\ y.waits = z.waits
      /\ y.closed = z.closed /\ y.eof = z.eof /\ y.told = z.told
  BY <1>1 DEF TlsType
<1>3. y.handed \o y.out = z.handed \o z.out
  BY <1>2
<1>4. y.fin => y.closing /\ y.out = <<>> /\ y.flushed
  BY <1>1, <1>2 DEF OutFits
<1>5. OutFits(y)
  BY ZenonT(60), <1>1, <1>2, <1>3, <1>4, OutFitsStill
<1>6. PICK k \in 0 .. Len(z.sent) : Taken(z, k) /\ Rest(z, k)
  BY <1>1 DEF InFits
<1>7. Taken(y, k) /\ Rest(y, k)
  <2>1. y.got \o y.plain = z.got \o z.plain
    BY <1>2
  <2>2. Taken(y, k)
    BY <1>2, <1>6, <2>1, Zenon DEF Taken
  <2>3. Rest(y, k)
    BY <1>2, <1>6, ZenonT(60) DEF Rest
  <2> QED
    BY <2>2, <2>3
<1>8. y.eof => y.hung /\ y.carry = <<>> /\ y.net = <<>>
  BY <1>1, <1>2 DEF InFits
<1>9. SentFits(y.sent) /\ k \in 0 .. Len(y.sent)
  BY <1>1, <1>2 DEF InFits
<1>10. InFits(y)
  BY <1>7, <1>8, <1>9 DEF InFits
<1>11. TellFits(y)
  BY <1>1, <1>2 DEF TellFits
<1>12. y.waits = "read" => y.plain = <<>> /\ y.carry = <<>> /\ y.out = <<>> /\ ~y.closed /\ ~y.eof
  BY <1>2 DEF TlsFits
<1> QED
  BY <1>2, <1>5, <1>10, <1>11, <1>12 DEF TlsFits, TlsSound

------------------------------------------------------------------------------
(* Every step of the stream, and of its peer.                               *)

LEMMA TlsBegins == TlsInit => TlsInv
<1> SUFFICES ASSUME TlsInit PROVE TlsFits(tls)
  BY DEF TlsInv
<1>1. PICK z : z = tls
  OBVIOUS
<1>2. PICK o : o = <<0>>
  OBVIOUS
<1>3. o \in Seq(0 .. CloseOut) /\ Len(o) = 1 /\ o[1] = 0 /\ 0 \notin 1 .. MaxOut
  BY <1>2, TlsNumbers
<1>4. z = [pc |-> "handshake", shaking |-> TRUE,
           given |-> 0, out |-> o, handed |-> <<>>, flushed |-> TRUE, room |-> TlsRoom,
           closing |-> FALSE, fin |-> FALSE,
           sent |-> <<>>, net |-> <<>>, hung |-> FALSE,
           carry |-> <<>>, plain |-> <<>>, got |-> <<>>, closed |-> FALSE, eof |-> FALSE,
           told |-> "no", waits |-> "none"]
  BY <1>1, <1>2 DEF TlsInit
<1>5. z \in TlsType
  <2>1. /\ 0 \in 0 .. MaxOut /\ TlsRoom \in 0 .. TlsRoom
        /\ <<>> \in Seq(0 .. CloseOut) /\ <<>> \in Seq(0 .. CloseIn) /\ <<>> \in Seq(1 .. MaxIn)
    BY TlsNumbers
  <2> QED
    BY <1>3, <1>4, <2>1 DEF TlsType
<1>6. OutFits(z)
  <2>1. z.handed \o z.out = Append(<<>>, 0)
    BY <1>2, <1>4
  <2>2. Datas(z.handed \o z.out, MaxOut) = <<>>
    <3>1. <<>> \in Seq({0}) /\ 0 \in {0}
      OBVIOUS
    <3>2. Datas(Append(<<>>, 0), MaxOut) = Datas(<<>>, MaxOut)
      BY <1>3, <3>1, DatasAppend
    <3> QED
      BY <2>1, <3>2, NoDatas
  <2>3. [i \in 1 .. z.given |-> i] = <<>>
    BY <1>4
  <2> QED
    BY <1>4, <2>2, <2>3 DEF OutFits
<1>7. InFits(z)
  <2>1. z.sent = <<>> /\ z.net = <<>> /\ z.carry = <<>> /\ z.plain = <<>> /\ z.got = <<>> /\ ~z.eof /\ ~z.closed
    BY <1>4
  <2>2. Len(z.sent) = 0 /\ Len(z.net) = 0 /\ Len(z.carry) = 0
    BY <2>1
  <2>3. SentFits(z.sent)
    BY <2>1, <2>2, NoDatas, TlsNumbers DEF SentFits
  <2>4. Taken(z, 0)
    <3>1. SubSeq(z.sent, 1, 0) = <<>>
      BY SubSeqEmpty
    <3>2. z.got \o z.plain = <<>>
      BY <2>1
    <3>3. z.got \o z.plain = Datas(SubSeq(z.sent, 1, 0), MaxIn)
      BY <3>1, <3>2, NoDatas
    <3> QED
      BY <2>1, <3>3 DEF Taken
  <2>5. Rest(z, 0)
    BY <2>2 DEF Rest
  <2>6. 0 \in 0 .. Len(z.sent)
    BY <2>2
  <2> QED
    BY <2>1, <2>3, <2>4, <2>5, <2>6 DEF InFits
<1>8. TellFits(z) /\ z.waits # "read"
  BY <1>4 DEF TellFits
<1>9. TlsFits(z)
  BY <1>5, <1>6, <1>7, <1>8 DEF TlsFits, TlsSound
<1> QED
  BY <1>1, <1>9

LEMMA HandshakeKeeps == TlsInv /\ HandshakePass => TlsInv'
<1> SUFFICES ASSUME TlsFits(tls), HandshakePass PROVE TlsFits(tls')
  BY DEF TlsInv
<1>1. PICK z, y : z = tls /\ y = tls'
  OBVIOUS
<1>2. PICK f \in FlushAnswers(z) :
        LET t == FlushOutgoing(z, f)
        IN  IF ~FlushDone(t) THEN y = t
            ELSE IF ~t.shaking THEN y = [t EXCEPT !.pc = "idle"]
            ELSE \E p \in Pumped(t) : y = IF p.eof THEN [p EXCEPT !.pc = "failed"] ELSE p
  BY <1>1 DEF HandshakePass
<1>3. PICK t : t = FlushOutgoing(z, f)
  OBVIOUS
<1>4. IF ~FlushDone(t) THEN y = t
      ELSE IF ~t.shaking THEN y = [t EXCEPT !.pc = "idle"]
      ELSE \E p \in Pumped(t) : y = IF p.eof THEN [p EXCEPT !.pc = "failed"] ELSE p
  BY <1>2, <1>3
<1>5. TlsFits(z) /\ z.pc = "handshake"
  BY <1>1 DEF HandshakePass
<1>6. TlsFits(y)
  BY <1>2, <1>3, <1>4, <1>5, HandshakeFits
<1> QED
  BY <1>1, <1>6

LEMMA TlsReadKeeps == TlsInv /\ ReadPass => TlsInv'
<1> SUFFICES ASSUME TlsFits(tls), ReadPass PROVE TlsFits(tls')
  BY DEF TlsInv
<1>1. PICK z, y : z = tls /\ y = tls'
  OBVIOUS
<1>2. TlsFits(z) /\ z.pc \in {"idle", "reading"} /\ z.told = "no"
  BY <1>1 DEF ReadPass
<1>3. CASE z.plain # <<>>
  <2>1. PICK n \in 1 .. Len(z.plain) : y = Received(z, n)
    BY <1>1, <1>3 DEF ReadPass, Received
  <2>2. TlsFits(y)
    BY <1>2, <1>3, <2>1, ReadFits
  <2> QED
    BY <1>1, <2>2
<1>4. CASE z.plain = <<>> /\ (z.closed \/ z.eof)
  <2>1. y = Answered(z)
    BY <1>1, <1>4 DEF ReadPass, Answered
  <2>2. TlsFits(y)
    BY <1>2, <1>4, <2>1, ToldFits
  <2> QED
    BY <1>1, <2>2
<1>5. CASE z.plain = <<>> /\ ~(z.closed \/ z.eof)
  <2>1. PICK f \in FlushAnswers(z) :
          LET t == FlushOutgoing(z, f)
          IN  IF ~FlushDone(t) THEN y = At(t, "idle")
              ELSE \E p \in Pumped(t) :
                     y = At(p, IF p.waits = "read" THEN "idle" ELSE "reading")
    BY <1>1, <1>5 DEF ReadPass, At
  <2>2. PICK t : t = FlushOutgoing(z, f)
    OBVIOUS
  <2>3. IF ~FlushDone(t) THEN y = At(t, "idle")
        ELSE \E p \in Pumped(t) : y = At(p, IF p.waits = "read" THEN "idle" ELSE "reading")
    BY <2>1, <2>2
  <2>4. TlsFits(y)
    BY <1>2, <1>5, <2>1, <2>2, <2>3, ReadsOn
  <2> QED
    BY <1>1, <2>4
<1> QED
  BY <1>3, <1>4, <1>5

LEMMA WriteKeeps == TlsInv /\ TlsPollWrite => TlsInv'
<1> SUFFICES ASSUME TlsFits(tls), TlsPollWrite PROVE TlsFits(tls')
  BY DEF TlsInv
<1>1. PICK z, y : z = tls /\ y = tls'
  OBVIOUS
<1>2. TlsFits(z) /\ z.pc = "idle" /\ ~z.closing /\ z.given < MaxOut
  BY <1>1 DEF TlsPollWrite
<1>3. PICK f \in FlushAnswers(z) :
        LET t == FlushOutgoing(z, f)
            w == [t EXCEPT !.out = Append(@, z.given + 1), !.given = @ + 1]
        IN  IF ~FlushDone(t) THEN y = t
            ELSE \E g \in BOOLEAN : y = Unwaiting(FlushOutgoing(w, g))
  BY <1>1 DEF TlsPollWrite, Unwaiting
<1>4. PICK t : t = FlushOutgoing(z, f)
  OBVIOUS
<1>5. PICK w : w = [t EXCEPT !.out = Append(@, z.given + 1), !.given = @ + 1]
  OBVIOUS
<1>6. IF ~FlushDone(t) THEN y = t ELSE \E g \in BOOLEAN : y = Unwaiting(FlushOutgoing(w, g))
  BY <1>3, <1>4, <1>5
<1>7. CASE ~FlushDone(t)
  <2>1. TlsFits(t)
    BY <1>2, <1>3, <1>4, FlushSound DEF TlsFits
  <2> QED
    BY <1>1, <1>6, <1>7, <2>1
<1>8. CASE FlushDone(t)
  <2>1. PICK g \in BOOLEAN : y = Unwaiting(FlushOutgoing(w, g))
    BY <1>6, <1>8
  <2>2. TlsFits(y)
    BY <1>2, <1>3, <1>4, <1>5, <1>8, <2>1, WriteFits
  <2> QED
    BY <1>1, <2>2
<1> QED
  BY <1>7, <1>8

LEMMA TlsFlushKeeps == TlsInv /\ TlsPollFlush => TlsInv'
<1> SUFFICES ASSUME TlsFits(tls), TlsPollFlush PROVE TlsFits(tls')
  BY DEF TlsInv
<1>1. PICK z, y : z = tls /\ y = tls'
  OBVIOUS
<1>2. PICK f \in FlushAnswers(z) : y = FlushOutgoing(z, f)
  BY <1>1 DEF TlsPollFlush
<1>3. TlsSound(z)
  BY <1>1 DEF TlsFits
<1>4. TlsFits(y)
  BY <1>2, <1>3, FlushSound
<1> QED
  BY <1>1, <1>4

LEMMA ShutdownKeeps == TlsInv /\ TlsPollShutdown => TlsInv'
<1> SUFFICES ASSUME TlsFits(tls), TlsPollShutdown PROVE TlsFits(tls')
  BY DEF TlsInv
<1>1. PICK z, y : z = tls /\ y = tls'
  OBVIOUS
<1>2. TlsFits(z) /\ ~z.fin
  BY <1>1 DEF TlsPollShutdown
<1>3. PICK c : c = IF z.closing THEN z ELSE [z EXCEPT !.closing = TRUE, !.out = Append(@, CloseOut)]
  OBVIOUS
<1>4. PICK f \in FlushAnswers(c) :
        LET t == FlushOutgoing(c, f) IN y = IF FlushDone(t) THEN HalfClosed(t) ELSE t
  BY <1>1, <1>3 DEF TlsPollShutdown, HalfClosed
<1>5. PICK t : t = FlushOutgoing(c, f)
  OBVIOUS
<1>6. y = IF FlushDone(t) THEN HalfClosed(t) ELSE t
  BY <1>4, <1>5
<1>7. TlsSound(c) /\ c.closing /\ ~c.fin
  BY ZenonT(60), <1>2, <1>3, ShutdownFits
<1>8. TlsFits(t) /\ t.closing = c.closing /\ (FlushDone(t) => t.out = <<>> /\ t.flushed)
  BY ZenonT(60), <1>4, <1>5, <1>7, FlushSound
<1>9. FlushDone(t) => TlsFits(HalfClosed(t))
  BY <1>7, <1>8, FinishFits
<1>10. TlsFits(y)
  BY <1>6, <1>8, <1>9
<1> QED
  BY <1>1, <1>10

LEMMA PeerKeeps == TlsInv /\ TlsPeerMoves => TlsInv'
<1> SUFFICES ASSUME TlsFits(tls), TlsPeerMoves PROVE TlsFits(tls')
  BY DEF TlsInv
<1>1. PICK z, y : z = tls /\ y = tls'
  OBVIOUS
<1>2. TlsFits(z) /\ z \in TlsType
  BY <1>1 DEF TlsFits, TlsSound
<1>3. CASE /\ ~z.hung /\ CloseIn \notin Range(z.sent)
           /\ \E r \in IF z.sent = <<>> THEN {Asks}
                       ELSE {Len(Datas(z.sent, MaxIn)) + 1, CloseIn}
                            \cup (IF Last(z.sent) = 1 THEN {Asks} ELSE {}) :
                y = [z EXCEPT !.sent = Append(@, r), !.net = Append(@, r)]
  <2>1. TlsFits(y)
    BY <1>2, <1>3, SendsFits
  <2> QED
    BY <1>1, <2>1
<1>4. CASE y = [z EXCEPT !.hung = TRUE]
  <2>1. z.room \in 0 .. TlsRoom /\ y = [z EXCEPT !.hung = TRUE, !.room = z.room]
    BY <1>2, <1>4 DEF TlsType
  <2>2. TlsFits(y)
    BY <1>2, <2>1, PeerFits
  <2> QED
    BY <1>1, <2>2
<1>5. CASE y = [z EXCEPT !.room = TlsRoom]
  <2>1. z.hung \in BOOLEAN /\ y = [z EXCEPT !.hung = z.hung, !.room = TlsRoom]
    BY <1>2, <1>5 DEF TlsType
  <2>2. TlsRoom \in 0 .. TlsRoom
    BY TlsNumbers
  <2>3. TlsFits(y)
    BY <1>2, <2>1, <2>2, PeerFits
  <2> QED
    BY <1>1, <2>3
<1> QED
  BY <1>1, <1>3, <1>4, <1>5 DEF TlsPeerMoves

LEMMA TlsKeeps == TlsInv /\ [TlsNext]_tls => TlsInv'
<1> SUFFICES ASSUME TlsInv, [TlsNext]_tls PROVE TlsInv'
  OBVIOUS
<1>1. CASE UNCHANGED tls
  BY <1>1 DEF TlsInv
<1> QED
  BY <1>1, HandshakeKeeps, TlsReadKeeps, WriteKeeps, TlsFlushKeeps, ShutdownKeeps, PeerKeeps
     DEF TlsNext

LEMMA TlsPromise == TlsInv => TlsHolds
<1> SUFFICES ASSUME TlsFits(tls) PROVE TlsHolds
  BY DEF TlsInv
<1>1. PICK z : z = tls
  OBVIOUS
<1>2. z \in TlsType /\ OutFits(z) /\ InFits(z) /\ TellFits(z)
  BY <1>1 DEF TlsFits, TlsSound
<1>3. PICK D, s, g, p, c, w : /\ D = 0 .. CloseIn /\ s = z.sent /\ g = z.got /\ p = z.plain
                              /\ c = z.carry /\ w = z.net
  OBVIOUS
<1>4. s \in Seq(D) /\ c \in Seq(D) /\ w \in Seq(D) /\ g \in Seq(1 .. MaxIn) /\ p \in Seq(1 .. MaxIn)
  BY <1>2, <1>3 DEF TlsType
<1>5. PICK k \in 0 .. Len(s) : Taken(z, k) /\ Rest(z, k)
  BY <1>2, <1>3 DEF InFits
<1>6. PICK C, M, L \in Nat : C = Len(c) /\ M = Len(w) /\ L = Len(s)
  BY <1>4
<1>7. k \in Nat /\ k <= L
  BY <1>5, <1>6
<1>8. PICK a, b : a = SubSeq(s, 1, k) /\ b = SubSeq(s, k + 1, L)
  OBVIOUS
<1>9. /\ a \in Seq(D) /\ b \in Seq(D) /\ Len(b) = L - k /\ \A i \in 1 .. L - k : b[i] = s[k + i]
  <2>1. a \in Seq(D)
    BY <1>4, <1>5, <1>8, PrefixGrows
  <2> QED
    BY <1>4, <1>5, <1>6, <1>8, <2>1, SuffixOf
<1>10. a \o b = s
  <2>1. 1 \in 1 .. Len(s) + 1 /\ k \in 1 - 1 .. Len(s) /\ L \in k .. Len(s)
    BY <1>6, <1>7
  <2>2. SubSeq(s, 1, k) \o SubSeq(s, k + 1, L) = SubSeq(s, 1, L)
    BY <1>4, <2>1, ConcatAdjacentSubSeq
  <2>3. SubSeq(s, 1, L) = s
    BY <1>4, <1>6, PrefixEnds
  <2> QED
    BY <1>8, <2>2, <2>3
<1>11. C + M = L - k /\ (\A i \in 1 .. C : c[i] = s[k + i]) /\ \A i \in 1 .. M : w[i] = s[k + C + i]
  <2>1. C + M = L - k
    BY <1>3, <1>5, <1>6 DEF Rest
  <2>2. \A i \in 1 .. C : c[i] = s[k + i]
    BY <1>3, <1>5, <1>6 DEF Rest
  <2>3. \A i \in 1 .. M : w[i] = s[k + C + i]
    BY <1>3, <1>5, <1>6 DEF Rest
  <2> QED
    BY <2>1, <2>2, <2>3
<1>12. c \o w = b
  <2>1. PICK v : v = c \o w
    OBVIOUS
  <2>2. /\ v \in Seq(D) /\ Len(v) = C + M
        /\ \A i \in 1 .. C + M : v[i] = IF i <= C THEN c[i] ELSE w[i - C]
    BY <1>4, <1>6, <2>1, ConcatProperties
  <2>3. ASSUME NEW i \in 1 .. Len(v) PROVE v[i] = b[i]
    <3>1. i \in 1 .. C + M /\ i \in 1 .. L - k /\ i \in Nat
      BY <1>6, <1>11, <2>2
    <3>2. CASE i <= C
      <4>1. i \in 1 .. C
        BY <1>6, <3>1, <3>2
      <4> QED
        BY <1>9, <1>11, <2>2, <3>1, <3>2, <4>1
    <3>3. CASE ~(i <= C)
      <4>1. i - C \in 1 .. M /\ k + C + (i - C) = k + i
        BY <1>6, <1>7, <3>1, <3>3
      <4>2. w[i - C] = s[k + C + (i - C)]
        BY <1>11, <4>1
      <4> QED
        BY <1>9, <2>2, <3>1, <3>3, <4>1, <4>2
    <3> QED
      BY <3>2, <3>3
  <2>4. Len(v) = Len(b)
    BY <1>9, <1>11, <2>2
  <2> QED
    BY <1>9, <2>1, <2>2, <2>3, <2>4, SeqEqual
<1>13. PICK e : e = g \o p
  OBVIOUS
<1>14. e = Datas(a, MaxIn) /\ e \in Seq(1 .. MaxIn) /\ e \in Seq(D)
  <2>1. e = Datas(a, MaxIn)
    BY <1>3, <1>5, <1>8, <1>13, Zenon DEF Taken
  <2>2. PICK I : I = 1 .. MaxIn
    OBVIOUS
  <2>3. Datas(a, MaxIn) \in Seq(D \cap I)
    BY <1>9, <2>2, DatasOf
  <2>4. \A q \in Seq(D \cap I) : q \in Seq(I) /\ q \in Seq(D)
    OBVIOUS
  <2>5. e \in Seq(I) /\ e \in Seq(D)
    BY <2>1, <2>3, <2>4
  <2> QED
    BY <2>1, <2>2, <2>5
<1>15. Datas(((g \o p) \o c) \o w, MaxIn) = Datas(s, MaxIn)
  <2>1. (e \o c) \o w = e \o b
    <3>1. \A x, y, u \in Seq(D) : (x \o y) \o u = x \o (y \o u)
      BY SMTT(30), ConcatAssociative
    <3>2. (e \o c) \o w = e \o (c \o w)
      BY ZenonT(60), <1>4, <1>14, <3>1
    <3> QED
      BY <1>12, <3>2
  <2>2. Datas(e \o b, MaxIn) = Datas(e, MaxIn) \o Datas(b, MaxIn)
    <3>1. e \in Seq(D) /\ b \in Seq(D)
      BY <1>9, <1>14
    <3> QED
      BY <3>1, DatasConcat
  <2>3. Datas(e, MaxIn) = e
    BY <1>14, DatasOf
  <2>4. Datas(a \o b, MaxIn) = Datas(a, MaxIn) \o Datas(b, MaxIn)
    BY <1>9, DatasConcat
  <2> QED
    BY <1>10, <1>13, <1>14, <2>1, <2>2, <2>3, <2>4
<1>16. k = L => (p = <<>> => g = Datas(s, MaxIn))
  <2>1. ASSUME k = L, p = <<>> PROVE g = Datas(s, MaxIn)
    <3>1. a = s
      BY <1>4, <1>6, <1>8, <2>1, PrefixEnds
    <3>2. e = g
      BY <1>4, <1>13, <2>1
    <3> QED
      BY <1>14, <3>1, <3>2
  <2> QED
    BY <2>1
<1>17. z.closed <=> \E i \in 1 .. k : s[i] = CloseIn
  BY <1>3, <1>5 DEF Taken
<1>18. (\E i \in 1 .. L : s[i] = CloseIn) <=> CloseIn \in Range(s)
  BY <1>4, <1>6 DEF Range
<1>19. z.closed => k = L /\ CloseIn \in Range(s)
  <2>1. ASSUME z.closed PROVE k = L /\ CloseIn \in Range(s)
    <3>1. PICK i \in 1 .. k : s[i] = CloseIn
      BY <1>17, <2>1
    <3>2. i \in 1 .. L
      BY <1>7
    <3>3. i = L
      BY <1>2, <1>3, <1>6, <3>1, <3>2 DEF InFits, SentFits
    <3>4. k = L
      BY <1>6, <1>7, <3>3
    <3> QED
      BY <1>18, <3>1, <3>2, <3>4
  <2> QED
    BY <2>1
<1>20. z.eof /\ ~z.closed => k = L /\ CloseIn \notin Range(s)
  <2>1. ASSUME z.eof, ~z.closed PROVE k = L /\ CloseIn \notin Range(s)
    <3>1. c = <<>> /\ w = <<>>
      BY <1>2, <1>3, <2>1 DEF InFits
    <3>2. C = 0 /\ M = 0
      BY <1>6, <3>1
    <3>3. k = L
      BY <1>6, <1>7, <1>11, <3>2
    <3> QED
      BY <1>17, <1>18, <2>1, <3>3
  <2> QED
    BY <2>1
<1>21. z.fin => z.out = <<>> /\ z.flushed /\ CloseOut \in Range(z.handed)
  <2>1. ASSUME z.fin PROVE z.out = <<>> /\ z.flushed /\ CloseOut \in Range(z.handed)
    <3>1. z.closing /\ z.out = <<>> /\ z.flushed
      BY <1>2, <2>1 DEF OutFits
    <3>2. PICK h : h = z.handed
      OBVIOUS
    <3>3. h \in Seq(0 .. CloseOut)
      BY <1>2, <3>2 DEF TlsType
    <3>4. z.handed \o z.out = h
      BY <3>1, <3>2, <3>3, ConcatEmptySeq
    <3>5. PICK i \in 1 .. Len(h) : h[i] = CloseOut
      BY <1>2, <3>1, <3>4 DEF OutFits
    <3> QED
      BY <3>1, <3>2, <3>3, <3>5 DEF Range
  <2> QED
    BY <2>1
<1>22. TlsTypeOK
  BY <1>1, <1>2 DEF TlsType, TlsTypeOK
<1>23. Datas(tls.handed \o tls.out, MaxOut) = [i \in 1 .. tls.given |-> i]
  BY <1>1, <1>2 DEF OutFits
<1>24. z.told = "clean" => CloseIn \in Range(s) /\ g = Datas(s, MaxIn)
  BY <1>2, <1>3, <1>16, <1>19 DEF TellFits
<1>25. z.told = "cut" => CloseIn \notin Range(s) /\ g = Datas(s, MaxIn)
  BY <1>2, <1>3, <1>16, <1>20 DEF TellFits
<1>26. tls.waits = "read" => tls.plain = <<>> /\ tls.carry = <<>> /\ tls.out = <<>>
                             /\ ~tls.closed /\ ~tls.eof
  BY DEF TlsFits
<1> QED
  BY <1>1, <1>3, <1>15, <1>21, <1>22, <1>23, <1>24, <1>25, <1>26 DEF TlsHolds

------------------------------------------------------------------------------
(* The WinHTTP transport.                                                  *)

WinPlaces == {"new", "sent", "asked", "open", "failed", "gone"}
HandleStates == {"none", "open", "closing", "closed"}
WinOps == {"send", "head", "recv", "write", "close"}
SomeOps == SUBSET WinOps
SomeHandles == SUBSET {"req", "sock"}
SomeSides == SUBSET Halves
BufPlaces == {"home", "loaned"}
RxStates == {"idle", "reading", "ended"}
TxStates == {"idle", "sending", "closed"}
ReadEvents == WsReads \cup {"read", "end"}
SendEvents == {"wrote", "closed"}
WinEvents == {"sent", "headers"} \cup ReadEvents \cup SendEvents \cup Failures
BodyForeign == WinEvents \ ({"read", "end"} \cup Failures)
SocketForeign == WinEvents \ (WsReads \cup SendEvents \cup Failures)
EventSeqs == Seq(WinEvents)
Stashes == [Halves -> WinEvents \cup {NoEvent}]

WinRec ==
  [ws : BOOLEAN, at : WinPlaces, upgraded : BOOLEAN, req : HandleStates, sock : HandleStates,
   ctx : SomeHandles, ops : SomeOps, secure : BOOLEAN, buf : BufPlaces, lent : BOOLEAN,
   body : BOOLEAN, payload : BOOLEAN, events : EventSeqs, waker : BOOLEAN,
   parked : SomeSides, due : SomeSides, rx : RxStates, tx : TxStates, stash : Stashes,
   frames : Nat, sends : Nat, told : BOOLEAN, crossed : BOOLEAN, panic : BOOLEAN,
   odd : BOOLEAN, dropped : BOOLEAN, garbage : BOOLEAN]

\* Some completion of the queue is of a kind, and at most one is.
Holds(es, K) == \E i \in 1 .. Len(es) : es[i] \in K
Lone(es, K) == \A i, j \in 1 .. Len(es) : es[i] \in K /\ es[j] \in K => i = j

\* The handles, and the references WinHTTP has.
WinHandles(w) ==
  /\ w.upgraded => w.ops \cap {"send", "head"} = {} /\ (w.ops # {} => "sock" \in w.ctx)
  /\ ~w.upgraded => w.sock = "none" /\ (w.ops # {} => "req" \in w.ctx)
  /\ w.req \in {"none", "closed"} => "req" \notin w.ctx
  /\ w.sock \in {"none", "closed"} => "sock" \notin w.ctx
  /\ w.at = "new" => w.ops = {} /\ w.req = "none" /\ ~w.secure
  /\ w.at \in {"new", "sent", "asked"} => ~w.upgraded
  /\ w.at \in {"sent", "asked", "open"} => w.req = "open" /\ "req" \in w.ctx
  /\ w.at = "open" /\ w.ws => w.upgraded /\ w.sock = "open" /\ "sock" \in w.ctx
  /\ w.at = "open" /\ ~w.ws => ~w.upgraded /\ w.ops \subseteq {"recv"}
  /\ w.at = "open" => w.ops \subseteq {"recv", "write", "close"}

\* What the queue holds at each stage.
WinQueue(w) ==
  /\ w.at = "new" => w.events = <<>>
  /\ w.at = "sent" =>
       /\ w.ops \subseteq {"send"}
       /\ \/ w.ops = {"send"} /\ ~w.secure /\ w.events = <<>>
          \/ w.ops = {} /\ w.events = <<"sent">>
          \/ w.events # <<>> /\ Head(w.events) \in Failures /\ (w.secure \/ w.ops = {})
  /\ w.at = "asked" =>
       /\ w.ops \subseteq {"head"}
       /\ \/ w.ops = {"head"} /\ w.events = <<>>
          \/ w.ops = {} /\ w.events \in {<<"headers">>, <<"failed">>}
  /\ w.at = "open" => ~Holds(w.events, IF w.ws THEN SocketForeign ELSE BodyForeign)
  /\ ~w.ws => w.stash["rx"] = NoEvent /\ w.stash["tx"] = NoEvent
  /\ w.stash["rx"] \in WsReads \cup {NoEvent} /\ w.stash["tx"] \in SendEvents \cup {NoEvent}

\* One read at a time.
WinReads(w) ==
  /\ Lone(w.events, ReadEvents)
  /\ "recv" \in w.ops => w.stash["rx"] = NoEvent /\ ~Holds(w.events, ReadEvents)
  /\ w.stash["rx"] # NoEvent => ~Holds(w.events, ReadEvents)
  /\ w.rx = "idle" => "recv" \notin w.ops /\ w.stash["rx"] = NoEvent /\ ~Holds(w.events, ReadEvents)
  /\ w.at \in {"new", "sent", "asked"} => w.rx = "idle" /\ w.tx = "idle"

\* One send or close at a time.
WinWrites(w) ==
  /\ Lone(w.events, SendEvents)
  /\ ~({"write", "close"} \subseteq w.ops)
  /\ w.ops \cap {"write", "close"} # {} =>
       w.stash["tx"] = NoEvent /\ ~Holds(w.events, SendEvents)
  /\ w.stash["tx"] # NoEvent => ~Holds(w.events, SendEvents)
  /\ w.tx = "idle" => /\ w.ops \cap {"write", "close"} = {} /\ w.stash["tx"] = NoEvent
                      /\ ~Holds(w.events, SendEvents)
  /\ w.tx = "sending" => /\ "close" \notin w.ops /\ w.stash["tx"] # "closed"
                         /\ ~Holds(w.events, {"closed"})

\* What a half waits for.
WinWaits(w) ==
  w.at = "open" /\ ~w.told /\ ~Holds(w.events, Failures) =>
    /\ w.rx = "reading" => \/ "recv" \in w.ops \/ w.stash["rx"] # NoEvent
                           \/ Holds(w.events, ReadEvents)
    /\ w.tx = "sending" => \/ "write" \in w.ops \/ w.stash["tx"] # NoEvent
                           \/ Holds(w.events, {"wrote"})

\* What is lent.
WinLoans(w) ==
  /\ "send" \in w.ops /\ ~w.ws => w.body
  /\ "write" \in w.ops => w.payload
  /\ w.buf = "loaned" => "recv" \in w.ops
  /\ ~w.crossed => /\ "recv" \in w.ops => w.buf = "loaned" /\ w.lent
                   /\ w.stash["rx"] # NoEvent \/ Holds(w.events, ReadEvents) => w.lent
                   /\ ~w.garbage
  /\ ~w.panic /\ ~w.odd /\ ~w.dropped

\* Who sleeps.
WinSleeps(w) ==
  /\ w.due \subseteq w.parked
  /\ \A h \in w.parked \ w.due : w.waker /\ w.events = <<>> /\ w.stash[h] = NoEvent

WinSound(w) ==
  /\ w \in WinRec
  /\ WinHandles(w) /\ WinQueue(w) /\ WinReads(w) /\ WinWrites(w) /\ WinWaits(w) /\ WinLoans(w)
  /\ WinSleeps(w)

WinInv == WinSound(win)

\* A completion joins the queue.
LEMMA EventJoins ==
  ASSUME NEW es \in EventSeqs, NEW e \in WinEvents, NEW q, q = Append(es, e)
  PROVE  /\ q \in EventSeqs /\ q # <<>> /\ (es = <<>> => q = <<e>>)
         /\ es # <<>> => Head(q) = Head(es)
         /\ \A K : /\ Holds(q, K) <=> Holds(es, K) \/ e \in K
                   /\ Lone(es, K) /\ ~(e \in K /\ Holds(es, K)) => Lone(q, K)
<1>1. /\ es \in Seq(WinEvents) /\ Len(es) \in Nat /\ q \in Seq(WinEvents) /\ Len(q) = Len(es) + 1
      /\ q[Len(es) + 1] = e /\ \A i \in 1 .. Len(es) : q[i] = es[i]
  BY LenProperties, AppendProperties DEF EventSeqs
<1>2. q # <<>>
  BY <1>1, EmptySeq
<1>3. es = <<>> => q = <<e>>
  OBVIOUS
<1>4. es # <<>> => Head(q) = Head(es)
  <2> SUFFICES ASSUME es # <<>> PROVE Head(q) = Head(es)
    OBVIOUS
  <2>1. Head(es) = es[1] /\ Head(q) = q[1] /\ Len(es) # 0
    BY <1>1, <1>2, HeadTailProperties, EmptySeq
  <2> QED
    BY <1>1, <2>1
<1>5. ASSUME NEW K
      PROVE  /\ Holds(q, K) <=> Holds(es, K) \/ e \in K
             /\ Lone(es, K) /\ ~(e \in K /\ Holds(es, K)) => Lone(q, K)
  <2>1. \A i \in 1 .. Len(q) : i \in 1 .. Len(es) \/ i = Len(es) + 1
    BY <1>1
  <2>2. 1 .. Len(es) \subseteq 1 .. Len(q) /\ Len(es) + 1 \in 1 .. Len(q)
    BY <1>1
  <2> QED
    BY <1>1, <2>1, <2>2 DEF Holds, Lone
<1> QED
  BY <1>1, <1>2, <1>3, <1>4, <1>5 DEF EventSeqs

\* The head of the queue is taken.
LEMMA EventLeaves ==
  ASSUME NEW es \in EventSeqs, es # <<>>, NEW q, q = Tail(es)
  PROVE  /\ q \in EventSeqs /\ Head(es) \in WinEvents
         /\ \A K : /\ Holds(es, K) <=> Holds(q, K) \/ Head(es) \in K
                   /\ Lone(es, K) => Lone(q, K) /\ ~(Head(es) \in K /\ Holds(q, K))
<1>1. /\ es \in Seq(WinEvents) /\ Len(es) \in Nat /\ Len(es) # 0 /\ q \in Seq(WinEvents)
      /\ Len(q) = Len(es) - 1 /\ Head(es) = es[1] /\ Head(es) \in WinEvents
      /\ \A i \in 1 .. Len(q) : q[i] = es[i + 1]
  BY LenProperties, HeadTailProperties, EmptySeq DEF EventSeqs
<1>2. /\ \A i \in 1 .. Len(es) : i = 1 \/ (i - 1 \in 1 .. Len(q) /\ q[i - 1] = es[i])
      /\ \A i \in 1 .. Len(q) : i + 1 \in 1 .. Len(es) /\ i + 1 # 1
      /\ 1 \in 1 .. Len(es)
  BY <1>1
<1>3. ASSUME NEW K
      PROVE  /\ Holds(es, K) <=> Holds(q, K) \/ Head(es) \in K
             /\ Lone(es, K) => Lone(q, K) /\ ~(Head(es) \in K /\ Holds(q, K))
  <2>1. Holds(es, K) <=> Holds(q, K) \/ Head(es) \in K
    BY <1>1, <1>2 DEF Holds
  <2>2. Lone(es, K) => Lone(q, K)
    BY <1>1, <1>2 DEF Lone
  <2>3. Lone(es, K) => ~(Head(es) \in K /\ Holds(q, K))
    BY <1>1, <1>2 DEF Lone, Holds
  <2> QED
    BY <2>1, <2>2, <2>3
<1> QED
  BY <1>1, <1>3 DEF EventSeqs

LEMMA NoEvents == /\ <<>> \in EventSeqs
                  /\ \A K : ~Holds(<<>>, K) /\ Lone(<<>>, K)
  BY DEF EventSeqs, Holds, Lone

LEMMA OneEvent ==
  ASSUME NEW e
  PROVE  <<e>> # <<>> /\ Head(<<e>>) = e /\ Tail(<<e>>) = <<>>
  OBVIOUS

\* A half takes the first completion it wants, W, and the other's are passed.
FirstWanted(es, W) == SelectInSeq(es, LAMBDA e : e \in W)

LEMMA LeastIndex ==
  ASSUME NEW I \in SUBSET Nat, I # {}
  PROVE  \E i \in I : \A j \in I : i <= j
<1>1. PICK i \in I : \A j \in I : ~(<<j, i>> \in OpToRel(<, Nat))
  BY NatLessThanWellFounded, WFMin, Zenon
<1>2. \A j \in I : ~(j < i)
  BY <1>1 DEF OpToRel
<1> QED
  BY <1>2

LEMMA FirstIsFirst ==
  ASSUME NEW es \in EventSeqs, NEW W, NEW m, m = FirstWanted(es, W)
  PROVE  \/ m = 0 /\ ~Holds(es, W)
         \/ m \in 1 .. Len(es) /\ es[m] \in W /\ \A i \in 1 .. Len(es) : es[i] \in W => m <= i
<1>1. PICK I : I = {i \in 1 .. Len(es) : es[i] \in W}
  OBVIOUS
<1>2. m = IF I # {} THEN CHOOSE x \in I : \A y \in I : x <= y ELSE 0
  BY <1>1 DEF FirstWanted, SelectInSeq, Min
<1>3. Len(es) \in Nat
  BY LenProperties DEF EventSeqs
<1>4. CASE I = {}
  BY <1>1, <1>2, <1>4 DEF Holds
<1>5. CASE I # {}
  <2>1. PICK i \in I : \A j \in I : i <= j
    <3>1. I \in SUBSET Nat
      BY <1>1, <1>3
    <3> QED
      BY <1>5, <3>1, LeastIndex
  <2>2. m \in I /\ \A y \in I : m <= y
    BY <1>2, <1>5, <2>1
  <2> QED
    BY <1>1, <2>2
<1> QED
  BY <1>4, <1>5

\* What is passed is of the other half's kind, of which there is at most one.
LEMMA PassedIsOne ==
  ASSUME NEW es \in EventSeqs, NEW m \in 1 .. Len(es),
         NEW q, q = SubSeq(es, m + 1, Len(es)), NEW p, p = SubSeq(es, 1, m - 1)
  PROVE  /\ q \in EventSeqs /\ p \in EventSeqs
         /\ \A K : /\ Holds(es, K) <=> Holds(p, K) \/ Holds(q, K) \/ es[m] \in K
                   /\ Lone(es, K) => /\ Lone(q, K) /\ Lone(p, K)
                                     /\ Holds(p, K) => ~Holds(q, K) /\ es[m] \notin K
                                     /\ es[m] \in K => ~Holds(q, K)
<1>1. es \in Seq(WinEvents) /\ Len(es) \in Nat
  BY LenProperties DEF EventSeqs
<1>2. PICK n : n = Len(es)
  OBVIOUS
<1>3. /\ q \in Seq(WinEvents) /\ Len(q) = n - m /\ \A i \in 1 .. n - m : q[i] = es[m + i]
  <2>1. /\ SubSeq(es, m + 1, n) \in Seq(WinEvents)
        /\ Len(SubSeq(es, m + 1, n)) = IF m + 1 <= n THEN n - (m + 1) + 1 ELSE 0
        /\ \A i \in 1 .. n - (m + 1) + 1 : SubSeq(es, m + 1, n)[i] = es[m + 1 + i - 1]
    BY <1>1, <1>2, SubSeqProperties
  <2> QED
    BY <1>1, <1>2, <2>1
<1>4. /\ p \in Seq(WinEvents) /\ Len(p) = m - 1 /\ \A i \in 1 .. m - 1 : p[i] = es[i]
  <2>1. /\ SubSeq(es, 1, m - 1) \in Seq(WinEvents)
        /\ Len(SubSeq(es, 1, m - 1)) = IF 1 <= m - 1 THEN m - 1 - 1 + 1 ELSE 0
        /\ \A i \in 1 .. m - 1 - 1 + 1 : SubSeq(es, 1, m - 1)[i] = es[1 + i - 1]
    BY <1>1, <1>2, SubSeqProperties
  <2> QED
    BY <1>1, <1>2, <2>1
<1>5. /\ \A i \in 1 .. n : i \in 1 .. Len(p) \/ i = m \/ i - m \in 1 .. Len(q)
      /\ \A i \in 1 .. Len(p) : i \in 1 .. n /\ i < m
      /\ \A i \in 1 .. Len(q) : m + i \in 1 .. n /\ m + i > m
  BY <1>1, <1>2, <1>3, <1>4
<1>6. \A i \in 1 .. n : i > m => q[i - m] = es[i]
  BY <1>1, <1>2, <1>3
<1>7. ASSUME NEW K
      PROVE  Holds(es, K) <=> Holds(p, K) \/ Holds(q, K) \/ es[m] \in K
  <2>1. Holds(p, K) => Holds(es, K)
    BY <1>2, <1>4, <1>5 DEF Holds
  <2>2. Holds(q, K) => Holds(es, K)
    BY <1>2, <1>3, <1>5 DEF Holds
  <2>3. es[m] \in K => Holds(es, K)
    BY DEF Holds
  <2>4. Holds(es, K) => Holds(p, K) \/ Holds(q, K) \/ es[m] \in K
    <3> SUFFICES ASSUME NEW i \in 1 .. n, es[i] \in K, i # m
                 PROVE  Holds(p, K) \/ Holds(q, K)
      BY <1>2 DEF Holds
    <3>1. CASE i \in 1 .. Len(p)
      BY <1>4, <3>1 DEF Holds
    <3>2. CASE i - m \in 1 .. Len(q)
      <4>1. i > m
        BY <1>3, <1>2, <1>1, <3>2
      <4> QED
        BY <1>6, <3>2, <4>1 DEF Holds
    <3> QED
      BY <1>5, <3>1, <3>2
  <2> QED
    BY <2>1, <2>2, <2>3, <2>4
<1>8. ASSUME NEW K, Lone(es, K)
      PROVE  /\ Lone(q, K) /\ Lone(p, K)
             /\ Holds(p, K) => ~Holds(q, K) /\ es[m] \notin K
             /\ es[m] \in K => ~Holds(q, K)
  <2>1. Lone(p, K)
    BY <1>2, <1>4, <1>5, <1>8 DEF Lone
  <2>2. Lone(q, K)
    <3> SUFFICES ASSUME NEW i \in 1 .. Len(q), NEW j \in 1 .. Len(q), q[i] \in K, q[j] \in K
                 PROVE  i = j
      BY DEF Lone
    <3>1. /\ m + i \in 1 .. n /\ m + j \in 1 .. n /\ es[m + i] \in K /\ es[m + j] \in K
      BY <1>1, <1>2, <1>3, <1>5
    <3>2. m + i = m + j
      BY <1>2, <1>8, <3>1 DEF Lone
    <3> QED
      BY SMTT(30), <1>1, <1>3, <3>2
  <2>3. Holds(p, K) => es[m] \notin K
    <3> SUFFICES ASSUME NEW i \in 1 .. Len(p), p[i] \in K, es[m] \in K PROVE FALSE
      BY DEF Holds
    <3>1. i \in 1 .. n /\ i < m /\ es[i] \in K
      BY <1>4, <1>5
    <3> QED
      BY <1>2, <1>8, <3>1 DEF Lone
  <2>4. Holds(p, K) => ~Holds(q, K)
    <3> SUFFICES ASSUME NEW i \in 1 .. Len(p), p[i] \in K, NEW j \in 1 .. Len(q), q[j] \in K
                 PROVE  FALSE
      BY DEF Holds
    <3>1. i \in 1 .. n /\ i < m /\ es[i] \in K
      BY <1>4, <1>5
    <3>2. m + j \in 1 .. n /\ m + j > m /\ es[m + j] \in K
      BY <1>3, <1>5
    <3>3. i = m + j
      BY <1>2, <1>8, <3>1, <3>2 DEF Lone
    <3> QED
      BY <1>1, <3>1, <3>2, <3>3
  <2>5. es[m] \in K => ~Holds(q, K)
    <3> SUFFICES ASSUME es[m] \in K, NEW j \in 1 .. Len(q), q[j] \in K PROVE FALSE
      BY DEF Holds
    <3>1. m + j \in 1 .. n /\ m + j > m /\ es[m + j] \in K
      BY <1>3, <1>5
    <3>2. m = m + j
      BY <1>2, <1>8, <3>1 DEF Lone
    <3> QED
      BY <1>1, <3>1, <3>2
  <2> QED
    BY <2>1, <2>2, <2>3, <2>4, <2>5
<1> QED
  BY <1>3, <1>4, <1>7, <1>8 DEF EventSeqs

\* A queue of one kind of which there is at most one.
LEMMA LoneQueue ==
  ASSUME NEW es \in EventSeqs, NEW K, Lone(es, K), \A i \in 1 .. Len(es) : es[i] \in K
  PROVE  /\ ~(Len(es) > 1)
         /\ es # <<>> => Last(es) \in K /\ Last(es) \in WinEvents /\ Holds(es, K)
                         /\ \A L : Holds(es, L) <=> Last(es) \in L
<1>1. es \in Seq(WinEvents) /\ Len(es) \in Nat /\ \A i \in 1 .. Len(es) : es[i] \in WinEvents
  BY LenProperties, ElementOfSeq DEF EventSeqs
<1>2. ~(Len(es) > 1)
  <2> SUFFICES ASSUME Len(es) > 1 PROVE FALSE
    OBVIOUS
  <2>1. 1 \in 1 .. Len(es) /\ 2 \in 1 .. Len(es)
    BY <1>1
  <2> QED
    BY <2>1 DEF Lone
<1>3. ASSUME es # <<>>
      PROVE  /\ Last(es) \in K /\ Last(es) \in WinEvents /\ Holds(es, K)
             /\ \A L : Holds(es, L) <=> Last(es) \in L
  <2>1. Len(es) = 1
    <3>1. PICK n : n = Len(es)
      OBVIOUS
    <3>2. n # 0
      BY <1>1, <1>3, <3>1, EmptySeq
    <3>3. n \in Nat /\ ~(n > 1)
      BY <1>1, <1>2, <3>1
    <3> QED
      BY <3>1, <3>2, <3>3
  <2>2. Last(es) = es[1] /\ 1 \in 1 .. Len(es) /\ \A i \in 1 .. Len(es) : i = 1
    BY <2>1 DEF Last
  <2> QED
    BY <1>1, <2>2 DEF Holds
<1> QED
  BY <1>2, <1>3

------------------------------------------------------------------------------
(* The callback.                                                           *)

QueueGrew(w, g, e) ==
  /\ w.events = <<>> => g.events = <<e>>
  /\ w.events # <<>> => g.events # <<>> /\ Head(g.events) = Head(w.events)
  /\ \A K : /\ Holds(g.events, K) <=> Holds(w.events, K) \/ e \in K
            /\ Lone(w.events, K) /\ ~(e \in K /\ Holds(w.events, K)) => Lone(g.events, K)

LEMMA EventPushed ==
  ASSUME NEW w \in WinRec, NEW e \in WinEvents, NEW g, g = PushEvent(w, e), WinSleeps(w)
  PROVE  /\ g \in WinRec /\ WinSleeps(g) /\ QueueGrew(w, g, e)
         /\ g.ws = w.ws /\ g.at = w.at /\ g.upgraded = w.upgraded /\ g.req = w.req
         /\ g.sock = w.sock /\ g.ctx = w.ctx /\ g.ops = w.ops /\ g.secure = w.secure
         /\ g.buf = w.buf /\ g.lent = w.lent /\ g.body = w.body /\ g.payload = w.payload
         /\ g.parked = w.parked /\ g.rx = w.rx /\ g.tx = w.tx /\ g.stash = w.stash
         /\ g.frames = w.frames /\ g.sends = w.sends /\ g.told = w.told
         /\ g.crossed = w.crossed /\ g.panic = w.panic /\ g.odd = w.odd
         /\ g.dropped = w.dropped /\ g.garbage = w.garbage
<1>1. PICK q, d : q = Append(w.events, e) /\ d = (IF w.waker THEN w.parked ELSE w.due)
  OBVIOUS
<1>2. w.events \in EventSeqs /\ w.parked \in SomeSides /\ w.due \in SomeSides
  BY DEF WinRec
<1>3. q \in EventSeqs /\ d \in SomeSides
  BY <1>1, <1>2, EventJoins
<1>4. g = [w EXCEPT !.events = q, !.waker = FALSE, !.due = d]
  BY <1>1, Zenon DEF PushEvent, WinRec
<1>5. g \in WinRec
  BY <1>3, <1>4, ZenonT(60) DEF WinRec
<1>6. /\ g.events = q /\ g.waker = FALSE /\ g.due = d
      /\ g.ws = w.ws /\ g.at = w.at /\ g.upgraded = w.upgraded /\ g.req = w.req
      /\ g.sock = w.sock /\ g.ctx = w.ctx /\ g.ops = w.ops /\ g.secure = w.secure
      /\ g.buf = w.buf /\ g.lent = w.lent /\ g.body = w.body /\ g.payload = w.payload
      /\ g.parked = w.parked /\ g.rx = w.rx /\ g.tx = w.tx /\ g.stash = w.stash
      /\ g.frames = w.frames /\ g.sends = w.sends /\ g.told = w.told
      /\ g.crossed = w.crossed /\ g.panic = w.panic /\ g.odd = w.odd
      /\ g.dropped = w.dropped /\ g.garbage = w.garbage
  BY <1>4 DEF WinRec
<1>7. QueueGrew(w, g, e)
  <2>1. PICK es : es = w.events
    OBVIOUS
  <2>0. es \in EventSeqs /\ q = Append(es, e)
    BY <1>1, <1>2, <2>1
  <2>2. /\ es = <<>> => q = <<e>>
        /\ es # <<>> => q # <<>> /\ Head(q) = Head(es)
        /\ \A K : /\ Holds(q, K) <=> Holds(es, K) \/ e \in K
                  /\ Lone(es, K) /\ ~(e \in K /\ Holds(es, K)) => Lone(q, K)
    BY <2>0, EventJoins, Zenon
  <2> QED
    BY <1>6, <2>1, <2>2, Zenon DEF QueueGrew
<1>8. g.parked \ g.due = {} /\ g.due \subseteq g.parked
  BY <1>1, <1>6 DEF WinSleeps
<1>9. WinSleeps(g)
  BY <1>8 DEF WinSleeps
<1> QED
  BY <1>5, <1>6, <1>7, <1>9

\* The completions of an operation.
AnswersTo(w, op, e) ==
  \/ e = "failed"
  \/ op = "send" /\ e = "sent" /\ ~w.secure
  \/ op = "head" /\ e = "headers"
  \/ op = "recv" /\ e \in (IF w.upgraded THEN WsReads ELSE {"read", "end"})
  \/ op = "write" /\ e = "wrote"
  \/ op = "close" /\ e = "closed"

\* What an operation leaves when it is over.
OpFrame(v, w) ==
  /\ v.ws = w.ws
  /\ v.at = w.at /\ v.upgraded = w.upgraded /\ v.req = w.req /\ v.sock = w.sock
  /\ v.ctx = w.ctx /\ v.secure = w.secure /\ v.events = w.events /\ v.waker = w.waker
  /\ v.parked = w.parked /\ v.due = w.due /\ v.rx = w.rx /\ v.tx = w.tx /\ v.stash = w.stash
  /\ v.sends = w.sends /\ v.told = w.told /\ v.panic = w.panic /\ v.odd = w.odd
  /\ v.dropped = w.dropped /\ v.garbage = w.garbage

OpEnds(v, w, op, e) ==
  /\ v.ops = w.ops \ {op} /\ OpFrame(v, w)
  /\ w.body => v.body \/ op = "send"
  /\ w.payload => v.payload \/ op = "write"
  /\ \/ op # "recv" /\ v.buf = w.buf /\ v.lent = w.lent /\ v.crossed = w.crossed
     \/ /\ v.buf = "home" /\ (v.crossed <=> w.crossed \/ (op # "recv" /\ w.lent))
        /\ v.lent => w.lent
        /\ w.lent /\ e # "failed" => v.lent \/ w.buf # "loaned"

LEMMA HandlesStay ==
  ASSUME NEW w, NEW v, WinHandles(w), v.ops \subseteq w.ops, v.ws = w.ws, v.at = w.at,
         v.upgraded = w.upgraded, v.req = w.req, v.sock = w.sock, v.ctx = w.ctx,
         v.at = "new" => ~v.secure
  PROVE  WinHandles(v)
  BY DEF WinHandles

LEMMA SleepsStay ==
  ASSUME NEW w, NEW v, WinSleeps(w), v.events = w.events, v.waker = w.waker,
         v.parked = w.parked, v.due = w.due, v.stash = w.stash
  PROVE  WinSleeps(v)
  BY DEF WinSleeps

LEMMA OpAnswered ==
  ASSUME WinSound(win), NEW op \in win.ops, NEW e \in WinEvents, AnswersTo(win, op, e),
         NEW v \in WinRec, OpEnds(v, win, op, e), NEW g, g = PushEvent(v, e)
  PROVE  WinSound(g)
<1>0. /\ win \in WinRec /\ WinHandles(win) /\ WinQueue(win) /\ WinReads(win)
      /\ WinWrites(win) /\ WinWaits(win) /\ WinLoans(win) /\ WinSleeps(win)
  BY DEF WinSound
<1>1. /\ v.ops = win.ops \ {op}
      /\ v.ws = win.ws /\ v.at = win.at /\ v.upgraded = win.upgraded /\ v.req = win.req
      /\ v.sock = win.sock /\ v.ctx = win.ctx /\ v.secure = win.secure
      /\ v.events = win.events /\ v.waker = win.waker /\ v.parked = win.parked
      /\ v.due = win.due /\ v.rx = win.rx /\ v.tx = win.tx /\ v.stash = win.stash
      /\ v.sends = win.sends /\ v.told = win.told /\ v.panic = win.panic /\ v.odd = win.odd
      /\ v.dropped = win.dropped /\ v.garbage = win.garbage
  BY DEF OpEnds, OpFrame
<1>2. WinSleeps(v)
  BY <1>0, <1>1 DEF WinSleeps
<1>3. /\ g \in WinRec /\ WinSleeps(g) /\ QueueGrew(v, g, e)
      /\ g.ws = v.ws /\ g.at = v.at /\ g.upgraded = v.upgraded /\ g.req = v.req
      /\ g.sock = v.sock /\ g.ctx = v.ctx /\ g.ops = v.ops /\ g.secure = v.secure
      /\ g.buf = v.buf /\ g.lent = v.lent /\ g.body = v.body /\ g.payload = v.payload
      /\ g.parked = v.parked /\ g.rx = v.rx /\ g.tx = v.tx /\ g.stash = v.stash
      /\ g.frames = v.frames /\ g.sends = v.sends /\ g.told = v.told
      /\ g.crossed = v.crossed /\ g.panic = v.panic /\ g.odd = v.odd
      /\ g.dropped = v.dropped /\ g.garbage = v.garbage
  BY <1>2, EventPushed
<1>4. PICK b : b = win.events
  OBVIOUS
<1>5. /\ b = <<>> => g.events = <<e>>
      /\ b # <<>> => g.events # <<>> /\ Head(g.events) = Head(b)
      /\ \A K : /\ Holds(g.events, K) <=> Holds(b, K) \/ e \in K
                /\ Lone(b, K) /\ ~(e \in K /\ Holds(b, K)) => Lone(g.events, K)
  BY <1>1, <1>3, <1>4 DEF QueueGrew
<1>6. /\ e \in ReadEvents => op = "recv"
      /\ e \in SendEvents => op \in {"write", "close"}
      /\ e = "closed" => op = "close"
      /\ e \in Failures <=> e = "failed"
      /\ op = "recv" /\ e # "failed" => e \in ReadEvents
      /\ op = "write" /\ e # "failed" => e \in {"wrote"}
  BY DEF AnswersTo, ReadEvents, SendEvents, Failures, WsReads
<1>7. WinHandles(g)
  BY <1>0, <1>1, <1>3, HandlesStay DEF WinHandles
<1>8. WinReads(g)
  <2>1. \/ e \in ReadEvents /\ ~Holds(b, ReadEvents) /\ "recv" \notin g.ops /\ win.rx # "idle"
           /\ win.stash["rx"] = NoEvent
        \/ e \notin ReadEvents
    BY <1>0, <1>1, <1>3, <1>4, <1>6 DEF WinReads
  <2> QED
    BY <1>0, <1>1, <1>3, <1>4, <1>5, <2>1 DEF WinReads
<1>9. WinWrites(g)
  <2>1. \/ e \in SendEvents /\ ~Holds(b, SendEvents) /\ g.ops \cap {"write", "close"} = {}
           /\ win.tx # "idle" /\ win.stash["tx"] = NoEvent
        \/ e \notin SendEvents
    BY <1>0, <1>1, <1>3, <1>4, <1>6 DEF WinWrites
  <2>2. e \in {"closed"} => win.tx # "sending"
    BY <1>0, <1>6 DEF WinWrites
  <2> QED
    BY <1>0, <1>1, <1>3, <1>4, <1>5, <2>1, <2>2 DEF WinWrites
<1>10. WinWaits(g)
  BY <1>0, <1>1, <1>3, <1>4, <1>5, <1>6 DEF WinWaits
<1>11. WinLoans(g)
  <2>1. Holds(g.events, ReadEvents) => Holds(b, ReadEvents) \/ e \in ReadEvents
    BY <1>5
  <2>2. /\ "send" \in g.ops /\ ~g.ws => g.body
        /\ "write" \in g.ops => g.payload
        /\ ~g.panic /\ ~g.odd /\ ~g.dropped
    BY <1>0, <1>1, <1>3 DEF WinLoans, OpEnds
  <2>3. /\ win.lent \in BOOLEAN /\ win.crossed \in BOOLEAN /\ v.lent \in BOOLEAN
        /\ v.crossed \in BOOLEAN
    BY <1>0 DEF WinRec
  <2>4. /\ win.buf = "loaned" => "recv" \in win.ops
        /\ ~win.crossed => /\ "recv" \in win.ops => win.buf = "loaned" /\ win.lent
                           /\ win.stash["rx"] # NoEvent \/ Holds(b, ReadEvents) => win.lent
                           /\ ~win.garbage
    BY <1>0, <1>4 DEF WinLoans
  <2>5. /\ g.buf = "loaned" => "recv" \in g.ops
        /\ ~g.crossed => /\ "recv" \in g.ops => g.buf = "loaned" /\ g.lent
                         /\ g.stash["rx"] # NoEvent \/ Holds(g.events, ReadEvents) => g.lent
                         /\ ~g.garbage
    <3>1. CASE op # "recv" /\ v.buf = win.buf /\ v.lent = win.lent /\ v.crossed = win.crossed
      BY <1>1, <1>3, <1>6, <2>1, <2>4, <3>1
    <3>2. CASE op # "recv" /\ v.buf = "home" /\ (v.crossed <=> win.crossed \/ win.lent)
      BY <1>1, <1>3, <1>6, <2>1, <2>4, <3>2
    <3>3. CASE op = "recv"
      <4>1. win.stash["rx"] = NoEvent /\ ~Holds(b, ReadEvents)
        BY <1>0, <1>4, <3>3 DEF WinReads
      <4>2. /\ v.buf = "home" /\ (v.crossed <=> win.crossed)
            /\ win.lent /\ e # "failed" => v.lent \/ win.buf # "loaned"
        BY <3>3 DEF OpEnds
      <4>3. e = "failed" => e \notin ReadEvents
        BY DEF ReadEvents, WsReads
      <4> QED
        BY <1>1, <1>3, <2>1, <2>4, <3>3, <4>1, <4>2, <4>3
    <3>4. \/ op # "recv" /\ v.buf = win.buf /\ v.lent = win.lent /\ v.crossed = win.crossed
          \/ op # "recv" /\ v.buf = "home" /\ (v.crossed <=> win.crossed \/ win.lent)
          \/ op = "recv"
      BY DEF OpEnds
    <3> QED
      BY <3>1, <3>2, <3>3, <3>4
  <2> QED
    BY <2>2, <2>5 DEF WinLoans
<1>12. WinQueue(g)
  <2>1. g.at = "new" => g.events = <<>>
    BY <1>0, <1>1, <1>3 DEF WinHandles
  <2>2. g.at = "sent" =>
          /\ g.ops \subseteq {"send"}
          /\ \/ g.ops = {"send"} /\ ~g.secure /\ g.events = <<>>
             \/ g.ops = {} /\ g.events = <<"sent">>
             \/ g.events # <<>> /\ Head(g.events) \in Failures /\ (g.secure \/ g.ops = {})
    <3> SUFFICES ASSUME win.at = "sent"
                 PROVE  /\ g.ops = {}
                        /\ \/ g.events = <<"sent">>
                           \/ g.events # <<>> /\ Head(g.events) \in Failures
      BY <1>1, <1>3
    <3>1. /\ op = "send" /\ g.ops = {} /\ win.ops = {"send"}
          /\ \/ b = <<>> /\ ~win.secure
             \/ b # <<>> /\ Head(b) \in Failures
      BY <1>0, <1>1, <1>3, <1>4 DEF WinQueue
    <3>2. e \in {"sent", "failed"}
      BY <3>1 DEF AnswersTo
    <3>3. <<e>> # <<>> /\ Head(<<e>>) = e
      BY OneEvent
    <3> QED
      BY <1>5, <1>6, <3>1, <3>2, <3>3
  <2>3. g.at = "asked" =>
          /\ g.ops \subseteq {"head"}
          /\ \/ g.ops = {"head"} /\ g.events = <<>>
             \/ g.ops = {} /\ g.events \in {<<"headers">>, <<"failed">>}
    <3> SUFFICES ASSUME win.at = "asked"
                 PROVE  g.ops = {} /\ g.events \in {<<"headers">>, <<"failed">>}
      BY <1>1, <1>3
    <3>1. op = "head" /\ g.ops = {} /\ b = <<>>
      BY <1>0, <1>1, <1>3, <1>4 DEF WinQueue
    <3>2. e \in {"headers", "failed"}
      BY <3>1 DEF AnswersTo
    <3> QED
      BY <1>5, <3>1, <3>2
  <2>4. g.at = "open" => ~Holds(g.events, IF g.ws THEN SocketForeign ELSE BodyForeign)
    <3> SUFFICES ASSUME win.at = "open"
                 PROVE  ~Holds(g.events, IF win.ws THEN SocketForeign ELSE BodyForeign)
      BY <1>1, <1>3
    <3>1. ~Holds(b, IF win.ws THEN SocketForeign ELSE BodyForeign)
      BY <1>0, <1>4 DEF WinQueue
    <3>2. /\ op \in {"recv", "write", "close"} /\ (~win.ws => op = "recv")
          /\ win.ws <=> win.upgraded
      BY <1>0 DEF WinHandles, WinRec
    <3>3. e \notin (IF win.ws THEN SocketForeign ELSE BodyForeign)
      BY <3>2 DEF AnswersTo, SocketForeign, BodyForeign, SendEvents, Failures
    <3> QED
      BY <1>5, <3>1, <3>3
  <2> QED
    BY <1>0, <1>1, <1>3, <2>1, <2>2, <2>3, <2>4 DEF WinQueue
<1> QED
  BY <1>3, <1>7, <1>8, <1>9, <1>10, <1>11, <1>12 DEF WinSound

\* An operation alone ends.
LEMMA OpIsOver ==
  ASSUME win \in WinRec, NEW op, NEW f, f = OpOver(op)
  PROVE  /\ f \in WinRec /\ f.ops = win.ops \ {op}
         /\ f.ws = win.ws /\ f.at = win.at /\ f.upgraded = win.upgraded /\ f.req = win.req
         /\ f.sock = win.sock /\ f.ctx = win.ctx /\ f.secure = win.secure /\ f.buf = win.buf
         /\ f.lent = win.lent /\ f.body = win.body /\ f.payload = win.payload
         /\ f.events = win.events /\ f.waker = win.waker /\ f.parked = win.parked
         /\ f.due = win.due /\ f.rx = win.rx /\ f.tx = win.tx /\ f.stash = win.stash
         /\ f.frames = win.frames /\ f.sends = win.sends /\ f.told = win.told
         /\ f.crossed = win.crossed /\ f.panic = win.panic /\ f.odd = win.odd
         /\ f.dropped = win.dropped /\ f.garbage = win.garbage
<1>1. PICK o : o = win.ops \ {op}
  OBVIOUS
<1>2. o \in SomeOps
  BY <1>1 DEF WinRec, SomeOps
<1>3. f = [win EXCEPT !.ops = o]
  BY <1>1, Zenon DEF OpOver, WinRec
<1>4. f \in WinRec
  BY <1>2, <1>3, ZenonT(60) DEF WinRec
<1> QED
  BY <1>1, <1>3, <1>4 DEF WinRec

LEMMA SendRequestCompleteKeeps == WinInv /\ SendRequestComplete => WinInv'
<1> SUFFICES ASSUME WinInv, SendRequestComplete PROVE WinSound(win')
  BY DEF WinInv
<1>0. WinSound(win) /\ win \in WinRec /\ "send" \in win.ops
  BY DEF WinInv, WinSound, SendRequestComplete
<1>1. PICK f, v : f = OpOver("send") /\ v = [f EXCEPT !.body = FALSE]
  OBVIOUS
<1>2. /\ f \in WinRec /\ f.ops = win.ops \ {"send"}
      /\ f.ws = win.ws /\ f.at = win.at /\ f.upgraded = win.upgraded /\ f.req = win.req
      /\ f.sock = win.sock /\ f.ctx = win.ctx /\ f.secure = win.secure /\ f.buf = win.buf
      /\ f.lent = win.lent /\ f.body = win.body /\ f.payload = win.payload
      /\ f.events = win.events /\ f.waker = win.waker /\ f.parked = win.parked
      /\ f.due = win.due /\ f.rx = win.rx /\ f.tx = win.tx /\ f.stash = win.stash
      /\ f.frames = win.frames /\ f.sends = win.sends /\ f.told = win.told
      /\ f.crossed = win.crossed /\ f.panic = win.panic /\ f.odd = win.odd
      /\ f.dropped = win.dropped /\ f.garbage = win.garbage
  BY <1>0, <1>1, OpIsOver
<1>3. v \in WinRec
  <2>1. f \in WinRec
    BY <1>2
  <2>2. v = [f EXCEPT !.body = FALSE]
    BY <1>1
  <2> QED
    BY <2>1, <2>2, ZenonT(60) DEF WinRec
<1>4. /\ v.body = FALSE
      /\ v.ws = f.ws /\ v.at = f.at /\ v.upgraded = f.upgraded /\ v.req = f.req
      /\ v.sock = f.sock /\ v.ctx = f.ctx /\ v.ops = f.ops /\ v.secure = f.secure
      /\ v.buf = f.buf /\ v.lent = f.lent /\ v.payload = f.payload /\ v.events = f.events
      /\ v.waker = f.waker /\ v.parked = f.parked /\ v.due = f.due /\ v.rx = f.rx
      /\ v.tx = f.tx /\ v.stash = f.stash /\ v.frames = f.frames /\ v.sends = f.sends
      /\ v.told = f.told /\ v.crossed = f.crossed /\ v.panic = f.panic /\ v.odd = f.odd
      /\ v.dropped = f.dropped /\ v.garbage = f.garbage
  BY <1>1, <1>2 DEF WinRec
<1>5. OpEnds(v, win, "send", "sent")
  BY <1>2, <1>4 DEF OpEnds, OpFrame
<1>6. "sent" \in WinEvents /\ AnswersTo(win, "send", "sent")
  BY DEF WinEvents, AnswersTo, SendRequestComplete
<1>7. win' = PushEvent(v, "sent")
  BY <1>1 DEF SendRequestComplete
<1> QED
  BY <1>0, <1>3, <1>5, <1>6, <1>7, OpAnswered

LEMMA HeadersAvailableKeeps == WinInv /\ HeadersAvailable => WinInv'
<1> SUFFICES ASSUME WinInv, HeadersAvailable PROVE WinSound(win')
  BY DEF WinInv
<1>0. WinSound(win) /\ win \in WinRec /\ "head" \in win.ops
  BY DEF WinInv, WinSound, HeadersAvailable
<1>1. PICK v : v = OpOver("head")
  OBVIOUS
<1>2. /\ v \in WinRec /\ v.ops = win.ops \ {"head"}
      /\ v.ws = win.ws /\ v.at = win.at /\ v.upgraded = win.upgraded /\ v.req = win.req
      /\ v.sock = win.sock /\ v.ctx = win.ctx /\ v.secure = win.secure /\ v.buf = win.buf
      /\ v.lent = win.lent /\ v.body = win.body /\ v.payload = win.payload
      /\ v.events = win.events /\ v.waker = win.waker /\ v.parked = win.parked
      /\ v.due = win.due /\ v.rx = win.rx /\ v.tx = win.tx /\ v.stash = win.stash
      /\ v.frames = win.frames /\ v.sends = win.sends /\ v.told = win.told
      /\ v.crossed = win.crossed /\ v.panic = win.panic /\ v.odd = win.odd
      /\ v.dropped = win.dropped /\ v.garbage = win.garbage
  BY <1>0, <1>1, OpIsOver
<1>3. OpEnds(v, win, "head", "headers")
  BY <1>2 DEF OpEnds, OpFrame
<1>4. "headers" \in WinEvents /\ AnswersTo(win, "head", "headers")
  BY DEF WinEvents, AnswersTo
<1>5. win' = PushEvent(v, "headers")
  BY <1>1 DEF HeadersAvailable
<1> QED
  BY <1>0, <1>2, <1>3, <1>4, <1>5, OpAnswered

\* The buffer is reclaimed after an operation of either kind.
LEMMA BufReclaimed ==
  ASSUME NEW w \in WinRec, NEW op, NEW g, g = Reclaim(w, op)
  PROVE  /\ g \in WinRec /\ g.buf = "home"
         /\ g.lent <=> w.lent /\ w.buf = "loaned"
         /\ g.crossed <=> w.crossed \/ (op # "recv" /\ w.lent)
         /\ g.ws = w.ws /\ g.at = w.at /\ g.upgraded = w.upgraded /\ g.req = w.req
         /\ g.sock = w.sock /\ g.ctx = w.ctx /\ g.ops = w.ops /\ g.secure = w.secure
         /\ g.body = w.body /\ g.payload = w.payload /\ g.events = w.events
         /\ g.waker = w.waker /\ g.parked = w.parked /\ g.due = w.due /\ g.rx = w.rx
         /\ g.tx = w.tx /\ g.stash = w.stash /\ g.frames = w.frames /\ g.sends = w.sends
         /\ g.told = w.told /\ g.panic = w.panic /\ g.odd = w.odd /\ g.dropped = w.dropped
         /\ g.garbage = w.garbage
<1>1. PICK l, c : l = (w.lent /\ w.buf = "loaned") /\ c = (w.crossed \/ (op # "recv" /\ w.lent))
  OBVIOUS
<1>2. /\ l \in BOOLEAN /\ (l <=> w.lent /\ w.buf = "loaned")
      /\ c \in BOOLEAN /\ (c <=> w.crossed \/ (op # "recv" /\ w.lent))
  BY <1>1, Zenon
<1>3. "home" \in BufPlaces
  BY DEF BufPlaces
<1>4. g = [w EXCEPT !.buf = "home", !.lent = l, !.crossed = c]
  BY <1>1, Zenon DEF Reclaim, WinRec
<1>5. g \in WinRec
  BY <1>2, <1>3, <1>4, Zenon DEF WinRec
<1>6. /\ g.buf = "home" /\ g.lent = l /\ g.crossed = c
      /\ g.ws = w.ws /\ g.at = w.at /\ g.upgraded = w.upgraded /\ g.req = w.req
      /\ g.sock = w.sock /\ g.ctx = w.ctx /\ g.ops = w.ops /\ g.secure = w.secure
      /\ g.body = w.body /\ g.payload = w.payload /\ g.events = w.events
      /\ g.waker = w.waker /\ g.parked = w.parked /\ g.due = w.due /\ g.rx = w.rx
      /\ g.tx = w.tx /\ g.stash = w.stash /\ g.frames = w.frames /\ g.sends = w.sends
      /\ g.told = w.told /\ g.panic = w.panic /\ g.odd = w.odd /\ g.dropped = w.dropped
      /\ g.garbage = w.garbage
  BY <1>4 DEF WinRec
<1> QED
  BY <1>2, <1>5, <1>6

LEMMA ReadCompleteKeeps == WinInv /\ ReadComplete => WinInv'
<1> SUFFICES ASSUME WinInv, ReadComplete PROVE WinSound(win')
  BY DEF WinInv
<1>0. WinSound(win) /\ win \in WinRec /\ "recv" \in win.ops
  BY DEF WinInv, WinSound, ReadComplete
<1>1. PICK f, w : f = OpOver("recv") /\ w = Reclaim(f, "recv")
  OBVIOUS
<1>2. /\ f \in WinRec /\ f.ops = win.ops \ {"recv"}
      /\ f.ws = win.ws /\ f.at = win.at /\ f.upgraded = win.upgraded /\ f.req = win.req
      /\ f.sock = win.sock /\ f.ctx = win.ctx /\ f.secure = win.secure /\ f.buf = win.buf
      /\ f.lent = win.lent /\ f.body = win.body /\ f.payload = win.payload
      /\ f.events = win.events /\ f.waker = win.waker /\ f.parked = win.parked
      /\ f.due = win.due /\ f.rx = win.rx /\ f.tx = win.tx /\ f.stash = win.stash
      /\ f.frames = win.frames /\ f.sends = win.sends /\ f.told = win.told
      /\ f.crossed = win.crossed /\ f.panic = win.panic /\ f.odd = win.odd
      /\ f.dropped = win.dropped /\ f.garbage = win.garbage
  BY <1>0, <1>1, OpIsOver
<1>3. /\ w \in WinRec /\ w.buf = "home"
      /\ w.lent <=> f.lent /\ f.buf = "loaned"
      /\ w.crossed <=> f.crossed
      /\ w.ws = f.ws /\ w.at = f.at /\ w.upgraded = f.upgraded /\ w.req = f.req
      /\ w.sock = f.sock /\ w.ctx = f.ctx /\ w.ops = f.ops /\ w.secure = f.secure
      /\ w.body = f.body /\ w.payload = f.payload /\ w.events = f.events
      /\ w.waker = f.waker /\ w.parked = f.parked /\ w.due = f.due /\ w.rx = f.rx
      /\ w.tx = f.tx /\ w.stash = f.stash /\ w.frames = f.frames /\ w.sends = f.sends
      /\ w.told = f.told /\ w.panic = f.panic /\ w.odd = f.odd /\ w.dropped = f.dropped
      /\ w.garbage = f.garbage
  BY <1>1, <1>2, BufReclaimed
<1>4. CASE \E e \in IF win.upgraded THEN {"fragment", "message"} ELSE {"read"} :
             win' = PushEvent([w EXCEPT !.frames = @ + 1], e)
  <2>1. PICK e \in IF win.upgraded THEN {"fragment", "message"} ELSE {"read"} :
               win' = PushEvent([w EXCEPT !.frames = @ + 1], e)
    BY <1>4
  <2>2. e \in WinEvents /\ e # "failed" /\ AnswersTo(win, "recv", e)
    BY DEF WinEvents, ReadEvents, WsReads, AnswersTo
  <2>3. PICK v, n : n = w.frames + 1 /\ v = [w EXCEPT !.frames = n]
    OBVIOUS
  <2>4. n \in Nat /\ v = [w EXCEPT !.frames = @ + 1]
    BY <1>3, <2>3 DEF WinRec
  <2>5. v \in WinRec
    BY <1>3, <2>3, <2>4, ZenonT(60) DEF WinRec
  <2>6. /\ v.frames = n
        /\ v.ws = w.ws /\ v.at = w.at /\ v.upgraded = w.upgraded /\ v.req = w.req
        /\ v.sock = w.sock /\ v.ctx = w.ctx /\ v.ops = w.ops /\ v.secure = w.secure
        /\ v.buf = w.buf /\ v.lent = w.lent /\ v.body = w.body /\ v.payload = w.payload
        /\ v.events = w.events /\ v.waker = w.waker /\ v.parked = w.parked /\ v.due = w.due
        /\ v.rx = w.rx /\ v.tx = w.tx /\ v.stash = w.stash /\ v.sends = w.sends
        /\ v.told = w.told /\ v.crossed = w.crossed /\ v.panic = w.panic /\ v.odd = w.odd
        /\ v.dropped = w.dropped /\ v.garbage = w.garbage
    BY <1>3, <2>3 DEF WinRec
  <2>7. OpEnds(v, win, "recv", e)
    BY <1>2, <1>3, <2>6 DEF OpEnds, OpFrame
  <2> QED
    BY <1>0, <2>1, <2>2, <2>4, <2>5, <2>7, OpAnswered
<1>5. CASE win' = PushEvent(w, IF win.upgraded THEN "close" ELSE "end")
  <2>1. PICK e : e = (IF win.upgraded THEN "close" ELSE "end")
    OBVIOUS
  <2>2. e \in WinEvents /\ e # "failed" /\ AnswersTo(win, "recv", e)
    BY <2>1 DEF WinEvents, ReadEvents, WsReads, AnswersTo
  <2>3. OpEnds(w, win, "recv", e)
    BY <1>2, <1>3 DEF OpEnds, OpFrame
  <2> QED
    BY <1>0, <1>3, <1>5, <2>1, <2>2, <2>3, OpAnswered
<1> QED
  BY <1>1, <1>4, <1>5 DEF ReadComplete

LEMMA WriteCompleteKeeps == WinInv /\ WriteComplete => WinInv'
<1> SUFFICES ASSUME WinInv, WriteComplete PROVE WinSound(win')
  BY DEF WinInv
<1>0. WinSound(win) /\ win \in WinRec /\ "write" \in win.ops
  BY DEF WinInv, WinSound, WriteComplete
<1>1. PICK f, v : f = OpOver("write") /\ v = [f EXCEPT !.payload = FALSE]
  OBVIOUS
<1>2. /\ f \in WinRec /\ f.ops = win.ops \ {"write"}
      /\ f.ws = win.ws /\ f.at = win.at /\ f.upgraded = win.upgraded /\ f.req = win.req
      /\ f.sock = win.sock /\ f.ctx = win.ctx /\ f.secure = win.secure /\ f.buf = win.buf
      /\ f.lent = win.lent /\ f.body = win.body /\ f.payload = win.payload
      /\ f.events = win.events /\ f.waker = win.waker /\ f.parked = win.parked
      /\ f.due = win.due /\ f.rx = win.rx /\ f.tx = win.tx /\ f.stash = win.stash
      /\ f.frames = win.frames /\ f.sends = win.sends /\ f.told = win.told
      /\ f.crossed = win.crossed /\ f.panic = win.panic /\ f.odd = win.odd
      /\ f.dropped = win.dropped /\ f.garbage = win.garbage
  BY <1>0, <1>1, OpIsOver
<1>3. v \in WinRec
  <2>1. f \in WinRec
    BY <1>2
  <2>2. v = [f EXCEPT !.payload = FALSE]
    BY <1>1
  <2> QED
    BY <2>1, <2>2, ZenonT(60) DEF WinRec
<1>4. /\ v.payload = FALSE
      /\ v.ws = f.ws /\ v.at = f.at /\ v.upgraded = f.upgraded /\ v.req = f.req
      /\ v.sock = f.sock /\ v.ctx = f.ctx /\ v.ops = f.ops /\ v.secure = f.secure
      /\ v.buf = f.buf /\ v.lent = f.lent /\ v.body = f.body /\ v.events = f.events
      /\ v.waker = f.waker /\ v.parked = f.parked /\ v.due = f.due /\ v.rx = f.rx
      /\ v.tx = f.tx /\ v.stash = f.stash /\ v.frames = f.frames /\ v.sends = f.sends
      /\ v.told = f.told /\ v.crossed = f.crossed /\ v.panic = f.panic /\ v.odd = f.odd
      /\ v.dropped = f.dropped /\ v.garbage = f.garbage
  BY <1>1, <1>2 DEF WinRec
<1>5. OpEnds(v, win, "write", "wrote")
  BY <1>2, <1>4 DEF OpEnds, OpFrame
<1>6. "wrote" \in WinEvents /\ AnswersTo(win, "write", "wrote")
  BY DEF WinEvents, SendEvents, AnswersTo
<1>7. win' = PushEvent(v, "wrote")
  BY <1>1 DEF WriteComplete
<1> QED
  BY <1>0, <1>3, <1>5, <1>6, <1>7, OpAnswered

LEMMA CloseCompleteKeeps == WinInv /\ CloseComplete => WinInv'
<1> SUFFICES ASSUME WinInv, CloseComplete PROVE WinSound(win')
  BY DEF WinInv
<1>0. WinSound(win) /\ win \in WinRec /\ "close" \in win.ops
  BY DEF WinInv, WinSound, CloseComplete
<1>1. PICK v : v = OpOver("close")
  OBVIOUS
<1>2. /\ v \in WinRec /\ v.ops = win.ops \ {"close"}
      /\ v.ws = win.ws /\ v.at = win.at /\ v.upgraded = win.upgraded /\ v.req = win.req
      /\ v.sock = win.sock /\ v.ctx = win.ctx /\ v.secure = win.secure /\ v.buf = win.buf
      /\ v.lent = win.lent /\ v.body = win.body /\ v.payload = win.payload
      /\ v.events = win.events /\ v.waker = win.waker /\ v.parked = win.parked
      /\ v.due = win.due /\ v.rx = win.rx /\ v.tx = win.tx /\ v.stash = win.stash
      /\ v.frames = win.frames /\ v.sends = win.sends /\ v.told = win.told
      /\ v.crossed = win.crossed /\ v.panic = win.panic /\ v.odd = win.odd
      /\ v.dropped = win.dropped /\ v.garbage = win.garbage
  BY <1>0, <1>1, OpIsOver
<1>3. OpEnds(v, win, "close", "closed")
  BY <1>2 DEF OpEnds, OpFrame
<1>4. "closed" \in WinEvents /\ AnswersTo(win, "close", "closed")
  BY DEF WinEvents, SendEvents, AnswersTo
<1>5. win' = PushEvent(v, "closed")
  BY <1>1 DEF CloseComplete
<1> QED
  BY <1>0, <1>2, <1>3, <1>4, <1>5, OpAnswered

LEMMA RequestErrorKeeps == WinInv /\ RequestError => WinInv'
<1> SUFFICES ASSUME WinInv, RequestError PROVE WinSound(win')
  BY DEF WinInv
<1>0. WinSound(win) /\ win \in WinRec
  BY DEF WinInv, WinSound
<1>1. PICK op \in win.ops :
        win' = PushEvent([Reclaim(OpOver(op), op) EXCEPT !.lent = @ /\ op # "recv"], "failed")
  BY DEF RequestError
<1>2. PICK f, w, l : f = OpOver(op) /\ w = Reclaim(f, op) /\ l = (w.lent /\ op # "recv")
  OBVIOUS
<1>3. /\ f \in WinRec /\ f.ops = win.ops \ {op}
      /\ f.ws = win.ws /\ f.at = win.at /\ f.upgraded = win.upgraded /\ f.req = win.req
      /\ f.sock = win.sock /\ f.ctx = win.ctx /\ f.secure = win.secure /\ f.buf = win.buf
      /\ f.lent = win.lent /\ f.body = win.body /\ f.payload = win.payload
      /\ f.events = win.events /\ f.waker = win.waker /\ f.parked = win.parked
      /\ f.due = win.due /\ f.rx = win.rx /\ f.tx = win.tx /\ f.stash = win.stash
      /\ f.frames = win.frames /\ f.sends = win.sends /\ f.told = win.told
      /\ f.crossed = win.crossed /\ f.panic = win.panic /\ f.odd = win.odd
      /\ f.dropped = win.dropped /\ f.garbage = win.garbage
  BY <1>0, <1>2, OpIsOver
<1>4. /\ w \in WinRec /\ w.buf = "home"
      /\ w.lent <=> f.lent /\ f.buf = "loaned"
      /\ w.crossed <=> f.crossed \/ (op # "recv" /\ f.lent)
      /\ w.ws = f.ws /\ w.at = f.at /\ w.upgraded = f.upgraded /\ w.req = f.req
      /\ w.sock = f.sock /\ w.ctx = f.ctx /\ w.ops = f.ops /\ w.secure = f.secure
      /\ w.body = f.body /\ w.payload = f.payload /\ w.events = f.events
      /\ w.waker = f.waker /\ w.parked = f.parked /\ w.due = f.due /\ w.rx = f.rx
      /\ w.tx = f.tx /\ w.stash = f.stash /\ w.frames = f.frames /\ w.sends = f.sends
      /\ w.told = f.told /\ w.panic = f.panic /\ w.odd = f.odd /\ w.dropped = f.dropped
      /\ w.garbage = f.garbage
  BY <1>2, <1>3, BufReclaimed
<1>5. PICK v : v = [w EXCEPT !.lent = l]
  OBVIOUS
<1>6. v = [w EXCEPT !.lent = @ /\ op # "recv"]
  BY <1>2, <1>4, <1>5, Zenon DEF WinRec
<1>7. l \in BOOLEAN /\ (l => w.lent)
  BY <1>2, Zenon
<1>8. v \in WinRec
  BY <1>4, <1>5, <1>7, ZenonT(60) DEF WinRec
<1>9. /\ v.lent = l
      /\ v.ws = w.ws /\ v.at = w.at /\ v.upgraded = w.upgraded /\ v.req = w.req
      /\ v.sock = w.sock /\ v.ctx = w.ctx /\ v.ops = w.ops /\ v.secure = w.secure
      /\ v.buf = w.buf /\ v.body = w.body /\ v.payload = w.payload /\ v.events = w.events
      /\ v.waker = w.waker /\ v.parked = w.parked /\ v.due = w.due /\ v.rx = w.rx
      /\ v.tx = w.tx /\ v.stash = w.stash /\ v.frames = w.frames /\ v.sends = w.sends
      /\ v.told = w.told /\ v.crossed = w.crossed /\ v.panic = w.panic /\ v.odd = w.odd
      /\ v.dropped = w.dropped /\ v.garbage = w.garbage
  BY <1>4, <1>5 DEF WinRec
<1>10. OpEnds(v, win, op, "failed")
  BY <1>3, <1>4, <1>7, <1>9 DEF OpEnds, OpFrame
<1>11. "failed" \in WinEvents /\ AnswersTo(win, op, "failed")
  BY DEF WinEvents, Failures, AnswersTo
<1>12. win' = PushEvent(v, "failed")
  BY <1>1, <1>2, <1>6
<1> QED
  BY <1>0, <1>8, <1>10, <1>11, <1>12, OpAnswered

\* A buffer that the callback of another operation reclaims.
LEMMA ReclaimKeeps ==
  ASSUME NEW w, WinSound(w), NEW op, op # "recv", NEW g, g = Reclaim(w, op)
  PROVE  /\ WinSound(g) /\ g.buf = "home"
         /\ g.ws = w.ws /\ g.at = w.at /\ g.upgraded = w.upgraded /\ g.req = w.req
         /\ g.sock = w.sock /\ g.ctx = w.ctx /\ g.ops = w.ops /\ g.secure = w.secure
         /\ g.body = w.body /\ g.payload = w.payload /\ g.events = w.events
         /\ g.waker = w.waker /\ g.parked = w.parked /\ g.due = w.due /\ g.rx = w.rx
         /\ g.tx = w.tx /\ g.stash = w.stash /\ g.frames = w.frames /\ g.sends = w.sends
         /\ g.told = w.told /\ g.panic = w.panic /\ g.odd = w.odd /\ g.dropped = w.dropped
         /\ g.garbage = w.garbage
<1>0. /\ w \in WinRec /\ WinHandles(w) /\ WinQueue(w) /\ WinReads(w)
      /\ WinWrites(w) /\ WinWaits(w) /\ WinLoans(w) /\ WinSleeps(w)
  BY DEF WinSound
<1>1. /\ g \in WinRec /\ g.buf = "home"
      /\ g.lent <=> w.lent /\ w.buf = "loaned"
      /\ g.crossed <=> w.crossed \/ w.lent
      /\ g.ws = w.ws /\ g.at = w.at /\ g.upgraded = w.upgraded /\ g.req = w.req
      /\ g.sock = w.sock /\ g.ctx = w.ctx /\ g.ops = w.ops /\ g.secure = w.secure
      /\ g.body = w.body /\ g.payload = w.payload /\ g.events = w.events
      /\ g.waker = w.waker /\ g.parked = w.parked /\ g.due = w.due /\ g.rx = w.rx
      /\ g.tx = w.tx /\ g.stash = w.stash /\ g.frames = w.frames /\ g.sends = w.sends
      /\ g.told = w.told /\ g.panic = w.panic /\ g.odd = w.odd /\ g.dropped = w.dropped
      /\ g.garbage = w.garbage
  BY <1>0, BufReclaimed
<1>2. WinHandles(g)
  BY <1>0, <1>1, HandlesStay DEF WinHandles
<1>3. WinQueue(g)
  BY <1>0, <1>1 DEF WinQueue
<1>4. WinReads(g) /\ WinWrites(g) /\ WinWaits(g) /\ WinSleeps(g)
  BY <1>0, <1>1 DEF WinReads, WinWrites, WinWaits, WinSleeps
<1>5. WinLoans(g)
  BY <1>0, <1>1 DEF WinLoans
<1> QED
  BY <1>1, <1>2, <1>3, <1>4, <1>5 DEF WinSound

LEMMA SecureFailureKeeps == WinInv /\ SecureFailure => WinInv'
<1> SUFFICES ASSUME WinInv, SecureFailure PROVE WinSound(win')
  BY DEF WinInv
<1>0. WinSound(win) /\ "send" \in win.ops /\ ~win.secure
  BY DEF WinInv, SecureFailure
<1>1. PICK w, v : w = Reclaim(win, "send") /\ v = [w EXCEPT !.secure = TRUE]
  OBVIOUS
<1>2. /\ WinSound(w) /\ w.buf = "home"
      /\ w.ws = win.ws /\ w.at = win.at /\ w.upgraded = win.upgraded /\ w.req = win.req
      /\ w.sock = win.sock /\ w.ctx = win.ctx /\ w.ops = win.ops /\ w.secure = win.secure
      /\ w.body = win.body /\ w.payload = win.payload /\ w.events = win.events
      /\ w.waker = win.waker /\ w.parked = win.parked /\ w.due = win.due /\ w.rx = win.rx
      /\ w.tx = win.tx /\ w.stash = win.stash /\ w.frames = win.frames
      /\ w.sends = win.sends /\ w.told = win.told /\ w.panic = win.panic /\ w.odd = win.odd
      /\ w.dropped = win.dropped /\ w.garbage = win.garbage
  BY <1>0, <1>1, ReclaimKeeps
<1>3. /\ w \in WinRec /\ WinHandles(w) /\ WinQueue(w) /\ WinReads(w)
      /\ WinWrites(w) /\ WinWaits(w) /\ WinLoans(w) /\ WinSleeps(w)
  BY <1>2 DEF WinSound
<1>4. v \in WinRec
  <2>1. v = [w EXCEPT !.secure = TRUE]
    BY <1>1
  <2> QED
    BY <1>3, <2>1, ZenonT(60) DEF WinRec
<1>5. /\ v.secure = TRUE
      /\ v.ws = w.ws /\ v.at = w.at /\ v.upgraded = w.upgraded /\ v.req = w.req
      /\ v.sock = w.sock /\ v.ctx = w.ctx /\ v.ops = w.ops /\ v.buf = w.buf
      /\ v.lent = w.lent /\ v.body = w.body /\ v.payload = w.payload /\ v.events = w.events
      /\ v.waker = w.waker /\ v.parked = w.parked /\ v.due = w.due /\ v.rx = w.rx
      /\ v.tx = w.tx /\ v.stash = w.stash /\ v.frames = w.frames /\ v.sends = w.sends
      /\ v.told = w.told /\ v.crossed = w.crossed /\ v.panic = w.panic /\ v.odd = w.odd
      /\ v.dropped = w.dropped /\ v.garbage = w.garbage
  BY <1>1, <1>3 DEF WinRec
<1>6. WinSleeps(v)
  BY <1>3, <1>5 DEF WinSleeps
<1>7. "tls" \in WinEvents /\ "tls" \in Failures /\ "tls" \notin ReadEvents /\ "tls" \notin SendEvents
      /\ "tls" \notin {"closed"}
  BY DEF WinEvents, ReadEvents, SendEvents, WsReads, Failures
<1>8. PICK g : g = PushEvent(v, "tls")
  OBVIOUS
<1>9. /\ g \in WinRec /\ WinSleeps(g) /\ QueueGrew(v, g, "tls")
      /\ g.ws = v.ws /\ g.at = v.at /\ g.upgraded = v.upgraded /\ g.req = v.req
      /\ g.sock = v.sock /\ g.ctx = v.ctx /\ g.ops = v.ops /\ g.secure = v.secure
      /\ g.buf = v.buf /\ g.lent = v.lent /\ g.body = v.body /\ g.payload = v.payload
      /\ g.parked = v.parked /\ g.rx = v.rx /\ g.tx = v.tx /\ g.stash = v.stash
      /\ g.frames = v.frames /\ g.sends = v.sends /\ g.told = v.told
      /\ g.crossed = v.crossed /\ g.panic = v.panic /\ g.odd = v.odd
      /\ g.dropped = v.dropped /\ g.garbage = v.garbage
  BY <1>4, <1>6, <1>7, <1>8, EventPushed
<1>10. PICK b : b = win.events
  OBVIOUS
<1>11. /\ b = <<>> => g.events = <<"tls">>
       /\ b # <<>> => g.events # <<>> /\ Head(g.events) = Head(b)
       /\ \A K : /\ Holds(g.events, K) <=> Holds(b, K) \/ "tls" \in K
                 /\ Lone(b, K) /\ ~("tls" \in K /\ Holds(b, K)) => Lone(g.events, K)
  <2>1. b = v.events
    BY <1>2, <1>5, <1>10
  <2> QED
    BY <1>9, <2>1 DEF QueueGrew
<1>12. win.at \in {"sent", "failed", "gone"}
  BY <1>0, <1>2, <1>3 DEF WinHandles, WinQueue, WinRec, WinPlaces
<1>13. WinHandles(g)
  BY <1>2, <1>3, <1>5, <1>9, <1>12, HandlesStay
<1>14. WinReads(g)
  BY <1>2, <1>3, <1>5, <1>7, <1>9, <1>10, <1>11 DEF WinReads
<1>15. WinWrites(g)
  BY <1>2, <1>3, <1>5, <1>7, <1>9, <1>10, <1>11 DEF WinWrites
<1>16. WinWaits(g)
  BY <1>7, <1>11 DEF WinWaits
<1>17. WinLoans(g)
  BY <1>2, <1>3, <1>5, <1>7, <1>9, <1>10, <1>11 DEF WinLoans
<1>18. WinQueue(g)
  <2>1. win.at = "sent" => g.events # <<>> /\ Head(g.events) \in Failures
    <3> SUFFICES ASSUME win.at = "sent" PROVE g.events # <<>> /\ Head(g.events) \in Failures
      OBVIOUS
    <3>1. b = <<>> \/ (b # <<>> /\ Head(b) \in Failures)
      BY <1>0, <1>2, <1>3, <1>10 DEF WinQueue
    <3>2. <<"tls">> # <<>> /\ Head(<<"tls">>) = "tls"
      BY OneEvent
    <3> QED
      BY <1>7, <1>11, <3>1, <3>2
  <2> QED
    BY <1>2, <1>3, <1>5, <1>9, <1>12, <2>1 DEF WinQueue
<1>19. win' = g
  BY <1>1, <1>8 DEF SecureFailure
<1> QED
  BY <1>9, <1>13, <1>14, <1>15, <1>16, <1>17, <1>18, <1>19 DEF WinSound

\* A handle gives its reference back.
LEMMA HandleCloses ==
  ASSUME NEW w, WinSound(w), NEW h \in {"req", "sock"}, w[h] = "closing",
         h = "sock" => w.ops = {}, h = "req" /\ ~w.upgraded => w.ops = {},
         NEW g, g = [w EXCEPT ![h] = "closed", !.ctx = @ \ {h}]
  PROVE  WinSound(g)
<1>0. /\ w \in WinRec /\ WinHandles(w) /\ WinQueue(w) /\ WinReads(w)
      /\ WinWrites(w) /\ WinWaits(w) /\ WinLoans(w) /\ WinSleeps(w)
  BY DEF WinSound
<1>1. PICK c : c = w.ctx \ {h}
  OBVIOUS
<1>2. c \in SomeHandles /\ "closed" \in HandleStates
  BY <1>0, <1>1 DEF WinRec, SomeHandles, HandleStates
<1>3. g = [w EXCEPT ![h] = "closed", !.ctx = c]
  BY <1>0, <1>1 DEF WinRec
<1>4. CASE h = "req"
  <2>1. g = [w EXCEPT !.req = "closed", !.ctx = c]
    BY <1>3, <1>4
  <2>2. g \in WinRec
    BY <1>0, <1>2, <2>1, ZenonT(60) DEF WinRec
  <2>3. /\ g.req = "closed" /\ g.ctx = c
        /\ g.ws = w.ws /\ g.at = w.at /\ g.upgraded = w.upgraded /\ g.sock = w.sock
        /\ g.ops = w.ops /\ g.secure = w.secure /\ g.buf = w.buf /\ g.lent = w.lent
        /\ g.body = w.body /\ g.payload = w.payload /\ g.events = w.events
        /\ g.waker = w.waker /\ g.parked = w.parked /\ g.due = w.due /\ g.rx = w.rx
        /\ g.tx = w.tx /\ g.stash = w.stash /\ g.frames = w.frames /\ g.sends = w.sends
        /\ g.told = w.told /\ g.crossed = w.crossed /\ g.panic = w.panic /\ g.odd = w.odd
        /\ g.dropped = w.dropped /\ g.garbage = w.garbage
    BY ZenonT(60), <1>0, <2>1 DEF WinRec
  <2>4. WinHandles(g)
    BY ZenonT(60), <1>0, <1>1, <1>4, <2>3 DEF WinHandles
  <2>5. WinQueue(g)
    BY ZenonT(60), <1>0, <2>3 DEF WinQueue
  <2>6. /\ WinReads(g)
        /\ WinWrites(g)
        /\ WinWaits(g)
        /\ WinSleeps(g)
    <3>1. WinReads(g)
      BY ZenonT(60), <1>0, <2>3 DEF WinReads
    <3>2. WinWrites(g)
      BY ZenonT(60), <1>0, <2>3 DEF WinWrites
    <3>3. WinWaits(g)
      BY ZenonT(60), <1>0, <2>3 DEF WinWaits
    <3>4. WinSleeps(g)
      BY ZenonT(60), <1>0, <2>3, SleepsStay
    <3> QED
      BY <3>1, <3>2, <3>3, <3>4
  <2>7. WinLoans(g)
    BY ZenonT(60), <1>0, <2>3 DEF WinLoans
  <2> QED
    BY <2>2, <2>4, <2>5, <2>6, <2>7 DEF WinSound
<1>5. CASE h = "sock"
  <2>1. g = [w EXCEPT !.sock = "closed", !.ctx = c]
    BY <1>3, <1>5
  <2>2. g \in WinRec
    BY <1>0, <1>2, <2>1, ZenonT(60) DEF WinRec
  <2>3. /\ g.sock = "closed" /\ g.ctx = c
        /\ g.ws = w.ws /\ g.at = w.at /\ g.upgraded = w.upgraded /\ g.req = w.req
        /\ g.ops = w.ops /\ g.secure = w.secure /\ g.buf = w.buf /\ g.lent = w.lent
        /\ g.body = w.body /\ g.payload = w.payload /\ g.events = w.events
        /\ g.waker = w.waker /\ g.parked = w.parked /\ g.due = w.due /\ g.rx = w.rx
        /\ g.tx = w.tx /\ g.stash = w.stash /\ g.frames = w.frames /\ g.sends = w.sends
        /\ g.told = w.told /\ g.crossed = w.crossed /\ g.panic = w.panic /\ g.odd = w.odd
        /\ g.dropped = w.dropped /\ g.garbage = w.garbage
    BY ZenonT(60), <1>0, <2>1 DEF WinRec
  <2>4. WinHandles(g)
    BY ZenonT(60), <1>0, <1>1, <1>5, <2>3 DEF WinHandles
  <2>5. WinQueue(g)
    BY ZenonT(60), <1>0, <2>3 DEF WinQueue
  <2>6. /\ WinReads(g)
        /\ WinWrites(g)
        /\ WinWaits(g)
        /\ WinSleeps(g)
    <3>1. WinReads(g)
      BY <1>0, <2>3 DEF WinReads
    <3>2. WinWrites(g)
      BY <1>0, <2>3 DEF WinWrites
    <3>3. WinWaits(g)
      BY <1>0, <2>3 DEF WinWaits
    <3>4. WinSleeps(g)
      BY ZenonT(60), <1>0, <2>3, SleepsStay
    <3> QED
      BY <3>1, <3>2, <3>3, <3>4
  <2>7. WinLoans(g)
    BY ZenonT(60), <1>0, <2>3 DEF WinLoans
  <2> QED
    BY <2>2, <2>4, <2>5, <2>6, <2>7 DEF WinSound
<1> QED
  BY <1>4, <1>5

LEMMA HandleClosingKeeps == WinInv /\ HandleClosing => WinInv'
<1> SUFFICES ASSUME WinInv, HandleClosing PROVE WinSound(win')
  BY DEF WinInv
<1>0. WinSound(win) /\ win \in WinRec /\ WinHandles(win)
  BY DEF WinInv, WinSound
<1>1. PICK h \in {"req", "sock"} :
        /\ win[h] = "closing" /\ \A op \in win.ops : HandleOf(op) # h
        /\ win' = [IF h \in win.ctx THEN Reclaim(win, "closing") ELSE win
                   EXCEPT ![h] = "closed", !.ctx = @ \ {h}]
  BY DEF HandleClosing
<1>2. /\ h = "sock" => win.ops = {}
      /\ h = "req" /\ ~win.upgraded => win.ops = {}
  <2>1. h = "req" /\ ~win.upgraded => win.ops = {}
    BY <1>1 DEF HandleOf
  <2>2. h = "sock" => win.upgraded
    BY <1>0, <1>1 DEF WinHandles
  <2>3. h = "sock" => win.ops = {}
    BY <1>0, <1>1, <2>2 DEF HandleOf, WinHandles
  <2> QED
    BY <2>1, <2>3
<1>3. CASE h \notin win.ctx
  BY <1>0, <1>1, <1>2, <1>3, HandleCloses
<1>4. CASE h \in win.ctx
  <2>1. PICK w : w = Reclaim(win, "closing")
    OBVIOUS
  <2>2. /\ WinSound(w)
        /\ w.ws = win.ws /\ w.at = win.at /\ w.upgraded = win.upgraded /\ w.req = win.req
        /\ w.sock = win.sock /\ w.ctx = win.ctx /\ w.ops = win.ops /\ w.secure = win.secure
        /\ w.body = win.body /\ w.payload = win.payload /\ w.events = win.events
        /\ w.waker = win.waker /\ w.parked = win.parked /\ w.due = win.due /\ w.rx = win.rx
        /\ w.tx = win.tx /\ w.stash = win.stash /\ w.frames = win.frames
        /\ w.sends = win.sends /\ w.told = win.told /\ w.panic = win.panic
        /\ w.odd = win.odd /\ w.dropped = win.dropped /\ w.garbage = win.garbage
    BY <1>0, <2>1, ReclaimKeeps
  <2>3. w[h] = "closing"
    BY <1>1, <2>2
  <2>4. win' = [w EXCEPT ![h] = "closed", !.ctx = @ \ {h}]
    BY <1>1, <1>4, <2>1
  <2> QED
    BY <1>2, <2>2, <2>3, <2>4, HandleCloses
<1> QED
  BY <1>3, <1>4

------------------------------------------------------------------------------
(* The request.                                                            *)

\* What is left of the invariant when the exchange is over.
HandlesFit(w) ==
  /\ w.upgraded => w.ops \cap {"send", "head"} = {} /\ (w.ops # {} => "sock" \in w.ctx)
  /\ ~w.upgraded => w.sock = "none" /\ (w.ops # {} => "req" \in w.ctx)
  /\ w.req \in {"none", "closed"} => "req" \notin w.ctx
  /\ w.sock \in {"none", "closed"} => "sock" \notin w.ctx

StashFits(w) ==
  /\ ~w.ws => w.stash["rx"] = NoEvent /\ w.stash["tx"] = NoEvent
  /\ w.stash["rx"] \in WsReads \cup {NoEvent} /\ w.stash["tx"] \in SendEvents \cup {NoEvent}

WinAfter(w) ==
  w \in WinRec /\ HandlesFit(w) /\ StashFits(w) /\ WinReads(w) /\ WinWrites(w) /\ WinLoans(w)

LEMMA SoundIsAfter == ASSUME NEW w, WinSound(w) PROVE WinAfter(w)
<1>1. HandlesFit(w)
  BY DEF WinSound, WinHandles, HandlesFit
<1>2. StashFits(w)
  BY DEF WinSound, WinQueue, StashFits
<1> QED
  BY <1>1, <1>2 DEF WinSound, WinAfter

LEMMA ExchangeEnds ==
  ASSUME NEW w, WinAfter(w), NEW p \in {"failed", "gone"},
         NEW g, g = [CloseHandles(w) EXCEPT !.at = p]
  PROVE  WinSound(g)
<1>0. /\ w \in WinRec /\ HandlesFit(w) /\ StashFits(w) /\ WinReads(w) /\ WinWrites(w)
      /\ WinLoans(w)
  BY DEF WinAfter
<1>1. PICK r, s : /\ r = (IF w.req = "open" THEN "closing" ELSE w.req)
                  /\ s = (IF w.sock = "open" THEN "closing" ELSE w.sock)
  OBVIOUS
<1>2. /\ r \in HandleStates /\ s \in HandleStates /\ p \in WinPlaces /\ {} \in SomeSides
      /\ r \in {"none", "closed"} => w.req \in {"none", "closed"}
      /\ s \in {"none", "closed"} => w.sock \in {"none", "closed"}
      /\ w.sock = "none" => s = "none"
  BY <1>0, <1>1 DEF WinRec, HandleStates, WinPlaces, SomeSides
<1>3. PICK c : c = [w EXCEPT !.req = r, !.sock = s, !.waker = FALSE, !.parked = {}, !.due = {}]
  OBVIOUS
<1>4. c = CloseHandles(w)
  BY <1>0, <1>1, <1>3 DEF CloseHandles, WinRec
<1>5. c \in WinRec
  BY <1>0, <1>2, <1>3, ZenonT(60) DEF WinRec
<1>6. g = [c EXCEPT !.at = p]
  BY <1>4
<1>7. g \in WinRec
  BY <1>2, <1>5, <1>6, ZenonT(60) DEF WinRec
<1>8. /\ g.at = p
      /\ g.ws = c.ws /\ g.upgraded = c.upgraded /\ g.req = c.req /\ g.sock = c.sock
      /\ g.ctx = c.ctx /\ g.ops = c.ops /\ g.secure = c.secure /\ g.buf = c.buf
      /\ g.lent = c.lent /\ g.body = c.body /\ g.payload = c.payload /\ g.events = c.events
      /\ g.waker = c.waker /\ g.parked = c.parked /\ g.due = c.due /\ g.rx = c.rx
      /\ g.tx = c.tx /\ g.stash = c.stash /\ g.frames = c.frames /\ g.sends = c.sends
      /\ g.told = c.told /\ g.crossed = c.crossed /\ g.panic = c.panic /\ g.odd = c.odd
      /\ g.dropped = c.dropped /\ g.garbage = c.garbage
  BY <1>5, <1>6 DEF WinRec
<1>9. /\ c.req = r /\ c.sock = s /\ c.parked = {} /\ c.due = {}
      /\ c.ws = w.ws /\ c.at = w.at /\ c.upgraded = w.upgraded /\ c.ctx = w.ctx
      /\ c.ops = w.ops /\ c.secure = w.secure /\ c.buf = w.buf /\ c.lent = w.lent
      /\ c.body = w.body /\ c.payload = w.payload /\ c.events = w.events /\ c.rx = w.rx
      /\ c.tx = w.tx /\ c.stash = w.stash /\ c.frames = w.frames /\ c.sends = w.sends
      /\ c.told = w.told /\ c.crossed = w.crossed /\ c.panic = w.panic /\ c.odd = w.odd
      /\ c.dropped = w.dropped /\ c.garbage = w.garbage
  BY <1>0, <1>3 DEF WinRec
<1>10. WinHandles(g)
  BY <1>0, <1>2, <1>8, <1>9 DEF HandlesFit, WinHandles
<1>11. WinQueue(g)
  BY <1>0, <1>8, <1>9 DEF StashFits, WinQueue
<1>12. WinReads(g)
  BY <1>0, <1>8, <1>9 DEF WinReads
<1>13. WinWrites(g)
  BY <1>0, <1>8, <1>9 DEF WinWrites
<1>14. WinWaits(g)
  BY <1>8 DEF WinWaits
<1>15. WinLoans(g)
  BY <1>0, <1>8, <1>9 DEF WinLoans
<1>16. WinSleeps(g)
  BY <1>8, <1>9 DEF WinSleeps
<1> QED
  BY <1>7, <1>10, <1>11, <1>12, <1>13, <1>14, <1>15, <1>16 DEF WinSound

LEMMA WinDroppedKeeps == WinInv /\ WinDropped => WinInv'
  BY SoundIsAfter, ExchangeEnds DEF WinInv, WinDropped

LEMMA LaunchedIsSound ==
  ASSUME WinSound(win), win.at = "new", NEW g \in Launched
  PROVE  WinSound(g)
<1>0. /\ win \in WinRec /\ WinHandles(win) /\ WinQueue(win) /\ WinReads(win)
      /\ WinWrites(win) /\ WinLoans(win) /\ WinSleeps(win)
  BY DEF WinSound
<1>1. PICK f : f = [win EXCEPT !.req = "open"]
  OBVIOUS
<1>2. PICK w \in {f, [f EXCEPT !.ctx = {"req"}]} :
        \/ g = ExchangeFails(w)
        \/ w.ctx # {} /\ g \in SendRequest(w)
  BY <1>1 DEF Launched, SetContext
<1>3. /\ "open" \in HandleStates /\ {"req"} \in SomeHandles /\ {"send"} \in SomeOps
      /\ "sent" \in WinPlaces
  BY DEF HandleStates, SomeHandles, SomeOps, WinOps, WinPlaces
<1>4. f \in WinRec
  BY <1>0, <1>1, <1>3, ZenonT(60) DEF WinRec
<1>5. /\ f.req = "open"
      /\ f.ws = win.ws /\ f.at = win.at /\ f.upgraded = win.upgraded /\ f.sock = win.sock
      /\ f.ctx = win.ctx /\ f.ops = win.ops /\ f.secure = win.secure /\ f.buf = win.buf
      /\ f.lent = win.lent /\ f.body = win.body /\ f.payload = win.payload
      /\ f.events = win.events /\ f.waker = win.waker /\ f.parked = win.parked
      /\ f.due = win.due /\ f.rx = win.rx /\ f.tx = win.tx /\ f.stash = win.stash
      /\ f.frames = win.frames /\ f.sends = win.sends /\ f.told = win.told
      /\ f.crossed = win.crossed /\ f.panic = win.panic /\ f.odd = win.odd
      /\ f.dropped = win.dropped /\ f.garbage = win.garbage
  BY <1>0, <1>1 DEF WinRec
<1>6. /\ win.ops = {} /\ win.ctx = {} /\ ~win.secure /\ ~win.upgraded /\ win.sock = "none"
      /\ win.events = <<>> /\ win.rx = "idle" /\ win.tx = "idle"
  <2>1. /\ win.ops = {} /\ win.req = "none" /\ ~win.secure /\ ~win.upgraded
        /\ win.events = <<>> /\ win.rx = "idle" /\ win.tx = "idle"
    BY <1>0 DEF WinHandles, WinQueue, WinReads
  <2>2. win.sock = "none" /\ "sock" \notin win.ctx /\ "req" \notin win.ctx
    BY <1>0, <2>1 DEF WinHandles
  <2>3. win.ctx \subseteq {"req", "sock"}
    BY <1>0 DEF WinRec, SomeHandles
  <2> QED
    BY <2>1, <2>2, <2>3
<1>7. /\ w \in WinRec /\ w.req = "open" /\ w.ctx \subseteq {"req"}
      /\ w.ws = win.ws /\ w.at = win.at /\ w.upgraded = win.upgraded /\ w.sock = win.sock
      /\ w.ops = win.ops /\ w.secure = win.secure /\ w.buf = win.buf /\ w.lent = win.lent
      /\ w.body = win.body /\ w.payload = win.payload /\ w.events = win.events
      /\ w.waker = win.waker /\ w.parked = win.parked /\ w.due = win.due /\ w.rx = win.rx
      /\ w.tx = win.tx /\ w.stash = win.stash /\ w.frames = win.frames
      /\ w.sends = win.sends /\ w.told = win.told /\ w.crossed = win.crossed
      /\ w.panic = win.panic /\ w.odd = win.odd /\ w.dropped = win.dropped
      /\ w.garbage = win.garbage
  <2>1. CASE w = f
    BY <1>4, <1>5, <1>6, <2>1
  <2>2. CASE w = [f EXCEPT !.ctx = {"req"}]
    <3>1. w \in WinRec
      BY <1>3, <1>4, <2>2, ZenonT(60) DEF WinRec
    <3>2. /\ w.ctx = {"req"}
          /\ w.ws = f.ws /\ w.at = f.at /\ w.upgraded = f.upgraded /\ w.req = f.req
          /\ w.sock = f.sock /\ w.ops = f.ops /\ w.secure = f.secure /\ w.buf = f.buf
          /\ w.lent = f.lent /\ w.body = f.body /\ w.payload = f.payload
          /\ w.events = f.events /\ w.waker = f.waker /\ w.parked = f.parked
          /\ w.due = f.due /\ w.rx = f.rx /\ w.tx = f.tx /\ w.stash = f.stash
          /\ w.frames = f.frames /\ w.sends = f.sends /\ w.told = f.told
          /\ w.crossed = f.crossed /\ w.panic = f.panic /\ w.odd = f.odd
          /\ w.dropped = f.dropped /\ w.garbage = f.garbage
      BY <1>4, <2>2 DEF WinRec
    <3> QED
      BY <1>5, <3>1, <3>2
  <2> QED
    BY <2>1, <2>2
<1>8. PICK d : d = (~w.ws)
  OBVIOUS
<1>9. PICK b : b = [w EXCEPT !.body = d]
  OBVIOUS
<1>10. d \in BOOLEAN /\ (~w.ws => d)
  BY <1>8, Zenon
<1>11. b \in WinRec
  <2>1. w \in WinRec
    BY <1>7
  <2> QED
    BY <1>9, <1>10, <2>1, ZenonT(60) DEF WinRec
<1>12. /\ b.body = d
       /\ b.ws = w.ws /\ b.at = w.at /\ b.upgraded = w.upgraded /\ b.req = w.req
       /\ b.sock = w.sock /\ b.ctx = w.ctx /\ b.ops = w.ops /\ b.secure = w.secure
       /\ b.buf = w.buf /\ b.lent = w.lent /\ b.payload = w.payload /\ b.events = w.events
       /\ b.waker = w.waker /\ b.parked = w.parked /\ b.due = w.due /\ b.rx = w.rx
       /\ b.tx = w.tx /\ b.stash = w.stash /\ b.frames = w.frames /\ b.sends = w.sends
       /\ b.told = w.told /\ b.crossed = w.crossed /\ b.panic = w.panic /\ b.odd = w.odd
       /\ b.dropped = w.dropped /\ b.garbage = w.garbage
  BY <1>7, <1>9 DEF WinRec
<1>13. ASSUME NEW v \in {w, b} PROVE WinAfter(v)
  <2>1. /\ v.req = "open" /\ v.ctx \subseteq {"req"}
        /\ v.ws = win.ws /\ v.at = win.at /\ v.upgraded = win.upgraded /\ v.sock = win.sock
        /\ v.ops = win.ops /\ v.secure = win.secure /\ v.buf = win.buf /\ v.lent = win.lent
        /\ v.payload = win.payload /\ v.events = win.events /\ v.waker = win.waker
        /\ v.parked = win.parked /\ v.due = win.due /\ v.rx = win.rx /\ v.tx = win.tx
        /\ v.stash = win.stash /\ v.frames = win.frames /\ v.sends = win.sends
        /\ v.told = win.told /\ v.crossed = win.crossed /\ v.panic = win.panic
        /\ v.odd = win.odd /\ v.dropped = win.dropped /\ v.garbage = win.garbage
    BY <1>7, <1>12
  <2>2. HandlesFit(v)
    BY <1>6, <2>1 DEF HandlesFit
  <2>3. StashFits(v)
    BY <1>0, <2>1 DEF StashFits, WinQueue
  <2>4. WinReads(v)
    BY <1>0, <2>1 DEF WinReads
  <2>5. WinWrites(v)
    BY <1>0, <2>1 DEF WinWrites
  <2>6. WinLoans(v)
    BY <1>0, <1>6, <2>1 DEF WinLoans
  <2> QED
    BY <1>7, <1>11, <2>2, <2>3, <2>4, <2>5, <2>6 DEF WinAfter
<1>14. CASE g = ExchangeFails(w)
  BY <1>13, <1>14, ExchangeEnds DEF ExchangeFails
<1>15. CASE w.ctx # {} /\ g \in SendRequest(w)
  <2>1. \/ g = [b EXCEPT !.ops = {"send"}, !.at = "sent"]
        \/ g = ExchangeFails(b)
    BY <1>8, <1>9, <1>15 DEF SendRequest
  <2>2. CASE g = ExchangeFails(b)
    BY <1>13, <2>2, ExchangeEnds DEF ExchangeFails
  <2>3. CASE g = [b EXCEPT !.ops = {"send"}, !.at = "sent"]
    <3>1. g \in WinRec
      <4>1. b \in WinRec
        BY <1>11
      <4> QED
        BY <1>3, <2>3, <4>1, Zenon DEF WinRec
    <3>2. /\ g.ops = {"send"} /\ g.at = "sent"
          /\ g.ws = b.ws /\ g.upgraded = b.upgraded /\ g.req = b.req /\ g.sock = b.sock
          /\ g.ctx = b.ctx /\ g.secure = b.secure /\ g.buf = b.buf /\ g.lent = b.lent
          /\ g.body = b.body /\ g.payload = b.payload /\ g.events = b.events
          /\ g.waker = b.waker /\ g.parked = b.parked /\ g.due = b.due /\ g.rx = b.rx
          /\ g.tx = b.tx /\ g.stash = b.stash /\ g.frames = b.frames /\ g.sends = b.sends
          /\ g.told = b.told /\ g.crossed = b.crossed /\ g.panic = b.panic /\ g.odd = b.odd
          /\ g.dropped = b.dropped /\ g.garbage = b.garbage
      BY <1>11, <2>3 DEF WinRec
    <3>3. w.ctx = {"req"}
      BY <1>7, <1>15
    <3>4. WinHandles(g)
      BY <1>6, <1>7, <1>12, <3>2, <3>3 DEF WinHandles
    <3>5. WinQueue(g)
      BY <1>0, <1>6, <1>7, <1>12, <3>2 DEF WinQueue
    <3>6. WinReads(g)
      BY <1>0, <1>6, <1>7, <1>12, <3>2 DEF WinReads
    <3>7. WinWrites(g)
      BY <1>0, <1>6, <1>7, <1>12, <3>2 DEF WinWrites
    <3>8. WinWaits(g)
      BY <3>2 DEF WinWaits
    <3>9. WinLoans(g)
      BY <1>0, <1>6, <1>7, <1>10, <1>12, <3>2 DEF WinLoans
    <3>10. WinSleeps(g)
      BY <1>0, <1>7, <1>12, <3>2, SleepsStay
    <3> QED
      BY <3>1, <3>4, <3>5, <3>6, <3>7, <3>8, <3>9, <3>10 DEF WinSound
  <2> QED
    BY <2>1, <2>2, <2>3
<1> QED
  BY <1>2, <1>14, <1>15

LEMMA ExecuteKeeps == WinInv /\ (Execute \/ OpenWebSocket) => WinInv'
<1> SUFFICES ASSUME WinInv, Execute \/ OpenWebSocket PROVE WinSound(win')
  BY DEF WinInv
<1>1. WinSound(win) /\ win.at = "new" /\ win' \in Launched
  BY DEF WinInv, Execute, OpenWebSocket
<1> QED
  BY <1>1, LaunchedIsSound

\* A half is polled.
LEMMA HalfPolled ==
  ASSUME win \in WinRec, NEW h \in Halves, NEW p, p = Polls(h)
  PROVE  /\ p \in WinRec /\ p.parked = win.parked \ {h} /\ p.due = win.due \ {h}
         /\ p.ws = win.ws /\ p.at = win.at /\ p.upgraded = win.upgraded /\ p.req = win.req
         /\ p.sock = win.sock /\ p.ctx = win.ctx /\ p.ops = win.ops /\ p.secure = win.secure
         /\ p.buf = win.buf /\ p.lent = win.lent /\ p.body = win.body
         /\ p.payload = win.payload /\ p.events = win.events /\ p.waker = win.waker
         /\ p.rx = win.rx /\ p.tx = win.tx /\ p.stash = win.stash /\ p.frames = win.frames
         /\ p.sends = win.sends /\ p.told = win.told /\ p.crossed = win.crossed
         /\ p.panic = win.panic /\ p.odd = win.odd /\ p.dropped = win.dropped
         /\ p.garbage = win.garbage
<1>1. PICK a, d : a = win.parked \ {h} /\ d = win.due \ {h}
  OBVIOUS
<1>2. a \in SomeSides /\ d \in SomeSides
  BY <1>1 DEF WinRec, SomeSides
<1>3. p = [win EXCEPT !.parked = a, !.due = d]
  BY <1>1, Zenon DEF Polls, WinRec
<1>4. p \in WinRec
  BY <1>2, <1>3, ZenonT(60) DEF WinRec
<1> QED
  BY <1>1, <1>3, <1>4 DEF WinRec

\* It finds nothing, and waits.
WaitsNow(g, w, h) ==
  /\ g \in WinRec /\ g.waker = TRUE /\ g.parked = w.parked \cup {h}
  /\ g.ws = w.ws /\ g.at = w.at /\ g.upgraded = w.upgraded /\ g.req = w.req
  /\ g.sock = w.sock /\ g.ctx = w.ctx /\ g.ops = w.ops /\ g.secure = w.secure
  /\ g.buf = w.buf /\ g.lent = w.lent /\ g.body = w.body /\ g.payload = w.payload
  /\ g.events = w.events /\ g.due = w.due /\ g.rx = w.rx /\ g.tx = w.tx
  /\ g.stash = w.stash /\ g.frames = w.frames /\ g.sends = w.sends /\ g.told = w.told
  /\ g.crossed = w.crossed /\ g.panic = w.panic /\ g.odd = w.odd
  /\ g.dropped = w.dropped /\ g.garbage = w.garbage

LEMMA WaitsBegin ==
  ASSUME NEW w \in WinRec, NEW h \in Halves, NEW g, g = HalfWaits(w, h)
  PROVE  WaitsNow(g, w, h)
<1>1. PICK a : a = w.parked \cup {h}
  OBVIOUS
<1>2. a \in SomeSides
  BY <1>1 DEF WinRec, SomeSides
<1>3. g = [w EXCEPT !.waker = TRUE, !.parked = a]
  BY <1>1, Zenon DEF HalfWaits, WinRec
<1>4. g \in WinRec
  BY <1>2, <1>3, ZenonT(60) DEF WinRec
<1> QED
  BY <1>1, <1>3, <1>4 DEF WinRec, WaitsNow

LEMMA HalfSleepsOn ==
  ASSUME WinSound(win), NEW h \in Halves, win.events = <<>>, win.stash[h] = NoEvent,
         NEW g, g = HalfWaits(Polls(h), h)
  PROVE  WinSound(g)
<1>0. /\ win \in WinRec /\ WinHandles(win) /\ WinQueue(win) /\ WinReads(win)
      /\ WinWrites(win) /\ WinWaits(win) /\ WinLoans(win) /\ WinSleeps(win)
  BY DEF WinSound
<1>1. PICK p : p = Polls(h)
  OBVIOUS
<1>2. /\ p \in WinRec /\ p.parked = win.parked \ {h} /\ p.due = win.due \ {h}
      /\ p.ws = win.ws /\ p.at = win.at /\ p.upgraded = win.upgraded /\ p.req = win.req
      /\ p.sock = win.sock /\ p.ctx = win.ctx /\ p.ops = win.ops /\ p.secure = win.secure
      /\ p.buf = win.buf /\ p.lent = win.lent /\ p.body = win.body
      /\ p.payload = win.payload /\ p.events = win.events /\ p.waker = win.waker
      /\ p.rx = win.rx /\ p.tx = win.tx /\ p.stash = win.stash /\ p.frames = win.frames
      /\ p.sends = win.sends /\ p.told = win.told /\ p.crossed = win.crossed
      /\ p.panic = win.panic /\ p.odd = win.odd /\ p.dropped = win.dropped
      /\ p.garbage = win.garbage
  BY <1>0, <1>1, HalfPolled
<1>3. /\ g \in WinRec /\ g.waker = TRUE /\ g.parked = p.parked \cup {h}
      /\ g.ws = p.ws /\ g.at = p.at /\ g.upgraded = p.upgraded /\ g.req = p.req
      /\ g.sock = p.sock /\ g.ctx = p.ctx /\ g.ops = p.ops /\ g.secure = p.secure
      /\ g.buf = p.buf /\ g.lent = p.lent /\ g.body = p.body /\ g.payload = p.payload
      /\ g.events = p.events /\ g.due = p.due /\ g.rx = p.rx /\ g.tx = p.tx
      /\ g.stash = p.stash /\ g.frames = p.frames /\ g.sends = p.sends /\ g.told = p.told
      /\ g.crossed = p.crossed /\ g.panic = p.panic /\ g.odd = p.odd
      /\ g.dropped = p.dropped /\ g.garbage = p.garbage
  <2>1. p \in WinRec /\ g = HalfWaits(p, h)
    BY <1>1, <1>2
  <2>2. WaitsNow(g, p, h)
    BY <2>1, WaitsBegin
  <2> QED
    BY <2>2 DEF WaitsNow
<1>4. WinHandles(g)
  BY <1>0, <1>2, <1>3, HandlesStay DEF WinHandles
<1>5. WinQueue(g)
  BY <1>0, <1>2, <1>3 DEF WinQueue
<1>6. WinReads(g)
  BY <1>0, <1>2, <1>3 DEF WinReads
<1>7. WinWrites(g)
  BY <1>0, <1>2, <1>3 DEF WinWrites
<1>8. WinWaits(g)
  BY <1>0, <1>2, <1>3 DEF WinWaits
<1>9. WinLoans(g)
  BY <1>0, <1>2, <1>3 DEF WinLoans
<1>10. WinSleeps(g)
  <2>1. g.due \subseteq g.parked
    BY <1>0, <1>2, <1>3 DEF WinSleeps
  <2>2. \A k \in g.parked \ g.due : k = h \/ k \in win.parked \ win.due
    BY <1>2, <1>3
  <2>3. /\ g.waker /\ g.events = <<>>
        /\ \A k \in win.parked \ win.due : g.stash[k] = NoEvent
        /\ g.stash[h] = NoEvent
    BY <1>0, <1>2, <1>3 DEF WinSleeps
  <2> QED
    BY <2>1, <2>2, <2>3 DEF WinSleeps
<1> QED
  BY <1>3, <1>4, <1>5, <1>6, <1>7, <1>8, <1>9, <1>10 DEF WinSound

QueueShrank(w, t) ==
  \A K : /\ Holds(w.events, K) <=> Holds(t.events, K) \/ Head(w.events) \in K
         /\ Lone(w.events, K) => Lone(t.events, K) /\ ~(Head(w.events) \in K /\ Holds(t.events, K))

\* It takes the head of the queue.
LEMMA HeadTaken ==
  ASSUME WinSound(win), NEW h \in Halves, win.events # <<>>, NEW t, t = TakesEvent(h)
  PROVE  /\ WinAfter(t) /\ t.events = Tail(win.events) /\ Head(win.events) \in WinEvents
         /\ WinSleeps(t) /\ QueueShrank(win, t)
         /\ t.ws = win.ws /\ t.at = win.at /\ t.upgraded = win.upgraded /\ t.req = win.req
         /\ t.sock = win.sock /\ t.ctx = win.ctx /\ t.ops = win.ops /\ t.secure = win.secure
         /\ t.buf = win.buf /\ t.lent = win.lent /\ t.body = win.body
         /\ t.payload = win.payload /\ t.waker = win.waker /\ t.rx = win.rx /\ t.tx = win.tx
         /\ t.stash = win.stash /\ t.frames = win.frames /\ t.sends = win.sends
         /\ t.told = win.told /\ t.crossed = win.crossed /\ t.panic = win.panic
         /\ t.odd = win.odd /\ t.dropped = win.dropped /\ t.garbage = win.garbage
<1>0. /\ win \in WinRec /\ WinHandles(win) /\ WinQueue(win) /\ WinReads(win)
      /\ WinWrites(win) /\ WinWaits(win) /\ WinLoans(win) /\ WinSleeps(win)
  BY DEF WinSound
<1>1. PICK p, es, q : p = Polls(h) /\ es = win.events /\ q = Tail(es)
  OBVIOUS
<1>2. /\ p \in WinRec /\ p.parked = win.parked \ {h} /\ p.due = win.due \ {h}
      /\ p.ws = win.ws /\ p.at = win.at /\ p.upgraded = win.upgraded /\ p.req = win.req
      /\ p.sock = win.sock /\ p.ctx = win.ctx /\ p.ops = win.ops /\ p.secure = win.secure
      /\ p.buf = win.buf /\ p.lent = win.lent /\ p.body = win.body
      /\ p.payload = win.payload /\ p.events = win.events /\ p.waker = win.waker
      /\ p.rx = win.rx /\ p.tx = win.tx /\ p.stash = win.stash /\ p.frames = win.frames
      /\ p.sends = win.sends /\ p.told = win.told /\ p.crossed = win.crossed
      /\ p.panic = win.panic /\ p.odd = win.odd /\ p.dropped = win.dropped
      /\ p.garbage = win.garbage
  BY <1>0, <1>1, HalfPolled
<1>3. es \in EventSeqs /\ es # <<>>
  BY <1>0, <1>1 DEF WinRec
<1>4. /\ q \in EventSeqs /\ Head(es) \in WinEvents
      /\ \A K : /\ Holds(es, K) <=> Holds(q, K) \/ Head(es) \in K
                /\ Lone(es, K) => Lone(q, K) /\ ~(Head(es) \in K /\ Holds(q, K))
  <2>1. q = Tail(es)
    BY <1>1
  <2> QED
    BY <1>3, <2>1, EventLeaves, Zenon
<1>5. t = [p EXCEPT !.events = q]
  BY <1>1, <1>2 DEF TakesEvent, WinRec
<1>6. t \in WinRec
  <2>1. p \in WinRec
    BY <1>2
  <2> QED
    BY <1>4, <1>5, <2>1, ZenonT(60) DEF WinRec
<1>7. /\ t.events = q
      /\ t.ws = p.ws /\ t.at = p.at /\ t.upgraded = p.upgraded /\ t.req = p.req
      /\ t.sock = p.sock /\ t.ctx = p.ctx /\ t.ops = p.ops /\ t.secure = p.secure
      /\ t.buf = p.buf /\ t.lent = p.lent /\ t.body = p.body /\ t.payload = p.payload
      /\ t.waker = p.waker /\ t.parked = p.parked /\ t.due = p.due /\ t.rx = p.rx
      /\ t.tx = p.tx /\ t.stash = p.stash /\ t.frames = p.frames /\ t.sends = p.sends
      /\ t.told = p.told /\ t.crossed = p.crossed /\ t.panic = p.panic /\ t.odd = p.odd
      /\ t.dropped = p.dropped /\ t.garbage = p.garbage
  BY <1>2, <1>5 DEF WinRec
<1>8. QueueShrank(win, t)
  BY <1>1, <1>4, <1>7, Zenon DEF QueueShrank
<1>9. HandlesFit(t)
  BY <1>0, <1>2, <1>7 DEF HandlesFit, WinHandles
<1>10. StashFits(t)
  BY <1>0, <1>2, <1>7 DEF StashFits, WinQueue
<1>11. WinReads(t)
  BY <1>0, <1>1, <1>2, <1>4, <1>7 DEF WinReads
<1>12. WinWrites(t)
  BY <1>0, <1>1, <1>2, <1>4, <1>7 DEF WinWrites
<1>13. WinLoans(t)
  BY <1>0, <1>1, <1>2, <1>4, <1>7 DEF WinLoans
<1>14. WinSleeps(t)
  BY <1>0, <1>2, <1>7 DEF WinSleeps
<1> QED
  BY <1>1, <1>2, <1>4, <1>6, <1>7, <1>8, <1>9, <1>10, <1>11, <1>12, <1>13, <1>14
     DEF WinAfter

\* A failure ends the exchange.
LEMMA FailureTaken ==
  ASSUME WinSound(win), win.events # <<>>, Head(win.events) \in Failures,
         NEW g, g = ExchangeFails([TakesEvent("rx") EXCEPT !.told = TRUE,
                                       !.odd = Head(win.events) \notin Failures])
  PROVE  WinSound(g)
<1>1. PICK t, v : t = TakesEvent("rx") /\ v = [t EXCEPT !.told = TRUE, !.odd = FALSE]
  OBVIOUS
<1>2. "rx" \in Halves
  BY DEF Halves
<1>3. WinAfter(t)
  BY <1>1, <1>2, HeadTaken
<1>4. /\ t \in WinRec /\ HandlesFit(t) /\ StashFits(t) /\ WinReads(t) /\ WinWrites(t)
      /\ WinLoans(t)
  BY <1>3 DEF WinAfter
<1>5. v \in WinRec
  <2>1. t \in WinRec /\ v = [t EXCEPT !.told = TRUE, !.odd = FALSE]
    BY <1>1, <1>4
  <2> QED
    BY <2>1, ZenonT(60) DEF WinRec
<1>6. /\ v.told = TRUE /\ v.odd = FALSE
      /\ v.ws = t.ws /\ v.at = t.at /\ v.upgraded = t.upgraded /\ v.req = t.req
      /\ v.sock = t.sock /\ v.ctx = t.ctx /\ v.ops = t.ops /\ v.secure = t.secure
      /\ v.buf = t.buf /\ v.lent = t.lent /\ v.body = t.body /\ v.payload = t.payload
      /\ v.events = t.events /\ v.waker = t.waker /\ v.parked = t.parked /\ v.due = t.due
      /\ v.rx = t.rx /\ v.tx = t.tx /\ v.stash = t.stash /\ v.frames = t.frames
      /\ v.sends = t.sends /\ v.crossed = t.crossed /\ v.panic = t.panic
      /\ v.dropped = t.dropped /\ v.garbage = t.garbage
  BY <1>1, <1>4 DEF WinRec
<1>7. HandlesFit(v) /\ StashFits(v)
  BY <1>4, <1>6 DEF HandlesFit, StashFits
<1>8. WinReads(v)
  BY <1>4, <1>6 DEF WinReads
<1>9. WinWrites(v)
  BY <1>4, <1>6 DEF WinWrites
<1>10. WinLoans(v)
  BY <1>4, <1>6 DEF WinLoans
<1>11. WinAfter(v)
  BY <1>5, <1>7, <1>8, <1>9, <1>10 DEF WinAfter
<1>12. PICK o : o = (Head(win.events) \notin Failures)
  OBVIOUS
<1>13. o = FALSE
  BY <1>12
<1>14. g = ExchangeFails(v)
  BY <1>1, <1>12, <1>13
<1> QED
  BY <1>11, <1>14, ExchangeEnds DEF ExchangeFails

\* expect, while the request is on its way.
LEMMA ExpectKeeps ==
  ASSUME WinSound(win), win.at \in {"sent", "asked"}, NEW e, NEW onward, Expect(e, onward),
         e \in WinEvents, win.events # <<>> => Head(win.events) \in Failures \cup {e},
         win.events # <<>> /\ Head(win.events) = e => \A g \in onward : WinSound(g)
  PROVE  WinSound(win')
<1>1. CASE win.events = <<>>
  <2>1. "rx" \in Halves /\ win.stash["rx"] = NoEvent
    BY DEF Halves, WinSound, WinReads
  <2>2. win' = HalfWaits(Polls("rx"), "rx")
    BY <1>1 DEF Expect
  <2> QED
    BY <1>1, <2>1, <2>2, HalfSleepsOn
<1>2. CASE win.events # <<>> /\ Head(win.events) = e
  BY <1>2 DEF Expect
<1>3. CASE win.events # <<>> /\ Head(win.events) # e
  <2>1. Head(win.events) \in Failures
    BY <1>3
  <2>2. win' = ExchangeFails([TakesEvent("rx") EXCEPT !.told = TRUE,
                                          !.odd = Head(win.events) \notin Failures])
    BY <1>3 DEF Expect
  <2> QED
    BY <1>3, <2>1, <2>2, FailureTaken
<1> QED
  BY <1>1, <1>2, <1>3

\* The completion that was asked for was the only one.
LEMMA AnswerTaken ==
  ASSUME WinSound(win), win.at \in {"sent", "asked"}, NEW e,
         win.events = <<e>>, win.ops = {}, NEW t, t = TakesEvent("rx")
  PROVE  /\ WinAfter(t) /\ t.events = <<>> /\ WinSleeps(t)
         /\ t.ops = {} /\ t.rx = "idle" /\ t.tx = "idle" /\ ~t.upgraded
         /\ t.req = "open" /\ "req" \in t.ctx /\ t.at = win.at /\ t.ws = win.ws
<1>1. <<e>> # <<>> /\ Tail(<<e>>) = <<>>
  BY OneEvent
<1>2. "rx" \in Halves
  BY DEF Halves
<1>3. win.events # <<>>
  BY <1>1
<1>4. /\ WinAfter(t) /\ t.events = Tail(win.events) /\ WinSleeps(t)
      /\ t.ws = win.ws /\ t.at = win.at /\ t.upgraded = win.upgraded /\ t.req = win.req
      /\ t.sock = win.sock /\ t.ctx = win.ctx /\ t.ops = win.ops /\ t.secure = win.secure
      /\ t.buf = win.buf /\ t.lent = win.lent /\ t.body = win.body
      /\ t.payload = win.payload /\ t.waker = win.waker /\ t.rx = win.rx /\ t.tx = win.tx
      /\ t.stash = win.stash /\ t.frames = win.frames /\ t.sends = win.sends
      /\ t.told = win.told /\ t.crossed = win.crossed /\ t.panic = win.panic
      /\ t.odd = win.odd /\ t.dropped = win.dropped /\ t.garbage = win.garbage
  BY <1>2, <1>3, HeadTaken
<1>5. t.events = <<>>
  BY <1>1, <1>4
<1>6. /\ win.rx = "idle" /\ win.tx = "idle" /\ ~win.upgraded /\ win.req = "open"
      /\ "req" \in win.ctx
  BY DEF WinSound, WinReads, WinHandles
<1> QED
  BY <1>4, <1>5, <1>6

LEMMA AwaitsSendKeeps == WinInv /\ AwaitsSend => WinInv'
<1> SUFFICES ASSUME WinInv, AwaitsSend PROVE WinSound(win')
  BY DEF WinInv
<1>0. WinSound(win) /\ win.at = "sent" /\ WinQueue(win)
  BY DEF WinInv, WinSound, AwaitsSend
<1>1. PICK t, on : t = TakesEvent("rx") /\ on = ReceiveResponse(t)
  OBVIOUS
<1>2. Expect("sent", on)
  BY <1>1 DEF AwaitsSend
<1>3. Head(<<"sent">>) = "sent" /\ "sent" \notin Failures /\ "sent" \in WinEvents
  BY OneEvent DEF Failures, WinEvents
<1>4. win.events # <<>> => Head(win.events) \in Failures \cup {"sent"}
  BY <1>0, <1>3 DEF WinQueue
<1>5. ASSUME win.events # <<>>, Head(win.events) = "sent", NEW g \in on PROVE WinSound(g)
  <2>1. win.events = <<"sent">> /\ win.ops = {}
    BY <1>0, <1>3, <1>5 DEF WinQueue
  <2>2. /\ WinAfter(t) /\ t.events = <<>> /\ WinSleeps(t)
        /\ t.ops = {} /\ t.rx = "idle" /\ t.tx = "idle" /\ ~t.upgraded
        /\ t.req = "open" /\ "req" \in t.ctx /\ t.at = win.at /\ t.ws = win.ws
    BY <1>0, <1>1, <2>1, AnswerTaken
  <2>3. CASE g = ExchangeFails(t)
    BY <2>2, <2>3, ExchangeEnds DEF ExchangeFails
  <2>4. CASE g = [t EXCEPT !.at = "asked", !.ops = @ \cup {"head"}]
    <3>1. /\ t \in WinRec /\ HandlesFit(t) /\ StashFits(t) /\ WinReads(t) /\ WinWrites(t)
          /\ WinLoans(t)
      BY <2>2 DEF WinAfter
    <3>2. PICK o : o = t.ops \cup {"head"}
      OBVIOUS
    <3>3. o \in SomeOps /\ o = {"head"} /\ "asked" \in WinPlaces
      BY <2>2, <3>2 DEF SomeOps, WinOps, WinPlaces
    <3>4. g = [t EXCEPT !.at = "asked", !.ops = o]
      BY <2>4, <3>1, <3>2, Zenon DEF WinRec
    <3>5. g \in WinRec
      BY <3>1, <3>3, <3>4, ZenonT(60) DEF WinRec
    <3>6. /\ g.at = "asked" /\ g.ops = o
          /\ g.ws = t.ws /\ g.upgraded = t.upgraded /\ g.req = t.req /\ g.sock = t.sock
          /\ g.ctx = t.ctx /\ g.secure = t.secure /\ g.buf = t.buf /\ g.lent = t.lent
          /\ g.body = t.body /\ g.payload = t.payload /\ g.events = t.events
          /\ g.waker = t.waker /\ g.parked = t.parked /\ g.due = t.due /\ g.rx = t.rx
          /\ g.tx = t.tx /\ g.stash = t.stash /\ g.frames = t.frames /\ g.sends = t.sends
          /\ g.told = t.told /\ g.crossed = t.crossed /\ g.panic = t.panic /\ g.odd = t.odd
          /\ g.dropped = t.dropped /\ g.garbage = t.garbage
      BY <3>1, <3>4 DEF WinRec
    <3>7. WinHandles(g)
      BY <2>2, <3>1, <3>3, <3>6 DEF WinHandles, HandlesFit
    <3>8. WinQueue(g)
      BY <2>2, <3>1, <3>3, <3>6 DEF WinQueue, StashFits
    <3>9. WinReads(g)
      BY <2>2, <3>1, <3>3, <3>6 DEF WinReads
    <3>10. WinWrites(g)
      BY <2>2, <3>1, <3>3, <3>6 DEF WinWrites
    <3>11. WinWaits(g)
      BY <3>6 DEF WinWaits
    <3>12. WinLoans(g)
      BY <2>2, <3>1, <3>3, <3>6 DEF WinLoans
    <3>13. WinSleeps(g)
      BY <2>2, <3>6, SleepsStay
    <3> QED
      BY <3>5, <3>7, <3>8, <3>9, <3>10, <3>11, <3>12, <3>13 DEF WinSound
  <2> QED
    BY <1>1, <2>3, <2>4 DEF ReceiveResponse
<1> QED
  BY <1>0, <1>2, <1>3, <1>4, <1>5, ExpectKeeps

\* The exchange is open.
LEMMA ExchangeOpens ==
  ASSUME NEW t, WinAfter(t), WinSleeps(t), t.events = <<>>, t.ops = {}, t.rx = "idle",
         t.tx = "idle", t.req = "open", "req" \in t.ctx,
         NEW g \in WinRec, g.at = "open", g.events = <<>>, g.ops = {}, g.req = "open",
         g.ws = t.ws, g.secure = t.secure, g.buf = t.buf, g.lent = t.lent, g.body = t.body,
         g.payload = t.payload, g.waker = t.waker, g.parked = t.parked, g.due = t.due,
         g.rx = t.rx, g.tx = t.tx, g.stash = t.stash, g.told = t.told,
         g.crossed = t.crossed, g.panic = t.panic, g.odd = t.odd, g.dropped = t.dropped,
         g.garbage = t.garbage,
         "req" \in g.ctx, g.sock \in {"none", "closed"} => "sock" \notin g.ctx,
         g.ws => g.upgraded /\ g.sock = "open" /\ "sock" \in g.ctx,
         ~g.ws => ~g.upgraded /\ g.sock = "none"
  PROVE  WinSound(g)
<1>1. /\ t \in WinRec /\ HandlesFit(t) /\ StashFits(t) /\ WinReads(t) /\ WinWrites(t)
      /\ WinLoans(t)
  BY DEF WinAfter
<1>2. \A K : ~Holds(<<>>, K) /\ Lone(<<>>, K)
  BY NoEvents
<1>3. WinHandles(g)
  BY <1>1 DEF WinHandles, WinRec
<1>4. WinQueue(g)
  BY <1>1, <1>2 DEF WinQueue, StashFits
<1>5. WinReads(g)
  BY <1>1 DEF WinReads
<1>6. WinWrites(g)
  BY <1>1 DEF WinWrites
<1>7. WinWaits(g)
  BY DEF WinWaits
<1>8. WinLoans(g)
  BY <1>1 DEF WinLoans
<1>9. WinSleeps(g)
  BY SleepsStay
<1> QED
  BY <1>3, <1>4, <1>5, <1>6, <1>7, <1>8, <1>9 DEF WinSound

LEMMA AwaitsHeadKeeps == WinInv /\ (AwaitsHead \/ AwaitsUpgrade) => WinInv'
<1> SUFFICES ASSUME WinInv, AwaitsHead \/ AwaitsUpgrade PROVE WinSound(win')
  BY DEF WinInv
<1>0. WinSound(win) /\ win.at = "asked" /\ WinQueue(win)
  BY DEF WinInv, WinSound, AwaitsHead, AwaitsUpgrade
<1>1. PICK t, on : /\ t = TakesEvent("rx")
                   /\ on = IF win.ws THEN CompleteUpgrade(t) ELSE Responds(t)
  OBVIOUS
<1>2. Expect("headers", on)
  BY <1>1 DEF AwaitsHead, AwaitsUpgrade
<1>3. /\ Head(<<"headers">>) = "headers" /\ "headers" \notin Failures /\ "headers" \in WinEvents
      /\ Head(<<"failed">>) = "failed" /\ "failed" \in Failures
  BY OneEvent DEF Failures, WinEvents
<1>4. win.events # <<>> => Head(win.events) \in Failures \cup {"headers"}
  BY <1>0, <1>3 DEF WinQueue
<1>5. ASSUME win.events # <<>>, Head(win.events) = "headers", NEW g \in on PROVE WinSound(g)
  <2>1. win.events = <<"headers">> /\ win.ops = {}
    BY <1>0, <1>3, <1>5 DEF WinQueue
  <2>2. /\ WinAfter(t) /\ t.events = <<>> /\ WinSleeps(t)
        /\ t.ops = {} /\ t.rx = "idle" /\ t.tx = "idle" /\ ~t.upgraded
        /\ t.req = "open" /\ "req" \in t.ctx /\ t.at = win.at /\ t.ws = win.ws
    BY <1>0, <1>1, <2>1, AnswerTaken
  <2>3. t \in WinRec /\ HandlesFit(t)
    BY <2>2 DEF WinAfter
  <2>4. "open" \in WinPlaces /\ "open" \in HandleStates
    BY DEF WinPlaces, HandleStates
  <2>5. CASE g = ExchangeFails(t)
    BY <2>2, <2>5, ExchangeEnds DEF ExchangeFails
  <2>6. CASE ~win.ws /\ g = [t EXCEPT !.at = "open"]
    <3>1. g \in WinRec
      BY <2>3, <2>4, <2>6, ZenonT(60) DEF WinRec
    <3>2. /\ g.at = "open"
          /\ g.ws = t.ws /\ g.upgraded = t.upgraded /\ g.req = t.req /\ g.sock = t.sock
          /\ g.ctx = t.ctx /\ g.ops = t.ops /\ g.secure = t.secure /\ g.buf = t.buf
          /\ g.lent = t.lent /\ g.body = t.body /\ g.payload = t.payload
          /\ g.events = t.events /\ g.waker = t.waker /\ g.parked = t.parked
          /\ g.due = t.due /\ g.rx = t.rx /\ g.tx = t.tx /\ g.stash = t.stash
          /\ g.frames = t.frames /\ g.sends = t.sends /\ g.told = t.told
          /\ g.crossed = t.crossed /\ g.panic = t.panic /\ g.odd = t.odd
          /\ g.dropped = t.dropped /\ g.garbage = t.garbage
      BY <2>3, <2>6 DEF WinRec
    <3>3. t.sock = "none" /\ "sock" \notin t.ctx
      BY <2>2, <2>3 DEF HandlesFit
    <3> QED
      BY ZenonT(60), <2>2, <2>6, <3>1, <3>2, <3>3, ExchangeOpens
  <2>7. CASE win.ws /\ g = [t EXCEPT !.at = "open", !.sock = "open",
                                     !.ctx = @ \cup {"sock"}, !.upgraded = TRUE]
    <3>1. PICK c : c = t.ctx \cup {"sock"}
      OBVIOUS
    <3>2. c \in SomeHandles
      BY <2>3, <3>1 DEF WinRec, SomeHandles
    <3>3. g = [t EXCEPT !.at = "open", !.sock = "open", !.ctx = c, !.upgraded = TRUE]
      BY <2>7, <3>1, <2>3, Zenon DEF WinRec
    <3>4. g \in WinRec
      BY <2>3, <2>4, <3>2, <3>3, ZenonT(60) DEF WinRec
    <3>5. /\ g.at = "open" /\ g.sock = "open" /\ g.ctx = c /\ g.upgraded = TRUE
          /\ g.ws = t.ws /\ g.req = t.req /\ g.ops = t.ops /\ g.secure = t.secure
          /\ g.buf = t.buf /\ g.lent = t.lent /\ g.body = t.body /\ g.payload = t.payload
          /\ g.events = t.events /\ g.waker = t.waker /\ g.parked = t.parked
          /\ g.due = t.due /\ g.rx = t.rx /\ g.tx = t.tx /\ g.stash = t.stash
          /\ g.frames = t.frames /\ g.sends = t.sends /\ g.told = t.told
          /\ g.crossed = t.crossed /\ g.panic = t.panic /\ g.odd = t.odd
          /\ g.dropped = t.dropped /\ g.garbage = t.garbage
      BY <2>3, <3>3 DEF WinRec
    <3> QED
      <4>1. /\ "req" \in g.ctx /\ "sock" \in g.ctx /\ g.ws /\ g.upgraded
            /\ g.sock \in {"none", "closed"} => "sock" \notin g.ctx
            /\ g.events = <<>> /\ g.ops = {} /\ g.req = "open" /\ g.sock = "open"
        BY ZenonT(60), <2>2, <2>7, <3>1, <3>5
      <4> QED
        BY <2>2, <3>4, <3>5, <4>1, ExchangeOpens
  <2> QED
    BY <1>1, <2>5, <2>6, <2>7 DEF CompleteUpgrade, Responds
<1> QED
  BY <1>0, <1>2, <1>3, <1>4, <1>5, ExpectKeeps

------------------------------------------------------------------------------
(* The body, and the halves of a socket.                                   *)

\* A read is asked for.
LEMMA AsksKeeps ==
  ASSUME WinSound(win), win.at = "open", win.rx = "idle", NEW g \in ReadBody(win)
  PROVE  WinSound(g)
<1>0. /\ win \in WinRec /\ WinHandles(win) /\ WinQueue(win) /\ WinReads(win)
      /\ WinWrites(win) /\ WinWaits(win) /\ WinLoans(win) /\ WinSleeps(win)
  BY DEF WinSound
<1>1. PICK n : n = (win.panic \/ win.buf = "loaned")
  OBVIOUS
<1>2. PICK p : p = [win EXCEPT !.panic = n]
  OBVIOUS
<1>3. p = [win EXCEPT !.panic = @ \/ win.buf = "loaned"]
  BY <1>0, <1>1, <1>2, Zenon DEF WinRec
<1>4. win.buf # "loaned" /\ "recv" \notin win.ops /\ win.stash["rx"] = NoEvent
      /\ ~Holds(win.events, ReadEvents) /\ ~win.panic
  BY <1>0 DEF WinLoans, WinReads
<1>5. n \in BOOLEAN /\ ~n
  BY <1>1, <1>4, Zenon
<1>6. p \in WinRec
  BY <1>0, <1>2, <1>5, ZenonT(60) DEF WinRec
<1>7. /\ p.panic = n
      /\ p.ws = win.ws /\ p.at = win.at /\ p.upgraded = win.upgraded /\ p.req = win.req
      /\ p.sock = win.sock /\ p.ctx = win.ctx /\ p.ops = win.ops /\ p.secure = win.secure
      /\ p.buf = win.buf /\ p.lent = win.lent /\ p.body = win.body
      /\ p.payload = win.payload /\ p.events = win.events /\ p.waker = win.waker
      /\ p.parked = win.parked /\ p.due = win.due /\ p.rx = win.rx /\ p.tx = win.tx
      /\ p.stash = win.stash /\ p.frames = win.frames /\ p.sends = win.sends
      /\ p.told = win.told /\ p.crossed = win.crossed /\ p.odd = win.odd
      /\ p.dropped = win.dropped /\ p.garbage = win.garbage
  BY <1>0, <1>2 DEF WinRec
<1>8. \/ g = [p EXCEPT !.buf = "loaned", !.lent = TRUE, !.ops = @ \cup {"recv"},
                       !.rx = "reading"]
      \/ g = [p EXCEPT !.buf = "home", !.rx = "ended", !.told = TRUE]
  BY <1>3 DEF ReadBody
<1>9. CASE g = [p EXCEPT !.buf = "loaned", !.lent = TRUE, !.ops = @ \cup {"recv"},
                         !.rx = "reading"]
  <2>1. PICK o : o = p.ops \cup {"recv"}
    OBVIOUS
  <2>2. o \in SomeOps /\ "loaned" \in BufPlaces /\ "reading" \in RxStates
    BY <1>6, <2>1 DEF WinRec, SomeOps, WinOps, BufPlaces, RxStates
  <2>3. g = [p EXCEPT !.buf = "loaned", !.lent = TRUE, !.ops = o, !.rx = "reading"]
    BY <1>6, <1>9, <2>1, Zenon DEF WinRec
  <2>4. g \in WinRec
    BY <1>6, <2>2, <2>3, ZenonT(60) DEF WinRec
  <2>5. /\ g.buf = "loaned" /\ g.lent = TRUE /\ g.ops = o /\ g.rx = "reading"
        /\ g.ws = p.ws /\ g.at = p.at /\ g.upgraded = p.upgraded /\ g.req = p.req
        /\ g.sock = p.sock /\ g.ctx = p.ctx /\ g.secure = p.secure /\ g.body = p.body
        /\ g.payload = p.payload /\ g.events = p.events /\ g.waker = p.waker
        /\ g.parked = p.parked /\ g.due = p.due /\ g.tx = p.tx /\ g.stash = p.stash
        /\ g.frames = p.frames /\ g.sends = p.sends /\ g.told = p.told
        /\ g.crossed = p.crossed /\ g.panic = p.panic /\ g.odd = p.odd
        /\ g.dropped = p.dropped /\ g.garbage = p.garbage
    BY <1>6, <2>3 DEF WinRec
  <2>6. WinHandles(g)
    BY <1>0, <1>7, <2>1, <2>5 DEF WinHandles
  <2>7. WinQueue(g)
    BY <1>0, <1>7, <2>5 DEF WinQueue
  <2>8. WinReads(g)
    BY <1>0, <1>4, <1>7, <2>1, <2>5 DEF WinReads
  <2>9. WinWrites(g)
    BY <1>0, <1>7, <2>1, <2>5 DEF WinWrites
  <2>10. WinWaits(g)
    BY <1>0, <1>7, <2>1, <2>5 DEF WinWaits
  <2>11. WinLoans(g)
    BY <1>0, <1>4, <1>5, <1>7, <2>1, <2>5 DEF WinLoans
  <2>12. WinSleeps(g)
    BY <1>0, <1>7, <2>5, SleepsStay
  <2> QED
    BY <2>4, <2>6, <2>7, <2>8, <2>9, <2>10, <2>11, <2>12 DEF WinSound
<1>10. CASE g = [p EXCEPT !.buf = "home", !.rx = "ended", !.told = TRUE]
  <2>1. "home" \in BufPlaces /\ "ended" \in RxStates
    BY DEF BufPlaces, RxStates
  <2>2. g \in WinRec
    BY <1>6, <1>10, <2>1, Zenon DEF WinRec
  <2>3. /\ g.buf = "home" /\ g.rx = "ended" /\ g.told = TRUE
        /\ g.ws = p.ws /\ g.at = p.at /\ g.upgraded = p.upgraded /\ g.req = p.req
        /\ g.sock = p.sock /\ g.ctx = p.ctx /\ g.ops = p.ops /\ g.secure = p.secure
        /\ g.lent = p.lent /\ g.body = p.body /\ g.payload = p.payload
        /\ g.events = p.events /\ g.waker = p.waker /\ g.parked = p.parked /\ g.due = p.due
        /\ g.tx = p.tx /\ g.stash = p.stash /\ g.frames = p.frames /\ g.sends = p.sends
        /\ g.crossed = p.crossed /\ g.panic = p.panic /\ g.odd = p.odd
        /\ g.dropped = p.dropped /\ g.garbage = p.garbage
    BY <1>6, <1>10 DEF WinRec
  <2>4. WinHandles(g)
    BY <1>0, <1>7, <2>3 DEF WinHandles
  <2>5. WinQueue(g)
    BY <1>0, <1>7, <2>3 DEF WinQueue
  <2>6. WinReads(g)
    BY <1>0, <1>7, <2>3 DEF WinReads
  <2>7. WinWrites(g)
    BY <1>0, <1>7, <2>3 DEF WinWrites
  <2>8. WinWaits(g)
    BY <2>3 DEF WinWaits
  <2>9. WinLoans(g)
    BY <1>0, <1>4, <1>5, <1>7, <2>3 DEF WinLoans
  <2>10. WinSleeps(g)
    BY <1>0, <1>7, <2>3, SleepsStay
  <2> QED
    BY <2>2, <2>4, <2>5, <2>6, <2>7, <2>8, <2>9, <2>10 DEF WinSound
<1> QED
  BY <1>8, <1>9, <1>10

LEMMA BodyAsksKeeps == WinInv /\ (BodyAsks \/ SocketAsks) => WinInv'
  BY AsksKeeps DEF WinInv, BodyAsks, SocketAsks, Receive

\* A completion has been taken, and the half has yet to say what it makes of it.
WinTaken(t) ==
  /\ t \in WinRec
  /\ WinHandles(t) /\ WinQueue(t) /\ WinReads(t) /\ WinWrites(t) /\ WinLoans(t) /\ WinSleeps(t)

\* It is a read, and another half may wait.
ReadTaken(t) ==
  /\ t.at = "open" /\ "recv" \notin t.ops /\ t.stash["rx"] = NoEvent
  /\ ~Holds(t.events, ReadEvents) /\ (~t.crossed => t.lent)
  /\ ~t.told /\ ~Holds(t.events, Failures) /\ t.tx = "sending" =>
       "write" \in t.ops \/ t.stash["tx"] # NoEvent \/ Holds(t.events, {"wrote"})

\* Everything but the receiving half.
RxFrame(g, t) ==
  /\ g.ws = t.ws
  /\ g.at = t.at /\ g.upgraded = t.upgraded /\ g.req = t.req /\ g.sock = t.sock
  /\ g.ctx = t.ctx /\ g.ops = t.ops /\ g.secure = t.secure /\ g.buf = t.buf
  /\ g.body = t.body /\ g.payload = t.payload /\ g.events = t.events /\ g.waker = t.waker
  /\ g.parked = t.parked /\ g.due = t.due /\ g.tx = t.tx /\ g.stash = t.stash
  /\ g.frames = t.frames /\ g.sends = t.sends /\ g.crossed = t.crossed /\ g.odd = t.odd
  /\ g.dropped = t.dropped

LEMMA ReadEnds ==
  ASSUME NEW t, WinTaken(t), ReadTaken(t), NEW g \in WinRec, RxFrame(g, t),
         g.rx \in {"idle", "ended"}, ~g.panic, g.garbage => t.garbage \/ ~t.lent,
         t.told => g.told
  PROVE  WinSound(g)
<1>0. /\ t \in WinRec /\ WinHandles(t) /\ WinQueue(t) /\ WinReads(t)
      /\ WinWrites(t) /\ WinLoans(t) /\ WinSleeps(t)
  BY DEF WinTaken
<1>1. /\ g.ws = t.ws
      /\ g.at = t.at /\ g.upgraded = t.upgraded /\ g.req = t.req /\ g.sock = t.sock
      /\ g.ctx = t.ctx /\ g.ops = t.ops /\ g.secure = t.secure /\ g.buf = t.buf
      /\ g.body = t.body /\ g.payload = t.payload /\ g.events = t.events
      /\ g.waker = t.waker /\ g.parked = t.parked /\ g.due = t.due /\ g.tx = t.tx
      /\ g.stash = t.stash /\ g.frames = t.frames /\ g.sends = t.sends
      /\ g.crossed = t.crossed /\ g.odd = t.odd /\ g.dropped = t.dropped
  BY DEF RxFrame
<1>2. WinHandles(g)
  BY <1>0, <1>1 DEF WinHandles
<1>3. WinQueue(g)
  BY <1>0, <1>1 DEF WinQueue
<1>4. WinReads(g)
  BY <1>0, <1>1 DEF WinReads, ReadTaken
<1>5. WinWrites(g)
  BY <1>0, <1>1 DEF WinWrites
<1>6. WinWaits(g)
  BY <1>1 DEF WinWaits, ReadTaken
<1>7. WinLoans(g)
  BY <1>0, <1>1 DEF WinLoans, ReadTaken
<1>8. WinSleeps(g)
  BY <1>0, <1>1, SleepsStay
<1> QED
  BY <1>2, <1>3, <1>4, <1>5, <1>6, <1>7, <1>8 DEF WinSound

\* take_read.
ReadOut(g, w) ==
  /\ g \in WinRec /\ (g.panic <=> w.panic \/ w.buf = "loaned")
  /\ g.garbage <=> w.garbage \/ ~w.lent
  /\ g.ws = w.ws /\ g.at = w.at /\ g.upgraded = w.upgraded /\ g.req = w.req
  /\ g.sock = w.sock /\ g.ctx = w.ctx /\ g.ops = w.ops /\ g.secure = w.secure
  /\ g.buf = w.buf /\ g.body = w.body /\ g.payload = w.payload /\ g.events = w.events
  /\ g.waker = w.waker /\ g.parked = w.parked /\ g.due = w.due /\ g.rx = w.rx /\ g.tx = w.tx
  /\ g.stash = w.stash /\ g.frames = w.frames /\ g.sends = w.sends /\ g.told = w.told
  /\ g.crossed = w.crossed /\ g.odd = w.odd /\ g.dropped = w.dropped

LEMMA TakeReadIs ==
  ASSUME NEW w \in WinRec, NEW g, g = TakeRead(w)
  PROVE  ReadOut(g, w)
<1>1. PICK n, b : n = (w.panic \/ w.buf = "loaned") /\ b = (w.garbage \/ ~w.lent)
  OBVIOUS
<1>2. /\ n \in BOOLEAN /\ (n <=> w.panic \/ w.buf = "loaned")
      /\ b \in BOOLEAN /\ (b <=> w.garbage \/ ~w.lent)
  BY <1>1, Zenon
<1>3. g = [w EXCEPT !.panic = n, !.garbage = b, !.lent = FALSE]
  BY <1>1, Zenon DEF TakeRead, WinRec
<1>4. g \in WinRec
  <2>1. PICK f, z : f = [w EXCEPT !.panic = n, !.garbage = b] /\ z = FALSE
    OBVIOUS
  <2>2. n \in BOOLEAN /\ b \in BOOLEAN /\ z \in BOOLEAN
    BY <1>2, <2>1
  <2>3. f \in WinRec
    BY <2>1, <2>2, ZenonT(60) DEF WinRec
  <2>4. g = [f EXCEPT !.lent = z]
    BY <1>3, <2>1 DEF WinRec
  <2> QED
    BY <2>2, <2>3, <2>4, ZenonT(60) DEF WinRec
<1>5. /\ g.panic = n /\ g.garbage = b
      /\ g.ws = w.ws /\ g.at = w.at /\ g.upgraded = w.upgraded /\ g.req = w.req
      /\ g.sock = w.sock /\ g.ctx = w.ctx /\ g.ops = w.ops /\ g.secure = w.secure
      /\ g.buf = w.buf /\ g.body = w.body /\ g.payload = w.payload /\ g.events = w.events
      /\ g.waker = w.waker /\ g.parked = w.parked /\ g.due = w.due /\ g.rx = w.rx
      /\ g.tx = w.tx /\ g.stash = w.stash /\ g.frames = w.frames /\ g.sends = w.sends
      /\ g.told = w.told /\ g.crossed = w.crossed /\ g.odd = w.odd /\ g.dropped = w.dropped
  BY <1>3 DEF WinRec
<1> QED
  BY <1>2, <1>4, <1>5 DEF ReadOut

\* A failure is handed to a half.
LEMMA FailureEndsHalf ==
  ASSUME NEW t, WinTaken(t), NEW g \in WinRec, g.told = TRUE, g.odd = FALSE,
         \/ g.rx = "ended" /\ g.tx = t.tx
         \/ g.rx = t.rx /\ g.tx = "closed",
         t.at = "open", g.ws = t.ws, g.at = t.at, g.upgraded = t.upgraded, g.req = t.req,
         g.sock = t.sock, g.ctx = t.ctx, g.ops = t.ops, g.secure = t.secure,
         g.buf = t.buf, g.lent = t.lent, g.body = t.body, g.payload = t.payload,
         g.events = t.events, g.waker = t.waker, g.parked = t.parked, g.due = t.due,
         g.stash = t.stash, g.crossed = t.crossed, g.panic = t.panic,
         g.dropped = t.dropped, g.garbage = t.garbage
  PROVE  WinSound(g)
<1>0. /\ t \in WinRec /\ WinHandles(t) /\ WinQueue(t) /\ WinReads(t)
      /\ WinWrites(t) /\ WinLoans(t) /\ WinSleeps(t)
  BY DEF WinTaken
<1>2. WinHandles(g)
  BY <1>0 DEF WinHandles
<1>3. WinQueue(g)
  BY <1>0 DEF WinQueue
<1>4. WinReads(g)
  BY <1>0 DEF WinReads
<1>5. WinWrites(g)
  BY <1>0 DEF WinWrites
<1>6. WinWaits(g)
  BY DEF WinWaits
<1>7. WinLoans(g)
  BY <1>0 DEF WinLoans
<1>8. WinSleeps(g)
  BY <1>0, SleepsStay
<1> QED
  BY <1>2, <1>3, <1>4, <1>5, <1>6, <1>7, <1>8 DEF WinSound

\* The next completion of a body.
LEMMA BodyTakes ==
  ASSUME WinSound(win), win.at = "open", ~win.ws, win.rx = "reading", win.events # <<>>,
         NEW p, p = TakesEvent("rx")
  PROVE  /\ WinTaken(p) /\ p.at = "open"
         /\ Head(win.events) \in {"read", "end"} \cup Failures
         /\ Head(win.events) \in {"read", "end"} => ReadTaken(p)
<1>0. /\ win \in WinRec /\ WinHandles(win) /\ WinQueue(win) /\ WinReads(win)
      /\ WinWrites(win) /\ WinWaits(win) /\ WinLoans(win) /\ WinSleeps(win)
  BY DEF WinSound
<1>1. "rx" \in Halves
  BY DEF Halves
<1>2. PICK e : e = Head(win.events)
  OBVIOUS
<1>3. /\ WinAfter(p) /\ e \in WinEvents /\ WinSleeps(p) /\ QueueShrank(win, p)
      /\ p.ws = win.ws /\ p.at = win.at /\ p.upgraded = win.upgraded /\ p.req = win.req
      /\ p.sock = win.sock /\ p.ctx = win.ctx /\ p.ops = win.ops /\ p.secure = win.secure
      /\ p.buf = win.buf /\ p.lent = win.lent /\ p.body = win.body
      /\ p.payload = win.payload /\ p.waker = win.waker /\ p.rx = win.rx /\ p.tx = win.tx
      /\ p.stash = win.stash /\ p.frames = win.frames /\ p.sends = win.sends
      /\ p.told = win.told /\ p.crossed = win.crossed /\ p.panic = win.panic
      /\ p.odd = win.odd /\ p.dropped = win.dropped /\ p.garbage = win.garbage
  BY <1>1, <1>2, HeadTaken
<1>4. \A K : /\ Holds(win.events, K) <=> Holds(p.events, K) \/ e \in K
             /\ Lone(win.events, K) => Lone(p.events, K) /\ ~(e \in K /\ Holds(p.events, K))
  BY <1>2, <1>3 DEF QueueShrank
<1>5. p \in WinRec /\ WinReads(p) /\ WinWrites(p) /\ WinLoans(p)
  BY <1>3 DEF WinAfter
<1>6. WinHandles(p)
  BY <1>0, <1>3 DEF WinHandles
<1>7. ~Holds(win.events, BodyForeign)
  BY <1>0 DEF WinQueue
<1>8. WinQueue(p)
  BY <1>0, <1>3, <1>4, <1>7 DEF WinQueue
<1>9. e \in {"read", "end"} \cup Failures
  BY <1>3, <1>4, <1>7 DEF BodyForeign
<1>10. ASSUME e \in {"read", "end"} PROVE ReadTaken(p)
  <2>1. e \in ReadEvents /\ e \notin Failures /\ e \notin {"wrote"}
    BY <1>10 DEF ReadEvents, Failures
  <2>2. Holds(win.events, ReadEvents) /\ ~Holds(p.events, ReadEvents)
    BY <1>0, <1>4, <2>1 DEF WinReads
  <2>3. "recv" \notin win.ops /\ win.stash["rx"] = NoEvent /\ (~win.crossed => win.lent)
    BY <1>0, <2>2 DEF WinReads, WinLoans
  <2>4. ~p.told /\ ~Holds(p.events, Failures) /\ p.tx = "sending" =>
          "write" \in p.ops \/ p.stash["tx"] # NoEvent \/ Holds(p.events, {"wrote"})
    BY <1>0, <1>3, <1>4, <2>1 DEF WinWaits
  <2> QED
    BY <1>3, <2>2, <2>3, <2>4 DEF ReadTaken
<1> QED
  BY <1>2, <1>3, <1>5, <1>6, <1>8, <1>9, <1>10 DEF WinTaken

LEMMA BodyPolledKeeps == WinInv /\ BodyPolled => WinInv'
<1> SUFFICES ASSUME WinInv, BodyPolled PROVE WinSound(win')
  BY DEF WinInv
<1>0. WinSound(win) /\ win.at = "open" /\ ~win.ws /\ win.rx = "reading"
  BY DEF WinInv, BodyPolled
<1>1. CASE win.events = <<>>
  <2>1. "rx" \in Halves /\ win.stash["rx"] = NoEvent
    BY <1>0 DEF Halves, WinSound, WinQueue
  <2>2. win' = HalfWaits(Polls("rx"), "rx")
    BY <1>1 DEF BodyPolled
  <2> QED
    BY <1>0, <1>1, <2>1, <2>2, HalfSleepsOn
<1>2. CASE win.events # <<>>
  <2>1. PICK e, p : e = Head(win.events) /\ p = TakesEvent("rx")
    OBVIOUS
  <2>2. /\ WinTaken(p) /\ p.at = "open" /\ e \in {"read", "end"} \cup Failures
        /\ e \in {"read", "end"} => ReadTaken(p)
    BY <1>0, <1>2, <2>1, BodyTakes
  <2>4. "idle" \in RxStates /\ "ended" \in RxStates
    BY DEF RxStates
  <2>5. p \in WinRec /\ ~p.panic
    BY <2>2 DEF WinTaken, WinLoans
  <2>6. CASE e = "read"
    <3>1. PICK f, g : f = [p EXCEPT !.rx = "idle"] /\ g = TakeRead(f)
      OBVIOUS
    <3>2. win' = g
      BY <1>2, <2>1, <2>6, <3>1 DEF BodyPolled
    <3>3. f \in WinRec
      <4>1. p \in WinRec /\ f = [p EXCEPT !.rx = "idle"]
        BY <2>5, <3>1
      <4> QED
        BY <2>4, <4>1, Zenon DEF WinRec
    <3>4. /\ f.rx = "idle"
          /\ f.ws = p.ws /\ f.at = p.at /\ f.upgraded = p.upgraded /\ f.req = p.req
          /\ f.sock = p.sock /\ f.ctx = p.ctx /\ f.ops = p.ops /\ f.secure = p.secure
          /\ f.buf = p.buf /\ f.lent = p.lent /\ f.body = p.body /\ f.payload = p.payload
          /\ f.events = p.events /\ f.waker = p.waker /\ f.parked = p.parked
          /\ f.due = p.due /\ f.tx = p.tx /\ f.stash = p.stash /\ f.frames = p.frames
          /\ f.sends = p.sends /\ f.told = p.told /\ f.crossed = p.crossed
          /\ f.panic = p.panic /\ f.odd = p.odd /\ f.dropped = p.dropped
          /\ f.garbage = p.garbage
      BY <2>5, <3>1 DEF WinRec
    <3>5. ReadOut(g, f)
      BY <3>1, <3>3, TakeReadIs
    <3>6. /\ g \in WinRec /\ (g.panic <=> f.panic \/ f.buf = "loaned")
          /\ g.garbage <=> f.garbage \/ ~f.lent
          /\ g.ws = f.ws /\ g.at = f.at /\ g.upgraded = f.upgraded /\ g.req = f.req
          /\ g.sock = f.sock /\ g.ctx = f.ctx /\ g.ops = f.ops /\ g.secure = f.secure
          /\ g.buf = f.buf /\ g.body = f.body /\ g.payload = f.payload
          /\ g.events = f.events /\ g.waker = f.waker /\ g.parked = f.parked
          /\ g.due = f.due /\ g.rx = f.rx /\ g.tx = f.tx /\ g.stash = f.stash
          /\ g.frames = f.frames /\ g.sends = f.sends /\ g.told = f.told
          /\ g.crossed = f.crossed /\ g.odd = f.odd /\ g.dropped = f.dropped
      BY <3>5 DEF ReadOut
    <3>7. ReadTaken(p) /\ p.buf # "loaned"
      BY <2>2, <2>6 DEF ReadTaken, WinTaken, WinLoans
    <3>8. RxFrame(g, p)
      BY <3>4, <3>6 DEF RxFrame
    <3>9. /\ g.rx \in {"idle", "ended"} /\ ~g.panic /\ (g.garbage => p.garbage \/ ~p.lent)
          /\ p.told => g.told
      BY <2>5, <3>4, <3>6, <3>7
    <3> QED
      BY <2>2, <3>2, <3>6, <3>7, <3>8, <3>9, ReadEnds
  <2>7. CASE e = "end"
    <3>1. PICK g : g = [p EXCEPT !.rx = "ended"]
      OBVIOUS
    <3>2. win' = g
      BY <1>2, <2>1, <2>7, <3>1 DEF BodyPolled
    <3>3. g \in WinRec
      BY <2>4, <2>5, <3>1, ZenonT(60) DEF WinRec
    <3>4. /\ g.rx = "ended"
          /\ g.ws = p.ws /\ g.at = p.at /\ g.upgraded = p.upgraded /\ g.req = p.req
          /\ g.sock = p.sock /\ g.ctx = p.ctx /\ g.ops = p.ops /\ g.secure = p.secure
          /\ g.buf = p.buf /\ g.lent = p.lent /\ g.body = p.body /\ g.payload = p.payload
          /\ g.events = p.events /\ g.waker = p.waker /\ g.parked = p.parked
          /\ g.due = p.due /\ g.tx = p.tx /\ g.stash = p.stash /\ g.frames = p.frames
          /\ g.sends = p.sends /\ g.told = p.told /\ g.crossed = p.crossed
          /\ g.panic = p.panic /\ g.odd = p.odd /\ g.dropped = p.dropped
          /\ g.garbage = p.garbage
      BY <2>5, <3>1 DEF WinRec
    <3>5. ReadTaken(p) /\ RxFrame(g, p)
      BY <2>2, <2>7, <3>4 DEF RxFrame
    <3>6. /\ g.rx \in {"idle", "ended"} /\ ~g.panic /\ (g.garbage => p.garbage \/ ~p.lent)
          /\ p.told => g.told
      BY <2>5, <3>4
    <3> QED
      BY <2>2, <3>2, <3>3, <3>5, <3>6, ReadEnds
  <2>8. CASE e \in Failures
    <3>1. PICK o : o = (e \notin Failures)
      OBVIOUS
    <3>2. o = FALSE /\ e # "read" /\ e # "end"
      BY <2>8, <3>1 DEF Failures
    <3>3. PICK g : g = [p EXCEPT !.rx = "ended", !.told = TRUE, !.odd = FALSE]
      OBVIOUS
    <3>4. win' = g
      BY <1>2, <2>1, <3>1, <3>2, <3>3 DEF BodyPolled
    <3>5. g \in WinRec
      BY <2>4, <2>5, <3>3, ZenonT(60) DEF WinRec
    <3>6. /\ g.rx = "ended" /\ g.told = TRUE /\ g.odd = FALSE
          /\ g.ws = p.ws /\ g.at = p.at /\ g.upgraded = p.upgraded /\ g.req = p.req
          /\ g.sock = p.sock /\ g.ctx = p.ctx /\ g.ops = p.ops /\ g.secure = p.secure
          /\ g.buf = p.buf /\ g.lent = p.lent /\ g.body = p.body /\ g.payload = p.payload
          /\ g.events = p.events /\ g.waker = p.waker /\ g.parked = p.parked
          /\ g.due = p.due /\ g.tx = p.tx /\ g.stash = p.stash /\ g.frames = p.frames
          /\ g.sends = p.sends /\ g.crossed = p.crossed /\ g.panic = p.panic
          /\ g.dropped = p.dropped /\ g.garbage = p.garbage
      BY <2>5, <3>3 DEF WinRec
    <3> QED
      BY <2>2, <3>4, <3>5, <3>6, FailureEndsHalf
  <2> QED
    BY <2>2, <2>6, <2>7, <2>8
<1> QED
  BY <1>1, <1>2

\* What a half of a socket takes, and what it leaves to the other.
Wanted(h) == Failures \cup (IF h = "rx" THEN WsReads ELSE WinEvents \ WsReads)
LeftBy(h) == IF h = "rx" THEN SendEvents ELSE WsReads

LEMMA WantedIs ==
  ASSUME NEW es \in EventSeqs, NEW h \in Halves
  PROVE  SelectInSeq(es, LAMBDA e : e \in Failures \/ (e \in WsReads) = (h = "rx"))
           = FirstWanted(es, Wanted(h))
<1>1. \A i \in 1 .. Len(es) : es[i] \in WinEvents
  BY ElementOfSeq DEF EventSeqs
<1>2. \A i \in 1 .. Len(es) :
        (es[i] \in Failures \/ (es[i] \in WsReads) = (h = "rx")) <=> es[i] \in Wanted(h)
  BY <1>1 DEF Wanted
<1>3. {i \in 1 .. Len(es) : es[i] \in Failures \/ (es[i] \in WsReads) = (h = "rx")}
        = {i \in 1 .. Len(es) : es[i] \in Wanted(h)}
  BY <1>2
<1> QED
  BY <1>3 DEF FirstWanted, SelectInSeq

\* The passed completions are the other half's, and there is at most one.
LEMMA PassedKind ==
  ASSUME WinSound(win), win.at = "open", win.ws, NEW h \in Halves, NEW o \in Halves, o # h,
         NEW p \in EventSeqs, \A K : Holds(p, K) => Holds(win.events, K),
         Lone(win.events, SendEvents) => Lone(p, SendEvents),
         Lone(win.events, ReadEvents) => Lone(p, ReadEvents),
         ~Holds(p, Wanted(h)), p # <<>>
  PROVE  /\ ~(Len(p) > 1) /\ Last(p) \in LeftBy(h) /\ win.stash[o] = NoEvent
         /\ \A K : Holds(p, K) <=> Last(p) \in K
<1>0. WinQueue(win) /\ WinReads(win) /\ WinWrites(win)
  BY DEF WinSound
<1>1. ~Holds(p, SocketForeign)
  BY <1>0 DEF WinQueue
<1>2. \A i \in 1 .. Len(p) : p[i] \in WinEvents \ (Wanted(h) \cup SocketForeign)
  <2>1. \A i \in 1 .. Len(p) : p[i] \in WinEvents
    BY ElementOfSeq DEF EventSeqs
  <2> QED
    BY <1>1, <2>1 DEF Holds
<1>3. WinEvents \ (Wanted(h) \cup SocketForeign) \subseteq LeftBy(h)
  BY DEF Wanted, SocketForeign, LeftBy
<1>4. PICK K : K = IF h = "rx" THEN SendEvents ELSE ReadEvents
  OBVIOUS
<1>5. \A i \in 1 .. Len(p) : p[i] \in K
  BY <1>2, <1>3, <1>4 DEF LeftBy, ReadEvents
<1>6. Lone(p, K)
  BY <1>0, <1>4 DEF WinReads, WinWrites
<1>7. /\ ~(Len(p) > 1) /\ Holds(p, K)
      /\ \A L : Holds(p, L) <=> Last(p) \in L
  BY <1>5, <1>6, LoneQueue
<1>8. Last(p) \in LeftBy(h)
  <2>1. Holds(p, LeftBy(h))
    <3>1. PICK i \in 1 .. Len(p) : p[i] \in K
      BY <1>7 DEF Holds
    <3> QED
      BY <1>2, <1>3, <3>1 DEF Holds
  <2> QED
    BY <1>7, <2>1
<1>9. win.stash[o] = NoEvent
  <2>1. Holds(win.events, K)
    BY <1>7
  <2>2. (h = "rx" /\ o = "tx") \/ (h = "tx" /\ o = "rx")
    BY DEF Halves
  <2> QED
    BY <1>0, <1>4, <2>1, <2>2 DEF WinReads, WinWrites
<1> QED
  BY <1>7, <1>8, <1>9

\* poll_event, with a name for each of its values.
PollNames(h, o, w, m, p, q) ==
  /\ h \in Halves /\ o \in Halves /\ o # h /\ w = Polls(h) /\ w.events \in EventSeqs
  /\ m = FirstWanted(w.events, Wanted(h))
  /\ p = IF m = 0 THEN w.events ELSE SubSeq(w.events, 1, m - 1)
  /\ q = [w EXCEPT !.events = IF m = 0 THEN <<>> ELSE SubSeq(@, m + 1, Len(@)),
                   !.stash[o] = IF p = <<>> THEN @ ELSE Last(p),
                   !.dropped = @ \/ Len(p) > 1 \/ (p # <<>> /\ w.stash[o] # NoEvent)]

PollValue(h, w, m, q) ==
  IF w.stash[h] # NoEvent
  THEN [event |-> w.stash[h], state |-> [w EXCEPT !.stash[h] = NoEvent]]
  ELSE IF m = 0 THEN [event |-> NoEvent, state |-> HalfWaits(q, h)]
  ELSE [event |-> w.events[m], state |-> q]

LEMMA PollIs ==
  ASSUME NEW h, NEW o, NEW w, NEW m, NEW p, NEW q, PollNames(h, o, w, m, p, q)
  PROVE  PollEvent(h) = PollValue(h, w, m, q)
<1>1. (CHOOSE x \in Halves : x # h) = o
  BY DEF Halves, PollNames
<1>2. m = SelectInSeq(w.events, LAMBDA e : e \in Failures \/ (e \in WsReads) = (h = "rx"))
  BY WantedIs, Zenon DEF PollNames
<1> QED
  BY <1>1, <1>2 DEF PollEvent, PollNames, PollValue

\* Taking the first completion that is wanted splits the queue.
Splits(es, W, p, r, e) ==
  /\ p \in EventSeqs /\ r \in EventSeqs /\ ~Holds(p, W) /\ e \in (W \cap WinEvents) \cup {NoEvent}
  /\ e = NoEvent => r = <<>>
  /\ es = <<>> => p = <<>> /\ r = <<>> /\ e = NoEvent
  /\ \A K : NoEvent \notin K =>
       /\ Holds(es, K) <=> Holds(p, K) \/ Holds(r, K) \/ e \in K
       /\ Lone(es, K) => /\ Lone(r, K) /\ Lone(p, K)
                         /\ Holds(p, K) => ~Holds(r, K) /\ e \notin K
                         /\ e \in K => ~Holds(r, K)

LEMMA QueueSplits ==
  ASSUME NEW es \in EventSeqs, NEW W, NEW m, m = FirstWanted(es, W),
         NEW p, p = (IF m = 0 THEN es ELSE SubSeq(es, 1, m - 1)),
         NEW r, r = (IF m = 0 THEN <<>> ELSE SubSeq(es, m + 1, Len(es))),
         NEW e, e = (IF m = 0 THEN NoEvent ELSE es[m])
  PROVE  Splits(es, W, p, r, e)
<1>1. \/ m = 0 /\ ~Holds(es, W)
      \/ /\ m \in 1 .. Len(es) /\ m # 0 /\ es[m] \in W
         /\ \A i \in 1 .. Len(es) : es[i] \in W => m <= i
  <2>1. ~(0 \in 1 .. Len(es))
    BY LenProperties DEF EventSeqs
  <2> QED
    BY <2>1, FirstIsFirst
<1>2. CASE m = 0
  <2>1. p = es /\ r = <<>> /\ e = NoEvent /\ ~Holds(es, W)
    <3>1. ~(0 \in 1 .. Len(es))
      BY LenProperties DEF EventSeqs
    <3> QED
      BY <1>1, <1>2, <3>1
  <2>2. r \in EventSeqs /\ \A K : ~Holds(r, K) /\ Lone(r, K)
    BY <2>1, NoEvents, Zenon
  <2> QED
    BY <2>1, <2>2, Zenon DEF Splits
<1>3. CASE m # 0
  <2>1. /\ m \in 1 .. Len(es) /\ es[m] \in W /\ e = es[m] /\ r = SubSeq(es, m + 1, Len(es))
        /\ p = SubSeq(es, 1, m - 1) /\ \A i \in 1 .. Len(es) : es[i] \in W => m <= i
    BY <1>1, <1>3
  <2>2. /\ r \in EventSeqs /\ p \in EventSeqs
        /\ \A K : /\ Holds(es, K) <=> Holds(p, K) \/ Holds(r, K) \/ e \in K
                  /\ Lone(es, K) => /\ Lone(r, K) /\ Lone(p, K)
                                    /\ Holds(p, K) => ~Holds(r, K) /\ e \notin K
                                    /\ e \in K => ~Holds(r, K)
    <3>1. m \in 1 .. Len(es) /\ r = SubSeq(es, m + 1, Len(es)) /\ p = SubSeq(es, 1, m - 1)
      BY <2>1
    <3>2. /\ r \in EventSeqs /\ p \in EventSeqs
          /\ \A K : /\ Holds(es, K) <=> Holds(p, K) \/ Holds(r, K) \/ es[m] \in K
                    /\ Lone(es, K) => /\ Lone(r, K) /\ Lone(p, K)
                                      /\ Holds(p, K) => ~Holds(r, K) /\ es[m] \notin K
                                      /\ es[m] \in K => ~Holds(r, K)
      BY <3>1, PassedIsOne, Zenon
    <3>3. e = es[m]
      BY <2>1
    <3> QED
      BY <3>2, <3>3
  <2>3. e \in WinEvents /\ e # NoEvent /\ es # <<>>
    <3>1. e \in WinEvents
      BY <2>1, ElementOfSeq DEF EventSeqs
    <3>2. NoEvent \notin WinEvents
      BY DEF NoEvent, WinEvents, ReadEvents, WsReads, SendEvents, Failures
    <3>3. es # <<>>
      BY <2>1
    <3> QED
      BY <3>1, <3>2, <3>3
  <2>4. ~Holds(p, W)
    <3>1. es \in Seq(WinEvents) /\ Len(es) \in Nat
      BY LenProperties DEF EventSeqs
    <3>2. PICK n : n = Len(es)
      OBVIOUS
    <3>3. /\ Len(SubSeq(es, 1, m - 1)) = IF 1 <= m - 1 THEN m - 1 - 1 + 1 ELSE 0
          /\ \A i \in 1 .. m - 1 - 1 + 1 : SubSeq(es, 1, m - 1)[i] = es[1 + i - 1]
      BY SMTT(30), <2>1, <3>1, <3>2, SubSeqProperties
    <3>4. \A i \in 1 .. Len(p) : i \in 1 .. n /\ i < m /\ p[i] = es[i]
      BY SMTT(30), <2>1, <3>1, <3>2, <3>3
    <3> QED
      BY <2>1, <3>1, <3>2, <3>4 DEF Holds
  <2> QED
    BY <2>1, <2>2, <2>3, <2>4, Zenon DEF Splits
<1> QED
  BY <1>2, <1>3

\* What has come of a kind and is not yet used, in the queue or in a stash.
Owed(w, K) == Holds(w.events, K) \/ w.stash["rx"] \in K \/ w.stash["tx"] \in K
OwedOnce(w, K) ==
  Lone(w.events, K) /\ (Holds(w.events, K) => w.stash["rx"] \notin K /\ w.stash["tx"] \notin K)

SocketFrame(g, w) ==
  /\ g.ws = w.ws
  /\ g.at = w.at /\ g.upgraded = w.upgraded /\ g.req = w.req /\ g.sock = w.sock
  /\ g.ctx = w.ctx /\ g.ops = w.ops /\ g.secure = w.secure /\ g.buf = w.buf
  /\ g.lent = w.lent /\ g.body = w.body /\ g.payload = w.payload /\ g.rx = w.rx
  /\ g.tx = w.tx /\ g.frames = w.frames /\ g.sends = w.sends /\ g.told = w.told
  /\ g.crossed = w.crossed /\ g.panic = w.panic /\ g.odd = w.odd /\ g.garbage = w.garbage

\* A poll took e, if anything.
Passed(t, w, e) ==
  /\ t \in WinRec /\ SocketFrame(t, w) /\ StashFits(t) /\ ~t.dropped
  /\ \A K : NoEvent \notin K => (Owed(w, K) <=> Owed(t, K) \/ e \in K)
  /\ OwedOnce(t, ReadEvents) /\ (e \in ReadEvents => ~Owed(t, ReadEvents))
  /\ OwedOnce(t, SendEvents) /\ (e \in SendEvents => ~Owed(t, SendEvents))

LEMMA SoundIsOnce ==
  ASSUME NEW w, WinSound(w)
  PROVE  OwedOnce(w, ReadEvents) /\ OwedOnce(w, SendEvents) /\ StashFits(w)
<1>1. StashFits(w) /\ WinReads(w) /\ WinWrites(w)
  BY DEF WinSound, WinQueue, StashFits
<1>2. OwedOnce(w, ReadEvents)
  BY <1>1 DEF OwedOnce, StashFits, WinReads, ReadEvents, SendEvents, WsReads, NoEvent
<1>3. OwedOnce(w, SendEvents)
  BY <1>1 DEF OwedOnce, StashFits, WinWrites, ReadEvents, SendEvents, WsReads, NoEvent
<1> QED
  BY <1>1, <1>2, <1>3

LEMMA Unlisted == /\ NoEvent \notin WinEvents /\ NoEvent \notin ReadEvents
                  /\ NoEvent \notin SendEvents /\ NoEvent \notin Failures
                  /\ NoEvent \notin SocketForeign
  BY DEF NoEvent, WinEvents, ReadEvents, WsReads, SendEvents, Failures, SocketForeign

\* A half has been polled.
AtPoll(p, h) ==
  /\ p \in WinRec /\ p.parked = win.parked \ {h} /\ p.due = win.due \ {h}
  /\ p.ws = win.ws /\ p.at = win.at /\ p.upgraded = win.upgraded /\ p.req = win.req
  /\ p.sock = win.sock /\ p.ctx = win.ctx /\ p.ops = win.ops /\ p.secure = win.secure
  /\ p.buf = win.buf /\ p.lent = win.lent /\ p.body = win.body /\ p.payload = win.payload
  /\ p.events = win.events /\ p.waker = win.waker /\ p.rx = win.rx /\ p.tx = win.tx
  /\ p.stash = win.stash /\ p.frames = win.frames /\ p.sends = win.sends
  /\ p.told = win.told /\ p.crossed = win.crossed /\ p.panic = win.panic /\ p.odd = win.odd
  /\ p.dropped = win.dropped /\ p.garbage = win.garbage

LEMMA PollStarts ==
  ASSUME win \in WinRec, NEW h \in Halves, NEW p, p = Polls(h)
  PROVE  AtPoll(p, h)
  BY HalfPolled DEF AtPoll

\* The half's own stash.
LEMMA StashTaken ==
  ASSUME WinSound(win), win.at = "open", win.ws, NEW h \in Halves, win.stash[h] # NoEvent,
         NEW w, AtPoll(w, h), NEW s, s = [win.stash EXCEPT ![h] = NoEvent],
         NEW t, t = [w EXCEPT !.stash = s], NEW e, e = win.stash[h]
  PROVE  Passed(t, win, e) /\ WinSleeps(t)
<1>0. /\ win \in WinRec /\ WinLoans(win) /\ WinSleeps(win)
      /\ OwedOnce(win, ReadEvents) /\ OwedOnce(win, SendEvents) /\ StashFits(win)
  BY SoundIsOnce DEF WinSound
<1>1. /\ w \in WinRec /\ w.parked = win.parked \ {h} /\ w.due = win.due \ {h}
      /\ w.ws = win.ws /\ w.at = win.at /\ w.upgraded = win.upgraded /\ w.req = win.req
      /\ w.sock = win.sock /\ w.ctx = win.ctx /\ w.ops = win.ops /\ w.secure = win.secure
      /\ w.buf = win.buf /\ w.lent = win.lent /\ w.body = win.body
      /\ w.payload = win.payload /\ w.events = win.events /\ w.waker = win.waker
      /\ w.rx = win.rx /\ w.tx = win.tx /\ w.stash = win.stash /\ w.frames = win.frames
      /\ w.sends = win.sends /\ w.told = win.told /\ w.crossed = win.crossed
      /\ w.panic = win.panic /\ w.odd = win.odd /\ w.dropped = win.dropped
      /\ w.garbage = win.garbage
  BY DEF AtPoll
<1>2. win.stash \in Stashes
  BY <1>0 DEF WinRec
<1>4. /\ s \in Stashes /\ s[h] = NoEvent /\ \A o \in Halves : o # h => s[o] = win.stash[o]
      /\ "rx" \in Halves /\ "tx" \in Halves /\ h \in {"rx", "tx"}
  BY <1>2 DEF Stashes, Halves
<1>6. t \in WinRec
  BY <1>1, <1>4, ZenonT(60) DEF WinRec
<1>7. /\ t.stash = s
      /\ t.ws = w.ws /\ t.at = w.at /\ t.upgraded = w.upgraded /\ t.req = w.req
      /\ t.sock = w.sock /\ t.ctx = w.ctx /\ t.ops = w.ops /\ t.secure = w.secure
      /\ t.buf = w.buf /\ t.lent = w.lent /\ t.body = w.body /\ t.payload = w.payload
      /\ t.events = w.events /\ t.waker = w.waker /\ t.parked = w.parked /\ t.due = w.due
      /\ t.rx = w.rx /\ t.tx = w.tx /\ t.frames = w.frames /\ t.sends = w.sends
      /\ t.told = w.told /\ t.crossed = w.crossed /\ t.panic = w.panic /\ t.odd = w.odd
      /\ t.dropped = w.dropped /\ t.garbage = w.garbage
  BY <1>1 DEF WinRec
<1>8. SocketFrame(t, win) /\ ~t.dropped
  <2>1. SocketFrame(t, win)
    BY <1>1, <1>7, ZenonT(60) DEF SocketFrame
  <2>2. ~win.dropped /\ win.dropped = t.dropped
    BY <1>0, <1>1, <1>7 DEF WinLoans
  <2> QED
    BY <2>1, <2>2
<1>9. StashFits(t)
  <2>1. /\ s["rx"] \in {NoEvent, win.stash["rx"]} /\ s["tx"] \in {NoEvent, win.stash["tx"]}
        /\ t.stash = s /\ t.ws = win.ws
    <3>1. \A o \in Halves : s[o] \in {NoEvent, win.stash[o]}
      BY <1>4
    <3> QED
      BY <1>1, <1>4, <1>7, <3>1
  <2> QED
    BY <1>0, <2>1 DEF StashFits
<1>10. ASSUME NEW K, NoEvent \notin K PROVE Owed(win, K) <=> Owed(t, K) \/ e \in K
  BY <1>1, <1>4, <1>7, <1>10 DEF Owed
<1>11. ASSUME NEW K, NoEvent \notin K, OwedOnce(win, K) PROVE OwedOnce(t, K)
  BY <1>1, <1>4, <1>7, <1>11 DEF OwedOnce
<1>12. e \in ReadEvents => ~Owed(t, ReadEvents)
  BY <1>0, <1>1, <1>4, <1>7, Unlisted
     DEF Owed, OwedOnce, StashFits, ReadEvents, SendEvents, WsReads
<1>13. e \in SendEvents => ~Owed(t, SendEvents)
  BY <1>0, <1>1, <1>4, <1>7, Unlisted
     DEF Owed, OwedOnce, StashFits, ReadEvents, SendEvents, WsReads
<1>14. WinSleeps(t)
  BY <1>0, <1>1, <1>4, <1>7 DEF WinSleeps
<1>15. OwedOnce(t, ReadEvents) /\ OwedOnce(t, SendEvents)
  BY <1>0, <1>11, Unlisted
<1> QED
  BY <1>6, <1>8, <1>9, <1>10, <1>12, <1>13, <1>14, <1>15 DEF Passed

LEMMA ThreeSet ==
  ASSUME NEW w \in WinRec, NEW r \in EventSeqs, NEW s \in Stashes, NEW d \in BOOLEAN
  PROVE  [w EXCEPT !.events = r, !.stash = s, !.dropped = d] \in WinRec
  BY Zenon DEF WinRec

\* The queue, up to the first completion that the half wants.
QueueNames(h, o, w, p, r, e, x, s, d, q) ==
  /\ h \in Halves /\ o \in Halves /\ o # h /\ win.stash[h] = NoEvent /\ AtPoll(w, h)
  /\ Splits(win.events, Wanted(h), p, r, e)
  /\ x = IF p = <<>> THEN win.stash[o] ELSE Last(p)
  /\ s = [win.stash EXCEPT ![o] = x]
  /\ d = (w.dropped \/ Len(p) > 1 \/ (p # <<>> /\ w.stash[o] # NoEvent))
  /\ q = [w EXCEPT !.events = r, !.stash = s, !.dropped = d]

QueueLeft(q, e, h) ==
  /\ Passed(q, win, e) /\ WinSleeps(q) /\ e \in (Wanted(h) \cap WinEvents) \cup {NoEvent}
  /\ (e = NoEvent => q.events = <<>>) /\ q.stash[h] = NoEvent
  /\ \A k \in q.parked \ q.due : k # h /\ q.stash[k] = NoEvent

LEMMA QueueIsLeft ==
  ASSUME WinSound(win), win.at = "open", win.ws, NEW h, NEW o, NEW w, NEW p, NEW r, NEW e,
         NEW x, NEW s, NEW d, NEW q, QueueNames(h, o, w, p, r, e, x, s, d, q)
  PROVE  QueueLeft(q, e, h)
<1> h \in Halves /\ o \in Halves
  BY DEF QueueNames
<1> /\ o # h /\ win.stash[h] = NoEvent /\ AtPoll(w, h)
    /\ Splits(win.events, Wanted(h), p, r, e)
    /\ x = IF p = <<>> THEN win.stash[o] ELSE Last(p)
  BY DEF QueueNames
<1> /\ s = [win.stash EXCEPT ![o] = x]
    /\ d = (w.dropped \/ Len(p) > 1 \/ (p # <<>> /\ w.stash[o] # NoEvent))
    /\ q = [w EXCEPT !.events = r, !.stash = s, !.dropped = d]
  BY DEF QueueNames
<1>0. /\ win \in WinRec /\ WinLoans(win) /\ WinSleeps(win)
      /\ OwedOnce(win, ReadEvents) /\ OwedOnce(win, SendEvents) /\ StashFits(win)
  BY SoundIsOnce DEF WinSound
<1>1. /\ w \in WinRec /\ w.parked = win.parked \ {h} /\ w.due = win.due \ {h}
      /\ w.ws = win.ws /\ w.at = win.at /\ w.upgraded = win.upgraded /\ w.req = win.req
      /\ w.sock = win.sock /\ w.ctx = win.ctx /\ w.ops = win.ops /\ w.secure = win.secure
      /\ w.buf = win.buf /\ w.lent = win.lent /\ w.body = win.body
      /\ w.payload = win.payload /\ w.events = win.events /\ w.waker = win.waker
      /\ w.rx = win.rx /\ w.tx = win.tx /\ w.stash = win.stash /\ w.frames = win.frames
      /\ w.sends = win.sends /\ w.told = win.told /\ w.crossed = win.crossed
      /\ w.panic = win.panic /\ w.odd = win.odd /\ w.dropped = win.dropped
      /\ w.garbage = win.garbage
  BY DEF AtPoll
<1>2. PICK es : es = win.events
  OBVIOUS
<1>3. es \in EventSeqs /\ win.stash \in Stashes
  BY <1>0, <1>2 DEF WinRec
<1>4. Splits(es, Wanted(h), p, r, e)
  BY <1>2
<1>5. /\ p \in EventSeqs /\ r \in EventSeqs /\ ~Holds(p, Wanted(h))
      /\ e \in (Wanted(h) \cap WinEvents) \cup {NoEvent}
      /\ e = NoEvent => r = <<>>
      /\ es = <<>> => p = <<>> /\ r = <<>> /\ e = NoEvent
      /\ \A K : NoEvent \notin K =>
           /\ Holds(es, K) <=> Holds(p, K) \/ Holds(r, K) \/ e \in K
           /\ Lone(es, K) => /\ Lone(r, K) /\ Lone(p, K)
                             /\ Holds(p, K) => ~Holds(r, K) /\ e \notin K
                             /\ e \in K => ~Holds(r, K)
  BY <1>4 DEF Splits
<1>8. /\ ~(w.dropped \/ Len(p) > 1 \/ (p # <<>> /\ w.stash[o] # NoEvent))
      /\ \/ x = win.stash[o] /\ p = <<>>
         \/ x \in LeftBy(h) /\ win.stash[o] = NoEvent /\ p # <<>>
      /\ \A K : NoEvent \notin K => (x \in K <=> win.stash[o] \in K \/ Holds(p, K))
  <2>1. ~win.dropped
    BY <1>0 DEF WinLoans
  <2>2. CASE p = <<>>
    <3>1. Len(p) = 0 /\ x = win.stash[o] /\ \A K : ~Holds(p, K)
      BY <2>2, NoEvents
    <3> QED
      BY <1>1, <2>1, <2>2, <3>1
  <2>3. CASE p # <<>>
    <3>1. NoEvent \notin ReadEvents /\ NoEvent \notin SendEvents
      BY Unlisted
    <3>2. ASSUME NEW K PROVE Holds(p, K) => Holds(win.events, K)
      <4>1. \A i \in 1 .. Len(p) : p[i] \in WinEvents
        BY <1>5, ElementOfSeq DEF EventSeqs
      <4>2. Holds(p, K) => Holds(p, K \cap WinEvents)
        BY <4>1 DEF Holds
      <4>3. Holds(p, K \cap WinEvents) => Holds(es, K \cap WinEvents)
        <5>1. NoEvent \notin K \cap WinEvents
          BY Unlisted
        <5> QED
          BY <1>5, <5>1, Zenon
      <4> QED
        BY <1>2, <4>2, <4>3 DEF Holds
    <3>3. /\ Lone(win.events, SendEvents) => Lone(p, SendEvents)
          /\ Lone(win.events, ReadEvents) => Lone(p, ReadEvents)
      BY <1>2, <1>5, <3>1, Zenon
    <3>4. /\ ~(Len(p) > 1) /\ Last(p) \in LeftBy(h) /\ win.stash[o] = NoEvent
          /\ \A K : Holds(p, K) <=> Last(p) \in K
      BY <1>5, <2>3, <3>2, <3>3, PassedKind
    <3>5. x = Last(p)
      BY <2>3
    <3>6. ~(w.dropped \/ Len(p) > 1 \/ (p # <<>> /\ w.stash[o] # NoEvent))
      BY <1>1, <2>1, <3>4
    <3>7. \A K : NoEvent \notin K => (x \in K <=> win.stash[o] \in K \/ Holds(p, K))
      BY <3>4, <3>5, Zenon
    <3> QED
      BY <2>3, <3>4, <3>5, <3>6, <3>7
  <2> QED
    BY <2>2, <2>3
<1>9. d \in BOOLEAN /\ ~d
  BY <1>8, Zenon
<1>10. /\ h \in {"rx", "tx"} /\ o \in {"rx", "tx"} /\ "rx" \in Halves /\ "tx" \in Halves
       /\ LeftBy(h) \subseteq WinEvents
  BY DEF Halves, LeftBy, WinEvents, ReadEvents
<1>12. s \in Stashes /\ s[o] = x /\ s[h] = NoEvent
  BY <1>3, <1>8, <1>10 DEF Stashes
<1>14. q \in WinRec
  <2>1. /\ w \in WinRec /\ r \in EventSeqs /\ s \in Stashes /\ d \in BOOLEAN
        /\ q = [w EXCEPT !.events = r, !.stash = s, !.dropped = d]
    BY <1>1, <1>5, <1>9, <1>12
  <2> QED
    <3>1. w \in WinRec /\ r \in EventSeqs /\ s \in Stashes /\ d \in BOOLEAN
      BY <2>1
    <3>2. [w EXCEPT !.events = r, !.stash = s, !.dropped = d] \in WinRec
      BY <3>1, ThreeSet, Zenon
    <3> QED
      BY <2>1, <3>2, Zenon
<1>15. /\ q.events = r /\ q.stash = s /\ q.dropped = d
       /\ q.ws = w.ws /\ q.at = w.at /\ q.upgraded = w.upgraded /\ q.req = w.req
       /\ q.sock = w.sock /\ q.ctx = w.ctx /\ q.ops = w.ops /\ q.secure = w.secure
       /\ q.buf = w.buf /\ q.lent = w.lent /\ q.body = w.body /\ q.payload = w.payload
       /\ q.waker = w.waker /\ q.parked = w.parked /\ q.due = w.due /\ q.rx = w.rx
       /\ q.tx = w.tx /\ q.frames = w.frames /\ q.sends = w.sends /\ q.told = w.told
       /\ q.crossed = w.crossed /\ q.panic = w.panic /\ q.odd = w.odd
       /\ q.garbage = w.garbage
  BY <1>1 DEF WinRec
<1>16. SocketFrame(q, win) /\ ~q.dropped
  <2>1. SocketFrame(q, win)
    BY <1>1, <1>15, ZenonT(60) DEF SocketFrame
  <2> QED
    BY <1>9, <1>15, <2>1
<1>17. StashFits(q)
  <2>1. \/ h = "rx" /\ o = "tx" /\ s["rx"] = NoEvent
           /\ s["tx"] \in SendEvents \cup {win.stash["tx"]}
        \/ h = "tx" /\ o = "rx" /\ s["tx"] = NoEvent
           /\ s["rx"] \in WsReads \cup {win.stash["rx"]}
    BY <1>8, <1>10, <1>12 DEF LeftBy
  <2>2. q.stash = s /\ q.ws = win.ws
    BY <1>1, <1>15
  <2> QED
    BY <1>0, <2>1, <2>2 DEF StashFits
<1>18. ASSUME NEW K, NoEvent \notin K PROVE Owed(win, K) <=> Owed(q, K) \/ e \in K
  <2>1. /\ Holds(es, K) <=> Holds(p, K) \/ Holds(r, K) \/ e \in K
        /\ x \in K <=> win.stash[o] \in K \/ Holds(p, K)
    BY <1>5, <1>8, <1>18, Zenon
  <2> QED
    BY <1>2, <1>10, <1>12, <1>15, <1>18, <2>1 DEF Owed
<1>19. ASSUME NEW K, NoEvent \notin K, OwedOnce(win, K) PROVE OwedOnce(q, K) /\ (e \in K => ~Owed(q, K))
  <2>1. /\ Holds(es, K) <=> Holds(p, K) \/ Holds(r, K) \/ e \in K
        /\ x \in K <=> win.stash[o] \in K \/ Holds(p, K)
        /\ Lone(es, K) => /\ Lone(r, K) /\ Lone(p, K)
                          /\ Holds(p, K) => ~Holds(r, K) /\ e \notin K
                          /\ e \in K => ~Holds(r, K)
    BY <1>5, <1>8, <1>19, Zenon
  <2> QED
    BY <1>2, <1>10, <1>12, <1>15, <1>19, <2>1 DEF Owed, OwedOnce
<1>20. /\ OwedOnce(q, ReadEvents) /\ (e \in ReadEvents => ~Owed(q, ReadEvents))
       /\ OwedOnce(q, SendEvents) /\ (e \in SendEvents => ~Owed(q, SendEvents))
  BY <1>0, <1>19, Unlisted
<1>21. \A k \in q.parked \ q.due : k # h /\ win.events = <<>> /\ win.stash[k] = NoEvent
  BY <1>0, <1>1, <1>15 DEF WinSleeps
<1>22. \A k \in q.parked \ q.due : k \in Halves
  BY <1>14 DEF WinRec, SomeSides
<1>23. \A k \in q.parked \ q.due : k # h /\ q.stash[k] = NoEvent /\ q.events = <<>>
  BY <1>2, <1>5, <1>8, <1>10, <1>12, <1>15, <1>21, <1>22 DEF Halves
<1>24. WinSleeps(q)
  BY <1>0, <1>1, <1>15, <1>23 DEF WinSleeps
<1> QED
  BY <1>5, <1>12, <1>14, <1>15, <1>16, <1>17, <1>18, <1>20, <1>23, <1>24 DEF Passed, QueueLeft

\* What a poll leaves is in order.
SendTaken(t) ==
  /\ t.at = "open" /\ t.ops \cap {"write", "close"} = {} /\ t.stash["tx"] = NoEvent
  /\ ~Holds(t.events, SendEvents)
  /\ ~t.told /\ ~Holds(t.events, Failures) /\ t.rx = "reading" =>
       "recv" \in t.ops \/ t.stash["rx"] # NoEvent \/ Holds(t.events, ReadEvents)

LEMMA PassedIsTaken ==
  ASSUME WinSound(win), win.at = "open", win.ws, NEW t, NEW e, Passed(t, win, e), WinSleeps(t)
  PROVE  /\ WinTaken(t) /\ t.at = "open"
         /\ e = NoEvent => WinWaits(t)
         /\ e \in WsReads => ReadTaken(t)
         /\ e \in SendEvents => SendTaken(t)
         /\ win.tx = "sending" => e # "closed"
         /\ e \notin SocketForeign
<1>0. /\ WinHandles(win) /\ WinQueue(win) /\ WinReads(win) /\ WinWrites(win) /\ WinWaits(win)
      /\ WinLoans(win) /\ StashFits(win)
  BY SoundIsOnce DEF WinSound
<1>1. /\ t \in WinRec /\ StashFits(t) /\ ~t.dropped
      /\ OwedOnce(t, ReadEvents) /\ (e \in ReadEvents => ~Owed(t, ReadEvents))
      /\ OwedOnce(t, SendEvents) /\ (e \in SendEvents => ~Owed(t, SendEvents))
  BY DEF Passed
<1>2. /\ t.ws = win.ws
      /\ t.at = win.at /\ t.upgraded = win.upgraded /\ t.req = win.req /\ t.sock = win.sock
      /\ t.ctx = win.ctx /\ t.ops = win.ops /\ t.secure = win.secure /\ t.buf = win.buf
      /\ t.lent = win.lent /\ t.body = win.body /\ t.payload = win.payload /\ t.rx = win.rx
      /\ t.tx = win.tx /\ t.frames = win.frames /\ t.sends = win.sends /\ t.told = win.told
      /\ t.crossed = win.crossed /\ t.panic = win.panic /\ t.odd = win.odd
      /\ t.garbage = win.garbage
  BY DEF Passed, SocketFrame
<1>3. PICK R, S, F, N, C, O :
        /\ R = ReadEvents /\ S = SendEvents /\ F = Failures /\ N = SocketForeign
        /\ C = {"closed"} /\ O = {"wrote"}
  OBVIOUS
<1>4. /\ NoEvent \notin R /\ NoEvent \notin S /\ NoEvent \notin F /\ NoEvent \notin N
      /\ NoEvent \notin C /\ NoEvent \notin O
  BY <1>3, Unlisted DEF NoEvent
<1>5. /\ Owed(win, R) <=> Owed(t, R) \/ e \in R
      /\ Owed(win, S) <=> Owed(t, S) \/ e \in S
      /\ Owed(win, F) <=> Owed(t, F) \/ e \in F
      /\ Owed(win, N) <=> Owed(t, N) \/ e \in N
      /\ Owed(win, C) <=> Owed(t, C) \/ e \in C
      /\ Owed(win, O) <=> Owed(t, O) \/ e \in O
  BY <1>4, Zenon DEF Passed
<1>6. ASSUME NEW w, StashFits(w)
      PROVE  /\ Owed(w, R) <=> Holds(w.events, ReadEvents) \/ w.stash["rx"] # NoEvent
             /\ Owed(w, S) <=> Holds(w.events, SendEvents) \/ w.stash["tx"] # NoEvent
             /\ Owed(w, F) <=> Holds(w.events, Failures)
             /\ Owed(w, N) <=> Holds(w.events, SocketForeign)
             /\ Owed(w, C) <=> Holds(w.events, {"closed"}) \/ w.stash["tx"] = "closed"
             /\ Owed(w, O) <=> Holds(w.events, {"wrote"}) \/ w.stash["tx"] = "wrote"
  <2>1. w.stash["rx"] \in WsReads \cup {NoEvent} /\ w.stash["tx"] \in SendEvents \cup {NoEvent}
    BY <1>6 DEF StashFits
  <2>2. PICK a, b : a = w.stash["rx"] /\ b = w.stash["tx"]
    OBVIOUS
  <2>3. a \in WsReads \cup {NoEvent} /\ b \in SendEvents \cup {NoEvent}
    BY <2>1, <2>2
  <2>4. /\ a \in {"fragment", "message", "close", "none"} /\ b \in {"wrote", "closed", "none"}
        /\ NoEvent = "none"
    BY <2>3 DEF WsReads, SendEvents, NoEvent
  <2>5. /\ a \in R <=> a # NoEvent
        /\ b \notin R
    BY <1>3, <2>4 DEF ReadEvents, WsReads
  <2>6. /\ b \in S <=> b # NoEvent
        /\ a \notin S
    BY <1>3, <2>4 DEF SendEvents
  <2>7. a \notin F /\ b \notin F
    BY <1>3, <2>4 DEF Failures
  <2>8. a \notin N /\ b \notin N
    BY <1>3, <2>4, Unlisted DEF SocketForeign, WsReads, SendEvents
  <2>9. /\ b \in C <=> b = "closed"
        /\ b \in O <=> b = "wrote"
        /\ a \notin C /\ a \notin O
    BY <1>3, <2>4
  <2> QED
    BY <1>3, <2>2, <2>5, <2>6, <2>7, <2>8, <2>9 DEF Owed
<1>7. WinHandles(t)
  BY <1>0, <1>2 DEF WinHandles
<1>8. ~Holds(win.events, SocketForeign)
  BY <1>0 DEF WinQueue
<1>9. ~Owed(t, N) /\ e \notin N
  BY <1>0, <1>5, <1>6, <1>8
<1>10. WinQueue(t)
  <2>1. ~Holds(t.events, SocketForeign) /\ t.at = "open" /\ t.ws
    BY <1>1, <1>2, <1>6, <1>9
  <2> QED
    BY <1>1, <2>1 DEF WinQueue, StashFits
<1>11. WinReads(t)
  <2>1. "recv" \in win.ops \/ win.rx = "idle" => ~Owed(win, R)
    BY <1>0, <1>6 DEF WinReads
  <2>2. "recv" \in t.ops \/ t.rx = "idle" => ~Owed(t, R)
    BY <1>2, <1>5, <2>1
  <2>3. t.stash["rx"] # NoEvent => ~Holds(t.events, ReadEvents)
    <3>1. t.stash["rx"] # NoEvent => t.stash["rx"] \in ReadEvents
      BY <1>1 DEF StashFits, ReadEvents
    <3> QED
      BY <1>1, <3>1 DEF OwedOnce
  <2>4. win.rx = "idle" => "recv" \notin win.ops
    BY <1>0 DEF WinReads
  <2> QED
    BY <1>1, <1>2, <1>6, <2>2, <2>3, <2>4 DEF WinReads, OwedOnce
<1>12. WinWrites(t)
  <2>1. win.ops \cap {"write", "close"} # {} \/ win.tx = "idle" => ~Owed(win, S)
    BY <1>0, <1>6 DEF WinWrites
  <2>2. t.ops \cap {"write", "close"} # {} \/ t.tx = "idle" => ~Owed(t, S)
    BY <1>2, <1>5, <2>1
  <2>3. t.stash["tx"] # NoEvent => ~Holds(t.events, SendEvents)
    <3>1. t.stash["tx"] # NoEvent => t.stash["tx"] \in SendEvents
      BY <1>1 DEF StashFits
    <3> QED
      BY <1>1, <3>1 DEF OwedOnce
  <2>4. win.tx = "sending" => ~Owed(win, C)
    BY <1>0, <1>6 DEF WinWrites
  <2>5. t.tx = "sending" => ~Owed(t, C)
    BY <1>2, <1>5, <2>4
  <2>6. /\ ~({"write", "close"} \subseteq t.ops)
        /\ t.tx = "idle" => t.ops \cap {"write", "close"} = {}
        /\ t.tx = "sending" => "close" \notin t.ops
    BY <1>0, <1>2 DEF WinWrites
  <2> QED
    BY <1>1, <1>6, <2>2, <2>3, <2>5, <2>6 DEF WinWrites, OwedOnce
<1>13. WinLoans(t)
  <2>1. ~win.crossed => (Owed(win, R) => win.lent)
    BY <1>0, <1>6 DEF WinLoans
  <2>2. ~t.crossed => (t.stash["rx"] # NoEvent \/ Holds(t.events, ReadEvents) => t.lent)
    BY <1>1, <1>2, <1>5, <1>6, <2>1
  <2> QED
    BY <1>0, <1>1, <1>2, <2>2 DEF WinLoans
<1>14. WinTaken(t)
  BY <1>1, <1>7, <1>10, <1>11, <1>12, <1>13 DEF WinTaken
<1>15. ASSUME ~t.told, ~Holds(t.events, Failures), e \notin F
       PROVE  /\ t.rx = "reading" => "recv" \in t.ops \/ Owed(win, R)
              /\ t.tx = "sending" => "write" \in t.ops \/ Owed(win, O)
  <2>1. ~win.told /\ ~Owed(win, F)
    BY <1>1, <1>2, <1>5, <1>6, <1>15
  <2>2. ~Holds(win.events, Failures)
    BY <1>0, <1>6, <2>1
  <2>3. win.tx = "sending" => win.stash["tx"] # "closed"
    BY <1>0 DEF WinWrites
  <2>4. win.stash["tx"] # NoEvent => win.stash["tx"] \in {"wrote", "closed"}
    BY <1>0 DEF StashFits, SendEvents
  <2>5. win.rx = "reading" => "recv" \in win.ops \/ Owed(win, R)
    BY <1>0, <1>6, <2>1, <2>2 DEF WinWaits
  <2>6. win.tx = "sending" => "write" \in win.ops \/ Owed(win, O)
    BY <1>0, <1>6, <2>1, <2>2, <2>3, <2>4 DEF WinWaits
  <2> QED
    BY <1>2, <2>5, <2>6
<1>16. Owed(t, O) => t.stash["tx"] # NoEvent \/ Holds(t.events, {"wrote"})
  BY <1>1, <1>6 DEF NoEvent
<1>17. Owed(t, R) => t.stash["rx"] # NoEvent \/ Holds(t.events, ReadEvents)
  BY <1>1, <1>6
<1>18. e = NoEvent => WinWaits(t)
  BY <1>4, <1>5, <1>15, <1>16, <1>17 DEF WinWaits
<1>19. ASSUME e \in WsReads PROVE ReadTaken(t)
  <2>1. e \in R /\ e \notin F /\ e \notin O
    BY <1>3, <1>19 DEF WsReads, ReadEvents, Failures
  <2>2. Owed(win, R) /\ ~Owed(t, R)
    BY <1>1, <1>3, <1>5, <2>1
  <2>3. "recv" \notin win.ops /\ (~win.crossed => win.lent)
    BY <1>0, <1>6, <2>2 DEF WinReads, WinLoans
  <2>4. ~Holds(t.events, ReadEvents) /\ t.stash["rx"] = NoEvent
    BY <1>1, <1>6, <2>2
  <2>5. ~t.told /\ ~Holds(t.events, Failures) /\ t.tx = "sending" =>
          "write" \in t.ops \/ Owed(t, O)
    BY <1>5, <1>15, <2>1
  <2> QED
    BY <1>2, <1>16, <2>3, <2>4, <2>5 DEF ReadTaken
<1>20. ASSUME e \in SendEvents PROVE SendTaken(t)
  <2>1. e \in S /\ e \notin F /\ e \notin R
    BY <1>3, <1>20 DEF WsReads, ReadEvents, Failures, SendEvents
  <2>2. Owed(win, S) /\ ~Owed(t, S)
    BY <1>1, <1>3, <1>5, <2>1
  <2>3. win.ops \cap {"write", "close"} = {}
    BY <1>0, <1>6, <2>2 DEF WinWrites
  <2>4. ~Holds(t.events, SendEvents) /\ t.stash["tx"] = NoEvent
    BY <1>1, <1>6, <2>2
  <2>5. ~t.told /\ ~Holds(t.events, Failures) /\ t.rx = "reading" =>
          "recv" \in t.ops \/ Owed(t, R)
    BY <1>5, <1>15, <2>1
  <2> QED
    BY <1>2, <1>17, <2>3, <2>4, <2>5 DEF SendTaken
<1>21. win.tx = "sending" => e # "closed"
  <2>1. win.tx = "sending" => ~Owed(win, C)
    BY <1>0, <1>6 DEF WinWrites
  <2> QED
    BY <1>3, <1>5, <2>1
<1> QED
  BY <1>2, <1>3, <1>9, <1>14, <1>18, <1>19, <1>20, <1>21

\* What poll_event answers.
PollAnswer(r, h) ==
  \/ r.event = NoEvent /\ WinSound(r.state)
  \/ /\ r.event \in Wanted(h) /\ r.event # NoEvent
     /\ Passed(r.state, win, r.event) /\ WinSleeps(r.state)

LEMMA PollAnswers ==
  ASSUME WinSound(win), win.at = "open", win.ws, NEW h \in Halves
  PROVE  PollAnswer(PollEvent(h), h)
<1>0. win \in WinRec /\ WinSleeps(win) /\ StashFits(win)
  BY SoundIsOnce DEF WinSound
<1>1. PICK o \in Halves : o # h
  BY DEF Halves
<1>2. PICK w : w = Polls(h)
  OBVIOUS
<1>3. AtPoll(w, h)
  BY <1>0, <1>2, PollStarts
<1>4. w \in WinRec /\ w.events = win.events /\ w.stash = win.stash /\ w.dropped = win.dropped
  BY <1>3 DEF AtPoll
<1>5. w.events \in EventSeqs
  BY <1>4 DEF WinRec
<1>6. PICK m : m = FirstWanted(w.events, Wanted(h))
  OBVIOUS
<1>7. PICK p : p = (IF m = 0 THEN w.events ELSE SubSeq(w.events, 1, m - 1))
  OBVIOUS
<1>8. PICK q : q = [w EXCEPT !.events = IF m = 0 THEN <<>> ELSE SubSeq(@, m + 1, Len(@)),
                             !.stash[o] = IF p = <<>> THEN @ ELSE Last(p),
                             !.dropped = @ \/ Len(p) > 1 \/ (p # <<>> /\ w.stash[o] # NoEvent)]
  OBVIOUS
<1>9. PollEvent(h) = IF w.stash[h] # NoEvent
                     THEN [event |-> w.stash[h], state |-> [w EXCEPT !.stash[h] = NoEvent]]
                     ELSE IF m = 0 THEN [event |-> NoEvent, state |-> HalfWaits(q, h)]
                     ELSE [event |-> w.events[m], state |-> q]
  <2>1. PollNames(h, o, w, m, p, q)
    BY <1>1, <1>2, <1>5, <1>6, <1>7, <1>8, Zenon DEF PollNames
  <2>2. PollEvent(h) = PollValue(h, w, m, q)
    BY <2>1, PollIs, Zenon
  <2> QED
    BY <2>2 DEF PollValue
<1>10. CASE win.stash[h] # NoEvent
  <2>1. PICK s : s = [win.stash EXCEPT ![h] = NoEvent]
    OBVIOUS
  <2>2. PICK t, e : t = [w EXCEPT !.stash = s] /\ e = win.stash[h]
    OBVIOUS
  <2>3. PollEvent(h).event = e /\ PollEvent(h).state = [w EXCEPT !.stash[h] = NoEvent]
    BY <1>4, <1>9, <1>10, <2>2
  <2>4. [w EXCEPT !.stash[h] = NoEvent] = t
    BY <1>4, <2>1, <2>2, Zenon DEF WinRec
  <2>5. Passed(t, win, e) /\ WinSleeps(t)
    BY <1>3, <1>10, <2>1, <2>2, StashTaken
  <2>6. e \in Wanted(h)
    BY <1>0, <1>10, <2>2 DEF StashFits, Wanted, Halves, WinEvents, WsReads, SendEvents
  <2> QED
    BY <1>10, <2>2, <2>3, <2>4, <2>5, <2>6 DEF PollAnswer
<1>11. CASE win.stash[h] = NoEvent
  <2>1. PICK r, e : /\ r = (IF m = 0 THEN <<>> ELSE SubSeq(w.events, m + 1, Len(w.events)))
                    /\ e = (IF m = 0 THEN NoEvent ELSE w.events[m])
    OBVIOUS
  <2>2. Splits(win.events, Wanted(h), p, r, e)
    <3>1. Splits(w.events, Wanted(h), p, r, e)
      BY <1>5, <1>6, <1>7, <2>1, QueueSplits
    <3> QED
      BY <1>4, <3>1
  <2>3. PICK x : x = (IF p = <<>> THEN win.stash[o] ELSE Last(p))
    OBVIOUS
  <2>4. PICK s : s = [win.stash EXCEPT ![o] = x]
    OBVIOUS
  <2>5. PICK d : d = (w.dropped \/ Len(p) > 1 \/ (p # <<>> /\ w.stash[o] # NoEvent))
    OBVIOUS
  <2>6. PICK q1 : q1 = [w EXCEPT !.events = r, !.stash = s, !.dropped = d]
    OBVIOUS
  <2>7. q1 = q
    <3>1. q = [w EXCEPT !.events = r, !.stash[o] = x, !.dropped = d]
      BY <1>4, <1>8, <2>1, <2>3, <2>5, Zenon DEF WinRec
    <3> QED
      BY <1>4, <2>4, <2>6, <3>1, Zenon DEF WinRec
  <2>8. /\ Passed(q, win, e) /\ WinSleeps(q) /\ e \in (Wanted(h) \cap WinEvents) \cup {NoEvent}
        /\ (e = NoEvent => q.events = <<>>) /\ q.stash[h] = NoEvent
        /\ \A k \in q.parked \ q.due : k # h /\ q.stash[k] = NoEvent
    <3>1. /\ Passed(q1, win, e) /\ WinSleeps(q1)
          /\ e \in (Wanted(h) \cap WinEvents) \cup {NoEvent}
          /\ (e = NoEvent => q1.events = <<>>) /\ q1.stash[h] = NoEvent
          /\ \A k \in q1.parked \ q1.due : k # h /\ q1.stash[k] = NoEvent
      <4>1. QueueNames(h, o, w, p, r, e, x, s, d, q1)
        BY <1>1, <1>3, <1>11, <2>2, <2>3, <2>4, <2>5, <2>6, Zenon DEF QueueNames
      <4>2. QueueLeft(q1, e, h)
        BY <4>1, QueueIsLeft, Zenon
      <4> QED
        BY <4>2 DEF QueueLeft
    <3> QED
      BY <2>7, <3>1, Zenon
  <2>9. CASE m = 0
    <3>1. PICK t : t = HalfWaits(q, h)
      OBVIOUS
    <3>2. PollEvent(h).event = NoEvent /\ PollEvent(h).state = t
      BY <1>4, <1>9, <1>11, <2>9, <3>1
    <3>3. Passed(q, win, NoEvent) /\ q.events = <<>>
      BY <2>1, <2>8, <2>9
    <3>4. q \in WinRec
      BY <3>3 DEF Passed
    <3>5. WaitsNow(t, q, h)
      BY <3>1, <3>4, WaitsBegin
    <3>6. /\ t \in WinRec /\ t.waker = TRUE /\ t.parked = q.parked \cup {h}
          /\ t.events = q.events /\ t.stash = q.stash /\ t.due = q.due
      BY <3>5 DEF WaitsNow
    <3>7. SocketFrame(t, win) /\ ~t.dropped /\ t.ws = q.ws
      <4>1. SocketFrame(q, win) /\ ~q.dropped
        BY <3>3 DEF Passed
      <4>2. SocketFrame(t, win)
        BY <3>5, <4>1, ZenonT(60) DEF WaitsNow, SocketFrame
      <4>3. t.dropped = q.dropped /\ t.ws = q.ws
        BY <3>5 DEF WaitsNow
      <4> QED
        BY <4>1, <4>2, <4>3
    <3>8. Passed(t, win, NoEvent)
      <4>1. /\ StashFits(q) /\ OwedOnce(q, ReadEvents) /\ OwedOnce(q, SendEvents)
            /\ \A K : NoEvent \notin K => (Owed(win, K) <=> Owed(q, K) \/ NoEvent \in K)
        BY <3>3, Zenon DEF Passed
      <4>2. StashFits(t) /\ OwedOnce(t, ReadEvents) /\ OwedOnce(t, SendEvents)
        BY <3>6, <3>7, <4>1 DEF StashFits, OwedOnce
      <4>3. \A K : Owed(t, K) <=> Owed(q, K)
        BY <3>6 DEF Owed
      <4>4. \A K : NoEvent \notin K => (Owed(win, K) <=> Owed(t, K) \/ NoEvent \in K)
        BY <4>1, <4>3, Zenon
      <4>5. NoEvent \notin ReadEvents /\ NoEvent \notin SendEvents
        BY Unlisted
      <4> QED
        BY <3>6, <3>7, <4>2, <4>4, <4>5, Zenon DEF Passed
    <3>9. WinSleeps(t)
      BY <2>8, <3>3, <3>6 DEF WinSleeps
    <3>10. WinTaken(t) /\ WinWaits(t)
      BY <3>8, <3>9, PassedIsTaken
    <3>11. WinSound(t)
      BY <3>10 DEF WinTaken, WinSound
    <3> QED
      BY <3>2, <3>11 DEF PollAnswer
  <2>10. CASE m # 0
    <3>1. PollEvent(h).event = e /\ PollEvent(h).state = q
      BY <1>4, <1>9, <1>11, <2>1, <2>10
    <3>2. e \in WinEvents
      <4>1. m \in 1 .. Len(w.events)
        BY <1>5, <1>6, <2>10, FirstIsFirst
      <4> QED
        BY <1>5, <2>1, <2>10, <4>1, ElementOfSeq DEF EventSeqs
    <3>3. e # NoEvent /\ e \in Wanted(h)
      BY <2>8, <3>2, Unlisted
    <3> QED
      BY <2>8, <3>1, <3>3 DEF PollAnswer
  <2> QED
    BY <2>9, <2>10
<1> QED
  BY <1>10, <1>11

LEMMA SocketPolledKeeps == WinInv /\ SocketPolled => WinInv'
<1> SUFFICES ASSUME WinInv, SocketPolled PROVE WinSound(win')
  BY DEF WinInv
<1>0. WinSound(win) /\ win.at = "open" /\ win.ws /\ win.rx = "reading" /\ "rx" \in Halves
  BY DEF WinInv, SocketPolled, Halves
<1>1. PICK r, p, e, t : r = PollEvent("rx") /\ p = r.state /\ e = r.event /\ t = TakeRead(p)
  OBVIOUS
<1>2. /\ e = NoEvent => win' = p
      /\ e = "fragment" => win' = [t EXCEPT !.rx = "idle"]
      /\ e = "message" => \/ win' = [t EXCEPT !.rx = "idle"]
                          \/ win' = [t EXCEPT !.rx = "ended", !.told = TRUE]
      /\ e = "close" => win' = [t EXCEPT !.rx = "ended"]
      /\ e \in Failures => win' = [p EXCEPT !.rx = "ended", !.told = TRUE,
                                            !.odd = e \notin Failures]
  BY <1>1 DEF SocketPolled, Failures, NoEvent
<1>3. PollAnswer(r, "rx")
  BY <1>0, <1>1, PollAnswers
<1>4. CASE e = NoEvent /\ WinSound(p)
  BY <1>2, <1>4
<1>5. CASE e \in Wanted("rx") /\ Passed(p, win, e) /\ WinSleeps(p)
  <2>1. /\ WinTaken(p) /\ p.at = "open"
        /\ e \in WsReads => ReadTaken(p)
    BY <1>0, <1>5, PassedIsTaken
  <2>2. p \in WinRec /\ ~p.panic /\ "idle" \in RxStates /\ "ended" \in RxStates
    BY <2>1 DEF WinTaken, WinLoans, RxStates
  <2>3. e \in WsReads \/ e \in Failures
    BY <1>5 DEF Wanted
  <2>4. CASE e \in WsReads
    <3>1. ReadTaken(p) /\ p.buf # "loaned"
      BY <2>1, <2>4 DEF ReadTaken, WinTaken, WinLoans
    <3>2. ReadOut(t, p)
      BY <1>1, <2>2, TakeReadIs
    <3>3. /\ t \in WinRec /\ (t.panic <=> p.panic \/ p.buf = "loaned")
          /\ t.garbage <=> p.garbage \/ ~p.lent
          /\ t.ws = p.ws /\ t.at = p.at /\ t.upgraded = p.upgraded /\ t.req = p.req
          /\ t.sock = p.sock /\ t.ctx = p.ctx /\ t.ops = p.ops /\ t.secure = p.secure
          /\ t.buf = p.buf /\ t.body = p.body /\ t.payload = p.payload
          /\ t.events = p.events /\ t.waker = p.waker /\ t.parked = p.parked
          /\ t.due = p.due /\ t.rx = p.rx /\ t.tx = p.tx /\ t.stash = p.stash
          /\ t.frames = p.frames /\ t.sends = p.sends /\ t.told = p.told
          /\ t.crossed = p.crossed /\ t.odd = p.odd /\ t.dropped = p.dropped
      BY <3>2 DEF ReadOut
    <3>4. \/ win' = [t EXCEPT !.rx = "idle"]
          \/ win' = [t EXCEPT !.rx = "ended", !.told = TRUE]
          \/ win' = [t EXCEPT !.rx = "ended"]
      BY <1>2, <2>4 DEF WsReads
    <3>5. ASSUME NEW g, NEW x \in {"idle", "ended"}, NEW y \in BOOLEAN, t.told => y,
                 g = [t EXCEPT !.rx = x, !.told = y]
          PROVE  WinSound(g)
      <4>1. x \in RxStates
        BY DEF RxStates
      <4>2. g \in WinRec
        BY <3>3, <3>5, <4>1, ZenonT(60) DEF WinRec
      <4>3. /\ g.rx = x /\ g.told = y
            /\ g.ws = t.ws /\ g.at = t.at /\ g.upgraded = t.upgraded /\ g.req = t.req
            /\ g.sock = t.sock /\ g.ctx = t.ctx /\ g.ops = t.ops /\ g.secure = t.secure
            /\ g.buf = t.buf /\ g.lent = t.lent /\ g.body = t.body /\ g.payload = t.payload
            /\ g.events = t.events /\ g.waker = t.waker /\ g.parked = t.parked
            /\ g.due = t.due /\ g.tx = t.tx /\ g.stash = t.stash /\ g.frames = t.frames
            /\ g.sends = t.sends /\ g.crossed = t.crossed /\ g.panic = t.panic
            /\ g.odd = t.odd /\ g.dropped = t.dropped /\ g.garbage = t.garbage
        BY <3>3, <3>5 DEF WinRec
      <4>4. RxFrame(g, p)
        BY <3>3, <4>3 DEF RxFrame
      <4>5. /\ g.rx \in {"idle", "ended"} /\ ~g.panic /\ (g.garbage => p.garbage \/ ~p.lent)
            /\ p.told => g.told
        BY <2>2, <3>1, <3>3, <3>5, <4>3
      <4> QED
        BY <2>1, <3>1, <4>2, <4>4, <4>5, ReadEnds
    <3>6. t.told \in BOOLEAN
      BY <3>3 DEF WinRec
    <3>7. /\ [t EXCEPT !.rx = "idle"] = [t EXCEPT !.rx = "idle", !.told = t.told]
          /\ [t EXCEPT !.rx = "ended"] = [t EXCEPT !.rx = "ended", !.told = t.told]
      BY <3>3 DEF WinRec
    <3>8. /\ WinSound([t EXCEPT !.rx = "idle", !.told = t.told])
          /\ WinSound([t EXCEPT !.rx = "ended", !.told = t.told])
          /\ WinSound([t EXCEPT !.rx = "ended", !.told = TRUE])
      BY <3>5, <3>6
    <3> QED
      BY <3>4, <3>7, <3>8
  <2>5. CASE e \in Failures
    <3>1. PICK f : f = (e \notin Failures)
      OBVIOUS
    <3>2. f = FALSE
      BY <2>5, <3>1
    <3>3. PICK g : g = [p EXCEPT !.rx = "ended", !.told = TRUE, !.odd = FALSE]
      OBVIOUS
    <3>4. win' = g
      BY <1>2, <2>5, <3>1, <3>2, <3>3
    <3>5. g \in WinRec
      BY <2>2, <3>3, ZenonT(60) DEF WinRec
    <3>6. /\ g.rx = "ended" /\ g.told = TRUE /\ g.odd = FALSE
          /\ g.ws = p.ws /\ g.at = p.at /\ g.upgraded = p.upgraded /\ g.req = p.req
          /\ g.sock = p.sock /\ g.ctx = p.ctx /\ g.ops = p.ops /\ g.secure = p.secure
          /\ g.buf = p.buf /\ g.lent = p.lent /\ g.body = p.body /\ g.payload = p.payload
          /\ g.events = p.events /\ g.waker = p.waker /\ g.parked = p.parked
          /\ g.due = p.due /\ g.tx = p.tx /\ g.stash = p.stash /\ g.frames = p.frames
          /\ g.sends = p.sends /\ g.crossed = p.crossed /\ g.panic = p.panic
          /\ g.dropped = p.dropped /\ g.garbage = p.garbage
      BY <2>2, <3>3 DEF WinRec
    <3> QED
      BY <2>1, <3>4, <3>5, <3>6, FailureEndsHalf
  <2> QED
    BY <2>3, <2>4, <2>5
<1> QED
  BY <1>1, <1>3, <1>4, <1>5 DEF PollAnswer

------------------------------------------------------------------------------
(* The sending half.                                                       *)

LEMMA SendEnds ==
  ASSUME NEW t, WinTaken(t), SendTaken(t), NEW g, g = [t EXCEPT !.tx = "idle"]
  PROVE  WinSound(g)
<1>0. /\ t \in WinRec /\ WinHandles(t) /\ WinQueue(t) /\ WinReads(t)
      /\ WinWrites(t) /\ WinLoans(t) /\ WinSleeps(t)
  BY DEF WinTaken
<1>1. "idle" \in TxStates
  BY DEF TxStates
<1>2. g \in WinRec
  BY <1>0, <1>1, ZenonT(60) DEF WinRec
<1>3. /\ g.tx = "idle"
      /\ g.ws = t.ws /\ g.at = t.at /\ g.upgraded = t.upgraded /\ g.req = t.req
      /\ g.sock = t.sock /\ g.ctx = t.ctx /\ g.ops = t.ops /\ g.secure = t.secure
      /\ g.buf = t.buf /\ g.lent = t.lent /\ g.body = t.body /\ g.payload = t.payload
      /\ g.events = t.events /\ g.waker = t.waker /\ g.parked = t.parked /\ g.due = t.due
      /\ g.rx = t.rx /\ g.stash = t.stash /\ g.frames = t.frames /\ g.sends = t.sends
      /\ g.told = t.told /\ g.crossed = t.crossed /\ g.panic = t.panic /\ g.odd = t.odd
      /\ g.dropped = t.dropped /\ g.garbage = t.garbage
  BY <1>0 DEF WinRec
<1>4. WinHandles(g)
  BY <1>0, <1>3 DEF WinHandles
<1>5. WinQueue(g)
  BY <1>0, <1>3 DEF WinQueue
<1>6. WinReads(g)
  BY <1>0, <1>3 DEF WinReads
<1>7. WinWrites(g)
  BY <1>0, <1>3 DEF WinWrites, SendTaken
<1>8. WinWaits(g)
  BY <1>3 DEF WinWaits, SendTaken
<1>9. WinLoans(g)
  BY <1>0, <1>3 DEF WinLoans
<1>10. WinSleeps(g)
  BY <1>0, <1>3, SleepsStay
<1> QED
  BY <1>2, <1>4, <1>5, <1>6, <1>7, <1>8, <1>9, <1>10 DEF WinSound

LEMMA FlushPolledKeeps == WinInv /\ FlushPolled => WinInv'
<1> SUFFICES ASSUME WinInv, FlushPolled PROVE WinSound(win')
  BY DEF WinInv
<1>0. WinSound(win) /\ win.at = "open" /\ win.ws /\ win.tx = "sending" /\ "tx" \in Halves
  BY DEF WinInv, FlushPolled, Halves
<1>1. PICK r, p, e : r = PollEvent("tx") /\ p = r.state /\ e = r.event
  OBVIOUS
<1>2. /\ e = NoEvent => win' = p
      /\ e = "wrote" => win' = [p EXCEPT !.tx = "idle"]
      /\ e \in Failures => win' = [p EXCEPT !.tx = "closed", !.told = TRUE,
                                            !.odd = e \notin Failures]
  BY <1>1 DEF FlushPolled, Failures, NoEvent
<1>3. PollAnswer(r, "tx")
  BY <1>0, <1>1, PollAnswers
<1>4. CASE e = NoEvent /\ WinSound(p)
  BY <1>2, <1>4
<1>5. CASE e \in Wanted("tx") /\ Passed(p, win, e) /\ WinSleeps(p)
  <2>1. /\ WinTaken(p) /\ p.at = "open" /\ e # "closed" /\ e \notin SocketForeign
        /\ e \in SendEvents => SendTaken(p)
    BY <1>0, <1>5, PassedIsTaken
  <2>2. p \in WinRec /\ "closed" \in TxStates
    BY <2>1 DEF WinTaken, TxStates
  <2>3. e = "wrote" \/ e \in Failures
    BY <1>5, <2>1 DEF Wanted, SocketForeign, SendEvents
  <2>4. CASE e = "wrote"
    <3>1. SendTaken(p) /\ win' = [p EXCEPT !.tx = "idle"]
      BY <1>2, <2>1, <2>4 DEF SendEvents
    <3> QED
      BY <2>1, <3>1, SendEnds
  <2>5. CASE e \in Failures
    <3>1. PICK f : f = (e \notin Failures)
      OBVIOUS
    <3>2. f = FALSE
      BY <2>5, <3>1
    <3>3. PICK g : g = [p EXCEPT !.tx = "closed", !.told = TRUE, !.odd = FALSE]
      OBVIOUS
    <3>4. win' = g
      BY <1>2, <2>5, <3>1, <3>2, <3>3
    <3>5. g \in WinRec
      BY <2>2, <3>3, ZenonT(60) DEF WinRec
    <3>6. /\ g.tx = "closed" /\ g.told = TRUE /\ g.odd = FALSE
          /\ g.ws = p.ws /\ g.at = p.at /\ g.upgraded = p.upgraded /\ g.req = p.req
          /\ g.sock = p.sock /\ g.ctx = p.ctx /\ g.ops = p.ops /\ g.secure = p.secure
          /\ g.buf = p.buf /\ g.lent = p.lent /\ g.body = p.body /\ g.payload = p.payload
          /\ g.events = p.events /\ g.waker = p.waker /\ g.parked = p.parked
          /\ g.due = p.due /\ g.rx = p.rx /\ g.stash = p.stash /\ g.frames = p.frames
          /\ g.sends = p.sends /\ g.crossed = p.crossed /\ g.panic = p.panic
          /\ g.dropped = p.dropped /\ g.garbage = p.garbage
      BY <2>2, <3>3 DEF WinRec
    <3> QED
      BY <2>1, <3>4, <3>5, <3>6, FailureEndsHalf
  <2> QED
    BY <2>3, <2>4, <2>5
<1> QED
  BY <1>1, <1>3, <1>4, <1>5 DEF PollAnswer

\* A send or a close begins, or is refused.
LEMMA SendBegins ==
  ASSUME WinSound(win), win.at = "open", win.ws, win.tx = "idle",
         NEW o \in SomeOps, NEW y \in BOOLEAN, NEW x \in TxStates, NEW n \in Nat,
         NEW g, g = [win EXCEPT !.sends = n, !.payload = y, !.ops = o, !.tx = x],
         \/ o = win.ops \cup {"write"} /\ y = TRUE /\ x = "sending"
         \/ o = win.ops \cup {"close"} /\ x = "closed"
         \/ o = win.ops /\ x = "closed"
         \/ o = win.ops /\ x = "idle"
  PROVE  WinSound(g)
<1>0. /\ win \in WinRec /\ WinHandles(win) /\ WinQueue(win) /\ WinReads(win)
      /\ WinWrites(win) /\ WinWaits(win) /\ WinLoans(win) /\ WinSleeps(win)
  BY DEF WinSound
<1>1. g \in WinRec
  BY <1>0, ZenonT(60) DEF WinRec
<1>2. /\ g.sends = n /\ g.payload = y /\ g.ops = o /\ g.tx = x
      /\ g.ws = win.ws /\ g.at = win.at /\ g.upgraded = win.upgraded /\ g.req = win.req
      /\ g.sock = win.sock /\ g.ctx = win.ctx /\ g.secure = win.secure /\ g.buf = win.buf
      /\ g.lent = win.lent /\ g.body = win.body /\ g.events = win.events
      /\ g.waker = win.waker /\ g.parked = win.parked /\ g.due = win.due /\ g.rx = win.rx
      /\ g.stash = win.stash /\ g.frames = win.frames /\ g.told = win.told
      /\ g.crossed = win.crossed /\ g.panic = win.panic /\ g.odd = win.odd
      /\ g.dropped = win.dropped /\ g.garbage = win.garbage
  BY <1>0 DEF WinRec
<1>3. /\ win.ops \cap {"write", "close"} = {} /\ win.stash["tx"] = NoEvent
      /\ ~Holds(win.events, SendEvents)
  BY <1>0 DEF WinWrites
<1>4. ~Holds(win.events, {"closed"})
  BY <1>3 DEF Holds, SendEvents
<1>5. WinHandles(g)
  BY <1>0, <1>2 DEF WinHandles
<1>6. WinQueue(g)
  BY <1>0, <1>2 DEF WinQueue
<1>7. WinReads(g)
  BY <1>0, <1>2 DEF WinReads
<1>8. WinWrites(g)
  BY <1>0, <1>2, <1>3, <1>4 DEF WinWrites, NoEvent
<1>9. WinWaits(g)
  BY <1>0, <1>2 DEF WinWaits
<1>10. WinLoans(g)
  BY <1>0, <1>2, <1>3 DEF WinLoans
<1>11. WinSleeps(g)
  <2>1. /\ WinSleeps(win) /\ g.events = win.events /\ g.waker = win.waker
        /\ g.parked = win.parked /\ g.due = win.due /\ g.stash = win.stash
    BY <1>0, <1>2
  <2> QED
    BY <2>1, Zenon DEF WinSleeps
<1> QED
  BY <1>1, <1>5, <1>6, <1>7, <1>8, <1>9, <1>10, <1>11 DEF WinSound

LEMMA StartSendWinKeeps == WinInv /\ StartSendWin => WinInv'
<1> SUFFICES ASSUME WinInv, StartSendWin PROVE WinSound(win')
  BY DEF WinInv
<1>0. /\ WinSound(win) /\ win.at = "open" /\ win.ws /\ win.tx = "idle" /\ win \in WinRec
  BY DEF WinInv, StartSendWin, WinSound
<1>1. PICK n, s, wr, cl :
        /\ n = win.sends + 1 /\ s = win.sends /\ wr = win.ops \cup {"write"}
        /\ cl = win.ops \cup {"close"}
  OBVIOUS
<1>2. /\ n \in Nat /\ s \in Nat /\ wr \in SomeOps /\ cl \in SomeOps /\ win.ops \in SomeOps
      /\ win.payload \in BOOLEAN
  BY <1>0, <1>1 DEF WinRec, SomeOps, WinOps
<1>3. "sending" \in TxStates /\ "closed" \in TxStates /\ "idle" \in TxStates
  BY DEF TxStates
<1>4. \/ win' = [[win EXCEPT !.sends = n] EXCEPT !.payload = TRUE, !.ops = @ \cup {"write"},
                                                !.tx = "sending"]
      \/ win' = [[win EXCEPT !.sends = n] EXCEPT !.payload = FALSE]
      \/ win' = [win EXCEPT !.tx = "closed", !.ops = @ \cup {"close"}]
      \/ win' = [win EXCEPT !.tx = "closed"]
  <2>1. [win EXCEPT !.sends = @ + 1] = [win EXCEPT !.sends = n]
    BY <1>0, <1>1, Zenon DEF WinRec
  <2> QED
    BY <2>1, Zenon DEF StartSendWin, WsSend, WsClose
<1>5. /\ [[win EXCEPT !.sends = n] EXCEPT !.payload = TRUE, !.ops = @ \cup {"write"},
                                         !.tx = "sending"]
           = [win EXCEPT !.sends = n, !.payload = TRUE, !.ops = wr, !.tx = "sending"]
      /\ [[win EXCEPT !.sends = n] EXCEPT !.payload = FALSE]
           = [win EXCEPT !.sends = n, !.payload = FALSE, !.ops = win.ops, !.tx = "idle"]
      /\ [win EXCEPT !.tx = "closed", !.ops = @ \cup {"close"}]
           = [win EXCEPT !.sends = s, !.payload = win.payload, !.ops = cl, !.tx = "closed"]
      /\ [win EXCEPT !.tx = "closed"]
           = [win EXCEPT !.sends = s, !.payload = win.payload, !.ops = win.ops,
                         !.tx = "closed"]
  BY ZenonT(60), <1>0, <1>1 DEF WinRec
<1>6. /\ WinSound([win EXCEPT !.sends = n, !.payload = TRUE, !.ops = wr, !.tx = "sending"])
      /\ WinSound([win EXCEPT !.sends = n, !.payload = FALSE, !.ops = win.ops, !.tx = "idle"])
      /\ WinSound([win EXCEPT !.sends = s, !.payload = win.payload, !.ops = cl,
                              !.tx = "closed"])
      /\ WinSound([win EXCEPT !.sends = s, !.payload = win.payload, !.ops = win.ops,
                              !.tx = "closed"])
  BY <1>0, <1>1, <1>2, <1>3, SendBegins
<1> QED
  BY <1>4, <1>5, <1>6

------------------------------------------------------------------------------
(* Every step.                                                             *)

LEMMA WinKeeps == WinInv /\ WinNext => WinInv'
  BY SendRequestCompleteKeeps, HeadersAvailableKeeps, ReadCompleteKeeps, WriteCompleteKeeps,
     CloseCompleteKeeps, SecureFailureKeeps, RequestErrorKeeps, HandleClosingKeeps,
     ExecuteKeeps, AwaitsSendKeeps, AwaitsHeadKeeps, WinDroppedKeeps, BodyAsksKeeps,
     BodyPolledKeeps, SocketPolledKeeps, StartSendWinKeeps, FlushPolledKeeps, Zenon
     DEF WinNext

LEMMA WinStays == WinInv /\ UNCHANGED win => WinInv'
  BY Zenon DEF WinInv

LEMMA WinBegins == WinInit => WinInv
<1> SUFFICES ASSUME WinInit PROVE WinSound(win)
  BY DEF WinInv
<1>1. PICK b, z, s : b \in BOOLEAN /\ z = FALSE /\ s = [h \in Halves |-> NoEvent]
                     /\ win = [ws |-> b, at |-> "new", upgraded |-> z, req |-> "none",
                           sock |-> "none", ctx |-> {}, ops |-> {}, secure |-> z,
                           buf |-> "home", lent |-> z, body |-> z, payload |-> z,
                           events |-> <<>>, waker |-> z, parked |-> {}, due |-> {},
                           rx |-> "idle", tx |-> "idle", stash |-> s, frames |-> 0,
                           sends |-> 0, told |-> z, crossed |-> z, panic |-> z, odd |-> z,
                           dropped |-> z, garbage |-> z]
  <2>1. \A x \in BOOLEAN : TRUE
    OBVIOUS
  <2> QED
    BY ZenonT(60) DEF WinInit
<1>2. /\ z \in BOOLEAN /\ "new" \in WinPlaces /\ "none" \in HandleStates
      /\ {} \in SomeHandles /\ {} \in SomeOps /\ "home" \in BufPlaces /\ {} \in SomeSides
      /\ "idle" \in RxStates /\ "idle" \in TxStates /\ s \in Stashes /\ 0 \in Nat
      /\ <<>> \in EventSeqs
  BY <1>1, NoEvents DEF WinPlaces, HandleStates, SomeHandles, SomeOps, BufPlaces, SomeSides,
     RxStates, TxStates, Stashes
<1>3. win \in WinRec
  BY <1>1, <1>2, Zenon DEF WinRec
<1>4. /\ win.at = "new" /\ win.upgraded = z /\ win.req = "none" /\ win.sock = "none"
      /\ win.ctx = {} /\ win.ops = {} /\ win.secure = z /\ win.buf = "home"
      /\ win.events = <<>> /\ win.parked = {} /\ win.due = {} /\ win.rx = "idle"
      /\ win.tx = "idle" /\ win.stash = s /\ win.crossed = z /\ win.panic = z
      /\ win.odd = z /\ win.dropped = z /\ win.garbage = z /\ ~z
  BY <1>1
<1>5. s["rx"] = NoEvent /\ s["tx"] = NoEvent
  BY <1>1 DEF Halves
<1>6. \A K : ~Holds(win.events, K) /\ Lone(win.events, K)
  BY <1>4, NoEvents, Zenon
<1>7. WinHandles(win)
  BY <1>4 DEF WinHandles
<1>8. WinQueue(win)
  BY <1>4, <1>5 DEF WinQueue
<1>9. WinReads(win)
  BY <1>4, <1>5, <1>6 DEF WinReads
<1>10. WinWrites(win)
  BY <1>4, <1>5, <1>6 DEF WinWrites
<1>11. WinWaits(win)
  BY <1>4 DEF WinWaits
<1>12. WinLoans(win)
  BY <1>4, <1>5, <1>6 DEF WinLoans
<1>13. WinSleeps(win)
  BY <1>4 DEF WinSleeps
<1> QED
  BY <1>3, <1>7, <1>8, <1>9, <1>10, <1>11, <1>12, <1>13 DEF WinSound

\* What it promises.
LEMMA WinPromise == WinInv => WinHttpHolds
<1> SUFFICES ASSUME WinInv PROVE WinHttpHolds
  OBVIOUS
<1>0. /\ win \in WinRec /\ WinHandles(win) /\ WinQueue(win) /\ WinReads(win)
      /\ WinWrites(win) /\ WinWaits(win) /\ WinLoans(win) /\ WinSleeps(win)
  BY DEF WinInv, WinSound
<1>1. WinTypeOK
  BY <1>0 DEF WinTypeOK, WinRec, WinPlaces, HandleStates, SomeOps, WinOps, BufPlaces, RxStates,
     TxStates, WinSleeps
<1>2. ContextOutlivesCallbacks
  <2>1. \A op \in win.ops : HandleOf(op) \in win.ctx
    BY <1>0 DEF WinHandles, HandleOf
  <2>2. \A h \in {"req", "sock"} : win[h] \in {"none", "closed"} => h \notin win.ctx
    BY <1>0 DEF WinHandles
  <2> QED
    BY <2>1, <2>2 DEF ContextOutlivesCallbacks
<1>3. LoansHold
  BY <1>0 DEF LoansHold, WinLoans
<1>4. CompletionsAreUsed
  BY <1>0 DEF CompletionsAreUsed, WinLoans
<1>5. NoHalfIsForgotten
  BY <1>0 DEF NoHalfIsForgotten, WinSleeps
<1>6. WaitsForSomething
  <2>1. DOMAIN win.events = 1 .. Len(win.events)
    BY <1>0, LenProperties DEF WinRec, EventSeqs
  <2>2. ASSUME NEW es, NEW K, K \subseteq es, Holds(win.events, K) \/ Holds(win.events, Failures)
        PROVE  \E i \in DOMAIN win.events : win.events[i] \in es \cup Failures
    BY <2>1, <2>2 DEF Holds
  <2>3. ReadEvents \subseteq WsReads \cup {"read", "end"}
    BY DEF ReadEvents
  <2>4. PICK R, O : R = WsReads \cup {"read", "end"} /\ O = {"wrote"}
    OBVIOUS
  <2>5. /\ Holds(win.events, ReadEvents) \/ Holds(win.events, Failures) =>
             \E i \in DOMAIN win.events : win.events[i] \in R \cup Failures
        /\ Holds(win.events, O) \/ Holds(win.events, Failures) =>
             \E i \in DOMAIN win.events : win.events[i] \in O \cup Failures
    <3>1. ReadEvents \subseteq R /\ O \subseteq O
      BY <2>3, <2>4
    <3> QED
      BY <2>2, <3>1
  <2> QED
    BY <1>0, <2>4, <2>5 DEF WaitsForSomething, WinWaits
<1> QED
  BY <1>1, <1>2, <1>3, <1>4, <1>5, <1>6 DEF WinHttpHolds
=============================================================================
