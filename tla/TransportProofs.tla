--------------------------- MODULE TransportProofs ---------------------------
(***************************************************************************)
(* The parts of the transports beside the pool and the request loop, for   *)
(* any number of requests, tasks, sessions, chunks and datagrams, and the  *)
(* bindings to a browser's fetch and to URLSession.  Every part has an     *)
(* inductive invariant of its own; PartsMove says what a step of the       *)
(* composition is to each part: one of its own, or none.                   *)
(***************************************************************************)
EXTENDS MCTransport, FiniteSetTheorems, SequenceTheorems, NaturalsInduction,
        WellFoundedInduction, TLAPS

------------------------------------------------------------------------------
(* Requests that share HTTP/3 connections (http3/staged.rs, mod.rs). *)

ConnType ==
  [made : BOOLEAN, alive : BOOLEAN, zeroRtt : {"none", "pending", "accepted", "rejected"},
   told : BOOLEAN, closes : Nat]

ReqType ==
  [pc : {"idle", "resolving", "dialling", "staged", "sent", "verdict", "replayed", "body", "done"},
   early : BOOLEAN, dialEarly : BOOLEAN, conn : 0..MaxConns, inEarly : BOOLEAN,
   upload : {"none", "writing", "finished", "cancelled"}, here : BOOLEAN, arrived : Nat]

H3Typed ==
  /\ h3Pool \in [BOOLEAN -> 0..MaxConns]
  /\ h3Conn \in [H3Ids -> ConnType]
  /\ h3Req \in [H3Reqs -> ReqType]

\* Where a request has a connection.
OnConn == {"staged", "sent", "verdict", "replayed", "body"}

\* What a connection says of itself: its end was told at most once, and not
\* before it came.
ConnInv(k) ==
  /\ k.closes = IF k.told THEN 1 ELSE 0
  /\ k.alive => ~k.told

\* A connection of requests that allow no early data never had any.
PoolInv ==
  /\ \A e \in BOOLEAN : h3Pool[e] # 0 => h3Conn[h3Pool[e]].made
  /\ h3Pool[FALSE] # 0 => h3Conn[h3Pool[FALSE]].zeroRtt = "none"

\* A request: what it may be put on, and how often the server has had it.
ReqInv(q) ==
  /\ q.inEarly => q.early
  /\ q.dialEarly => q.early
  /\ q.pc \in {"idle", "done"} => q.upload # "writing"
  /\ q.pc \notin OnConn => q.arrived = 0
  /\ q.pc \in OnConn => q.conn # 0
  /\ q.pc = "staged" => q.arrived = 0
  /\ q.pc = "sent" => q.arrived = IF q.here THEN 1 ELSE 0

\* A request and the connection it is on.
PairInv(q, k) ==
  /\ k.made
  /\ ~q.early => k.zeroRtt = "none"
  /\ q.pc = "sent" =>
       /\ k.zeroRtt = "pending" => q.inEarly
       /\ (q.inEarly /\ k.zeroRtt # "accepted") => q.arrived = 0
  /\ q.pc = "verdict" => k.zeroRtt # "none" /\ q.arrived <= 1 /\ (k.zeroRtt = "pending" => q.arrived = 0)
  /\ (q.pc = "replayed" /\ k.zeroRtt # "rejected") => q.arrived = 0 /\ ~k.alive
  /\ (q.pc = "body" /\ k.zeroRtt # "rejected") => q.arrived <= 1

H3Inv ==
  /\ H3Typed /\ PoolInv
  /\ \A c \in H3Ids : ConnInv(h3Conn[c])
  /\ \A r \in H3Reqs : ReqInv(h3Req[r])
  /\ \A r \in H3Reqs : h3Req[r].pc \in OnConn => PairInv(h3Req[r], ConnOf(r))





-----------------------------------------------------------------------------
\* How a connection that exists may go on: it dies, its verdict comes, its end
\* is told.
Evolves(k, n) ==
  /\ n.made = k.made
  /\ n.alive => k.alive
  /\ n.zeroRtt = k.zeroRtt \/ (k.zeroRtt = "pending" /\ n.zeroRtt \in {"accepted", "rejected"})

Conns(f) == f \in [H3Ids -> ConnType] /\ \A c \in H3Ids : ConnInv(f[c])

\* Nothing a connection goes through matters to the requests on it.
LEMMA PairEvolves ==
  ASSUME NEW q \in ReqType, NEW k \in ConnType, NEW n \in ConnType,
         PairInv(q, k), Evolves(k, n)
  PROVE  PairInv(q, n)
BY DEF PairInv, Evolves, ReqType, ConnType

\* A step of one request, with what it does to connections.
LEMMA RequestMoves ==
  ASSUME H3Inv, NEW r \in H3Reqs, NEW q \in ReqType, ReqInv(q),
         h3Req' = [h3Req EXCEPT ![r] = q],
         Conns(h3Conn'),
         \A c \in H3Ids : h3Conn[c].made => Evolves(h3Conn[c], h3Conn'[c]),
         q.pc \in OnConn => PairInv(q, h3Conn'[q.conn]),
         h3Pool' \in [BOOLEAN -> 0..MaxConns], PoolInv'
  PROVE  H3Inv'
<1>1. H3Typed'
  BY DEF H3Inv, H3Typed, Conns
<1>2. \A s \in H3Reqs : ReqInv(h3Req[s])'
  BY DEF H3Inv, H3Typed
<1>3. ASSUME NEW s \in H3Reqs, h3Req'[s].pc \in OnConn PROVE PairInv(h3Req[s], ConnOf(s))'
  <2>1. CASE s = r
    BY <1>3, <2>1 DEF H3Inv, H3Typed, ConnOf
  <2>2. CASE s # r
    <3>1. h3Req'[s] = h3Req[s] /\ h3Req[s] \in ReqType
      BY <2>2 DEF H3Inv, H3Typed
    <3>2. h3Req[s].conn \in H3Ids /\ PairInv(h3Req[s], h3Conn[h3Req[s].conn])
      BY <1>3, <3>1, H3Constants DEF H3Inv, ReqInv, ConnOf, H3Ids, ReqType
    <3>3. Evolves(h3Conn[h3Req[s].conn], h3Conn'[h3Req[s].conn])
      BY <3>2 DEF PairInv
    <3>4. h3Conn[h3Req[s].conn] \in ConnType /\ h3Conn'[h3Req[s].conn] \in ConnType
      BY <3>2 DEF H3Inv, H3Typed, Conns
    <3> QED
      BY <3>1, <3>2, <3>3, <3>4, PairEvolves DEF ConnOf
  <2> QED
    BY <2>1, <2>2
<1> QED
  BY <1>1, <1>2, <1>3 DEF H3Inv, Conns

\* The pool is none the worse for what its connections go through.
LEMMA PoolEvolves ==
  ASSUME H3Inv, h3Pool' = h3Pool,
         \A c \in H3Ids : h3Conn[c].made => Evolves(h3Conn[c], h3Conn'[c])
  PROVE  h3Pool' \in [BOOLEAN -> 0..MaxConns] /\ PoolInv'
<1>1. h3Pool \in [BOOLEAN -> 0..MaxConns] /\ PoolInv
  BY DEF H3Inv, H3Typed
<1>2. \A e \in BOOLEAN : h3Pool[e] # 0 => h3Pool[e] \in H3Ids
  BY <1>1, H3Constants DEF H3Ids
<1> QED
  BY <1>1, <1>2 DEF PoolInv, Evolves

\* A request moves on by itself.
LEMMA RequestAlone ==
  ASSUME H3Inv, NEW r \in H3Reqs, NEW q \in ReqType, ReqInv(q),
         h3Req' = [h3Req EXCEPT ![r] = q], UNCHANGED <<h3Pool, h3Conn>>,
         q.pc \in OnConn => PairInv(q, h3Conn[q.conn])
  PROVE  H3Inv'
<1>1. \A c \in H3Ids : Evolves(h3Conn[c], h3Conn'[c])
  BY DEF Evolves
<1>2. Conns(h3Conn')
  BY DEF H3Inv, H3Typed, Conns
<1> QED
  BY <1>1, <1>2, PoolEvolves, RequestMoves

\* ConnState::closed tells of an end once, and of nothing else.
LEMMA ClosedEventTells ==
  ASSUME H3Inv, NEW c \in H3Ids
  PROVE  Conns(ClosedEvent(c)) /\ \A d \in H3Ids : Evolves(h3Conn[d], ClosedEvent(c)[d])
<1>1. h3Conn \in [H3Ids -> ConnType] /\ \A d \in H3Ids : ConnInv(h3Conn[d])
  BY DEF H3Inv, H3Typed
<1>2. CASE h3Conn[c].alive
  BY <1>1, <1>2 DEF ClosedEvent, Conns, Evolves
<1>3. CASE ~h3Conn[c].alive
  <2> DEFINE n == [h3Conn[c] EXCEPT !.told = TRUE,
                                    !.closes = IF h3Conn[c].told THEN @ ELSE @ + 1]
  <2>1. ClosedEvent(c) = [h3Conn EXCEPT ![c] = n]
    BY <1>1, <1>3 DEF ClosedEvent, ConnType
  <2>2. h3Conn[c] \in ConnType /\ ConnInv(h3Conn[c])
    BY <1>1
  <2>3. n \in ConnType
    <3>1. (IF h3Conn[c].told THEN h3Conn[c].closes ELSE h3Conn[c].closes + 1) \in Nat
      BY <2>2 DEF ConnType
    <3> QED
      BY <2>2, <3>1 DEF ConnType
  <2>4. ConnInv(n) /\ Evolves(h3Conn[c], n)
    BY <1>3, <2>2 DEF ConnType, ConnInv, Evolves
  <2> HIDE DEF n
  <2>5. ASSUME NEW d \in H3Ids
        PROVE  ConnInv(ClosedEvent(c)[d]) /\ Evolves(h3Conn[d], ClosedEvent(c)[d])
    <3>1. CASE d = c
      BY <1>1, <2>1, <2>4, <3>1
    <3>2. CASE d # c
      BY <1>1, <2>1, <3>2 DEF Evolves
    <3> QED
      BY <3>1, <3>2
  <2> QED
    BY <1>1, <2>1, <2>3, <2>5 DEF Conns
<1> QED
  BY <1>2, <1>3

\* A request that is over holds nothing.
LEMMA OverHolds ==
  ASSUME NEW q \in ReqType
  PROVE  Over(q) \in ReqType /\ ReqInv(Over(q)) /\ Over(q).pc = "done"
<1>1. PICK u \in {"none", "finished", "cancelled"} : DropPump(q).upload = u
  BY DEF DropPump, ReqType
<1>2. NoH3Req \in ReqType
  BY H3Constants DEF NoH3Req, ReqType
<1>3. Over(q) = [NoH3Req EXCEPT !.pc = "done", !.upload = u]
  BY <1>1 DEF Over
<1>4. Over(q) \in ReqType
  BY <1>2, <1>3 DEF ReqType
<1> QED
  BY <1>3, <1>4 DEF ReqInv, NoH3Req, OnConn

LEMMA DropPumpHolds ==
  ASSUME NEW q \in ReqType
  PROVE  /\ DropPump(q) \in ReqType /\ DropPump(q).pc = q.pc /\ DropPump(q).conn = q.conn
         /\ DropPump(q).early = q.early /\ DropPump(q).inEarly = q.inEarly
         /\ DropPump(q).here = q.here /\ DropPump(q).arrived = q.arrived
         /\ DropPump(q).dialEarly = q.dialEarly
BY DEF DropPump, ReqType

\* A request ends and its connection's end is told of.
LEMMA EndsTold ==
  ASSUME H3Inv, NEW r \in H3Reqs, NEW q \in ReqType, h3Req[r].pc \in OnConn,
         h3Req' = [h3Req EXCEPT ![r] = Over(q)],
         h3Conn' = ClosedEvent(h3Req[r].conn), UNCHANGED h3Pool
  PROVE  H3Inv'
<1>1. h3Req[r].conn \in H3Ids
  BY SMTT(30), H3Constants DEF H3Inv, H3Typed, ReqInv, ReqType, H3Ids
<1>2. Conns(h3Conn') /\ \A d \in H3Ids : Evolves(h3Conn[d], h3Conn'[d])
  BY <1>1, ClosedEventTells
<1>3. Over(q).pc \notin OnConn
  BY OverHolds DEF OnConn
<1>4. h3Pool' \in [BOOLEAN -> 0..MaxConns] /\ PoolInv'
  BY <1>2, PoolEvolves
<1> QED
  BY <1>2, <1>3, <1>4, OverHolds, RequestMoves

\* Every step keeps the invariant.
LEMMA H3Inductive == H3Inv /\ [H3Next]_h3Vars => H3Inv'
<1> SUFFICES ASSUME H3Inv, [H3Next]_h3Vars PROVE H3Inv'
  OBVIOUS
<1>a. /\ h3Conn \in [H3Ids -> ConnType] /\ h3Req \in [H3Reqs -> ReqType]
      /\ h3Pool \in [BOOLEAN -> 0..MaxConns] /\ PoolInv
      /\ \A c \in H3Ids : ConnInv(h3Conn[c])
  BY DEF H3Inv, H3Typed
<1>b. \A r \in H3Reqs : h3Req[r] \in ReqType /\ ReqInv(h3Req[r])
  BY DEF H3Inv, H3Typed
<1>c. \A r \in H3Reqs : h3Req[r].pc \in OnConn =>
        /\ h3Req[r].conn \in H3Ids /\ h3Conn[h3Req[r].conn] \in ConnType
        /\ PairInv(h3Req[r], h3Conn[h3Req[r].conn]) /\ ConnOf(r) = h3Conn[h3Req[r].conn]
  BY <1>a, H3Constants DEF H3Inv, ReqInv, ConnOf, H3Ids, ReqType
<1>d. NoH3Req \in ReqType /\ ReqInv(NoH3Req)
  BY H3Constants DEF NoH3Req, ReqType, ReqInv, OnConn
<1>1. ASSUME NEW r \in H3Reqs, NEW early \in BOOLEAN, H3Admits(r, early) PROVE H3Inv'
  <2> DEFINE q == [NoH3Req EXCEPT !.pc = "resolving", !.early = early]
  <2>1. q \in ReqType
    BY <1>d DEF ReqType
  <2>2. ReqInv(q) /\ q.pc \notin OnConn
    BY DEF NoH3Req, ReqInv, OnConn
  <2> HIDE DEF q
  <2> QED
    BY <1>1, <2>1, <2>2, RequestAlone DEF H3Admits, q
<1>2. ASSUME NEW r \in H3Reqs, NEW lost \in BOOLEAN, DialFails(r, lost) PROVE H3Inv'
  <2>1. CASE lost
    <3> DEFINE q == [h3Req[r] EXCEPT !.dialEarly = FALSE]
    <3>1. q \in ReqType
      BY <1>b DEF ReqType
    <3>2. ReqInv(q) /\ q.pc \notin OnConn
      BY <1>2, <1>b DEF DialFails, ReqType, ReqInv, OnConn
    <3>3. h3Req' = [h3Req EXCEPT ![r] = q]
      BY <1>2, <2>1 DEF DialFails
    <3> HIDE DEF q
    <3> QED
      BY <1>2, <3>1, <3>2, <3>3, RequestAlone DEF DialFails
  <2>2. CASE ~lost
    BY <1>2, <1>b, <2>2, OverHolds, RequestAlone DEF DialFails, OnConn
  <2> QED
    BY <2>1, <2>2
<1>3. ASSUME NEW r \in H3Reqs, H3Checkout(r) PROVE H3Inv'
  <2> DEFINE key == KeyOf(h3Req[r].early)
  <2> DEFINE c == h3Pool[key]
  <2>1. h3Req[r] \in ReqType /\ ReqInv(h3Req[r]) /\ h3Req[r].pc = "resolving"
    BY <1>3, <1>b DEF H3Checkout
  <2>2. key \in BOOLEAN /\ key = h3Req[r].early
    BY <2>1 DEF KeyOf, ReqType
  <2>3. c \in 0..MaxConns /\ (c # 0 => c \in H3Ids)
    BY <1>a, <2>2, H3Constants DEF H3Ids
  <2>4. CASE c # 0 /\ h3Conn[c].alive
    <3> DEFINE q == [h3Req[r] EXCEPT !.pc = "staged", !.conn = c]
    <3>1. q \in ReqType
      BY <2>1, <2>3 DEF ReqType
    <3>2. ReqInv(q)
      BY <2>1, <2>4 DEF ReqType, ReqInv, OnConn
    <3>3. h3Conn[c].made /\ (~h3Req[r].early => h3Conn[c].zeroRtt = "none")
      BY <1>a, <2>2, <2>4 DEF PoolInv
    <3>4. PairInv(q, h3Conn[q.conn])
      BY <2>1, <2>3, <2>4, <3>3 DEF ReqType, PairInv
    <3>5. h3Req' = [h3Req EXCEPT ![r] = q] /\ UNCHANGED <<h3Pool, h3Conn>>
      BY <1>3, <2>4 DEF H3Checkout
    <3> HIDE DEF q
    <3> QED
      BY <3>1, <3>2, <3>4, <3>5, RequestAlone
  <2>5. CASE ~(c # 0 /\ h3Conn[c].alive)
    <3> DEFINE q == [h3Req[r] EXCEPT !.pc = "dialling", !.dialEarly = h3Req[r].early]
    <3>1. q \in ReqType
      BY <2>1 DEF ReqType
    <3>2. ReqInv(q) /\ q.pc \notin OnConn
      BY <2>1 DEF ReqType, ReqInv, OnConn
    <3>3. h3Req' = [h3Req EXCEPT ![r] = q] /\ h3Pool' = [h3Pool EXCEPT ![key] = 0]
          /\ h3Conn' = IF c = 0 THEN h3Conn ELSE ClosedEvent(c)
      BY <1>3, <2>5 DEF H3Checkout
    <3> HIDE DEF q, c, key
    <3>4. Conns(h3Conn') /\ \A d \in H3Ids : Evolves(h3Conn[d], h3Conn'[d])
      <4>1. CASE c = 0
        BY <1>a, <3>3, <4>1 DEF Conns, Evolves
      <4>2. CASE c # 0
        BY <2>3, <3>3, <4>2, ClosedEventTells
      <4> QED
        BY <4>1, <4>2
    <3>5. h3Pool' \in [BOOLEAN -> 0..MaxConns] /\ \A e \in BOOLEAN : h3Pool'[e] \in {0, h3Pool[e]}
      BY <1>a, <2>2, <3>3, H3Constants
    <3>6. PoolInv'
      <4>1. \A e \in BOOLEAN : h3Pool[e] # 0 => h3Pool[e] \in H3Ids
        BY <1>a, H3Constants DEF H3Ids
      <4> QED
        BY <1>a, <3>4, <3>5, <4>1 DEF PoolInv, Evolves
    <3> QED
      BY <3>1, <3>2, <3>3, <3>4, <3>5, <3>6, RequestMoves
  <2> QED
    BY <2>4, <2>5
<1>4. ASSUME NEW r \in H3Reqs, H3Unresolved(r) PROVE H3Inv'
  BY <1>4, <1>b, OverHolds, RequestAlone DEF H3Unresolved, OnConn
<1>5. ASSUME NEW r \in H3Reqs, NEW c \in H3Ids, NEW z \in {"none", "pending"},
             H3Dialled(r, c, z)
      PROVE  H3Inv'
  <2> DEFINE q == [h3Req[r] EXCEPT !.pc = "staged", !.conn = c, !.dialEarly = FALSE]
  <2> DEFINE n == [NoConn EXCEPT !.made = TRUE, !.alive = TRUE, !.zeroRtt = z]
  <2>1. h3Req[r] \in ReqType /\ ReqInv(h3Req[r]) /\ h3Req[r].pc = "dialling"
    BY <1>5, <1>b DEF H3Dialled
  <2>2. q \in ReqType
    <3>1. c \in 0..MaxConns
      BY H3Constants DEF H3Ids
    <3> QED
      BY <2>1, <3>1 DEF ReqType
  <2>3. ReqInv(q)
    BY <2>1, H3Constants DEF ReqType, ReqInv, OnConn, H3Ids
  <2>4. n \in ConnType /\ ConnInv(n) /\ n.made /\ n.zeroRtt = z
    BY DEF NoConn, ConnType, ConnInv
  <2>5. ~h3Req[r].early => z = "none"
    BY <1>5, <2>1 DEF H3Dialled, DialledAs, ReqInv, ReqType
  <2>6. h3Conn' = [h3Conn EXCEPT ![c] = n] /\ h3Req' = [h3Req EXCEPT ![r] = q]
        /\ h3Pool' = [h3Pool EXCEPT ![h3Req[r].early] = c] /\ ~h3Conn[c].made
    BY <1>5, <1>a, <2>1 DEF H3Dialled, KeyOf
  <2>7. q.conn = c /\ q.early = h3Req[r].early /\ q.pc = "staged" /\ q.arrived = h3Req[r].arrived
    BY <2>1 DEF ReqType
  <2> HIDE DEF q, n
  <2>8. Conns(h3Conn')
    BY <1>a, <2>4, <2>6 DEF Conns
  <2>9. \A d \in H3Ids : h3Conn[d].made => Evolves(h3Conn[d], h3Conn'[d])
    BY <1>a, <2>6 DEF Evolves
  <2>10. PairInv(q, h3Conn'[q.conn])
    BY <1>a, <2>4, <2>5, <2>6, <2>7 DEF PairInv
  <2>11. h3Pool' \in [BOOLEAN -> 0..MaxConns]
    BY <1>a, <2>1, <2>6, H3Constants DEF H3Ids, ReqType
  <2>12. PoolInv'
    <3>1. \A e \in BOOLEAN : h3Pool[e] # 0 => h3Pool[e] \in H3Ids /\ h3Conn'[h3Pool[e]] = h3Conn[h3Pool[e]]
      BY <1>a, <2>6, H3Constants DEF H3Ids, PoolInv
    <3>2. h3Req[r].early \in BOOLEAN
      BY <2>1 DEF ReqType
    <3>3. ASSUME NEW e \in BOOLEAN, h3Pool'[e] # 0
          PROVE  h3Conn'[h3Pool'[e]].made /\ (~e => h3Conn'[h3Pool'[e]].zeroRtt = "none")
      <4>1. CASE e = h3Req[r].early
        BY <1>a, <2>4, <2>5, <2>6, <3>2, <4>1
      <4>2. CASE e # h3Req[r].early
        BY <1>a, <2>6, <3>1, <3>2, <3>3, <4>2 DEF PoolInv
      <4> QED
        BY <4>1, <4>2
    <3> QED
      BY <3>3 DEF PoolInv
  <2> QED
    BY <2>2, <2>3, <2>6, <2>8, <2>9, <2>10, <2>11, <2>12, RequestMoves
<1>6. ASSUME NEW r \in H3Reqs, H3Sends(r) PROVE H3Inv'
  <2> DEFINE e == ConnOf(r).zeroRtt = "pending"
  <2> DEFINE q == [h3Req[r] EXCEPT !.pc = "sent", !.upload = "writing", !.here = FALSE,
                                   !.inEarly = e]
  <2>1. h3Req[r] \in ReqType /\ ReqInv(h3Req[r]) /\ h3Req[r].pc = "staged"
    BY <1>6, <1>b DEF H3Sends
  <2>2. PairInv(h3Req[r], ConnOf(r)) /\ ConnOf(r) = h3Conn[h3Req[r].conn] /\ e \in BOOLEAN
    BY <1>c, <2>1 DEF OnConn
  <2>3. q \in ReqType
    BY <2>1, <2>2 DEF ReqType
  <2>4. ReqInv(q)
    BY <2>1, <2>2 DEF ReqType, ReqInv, OnConn, PairInv
  <2>5. PairInv(q, ConnOf(r)) /\ q.conn = h3Req[r].conn
    BY <2>1, <2>2 DEF ReqType, ReqInv, PairInv
  <2>6. h3Req' = [h3Req EXCEPT ![r] = q]
    BY <1>6, <1>a DEF H3Sends
  <2> HIDE DEF q
  <2>7. PairInv(q, h3Conn[q.conn]) /\ UNCHANGED <<h3Pool, h3Conn>>
    BY <1>6, <2>2, <2>5 DEF H3Sends
  <2> QED
    BY <2>3, <2>4, <2>6, <2>7, RequestAlone
<1>7. ASSUME NEW r \in H3Reqs, ServerTakes(r) PROVE H3Inv'
  <2> DEFINE q == [h3Req[r] EXCEPT !.here = TRUE, !.arrived = @ + 1]
  <2>1. h3Req[r] \in ReqType /\ ReqInv(h3Req[r]) /\ h3Req[r].pc \in {"sent", "replayed"}
    BY <1>7, <1>b DEF ServerTakes
  <2>2. /\ PairInv(h3Req[r], ConnOf(r)) /\ ConnOf(r) = h3Conn[h3Req[r].conn]
        /\ ~h3Req[r].here /\ ConnOf(r).alive
        /\ h3Req[r].inEarly => ConnOf(r).zeroRtt = "accepted"
    BY <1>7, <1>c, <2>1 DEF OnConn, ServerTakes
  <2>3. q \in ReqType
    <3>1. h3Req[r].arrived + 1 \in Nat
      BY <2>1 DEF ReqType
    <3> QED
      BY <2>1, <3>1 DEF ReqType
  <2>4. ReqInv(q)
    BY <2>1, <2>2 DEF ReqType, ReqInv, OnConn
  <2>5. PairInv(q, ConnOf(r)) /\ q.conn = h3Req[r].conn
    BY <2>1, <2>2 DEF ReqType, ReqInv, PairInv
  <2>6. h3Req' = [h3Req EXCEPT ![r] = q]
    BY <1>7, <1>a DEF ServerTakes
  <2> HIDE DEF q
  <2>7. PairInv(q, h3Conn[q.conn]) /\ UNCHANGED <<h3Pool, h3Conn>>
    BY <1>7, <2>2, <2>5 DEF ServerTakes
  <2> QED
    BY <2>3, <2>4, <2>6, <2>7, RequestAlone
<1>8. ASSUME NEW r \in H3Reqs, HeadArrives(r) PROVE H3Inv'
  <2> DEFINE q == [h3Req[r] EXCEPT !.pc = "body"]
  <2>1. h3Req[r] \in ReqType /\ ReqInv(h3Req[r]) /\ h3Req[r].pc \in {"sent", "replayed"}
    BY <1>8, <1>b DEF HeadArrives
  <2>2. PairInv(h3Req[r], ConnOf(r)) /\ ConnOf(r) = h3Conn[h3Req[r].conn]
    BY <1>c, <2>1 DEF OnConn
  <2>3. q \in ReqType
    BY <2>1 DEF ReqType
  <2>4. ReqInv(q)
    BY <2>1 DEF ReqType, ReqInv, OnConn
  <2>5. PairInv(q, ConnOf(r)) /\ q.conn = h3Req[r].conn
    BY <2>1, <2>2 DEF ReqType, ReqInv, PairInv
  <2>6. h3Req' = [h3Req EXCEPT ![r] = q]
    BY <1>8, <1>a DEF HeadArrives
  <2> HIDE DEF q
  <2>7. PairInv(q, h3Conn[q.conn]) /\ UNCHANGED <<h3Pool, h3Conn>>
    BY <1>8, <2>2, <2>5 DEF HeadArrives
  <2> QED
    BY <2>3, <2>4, <2>6, <2>7, RequestAlone
<1>9. ASSUME NEW r \in H3Reqs, PumpDone(r) PROVE H3Inv'
  <2> DEFINE q == [h3Req[r] EXCEPT !.upload = "finished"]
  <2>1. h3Req[r] \in ReqType /\ ReqInv(h3Req[r]) /\ h3Req[r].pc \in {"sent", "replayed", "body"}
    BY <1>9, <1>b DEF PumpDone
  <2>2. PairInv(h3Req[r], ConnOf(r)) /\ ConnOf(r) = h3Conn[h3Req[r].conn]
    BY <1>c, <2>1 DEF OnConn
  <2>3. q \in ReqType
    BY <2>1 DEF ReqType
  <2>4. ReqInv(q)
    BY <2>1 DEF ReqType, ReqInv, OnConn
  <2>5. PairInv(q, ConnOf(r)) /\ q.conn = h3Req[r].conn
    BY <2>1, <2>2 DEF ReqType, ReqInv, PairInv
  <2>6. h3Req' = [h3Req EXCEPT ![r] = q]
    BY <1>9, <1>a DEF PumpDone
  <2> HIDE DEF q
  <2>7. PairInv(q, h3Conn[q.conn]) /\ UNCHANGED <<h3Pool, h3Conn>>
    BY <1>9, <2>2, <2>5 DEF PumpDone
  <2> QED
    BY <2>3, <2>4, <2>6, <2>7, RequestAlone
<1>10. ASSUME NEW r \in H3Reqs, AttemptFails(r) PROVE H3Inv'
  <2> DEFINE d == DropPump(h3Req[r])
  <2>1. h3Req[r] \in ReqType /\ ReqInv(h3Req[r]) /\ h3Req[r].pc = "sent"
    BY <1>10, <1>b DEF AttemptFails
  <2>2. PairInv(h3Req[r], ConnOf(r)) /\ ConnOf(r) = h3Conn[h3Req[r].conn]
    BY <1>c, <2>1 DEF OnConn
  <2>3. /\ d \in ReqType /\ d.pc = "sent" /\ d.conn = h3Req[r].conn
        /\ d.early = h3Req[r].early /\ d.inEarly = h3Req[r].inEarly
        /\ d.here = h3Req[r].here /\ d.arrived = h3Req[r].arrived
        /\ d.dialEarly = h3Req[r].dialEarly
    BY <2>1, DropPumpHolds
  <2>4. CASE ConnOf(r).zeroRtt = "none"
    <3>1. h3Req' = [h3Req EXCEPT ![r] = Over(d)] /\ h3Conn' = ClosedEvent(d.conn) /\ UNCHANGED h3Pool
      BY <1>10, <2>4 DEF AttemptFails
    <3> HIDE DEF d
    <3> QED
      BY <2>1, <2>3, <3>1, EndsTold DEF OnConn
  <2>5. CASE ConnOf(r).zeroRtt # "none"
    <3> DEFINE q == [d EXCEPT !.pc = "verdict"]
    <3>1. h3Req' = [h3Req EXCEPT ![r] = q] /\ UNCHANGED <<h3Pool, h3Conn>>
      BY <1>10, <2>5 DEF AttemptFails
    <3> HIDE DEF d
    <3>2. q \in ReqType
      BY <2>3 DEF ReqType
    <3>3. ReqInv(q)
      BY <2>1, <2>3 DEF ReqType, ReqInv, OnConn
    <3>4. PairInv(q, ConnOf(r)) /\ q.conn = h3Req[r].conn
      BY <2>1, <2>2, <2>3, <2>5 DEF ReqType, ReqInv, PairInv
    <3> HIDE DEF q
    <3> QED
      BY <2>2, <3>1, <3>2, <3>3, <3>4, RequestAlone
  <2> QED
    BY <2>4, <2>5
<1>11. ASSUME NEW r \in H3Reqs, AfterVerdict(r) PROVE H3Inv'
  <2>1. h3Req[r] \in ReqType /\ ReqInv(h3Req[r]) /\ h3Req[r].pc = "verdict"
    BY <1>11, <1>b DEF AfterVerdict
  <2>2. PairInv(h3Req[r], ConnOf(r)) /\ ConnOf(r) = h3Conn[h3Req[r].conn]
    BY <1>c, <2>1 DEF OnConn
  <2>3. CASE ConnOf(r).zeroRtt = "accepted"
    BY <1>11, <2>1, <2>3, EndsTold DEF AfterVerdict, OnConn
  <2>4. CASE ConnOf(r).zeroRtt # "accepted"
    <3> DEFINE q == [h3Req[r] EXCEPT !.pc = "replayed", !.upload = "writing", !.here = FALSE,
                                     !.inEarly = FALSE]
    <3>1. h3Req' = [h3Req EXCEPT ![r] = q] /\ UNCHANGED <<h3Pool, h3Conn>>
      BY <1>11, <1>a, <2>4 DEF AfterVerdict
    <3>2. q \in ReqType
      BY <2>1 DEF ReqType
    <3>3. ReqInv(q)
      BY <2>1 DEF ReqType, ReqInv, OnConn
    <3>4. PairInv(q, ConnOf(r)) /\ q.conn = h3Req[r].conn
      <4>1. ConnOf(r).zeroRtt # "rejected" => ConnOf(r).zeroRtt = "pending" /\ ~ConnOf(r).alive
        BY <1>11, <1>c, <2>1, <2>2, <2>4 DEF AfterVerdict, PairInv, ConnType, OnConn
      <4> QED
        BY <2>1, <2>2, <4>1, SMTT(30) DEF ReqType, PairInv
    <3> HIDE DEF q
    <3> QED
      BY <2>2, <3>1, <3>2, <3>3, <3>4, RequestAlone
  <2> QED
    BY <2>3, <2>4
<1>12. ASSUME NEW r \in H3Reqs, H3Fails(r) PROVE H3Inv'
  BY <1>12, <1>b, EndsTold DEF H3Fails, OnConn
<1>13. ASSUME NEW r \in H3Reqs, H3Dropped(r) PROVE H3Inv'
  BY <1>13, <1>b, OverHolds, RequestAlone DEF H3Dropped, OnConn
<1>14. ASSUME NEW r \in H3Reqs, H3Again(r) PROVE H3Inv'
  BY <1>14, <1>d, RequestAlone DEF H3Again, NoH3Req, OnConn
\* A connection goes on while no request moves.
<1>e. ASSUME NEW c \in H3Ids, NEW n \in ConnType, ConnInv(n), Evolves(h3Conn[c], n),
             h3Conn' = [h3Conn EXCEPT ![c] = n], UNCHANGED <<h3Pool, h3Req>>
      PROVE  H3Inv'
  <2>1. Conns(h3Conn') /\ \A d \in H3Ids : Evolves(h3Conn[d], h3Conn'[d])
    BY <1>e, <1>a DEF Conns, Evolves
  <2>2. h3Pool' \in [BOOLEAN -> 0..MaxConns] /\ PoolInv'
    BY <1>e, <2>1, PoolEvolves
  <2>3. ASSUME NEW r \in H3Reqs, h3Req[r].pc \in OnConn PROVE PairInv(h3Req[r], ConnOf(r))'
    BY <1>e, <1>b, <1>c, <2>1, <2>3, PairEvolves DEF ConnOf, Conns
  <2> QED
    BY <1>e, <1>a, <1>b, <2>1, <2>2, <2>3 DEF H3Inv, H3Typed, Conns
<1>15. ASSUME NEW c \in H3Ids, ConnDies(c) PROVE H3Inv'
  <2> DEFINE n == [h3Conn[c] EXCEPT !.alive = FALSE]
  <2>1. n \in ConnType /\ ConnInv(n) /\ Evolves(h3Conn[c], n)
    BY <1>a DEF ConnType, ConnInv, Evolves
  <2>2. h3Conn' = [h3Conn EXCEPT ![c] = n]
    BY <1>15, <1>a DEF ConnDies
  <2> HIDE DEF n
  <2> QED
    BY <1>15, <1>e, <2>1, <2>2 DEF ConnDies
<1>16. ASSUME NEW c \in H3Ids, NEW v \in {"accepted", "rejected"}, VerdictComes(c, v)
       PROVE  H3Inv'
  <2> DEFINE n == [h3Conn[c] EXCEPT !.zeroRtt = v]
  <2>1. n \in ConnType /\ ConnInv(n) /\ Evolves(h3Conn[c], n)
    BY <1>16, <1>a DEF VerdictComes, ConnType, ConnInv, Evolves
  <2>2. h3Conn' = [h3Conn EXCEPT ![c] = n]
    BY <1>16, <1>a DEF VerdictComes
  <2> HIDE DEF n
  <2> QED
    BY <1>16, <1>e, <2>1, <2>2 DEF VerdictComes
<1>17. CASE UNCHANGED h3Vars
  BY <1>17 DEF h3Vars, H3Inv, H3Typed, PoolInv, ConnOf
<1> QED
  BY <1>1, <1>2, <1>3, <1>4, <1>5, <1>6, <1>7, <1>8, <1>9, <1>10, <1>11, <1>12, <1>13, <1>14,
     <1>15, <1>16, <1>17 DEF H3Next

\* No connection, no request.
LEMMA H3Initially == H3Init => H3Inv
<1> SUFFICES ASSUME H3Init PROVE H3Inv
  OBVIOUS
<1>1. NoConn \in ConnType /\ NoH3Req \in ReqType
  BY H3Constants DEF NoConn, NoH3Req, ConnType, ReqType
<1>2. ConnInv(NoConn) /\ ReqInv(NoH3Req) /\ NoH3Req.pc \notin OnConn
  BY DEF NoConn, NoH3Req, ConnInv, ReqInv, OnConn
<1>3. H3Typed
  BY <1>1, H3Constants DEF H3Init, H3Typed
<1>4. PoolInv
  BY DEF H3Init, PoolInv
<1> QED
  BY <1>2, <1>3, <1>4 DEF H3Init, H3Inv

\* The promise follows from the invariant.
LEMMA H3Promise == H3Inv => H3Holds
<1> SUFFICES ASSUME H3Inv PROVE H3Holds
  OBVIOUS
<1>1. H3TypeOK /\ EarlyOnlyIfAllowed
  BY DEF H3Inv, H3Typed, ReqInv, H3TypeOK, EarlyOnlyIfAllowed
<1>2. ClosedIsToldOnce
  BY DEF H3Inv, H3Typed, ConnInv, ConnType, ClosedIsToldOnce
<1>3. ASSUME NEW r \in H3Reqs, h3Req[r].arrived >= 2 PROVE ConnOf(r).zeroRtt = "rejected"
  <2>1. h3Req[r] \in ReqType /\ ReqInv(h3Req[r])
    BY DEF H3Inv, H3Typed
  <2>2. h3Req[r].pc \in OnConn /\ PairInv(h3Req[r], ConnOf(r))
    BY <1>3, <2>1 DEF H3Inv, ReqInv, ReqType
  <2> QED
    BY <1>3, <2>1, <2>2 DEF ReqInv, ReqType, PairInv, OnConn
<1> QED
  BY <1>1, <1>2, <1>3 DEF H3Holds, TakenUpOnce

------------------------------------------------------------------------------
(* Tasks behind one waker: WakeAll and Waiters (http3/runtime.rs, tunnel.rs). *)

PollerSteps == {"idle", "registered", "parked", "waking", "going"}

\* Besides what FanHolds says: a task that has registered is on the list, or
\* was woken since; and only a socket has somebody about to wake the others.
FanInv ==
  /\ FanTypeOK /\ ParkedWillBeWoken
  /\ resource \in {"socket", "datagrams"}
  /\ armed \in BOOLEAN
  /\ poller \in [Pollers -> PollerSteps]
  /\ \A p \in Pollers : poller[p] = "registered" => p \in waiters \/ p \in woken
  /\ \A p \in Pollers : poller[p] = "waking" => resource = "socket"

LEMMA FanBegins == FanInit => FanInv
<1> SUFFICES ASSUME FanInit PROVE FanInv
  OBVIOUS
<1>1. poller \in [Pollers -> PollerSteps] /\ \A p \in Pollers : poller[p] = "idle"
  BY DEF FanInit, PollerSteps
<1>2. ready \in 0 .. MaxReady
  BY FanoutConstants DEF FanInit
<1> QED
  BY <1>1, <1>2 DEF FanInit, FanInv, FanTypeOK, ParkedWillBeWoken

LEMMA FanStep == FanInv /\ [FanNext]_fanVars => FanInv'
<1> SUFFICES ASSUME FanInv, [FanNext]_fanVars PROVE FanInv'
  OBVIOUS
<1> USE DEF FanInv, FanTypeOK, ParkedWillBeWoken, PollerSteps
<1>1. ASSUME NEW p \in Pollers, Register(p) PROVE FanInv'
  BY <1>1 DEF Register
<1>2. ASSUME NEW p \in Pollers, PollWritable(p) PROVE FanInv'
  <2>1. CASE Parks(p)
    BY <1>2, <2>1 DEF PollWritable, Parks
  <2>2. CASE /\ ready > 0 /\ armed' = FALSE /\ UNCHANGED ready
             /\ poller' = [poller EXCEPT ![p] = "waking"]
    <3>1. poller'[p] = "waking" /\ resource' = "socket"
      BY <1>2, <2>2 DEF PollWritable
    <3> QED
      BY <1>2, <2>2, <3>1 DEF PollWritable
  <2> QED
    BY <1>2, <2>1, <2>2 DEF PollWritable
<1>3. ASSUME NEW p \in Pollers, PollDatagram(p) PROVE FanInv'
  <2>1. CASE Parks(p)
    BY <1>3, <2>1 DEF PollDatagram, Parks
  <2>2. CASE ready > 0 /\ armed' = FALSE /\ ready' = ready - 1 /\
             (poller' = [poller EXCEPT ![p] = "idle"] \/ UNCHANGED poller)
    <3>1. \A q \in Pollers : poller'[q] = "parked" => poller[q] = "parked"
      BY <2>2
    <3>2. \A q \in Pollers : poller'[q] = "parked" => q \in woken
      BY <1>3, <2>2, <3>1, FanoutConstants DEF PollDatagram
    <3>3. ready' \in 0 .. MaxReady
      BY <2>2, FanoutConstants
    <3> QED
      BY <1>3, <2>2, <3>2, <3>3 DEF PollDatagram
  <2> QED
    BY <1>3, <2>1, <2>2 DEF PollDatagram
<1>4. ASSUME NEW p \in Pollers, WakesOthers(p) PROVE FanInv'
  BY <1>4 DEF WakesOthers, WakeAll
<1>5. ASSUME NEW p \in Pollers, Sends(p) PROVE FanInv'
  <2>1. ready' \in 0 .. MaxReady
    BY <1>5, FanoutConstants DEF Sends
  <2>2. \A q \in Pollers : /\ poller[q] = "waking" <=> poller'[q] = "waking"
                           /\ poller[q] = "parked" <=> poller'[q] = "parked"
    BY <1>5 DEF Sends
  <2> QED
    BY <1>5, <2>1, <2>2 DEF Sends
<1>6. ASSUME NEW p \in Pollers, Spurious(p) PROVE FanInv'
  <2>1. \A q \in Pollers : poller[q] = "waking" <=> poller'[q] = "waking"
    BY <1>6 DEF Spurious
  <2> QED
    BY <1>6, <2>1 DEF Spurious
<1>7. CASE DatagramArrives
  <2>1. ready' \in 0 .. MaxReady
    BY <1>7, FanoutConstants DEF DatagramArrives
  <2>2. \A q \in Pollers : poller[q] = "parked" => q \in woken'
    BY <1>7 DEF DatagramArrives, WakeAll
  <2> QED
    BY <1>7, <2>1, <2>2 DEF DatagramArrives, WakeAll
<1>8. CASE BecomesWritable
  BY <1>8, FanoutConstants DEF BecomesWritable
<1>9. CASE ReactorFires
  BY <1>9 DEF ReactorFires, WakeAll
<1>10. CASE UNCHANGED fanVars
  BY <1>10 DEF fanVars
<1> QED
  BY <1>1, <1>2, <1>3, <1>4, <1>5, <1>6, <1>7, <1>8, <1>9, <1>10 DEF FanNext

------------------------------------------------------------------------------
(* The gate of Expect: 100-continue (body.rs).                             *)

\* Besides what GateHolds says: the body is polled by one task at a time, whose
\* predecessors wait no more; the flag is the first step of `open'; and a waker
\* that is stored stays until `open' takes it.
GateInv ==
  /\ GateHolds
  /\ opened <=> opener # "before"
  /\ \A r, x \in Readers :
        reader[r] \in {"checked", "stored"} /\ x # r =>
            reader[x] \notin {"checked", "stored", "pending"}
  /\ \A r \in Readers : reader[r] = "stored" => r \in waker \/ opened

LEMMA GateBegins == GateInit => GateInv
  BY DEF GateInit, GateInv, GateHolds, GateTypeOK, HeldUntilOpen, GateWakesItsReader

LEMMA GateStep == GateInv /\ [GateNext]_gateVars => GateInv'
<1> SUFFICES ASSUME GateInv, [GateNext]_gateVars PROVE GateInv'
  OBVIOUS
<1> USE DEF GateInv, GateHolds, GateTypeOK, HeldUntilOpen, GateWakesItsReader
<1>1. ASSUME NEW r \in Readers, FirstLook(r) PROVE GateInv'
  <2>1. \A x \in Readers : reader[x] \notin {"checked", "stored"}
    BY <1>1 DEF FirstLook, Polling
  <2>2. /\ reader'[r] = IF opened THEN "through" ELSE "checked"
        /\ \A x \in Readers : x # r => reader'[x] \in {"idle", "through"}
                                      /\ (reader'[x] = "through" => reader[x] = "through")
    BY <1>1, <2>1 DEF FirstLook
  <2>3. reader' \in [Readers -> {"idle", "checked", "stored", "pending", "through"}]
    BY <1>1 DEF FirstLook
  <2> QED
    BY <1>1, <2>2, <2>3 DEF FirstLook
<1>2. ASSUME NEW r \in Readers, StoresWaker(r) PROVE GateInv'
  BY <1>2 DEF StoresWaker
<1>3. ASSUME NEW r \in Readers, SecondLook(r) PROVE GateInv'
  BY <1>3 DEF SecondLook
<1>4. CASE StoresFlag
  BY <1>4 DEF StoresFlag
<1>5. CASE TakesWaker
  BY <1>5 DEF TakesWaker
<1>6. CASE UNCHANGED gateVars
  BY <1>6 DEF gateVars
<1> QED
  BY <1>1, <1>2, <1>3, <1>4, <1>5, <1>6 DEF GateNext

------------------------------------------------------------------------------
(* WebTransport sessions on one connection (hclient-webtransport).         *)

SessRecords == [pc : {"none", "loaded", "slot", "live"}, seen : Nat]
RxRecords == [pc : {"out", "collect", "wait", "read", "parked"}, woken : BOOLEAN]
HeldRecords == [held : BOOLEAN, waker : BOOLEAN]

WtTyped ==
  /\ sess \in [Sessions -> SessRecords]
  /\ parkedFor \in [Sessions -> HeldRecords]
  /\ rx \in [Sessions -> RxRecords]
  /\ queue \in Seq(Sessions \cup {"unknown"})
  /\ Len(queue) <= MaxQueued

TakenSlots == {s \in Sessions : sess[s].pc \in {"slot", "live"}}

\* The counter is the slots taken, and a caller that read it read a number
\* below the limit.
SlotsInv ==
  /\ wtOpen = Cardinality(TakenSlots)
  /\ wtOpen > 1 => wtOpen <= MaxSessions
  /\ \A s \in Sessions : sess[s].pc = "loaded" => sess[s].seen < MaxSessions

\* Whoever reads the queue, or sleeps beside it, has a waker stored and nothing
\* held for it, or was woken since.
ListenerInv ==
  /\ \A s \in Sessions : rx[s].pc # "out" => Live(s)
  /\ \A s \in Sessions : rx[s].pc \in {"read", "parked"} /\ ~rx[s].woken =>
        ~parkedFor[s].held /\ parkedFor[s].waker
  /\ \A s \in Sessions : rx[s].pc = "parked" /\ ~rx[s].woken => queue = <<>>

\* What the watch has taken held no ending, or the ending has been told; the
\* stream is over only when all of it has come.
WatchRecords ==
  [caps : Seq(Capsules), units : Nat, end : StreamEnds, came : Nat, over : BOOLEAN,
   taken : Nat, ended : Capsules \cup {"no", "error", "truncated", "clean"}]

WatchInv ==
  /\ watch \in WatchRecords
  /\ watch.came <= watch.units /\ watch.units <= 2 * Len(watch.caps)
  /\ watch.taken <= Whole(watch)
  /\ watch.over => watch.came = watch.units
  /\ watch.ended = "no" => \A i \in 1 .. watch.taken : watch.caps[i] = "other"
  /\ EndIsTheStreams

WtInv == WtTyped /\ SlotsInv /\ ListenerInv /\ WatchInv

LEMMA SlotsAreFinite ==
  IsFiniteSet(TakenSlots) /\ Cardinality(TakenSlots) \in Nat
  /\ Cardinality(TakenSlots) <= Cardinality(Sessions)
<1>1. IsFiniteSet(Sessions) /\ TakenSlots \subseteq Sessions
  BY WebTransportConstants DEF TakenSlots
<1> QED
  BY <1>1, FS_Subset, FS_CardinalityType

\* What a step does to one session's place changes the slots by that session.
LEMMA SlotTaken ==
  ASSUME NEW s \in Sessions, s \notin TakenSlots, TakenSlots' = TakenSlots \cup {s}
  PROVE  Cardinality(TakenSlots') = Cardinality(TakenSlots) + 1
  BY SlotsAreFinite, FS_AddElement

LEMMA SlotGiven ==
  ASSUME NEW s \in Sessions, s \in TakenSlots, TakenSlots' = TakenSlots \ {s}
  PROVE  Cardinality(TakenSlots') = Cardinality(TakenSlots) - 1 /\ Cardinality(TakenSlots) > 0
<1>1. Cardinality(TakenSlots') = Cardinality(TakenSlots) - 1
  BY SlotsAreFinite, FS_RemoveElement
<1>2. Cardinality(TakenSlots) # 0
  BY SlotsAreFinite, FS_EmptySet
<1> QED
  BY <1>1, <1>2, SlotsAreFinite

\* A step of one session that leaves the counter alone leaves its slot alone too.
LEMMA SlotsStand ==
  ASSUME WtInv, NEW s \in Sessions, sess' \in [Sessions -> SessRecords], wtOpen' = wtOpen,
         \A t \in Sessions : t # s => sess'[t] = sess[t],
         sess'[s].pc \in {"slot", "live"} <=> sess[s].pc \in {"slot", "live"},
         sess'[s].pc = "loaded" => sess'[s].seen < MaxSessions
  PROVE  SlotsInv'
<1>1. TakenSlots' = TakenSlots
  BY DEF TakenSlots
<1> QED
  BY <1>1 DEF WtInv, SlotsInv

LEMMA ClaimStep ==
  ASSUME WtInv, NEW s \in Sessions, Claim(s)
  PROVE  WtTyped' /\ SlotsInv' /\ ListenerInv'
<1>1. /\ sess' \in [Sessions -> SessRecords] /\ sess'[s].pc = "slot"
      /\ \A t \in Sessions : t # s => sess'[t] = sess[t]
  BY DEF Claim, SetSess, WtInv, WtTyped, SessRecords
<1>2. WtTyped'
  BY <1>1 DEF Claim, datagramVars, WtInv, WtTyped
<1>3. TakenSlots = {} /\ TakenSlots' = TakenSlots \cup {s}
  BY <1>1 DEF Claim, TakenSlots
<1>4. wtOpen = 0 /\ wtOpen' = 1
  BY <1>3, FS_EmptySet DEF Claim, WtInv, SlotsInv
<1>5. Cardinality(TakenSlots') = 1
  BY <1>3, <1>4, SlotTaken DEF WtInv, SlotsInv
<1>6. SlotsInv'
  BY <1>1, <1>4, <1>5 DEF WtInv, SlotsInv
<1>7. ListenerInv'
  BY <1>1 DEF Claim, datagramVars, WtInv, ListenerInv, Live
<1> QED
  BY <1>2, <1>6, <1>7

LEMMA ReserveLoadsStep ==
  ASSUME WtInv, NEW s \in Sessions, ReserveLoads(s)
  PROVE  WtTyped' /\ SlotsInv' /\ ListenerInv'
<1>1. wtOpen \in Nat
  BY SlotsAreFinite DEF WtInv, SlotsInv
<1>2. /\ sess' \in [Sessions -> SessRecords] /\ sess'[s].pc = "loaded" /\ sess'[s].seen = wtOpen
      /\ \A t \in Sessions : t # s => sess'[t] = sess[t]
  BY <1>1 DEF ReserveLoads, WtInv, WtTyped, SessRecords
<1>3. WtTyped'
  BY <1>2 DEF ReserveLoads, datagramVars, WtInv, WtTyped
<1>4. SlotsInv'
  BY <1>2, SlotsStand DEF ReserveLoads
<1>5. ListenerInv'
  BY <1>2 DEF ReserveLoads, datagramVars, WtInv, ListenerInv, Live
<1> QED
  BY <1>3, <1>4, <1>5

LEMMA ReserveExchangesStep ==
  ASSUME WtInv, NEW s \in Sessions, ReserveExchanges(s)
  PROVE  WtTyped' /\ SlotsInv' /\ ListenerInv'
<1>1. wtOpen \in Nat /\ MaxSessions \in Nat
  BY SlotsAreFinite, WebTransportConstants DEF WtInv, SlotsInv
<1>2. sess[s].pc = "loaded" /\ rx[s].pc = "out" /\ UNCHANGED datagramVars
  BY DEF ReserveExchanges, WtInv, ListenerInv, Live
<1>3. CASE wtOpen = sess[s].seen /\ wtOpen' = wtOpen + 1 /\ SetSess(s, "slot")
  <2>1. /\ sess' \in [Sessions -> SessRecords] /\ sess'[s].pc = "slot"
        /\ \A t \in Sessions : t # s => sess'[t] = sess[t]
    BY <1>3 DEF SetSess, WtInv, WtTyped, SessRecords
  <2>2. s \notin TakenSlots /\ TakenSlots' = TakenSlots \cup {s}
    BY <1>2, <2>1 DEF TakenSlots
  <2>3. wtOpen' = Cardinality(TakenSlots')
    BY <1>3, <2>2, SlotTaken DEF WtInv, SlotsInv
  <2>4. wtOpen' <= MaxSessions
    BY <1>1, <1>2, <1>3 DEF WtInv, SlotsInv
  <2>5. SlotsInv'
    BY <2>1, <2>3, <2>4 DEF WtInv, SlotsInv
  <2>6. WtTyped' /\ ListenerInv'
    BY <1>2, <2>1 DEF datagramVars, WtInv, WtTyped, ListenerInv, Live
  <2> QED
    BY <2>5, <2>6
<1>4. CASE /\ sess' = [sess EXCEPT ![s] = IF wtOpen < MaxSessions THEN [@ EXCEPT !.seen = wtOpen]
                                          ELSE NoSession]
           /\ UNCHANGED wtOpen
  <2>1. /\ sess' \in [Sessions -> SessRecords]
        /\ \A t \in Sessions : t # s => sess'[t] = sess[t]
        /\ sess'[s].pc \in {"loaded", "none"}
        /\ sess'[s].pc = "loaded" => sess'[s].seen < MaxSessions
    <3>1. CASE wtOpen < MaxSessions
      BY <1>1, <1>2, <1>4, <3>1 DEF WtInv, WtTyped, SessRecords
    <3>2. CASE ~(wtOpen < MaxSessions)
      BY <1>1, <1>2, <1>4, <3>2 DEF WtInv, WtTyped, SessRecords, NoSession
    <3> QED
      BY <3>1, <3>2
  <2>2. SlotsInv'
    BY <1>2, <1>4, <2>1, SlotsStand
  <2>3. WtTyped' /\ ListenerInv'
    BY <1>2, <2>1 DEF datagramVars, WtInv, WtTyped, ListenerInv, Live
  <2> QED
    BY <2>2, <2>3
<1> QED
  BY <1>3, <1>4, Zenon DEF ReserveExchanges

LEMMA EstablishesStep ==
  ASSUME WtInv, NEW s \in Sessions, Establishes(s)
  PROVE  WtTyped' /\ SlotsInv' /\ ListenerInv'
<1>1. /\ sess' \in [Sessions -> SessRecords] /\ sess'[s].pc = "live" /\ sess[s].pc = "slot"
      /\ \A t \in Sessions : t # s => sess'[t] = sess[t]
  BY DEF Establishes, SetSess, WtInv, WtTyped, SessRecords
<1>2. rx[s].pc = "out"
  BY <1>1 DEF WtInv, ListenerInv, Live
<1>3. /\ parkedFor' \in [Sessions -> HeldRecords]
      /\ \A t \in Sessions : t # s => parkedFor'[t] = parkedFor[t]
  BY DEF Establishes, WtInv, WtTyped, HeldRecords, NotParked
<1>4. WtTyped'
  BY <1>1, <1>3 DEF Establishes, WtInv, WtTyped
<1>5. SlotsInv'
  BY <1>1, SlotsStand DEF Establishes
<1>6. ListenerInv'
  BY <1>1, <1>2, <1>3 DEF Establishes, WtInv, ListenerInv, Live
<1> QED
  BY <1>4, <1>5, <1>6

\* A slot goes back: of a session that was not established, or of one dropped.
LEMMA SlotBack ==
  ASSUME WtInv, NEW s \in Sessions, sess[s].pc \in {"slot", "live"}, SetSess(s, "none"),
         wtOpen' = wtOpen - 1, rx[s].pc = "out", UNCHANGED <<rx, queue>>,
         parkedFor' \in [Sessions -> HeldRecords],
         \A t \in Sessions : t # s => parkedFor'[t] = parkedFor[t]
  PROVE  WtTyped' /\ SlotsInv' /\ ListenerInv'
<1>1. /\ sess' \in [Sessions -> SessRecords] /\ sess'[s].pc = "none"
      /\ \A t \in Sessions : t # s => sess'[t] = sess[t]
  BY DEF SetSess, WtInv, WtTyped, SessRecords
<1>2. s \in TakenSlots /\ TakenSlots' = TakenSlots \ {s}
  BY <1>1 DEF TakenSlots
<1>3. wtOpen' = Cardinality(TakenSlots') /\ wtOpen \in Nat
  BY <1>2, SlotGiven, SlotsAreFinite DEF WtInv, SlotsInv
<1>4. wtOpen' > 1 => wtOpen' <= MaxSessions
  BY <1>3, WebTransportConstants DEF WtInv, SlotsInv
<1>5. SlotsInv'
  BY <1>1, <1>3, <1>4 DEF WtInv, SlotsInv
<1>6. WtTyped' /\ ListenerInv'
  BY <1>1 DEF WtInv, WtTyped, ListenerInv, Live
<1> QED
  BY <1>5, <1>6

LEMMA SlotDroppedStep ==
  ASSUME WtInv, NEW s \in Sessions, SlotDropped(s)
  PROVE  WtTyped' /\ SlotsInv' /\ ListenerInv'
<1>1. sess[s].pc = "slot" /\ rx[s].pc = "out"
  BY DEF SlotDropped, WtInv, ListenerInv, Live
<1> QED
  BY <1>1, SlotBack DEF SlotDropped, datagramVars, WtInv, WtTyped

LEMMA SessionDroppedStep ==
  ASSUME WtInv, NEW s \in Sessions, SessionDropped(s)
  PROVE  WtTyped' /\ SlotsInv' /\ ListenerInv'
<1>1. /\ parkedFor' \in [Sessions -> HeldRecords]
      /\ \A t \in Sessions : t # s => parkedFor'[t] = parkedFor[t]
  BY DEF SessionDropped, WtInv, WtTyped, HeldRecords, NotParked
<1> QED
  BY <1>1, SlotBack DEF SessionDropped, Live

\* A step of recv_datagram leaves the slots alone.
LEMMA SlotsUntouched ==
  ASSUME WtInv, UNCHANGED slotVars
  PROVE  SlotsInv'
<1>1. TakenSlots' = TakenSlots
  BY DEF TakenSlots, slotVars
<1> QED
  BY <1>1 DEF WtInv, SlotsInv, slotVars

\* Where one listener moves and nothing is held for another.
LEMMA ListenerMoves ==
  ASSUME WtInv, NEW s \in Sessions, Live(s), UNCHANGED slotVars,
         rx' \in [Sessions -> RxRecords], \A t \in Sessions : t # s => rx'[t] = rx[t],
         parkedFor' \in [Sessions -> HeldRecords],
         \A t \in Sessions : t # s => parkedFor'[t] = parkedFor[t],
         queue' \in Seq(Sessions \cup {"unknown"}), Len(queue') <= MaxQueued,
         queue = <<>> => queue' = <<>>,
         rx'[s].pc \in {"read", "parked"} /\ ~rx'[s].woken =>
            ~parkedFor'[s].held /\ parkedFor'[s].waker,
         rx'[s].pc = "parked" => queue' = <<>>
  PROVE  WtTyped' /\ SlotsInv' /\ ListenerInv'
<1>1. WtTyped'
  BY DEF WtInv, WtTyped, slotVars
<1>2. SlotsInv'
  BY SlotsUntouched
<1>3. ListenerInv'
  BY DEF WtInv, ListenerInv, Live, slotVars
<1> QED
  BY <1>1, <1>2, <1>3

LEMMA RecvDatagramStep ==
  ASSUME WtInv, NEW s \in Sessions, RecvDatagram(s)
  PROVE  WtTyped' /\ SlotsInv' /\ ListenerInv'
<1>1. /\ rx' \in [Sessions -> RxRecords] /\ rx'[s].pc = "collect"
      /\ \A t \in Sessions : t # s => rx'[t] = rx[t]
  BY DEF RecvDatagram, Goes, WtInv, WtTyped, RxRecords
<1> QED
  BY <1>1, ListenerMoves DEF RecvDatagram, WtInv, WtTyped

LEMMA CollectStep ==
  ASSUME WtInv, NEW s \in Sessions, Collect(s)
  PROVE  WtTyped' /\ SlotsInv' /\ ListenerInv'
<1>1. Live(s)
  BY DEF Collect, WtInv, ListenerInv
<1>2. /\ rx' \in [Sessions -> RxRecords] /\ rx'[s].pc \in {"out", "wait"}
      /\ \A t \in Sessions : t # s => rx'[t] = rx[t]
  BY DEF Collect, Goes, WtInv, WtTyped, RxRecords
<1>3. /\ parkedFor' \in [Sessions -> HeldRecords]
      /\ \A t \in Sessions : t # s => parkedFor'[t] = parkedFor[t]
  BY DEF Collect, WtInv, WtTyped, HeldRecords, NotParked
<1> QED
  BY <1>1, <1>2, <1>3, ListenerMoves DEF Collect, WtInv, WtTyped

LEMMA WaitForAHandoverStep ==
  ASSUME WtInv, NEW s \in Sessions, WaitForAHandover(s)
  PROVE  WtTyped' /\ SlotsInv' /\ ListenerInv'
<1>1. Live(s)
  BY DEF WaitForAHandover, WtInv, ListenerInv
<1>2. /\ rx' \in [Sessions -> RxRecords] /\ rx'[s].pc \in {"collect", "read"}
      /\ rx'[s].pc = "read" => ~parkedFor[s].held
      /\ \A t \in Sessions : t # s => rx'[t] = rx[t]
  BY DEF WaitForAHandover, Goes, WtInv, WtTyped, RxRecords
<1>3. /\ parkedFor' \in [Sessions -> HeldRecords]
      /\ parkedFor'[s].held = parkedFor[s].held
      /\ ~parkedFor[s].held => parkedFor'[s].waker
      /\ \A t \in Sessions : t # s => parkedFor'[t] = parkedFor[t]
  BY DEF WaitForAHandover, WtInv, WtTyped, HeldRecords
<1> QED
  BY <1>1, <1>2, <1>3, ListenerMoves DEF WaitForAHandover, WtInv, WtTyped

LEMMA RecvDroppedStep ==
  ASSUME WtInv, NEW s \in Sessions, RecvDropped(s)
  PROVE  WtTyped' /\ SlotsInv' /\ ListenerInv'
<1>1. Live(s)
  BY DEF RecvDropped, WtInv, ListenerInv
<1>2. /\ rx' \in [Sessions -> RxRecords] /\ rx'[s].pc = "out"
      /\ \A t \in Sessions : t # s => rx'[t] = rx[t]
  BY DEF RecvDropped, Goes, WtInv, WtTyped, RxRecords
<1> QED
  BY <1>1, <1>2, ListenerMoves DEF RecvDropped, WtInv, WtTyped

\* A datagram for another session is held there, and its waker used.
LEMMA HandOverStep ==
  ASSUME WtInv, NEW s \in Sessions, NEW to \in Sessions, to # s, rx[s].pc = "read",
         HandOver(s, to), queue # <<>>, queue' \in Seq(Sessions \cup {"unknown"}),
         Len(queue') <= MaxQueued, UNCHANGED slotVars
  PROVE  WtTyped' /\ SlotsInv' /\ ListenerInv'
<1>1. /\ parkedFor' \in [Sessions -> HeldRecords]
      /\ \A t \in Sessions : t # to => parkedFor'[t] = parkedFor[t]
  BY DEF HandOver, WtInv, WtTyped, HeldRecords
<1>2. /\ rx' \in [Sessions -> RxRecords]
      /\ rx'[s].pc = "collect" /\ rx'[to].pc = rx[to].pc
      /\ rx'[to].woken = (rx[to].woken \/ parkedFor[to].waker)
      /\ \A t \in Sessions : t # to /\ t # s => rx'[t] = rx[t]
  <2>1. rx[to] \in RxRecords /\ parkedFor[to] \in HeldRecords
    BY DEF WtInv, WtTyped
  <2>2. rx' = [rx EXCEPT ![s] = [pc |-> "collect", woken |-> FALSE],
                         ![to] = [rx[to] EXCEPT !.woken = rx[to].woken \/ parkedFor[to].waker]]
    BY DEF HandOver, WtInv, WtTyped
  <2>3. (rx[to].woken \/ parkedFor[to].waker) \in BOOLEAN
    BY <2>1 DEF RxRecords, HeldRecords
  <2> QED
    BY <2>1, <2>2, <2>3 DEF WtInv, WtTyped, RxRecords
<1>3. WtTyped'
  BY <1>1, <1>2 DEF WtInv, WtTyped, slotVars
<1>4. SlotsInv'
  BY SlotsUntouched
<1>5. ListenerInv'
  BY <1>1, <1>2, ZenonT(60) DEF WtInv, ListenerInv, Live, slotVars
<1> QED
  BY <1>3, <1>4, <1>5

LEMMA ReadDatagramStep ==
  ASSUME WtInv, NEW s \in Sessions, ReadDatagram(s)
  PROVE  WtTyped' /\ SlotsInv' /\ ListenerInv'
<1>1. Live(s) /\ rx[s].pc = "read" /\ UNCHANGED slotVars
  BY DEF ReadDatagram, WtInv, ListenerInv
<1>2. CASE queue = <<>> /\ rx' = [rx EXCEPT ![s].pc = "parked"] /\ UNCHANGED <<parkedFor, queue>>
  <2>1. /\ rx' \in [Sessions -> RxRecords] /\ rx'[s].woken = rx[s].woken
        /\ \A t \in Sessions : t # s => rx'[t] = rx[t]
    BY <1>2 DEF WtInv, WtTyped, RxRecords
  <2>2. ~rx'[s].woken => ~parkedFor'[s].held /\ parkedFor'[s].waker
    BY <1>1, <1>2, <2>1 DEF WtInv, ListenerInv
  <2> QED
    BY <1>1, <1>2, <2>1, <2>2, ListenerMoves DEF WtInv, WtTyped
<1>3. ASSUME queue # <<>>, queue' = Tail(queue),
             LET to == Head(queue)
             IN CASE to = s -> Goes(s, "out") /\ UNCHANGED parkedFor
                  [] to # s /\ to \in Sessions /\ Live(to) -> HandOver(s, to)
                  [] OTHER -> Goes(s, "collect") /\ UNCHANGED parkedFor
      PROVE  WtTyped' /\ SlotsInv' /\ ListenerInv'
  <2> DEFINE to == Head(queue)
  <2>1. /\ queue' \in Seq(Sessions \cup {"unknown"}) /\ Len(queue') <= MaxQueued
    <3>1. queue \in Seq(Sessions \cup {"unknown"}) /\ Len(queue) <= MaxQueued /\ MaxQueued \in Nat
      BY WebTransportConstants DEF WtInv, WtTyped
    <3> QED
      BY <1>3, <3>1
  <2>2. CASE (Goes(s, "out") \/ Goes(s, "collect")) /\ UNCHANGED parkedFor
    <3>1. /\ rx' \in [Sessions -> RxRecords] /\ rx'[s].pc \in {"out", "collect"}
          /\ \A t \in Sessions : t # s => rx'[t] = rx[t]
      <4>1. CASE Goes(s, "out")
        BY <4>1 DEF Goes, WtInv, WtTyped, RxRecords
      <4>2. CASE Goes(s, "collect")
        BY <4>2 DEF Goes, WtInv, WtTyped, RxRecords
      <4> QED
        BY <2>2, <4>1, <4>2
    <3> QED
      BY <1>1, <1>3, <2>1, <2>2, <3>1, ListenerMoves DEF WtInv, WtTyped
  <2>3. CASE to # s /\ to \in Sessions /\ HandOver(s, to)
    BY <1>1, <1>3, <2>1, <2>3, HandOverStep
  <2> QED
    BY <1>3, <2>2, <2>3
<1> QED
  BY <1>2, <1>3 DEF ReadDatagram

LEMMA DatagramQueuedStep ==
  ASSUME WtInv, NEW to \in Sessions \cup {"unknown"}, DatagramQueued(to)
  PROVE  WtTyped' /\ SlotsInv' /\ ListenerInv'
<1> DEFINE q == IF Len(queue) = MaxQueued THEN Tail(queue) ELSE queue
<1>1. /\ queue \in Seq(Sessions \cup {"unknown"}) /\ Len(queue) <= MaxQueued
      /\ MaxQueued \in Nat /\ MaxQueued > 0
  BY WebTransportConstants DEF WtInv, WtTyped
<1>2. q \in Seq(Sessions \cup {"unknown"}) /\ Len(q) < MaxQueued
  <2>1. CASE Len(queue) = MaxQueued
    BY <1>1, <2>1
  <2>2. CASE Len(queue) # MaxQueued
    BY <1>1, <2>2
  <2> QED
    BY <2>1, <2>2
<1>3. queue' = Append(q, to)
  BY DEF DatagramQueued
<1> HIDE DEF q
<1>4. queue' \in Seq(Sessions \cup {"unknown"}) /\ Len(queue') <= MaxQueued
  BY <1>1, <1>2, <1>3
<1>5. /\ rx' \in [Sessions -> RxRecords]
      /\ \A s \in Sessions : /\ rx'[s].pc = rx[s].pc
                             /\ rx'[s].woken = (rx[s].woken \/ rx[s].pc = "parked")
  BY DEF DatagramQueued, WtInv, WtTyped, RxRecords
<1>6. WtTyped'
  BY <1>4, <1>5 DEF DatagramQueued, slotVars, WtInv, WtTyped
<1>7. SlotsInv'
  BY SlotsUntouched DEF DatagramQueued
<1>8. ListenerInv'
  BY ZenonT(60), <1>5 DEF DatagramQueued, slotVars, WtInv, ListenerInv, Live
<1> QED
  BY <1>6, <1>7, <1>8

\* The endings of a whole stream, and what the stream says as a whole.
AllEndings(w) == {i \in 1 .. (w.units \div 2) : w.caps[i] # "other"}

LEMMA WholeSays ==
  ASSUME NEW w \in WatchRecords
  PROVE  /\ AllEndings(w) # {} =>
              WholeStreamSays(w) = w.caps[CHOOSE i \in AllEndings(w) : \A j \in AllEndings(w) : i <= j]
         /\ AllEndings(w) = {} /\ w.came = w.units => WholeStreamSays(w) = AtEnd(w)
<1> DEFINE all == [w EXCEPT !.came = w.units, !.over = TRUE, !.taken = 0]
<1>1. /\ all.caps = w.caps /\ all.came = w.units /\ all.over = TRUE /\ all.taken = 0
      /\ all.end = w.end
  BY DEF WatchRecords
<1>2. EndingsIn(all) = AllEndings(w) /\ Whole(all) = w.units \div 2
  BY <1>1 DEF EndingsIn, AllEndings, Whole
<1>3. WholeStreamSays(w) = PollStream(all)
  BY DEF WholeStreamSays
<1>4. w.came = w.units => AtEnd(all) = AtEnd(w)
  BY <1>1, <1>2 DEF AtEnd, Whole
<1> HIDE DEF all
<1> QED
  BY <1>1, <1>2, <1>3, <1>4 DEF PollStream

\* The stream says the same for as long as it is the same stream.
LEMMA SameStreamSaysTheSame ==
  ASSUME NEW v \in WatchRecords, NEW w \in WatchRecords,
         v.caps = w.caps, v.units = w.units, v.end = w.end
  PROVE  WholeStreamSays(v) = WholeStreamSays(w)
<1> DEFINE allV == [v EXCEPT !.came = v.units, !.over = TRUE, !.taken = 0]
           allW == [w EXCEPT !.came = w.units, !.over = TRUE, !.taken = 0]
<1>1. /\ allV.caps = allW.caps /\ allV.came = allW.came /\ allV.over = allW.over
      /\ allV.taken = allW.taken /\ allV.end = allW.end
  BY DEF WatchRecords
<1>2. WholeStreamSays(v) = PollStream(allV) /\ WholeStreamSays(w) = PollStream(allW)
  BY DEF WholeStreamSays
<1> HIDE DEF allV, allW
<1>3. Whole(allV) = Whole(allW)
  BY <1>1 DEF Whole
<1>4. EndingsIn(allV) = EndingsIn(allW) /\ AtEnd(allV) = AtEnd(allW)
  BY <1>1, <1>3 DEF EndingsIn, AtEnd
<1> QED
  BY <1>1, <1>2, <1>4 DEF PollStream

LEMMA LeastPosition ==
  ASSUME NEW T, T \subseteq Nat, T # {}
  PROVE  \E x \in T : \A y \in T : x <= y
<1>1. PICK x \in T : \A y \in T : ~(<<y, x>> \in OpToRel(<, Nat))
  BY NatLessThanWellFounded, WFMin, Zenon
<1>2. \A y \in T : ~(y < x)
  BY <1>1 DEF OpToRel
<1> QED
  BY <1>2

LEMMA LeastIsChosen ==
  ASSUME NEW T, T \subseteq Nat, NEW x \in T, \A y \in T : x <= y
  PROVE  (CHOOSE i \in T : \A j \in T : i <= j) = x
<1> DEFINE c == CHOOSE i \in T : \A j \in T : i <= j
<1>1. c \in T /\ \A j \in T : c <= j
  OBVIOUS
<1> HIDE DEF c
<1>2. c <= x /\ x <= c /\ c \in Nat /\ x \in Nat
  BY <1>1
<1>3. c = x
  BY <1>2
<1> QED
  BY <1>3 DEF c

\* What a poll of the stream finds is what the whole stream says, where nothing
\* that was taken before was an ending.
LEMMA PollSaysTheWhole ==
  ASSUME WatchInv, watch.ended = "no", PollStream(watch) # "no"
  PROVE  PollStream(watch) = WholeStreamSays(watch)
<1>1. /\ watch \in WatchRecords
      /\ watch.came \in Nat /\ watch.units \in Nat /\ watch.taken \in Nat
      /\ watch.came <= watch.units /\ watch.taken <= watch.came \div 2
      /\ \A i \in 1 .. watch.taken : watch.caps[i] = "other"
      /\ watch.over => watch.came = watch.units
  BY DEF WatchInv, WatchRecords, Whole
<1>2. /\ watch.came \div 2 <= watch.units \div 2
      /\ watch.came \div 2 \in Nat /\ watch.units \div 2 \in Nat
  BY <1>1
<1> DEFINE E == EndingsIn(watch)
           A == AllEndings(watch)
           h == watch.came \div 2
           u == watch.units \div 2
<1>3. /\ E = {i \in watch.taken + 1 .. h : watch.caps[i] # "other"}
      /\ A = {i \in 1 .. u : watch.caps[i] # "other"}
  BY DEF EndingsIn, AllEndings, Whole
<1>4. /\ E # {} => PollStream(watch) = watch.caps[CHOOSE i \in E : \A j \in E : i <= j]
      /\ E = {} => watch.over /\ PollStream(watch) = AtEnd(watch)
  BY DEF PollStream
<1>5. /\ A # {} => WholeStreamSays(watch) = watch.caps[CHOOSE i \in A : \A j \in A : i <= j]
      /\ A = {} /\ watch.came = watch.units => WholeStreamSays(watch) = AtEnd(watch)
  BY <1>1, WholeSays
<1>6. h \in Nat /\ u \in Nat /\ h <= u /\ watch.taken <= h /\ (watch.came = watch.units => h = u)
  BY <1>1, <1>2
<1> HIDE DEF E, A, h, u
<1>7. CASE E # {}
  <2>1. E \subseteq Nat
    BY <1>1, <1>3, <1>6
  <2>2. PICK x \in E : \A y \in E : x <= y
    BY <1>7, <2>1, LeastPosition
  <2>3. x \in A /\ \A y \in A : x <= y
    BY <1>1, <1>3, <1>6, <2>1, <2>2
  <2>4. (CHOOSE i \in E : \A j \in E : i <= j) = x
    BY <2>1, <2>2, LeastIsChosen
  <2>5. A \subseteq Nat
    BY <1>3, <1>6
  <2>6. (CHOOSE i \in A : \A j \in A : i <= j) = x
    BY <2>3, <2>5, LeastIsChosen
  <2> QED
    BY <1>4, <1>5, <1>7, <2>3, <2>4, <2>6
<1>8. CASE E = {}
  <2>1. watch.came = watch.units
    BY <1>1, <1>4, <1>8
  <2>2. A = {}
    BY <1>1, <1>3, <1>6, <1>8, <2>1
  <2> QED
    BY <1>4, <1>5, <1>8, <2>1, <2>2
<1> QED
  BY <1>7, <1>8

LEMMA PieceArrivesStep ==
  ASSUME WatchInv, PieceArrives
  PROVE  WatchInv'
<1>1. watch \in WatchRecords /\ watch.came \in Nat /\ watch.units \in Nat /\ watch.taken \in Nat
  BY DEF WatchInv, WatchRecords
<1> DEFINE Grows == /\ watch' \in WatchRecords
                    /\ watch'.caps = watch.caps /\ watch'.units = watch.units
                    /\ watch'.end = watch.end
                    /\ watch'.taken = watch.taken /\ watch'.ended = watch.ended
                    /\ watch.came <= watch'.came /\ watch'.came <= watch.units
                    /\ watch'.over => watch'.came = watch.units
<1>2. Grows
  <2>1. CASE watch.came = watch.units /\ watch' = [watch EXCEPT !.over = TRUE]
    <3>1. watch' \in WatchRecords /\ watch'.came = watch.units
      BY <1>1, <2>1 DEF WatchRecords
    <3>2. /\ watch'.caps = watch.caps /\ watch'.units = watch.units /\ watch'.end = watch.end
          /\ watch'.taken = watch.taken /\ watch'.ended = watch.ended
      BY <1>1, <2>1 DEF WatchRecords
    <3> QED
      BY <1>1, <2>1, <3>1, <3>2
  <2>2. ASSUME watch.came < watch.units, NEW n \in watch.came + 1 .. watch.units,
               watch' = [watch EXCEPT !.came = n]
        PROVE  Grows
    <3>1. ~watch.over
      BY <1>1, <2>2 DEF WatchInv
    <3>2. n \in Nat /\ watch.came <= n /\ n <= watch.units
      BY <1>1, <2>2
    <3> QED
      BY <1>1, <2>2, <3>1, <3>2 DEF WatchRecords
  <2> QED
    BY <2>1, <2>2 DEF PieceArrives
<1>3. watch'.came \in Nat
  BY <1>2 DEF WatchRecords
<1>4. watch'.taken <= Whole(watch')
  <2>1. watch.taken <= watch.came \div 2 /\ watch.came \div 2 <= watch'.came \div 2
        /\ watch.came \div 2 \in Nat /\ watch'.came \div 2 \in Nat
    BY SMTT(30), <1>1, <1>2, <1>3 DEF WatchInv, Whole
  <2> QED
    BY <1>1, <1>2, <1>3, <2>1 DEF Whole
<1>5. EndIsTheStreams'
  BY <1>1, <1>2, SameStreamSaysTheSame DEF WatchInv, EndIsTheStreams
<1> QED
  BY <1>1, <1>2, <1>4, <1>5 DEF WatchInv

LEMMA ClosedStep ==
  ASSUME WatchInv, Closed
  PROVE  WatchInv'
<1> DEFINE now == IF watch.ended # "no" THEN watch.ended ELSE PollStream(watch)
<1>1. watch \in WatchRecords /\ watch.came \in Nat /\ watch.units \in Nat /\ watch.taken \in Nat
      /\ watch.came <= watch.units /\ watch.units <= 2 * Len(watch.caps)
      /\ watch.caps \in Seq(Capsules) /\ Len(watch.caps) \in Nat
  BY DEF WatchInv, WatchRecords
<1>2. watch' = [watch EXCEPT !.ended = now, !.taken = Whole(watch)]
  BY DEF Closed
<1>3. Whole(watch) \in Nat /\ Whole(watch) <= Len(watch.caps)
  BY SMTT(30), <1>1 DEF Whole
<1>4. PollStream(watch) \in Capsules \cup {"no", "error", "truncated", "clean"}
  <2>1. CASE EndingsIn(watch) # {}
    <3>1. EndingsIn(watch) \subseteq 1 .. Len(watch.caps) /\ EndingsIn(watch) \subseteq Nat
      BY SMTT(30), <1>1, <1>3 DEF EndingsIn
    <3>2. PICK x \in EndingsIn(watch) : \A y \in EndingsIn(watch) : x <= y
      BY <2>1, <3>1, LeastPosition
    <3>3. (CHOOSE i \in EndingsIn(watch) : \A j \in EndingsIn(watch) : i <= j) \in EndingsIn(watch)
      BY <3>2
    <3>4. \A i \in EndingsIn(watch) : watch.caps[i] \in Capsules
      BY <1>1, <3>1
    <3> QED
      BY <2>1, <3>3, <3>4 DEF PollStream
  <2>2. CASE EndingsIn(watch) = {}
    BY <2>2 DEF PollStream, AtEnd
  <2> QED
    BY <2>1, <2>2
<1>5. now \in Capsules \cup {"no", "error", "truncated", "clean"}
  BY <1>1, <1>4 DEF WatchRecords
<1>6. PollStream(watch) = "no" => \A i \in watch.taken + 1 .. Whole(watch) : watch.caps[i] = "other"
  <2>1. CASE EndingsIn(watch) # {}
    <3>1. EndingsIn(watch) \subseteq 1 .. Len(watch.caps) /\ EndingsIn(watch) \subseteq Nat
      BY <1>1, <1>3 DEF EndingsIn
    <3>2. PICK x \in EndingsIn(watch) : \A y \in EndingsIn(watch) : x <= y
      BY <2>1, <3>1, LeastPosition
    <3>3. (CHOOSE i \in EndingsIn(watch) : \A j \in EndingsIn(watch) : i <= j) \in EndingsIn(watch)
      BY <3>2
    <3>4. \A i \in EndingsIn(watch) : watch.caps[i] # "no"
      BY <1>1, <3>1 DEF Capsules
    <3> QED
      BY <2>1, <3>3, <3>4 DEF PollStream
  <2>2. CASE EndingsIn(watch) = {}
    BY <2>2 DEF EndingsIn
  <2> QED
    BY <2>1, <2>2
<1> HIDE DEF now
<1>7. /\ watch' \in WatchRecords /\ watch'.ended = now /\ watch'.taken = Whole(watch)
      /\ watch'.caps = watch.caps /\ watch'.units = watch.units /\ watch'.end = watch.end
      /\ watch'.came = watch.came /\ watch'.over = watch.over
  BY <1>1, <1>2, <1>3, <1>5 DEF WatchRecords
<1>8. Whole(watch') = Whole(watch)
  BY <1>7 DEF Whole
<1>9. watch'.ended = "no" => \A i \in 1 .. watch'.taken : watch'.caps[i] = "other"
  <2> SUFFICES ASSUME now = "no", NEW i \in 1 .. Whole(watch)
               PROVE  watch.caps[i] = "other"
    BY <1>7
  <2>1. watch.ended = "no" /\ PollStream(watch) = "no"
    BY DEF now
  <2>2. CASE i \in 1 .. watch.taken
    BY <2>1, <2>2 DEF WatchInv
  <2>3. CASE i \in watch.taken + 1 .. Whole(watch)
    BY <1>6, <2>1, <2>3
  <2> QED
    BY <1>1, <1>3, <2>2, <2>3
<1>10. EndIsTheStreams'
  <2>1. WholeStreamSays(watch') = WholeStreamSays(watch)
    BY <1>1, <1>7, SameStreamSaysTheSame
  <2>2. now # "no" => now = WholeStreamSays(watch)
    <3>1. CASE watch.ended # "no"
      BY <3>1 DEF now, WatchInv, EndIsTheStreams
    <3>2. CASE watch.ended = "no"
      BY <3>2, PollSaysTheWhole DEF now
    <3> QED
      BY <3>1, <3>2
  <2> QED
    BY <1>7, <2>1, <2>2 DEF EndIsTheStreams
<1> QED
  BY <1>1, <1>3, <1>7, <1>8, <1>9, <1>10 DEF WatchInv

LEMMA WatchBegins == WatchInit => WatchInv
<1> SUFFICES ASSUME NEW n \in 0 .. MaxCapsules, NEW caps \in [1 .. n -> Capsules],
                    NEW cut \in BOOLEAN, NEW end \in StreamEnds,
                    watch = [caps |-> caps, units |-> 2 * n - (IF cut /\ n > 0 THEN 1 ELSE 0),
                             end |-> end, came |-> 0, over |-> FALSE,
                             taken |-> 0, ended |-> "no"]
             PROVE  WatchInv
  BY DEF WatchInit
<1>1. n \in Nat /\ caps \in Seq(Capsules) /\ Len(caps) = n
  BY WebTransportConstants
<1> DEFINE units == 2 * n - (IF cut /\ n > 0 THEN 1 ELSE 0)
<1>2. units \in Nat /\ units <= 2 * n
  BY <1>1
<1> HIDE DEF units
<1>3. watch \in WatchRecords
  BY <1>1, <1>2 DEF WatchRecords, units
<1>4. watch.units = units /\ watch.came = 0 /\ watch.taken = 0 /\ watch.caps = caps
  BY DEF units
<1>5. Whole(watch) = 0
  BY <1>4 DEF Whole
<1> QED
  BY <1>1, <1>2, <1>3, <1>4, <1>5 DEF WatchInv, EndIsTheStreams

LEMMA SessionsBegin == WtInit => WtTyped /\ SlotsInv /\ ListenerInv
<1> SUFFICES ASSUME WtInit PROVE WtTyped /\ SlotsInv /\ ListenerInv
  OBVIOUS
<1>1. /\ \A s \in Sessions : sess[s].pc = "none" /\ rx[s].pc = "out"
      /\ sess \in [Sessions -> SessRecords] /\ rx \in [Sessions -> RxRecords]
      /\ parkedFor \in [Sessions -> HeldRecords]
  BY DEF WtInit, NoSession, NotParked, NotCalled, SessRecords, RxRecords, HeldRecords
<1>2. WtTyped
  BY <1>1, WebTransportConstants DEF WtInit, WtTyped
<1>3. TakenSlots = {}
  BY <1>1 DEF TakenSlots
<1>4. SlotsInv
  BY <1>1, <1>3, FS_EmptySet DEF WtInit, SlotsInv
<1>5. ListenerInv
  BY <1>1 DEF ListenerInv
<1> QED
  BY <1>2, <1>4, <1>5

\* A step of a session or of the watch, or neither.
WtMoves == (SessionsNext /\ UNCHANGED watch) \/ WatchNext

LEMMA WtStep == WtInv /\ [WtMoves]_wtVars => WtInv'
<1> SUFFICES ASSUME WtInv, [WtMoves]_wtVars PROVE WtInv'
  OBVIOUS
<1>1. ASSUME UNCHANGED watch PROVE WatchInv'
  BY <1>1 DEF WtInv, WatchInv, EndIsTheStreams
<1>2. ASSUME UNCHANGED <<slotVars, datagramVars>>
      PROVE  WtTyped' /\ SlotsInv' /\ ListenerInv'
  <2>1. SlotsInv'
    BY <1>2, SlotsUntouched
  <2> QED
    BY <1>2, <2>1 DEF slotVars, datagramVars, WtInv, WtTyped, ListenerInv, Live
<1>3. CASE SessionsNext /\ UNCHANGED watch
  <2>1. WtTyped' /\ SlotsInv' /\ ListenerInv'
    BY <1>3, ClaimStep, ReserveLoadsStep, ReserveExchangesStep, EstablishesStep,
       SlotDroppedStep, SessionDroppedStep, RecvDatagramStep, CollectStep,
       WaitForAHandoverStep, ReadDatagramStep, RecvDroppedStep, DatagramQueuedStep
       DEF SessionsNext
  <2> QED
    BY <1>1, <1>3, <2>1 DEF WtInv
<1>4. CASE WatchNext
  <2>1. UNCHANGED <<slotVars, datagramVars>>
    BY <1>4 DEF WatchNext, PieceArrives, Closed
  <2>2. WatchInv'
    BY <1>4, PieceArrivesStep, ClosedStep DEF WatchNext, WtInv
  <2> QED
    BY <1>2, <2>1, <2>2 DEF WtInv
<1>5. CASE UNCHANGED wtVars
  BY <1>1, <1>2, <1>5 DEF wtVars, slotVars, datagramVars, WtInv
<1> QED
  BY <1>3, <1>4, <1>5 DEF WtMoves

LEMMA WtInvHolds == WtInv => WtHolds
<1> SUFFICES ASSUME WtInv PROVE WtHolds
  OBVIOUS
<1>1. wtOpen \in Nat /\ wtOpen <= Cardinality(Sessions) /\ Cardinality(Sessions) \in Nat
  BY SlotsAreFinite, WebTransportConstants, FS_CardinalityType DEF WtInv, SlotsInv
<1>2. WtTypeOK
  BY <1>1 DEF WtInv, WtTyped, ListenerInv, WtTypeOK
<1>3. SlotsAreCounted
  BY DEF WtInv, SlotsInv, SlotsAreCounted, TakenSlots
<1>4. ListenerIsWoken
  BY DEF WtInv, ListenerInv, ListenerIsWoken
<1> QED
  BY <1>2, <1>3, <1>4 DEF WtInv, WatchInv, WtHolds

------------------------------------------------------------------------------
(* One request over an exclusive HTTP/2 connection (http2.rs).             *)

ReqRecords ==
  [chunks : 0 .. MaxChunks, tail : RequestTails, pending : 0 .. ChunkSize, given : Nat, sent : Nat]
H2sRecords ==
  [half : {"none", "open", "ended", "reset", "peer_stopped"}, window : 0 .. ChunkSize,
   undriven : BOOLEAN]
PeerRecords ==
  [reset : {"none", "no_error", "cancel"}, head : BOOLEAN, frames : 0 .. MaxFrames,
   ended : BOOLEAN, conn : {"up", "closed", "broken"}]
BodyRecords ==
  [at : {"drive", "pump", "recv"}, phase : {"ready", "head", "body", "over"}, pump : BOOLEAN,
   conn : BOOLEAN, reuse : BOOLEAN,
   told : {"nothing", "error", "not_sent", "end", "dropped"}, pooled : BOOLEAN]

ExTyped == req \in ReqRecords /\ h2s \in H2sRecords /\ peer \in PeerRecords /\ body \in BodyRecords

\* What was given by the body and not yet sent is the pump's chunk, and no
\* more is given than there are chunks.
Accounted ==
  /\ req.given = req.sent + req.pending
  /\ req.given + ChunkSize * req.chunks <= ChunkSize * MaxChunks

\* Our half is open exactly while there is a pump; it was stopped by the peer
\* only after a reset; it was reset only by an exchange that is over.
HalfFits ==
  /\ h2s.half = "open" <=> body.pump
  /\ body.phase = "ready" => h2s.half = "none" /\ req.pending = 0
  /\ h2s.half = "none" => body.phase \in {"ready", "over"}
  /\ h2s.half = "reset" => body.phase = "over"
  /\ h2s.half = "peer_stopped" => peer.reset # "none"
  /\ h2s.half = "ended" => req.chunks = 0 /\ req.pending = 0 /\ req.tail \in {"end", "trailers"}

\* The turn of the loop: the pump is polled only if there is one, a finished
\* exchange is not polled, and the response is read with nothing undriven.
TurnFits ==
  /\ body.at = "pump" => body.pump
  /\ body.phase \in {"ready", "over"} => body.at = "drive" /\ ~body.pump
  /\ body.at = "recv" /\ body.conn /\ ~body.pump => ~h2s.undriven
  /\ body.pooled => body.phase = "over"

ExInv == ExTyped /\ Accounted /\ HalfFits /\ TurnFits /\ PooledIsClean

\* A step after which the exchange is over and its half settled.
LEMMA ExEnds ==
  ASSUME ExInv, body' \in BodyRecords, body'.at = "drive", body'.phase = "over", ~body'.pump,
         ExDropPump, UNCHANGED <<req, peer>>, PooledIsClean'
  PROVE  ExInv'
<1>1. /\ h2s' \in H2sRecords /\ h2s'.half = ResetIfOpen(h2s.half, body.pump)
      /\ h2s'.undriven = h2s.undriven
  BY DEF ExInv, ExTyped, ExDropPump, H2sRecords, ResetIfOpen
<1>2. h2s.half = "open" <=> body.pump
  BY DEF ExInv, HalfFits
<1>3. h2s'.half = IF h2s.half = "open" THEN "reset" ELSE h2s.half
  BY <1>1, <1>2 DEF ResetIfOpen
<1>4. HalfFits'
  BY <1>3 DEF ExInv, HalfFits
<1>5. TurnFits'
  BY DEF TurnFits
<1> QED
  BY <1>1, <1>4, <1>5 DEF ExInv, ExTyped, Accounted

\* What `end' makes of a body.
LEMMA EndsABody ==
  ASSUME NEW b \in BodyRecords, NEW t \in {"error", "not_sent", "end", "dropped"}
  PROVE  /\ End(b, t) \in BodyRecords
         /\ End(b, t).at = "drive" /\ End(b, t).phase = "over" /\ ~End(b, t).pump
         /\ End(b, t).reuse <=> (b.reuse /\ ~b.pump)
         /\ End(b, t).pooled = b.pooled
         /\ End(b, t).conn = b.conn
<1>1. (b.reuse /\ ~b.pump) \in BOOLEAN
  BY DEF BodyRecords
<1> QED
  BY <1>1 DEF End, BodyRecords

LEMMA ExFailsStep ==
  ASSUME ExInv, body.phase # "over", NEW t \in {"error", "dropped"},
         body' = End([body EXCEPT !.reuse = FALSE], t), ExDropPump, UNCHANGED <<req, peer>>
  PROVE  ExInv'
<1> DEFINE b == [body EXCEPT !.reuse = FALSE]
<1>1. b \in BodyRecords /\ b.pooled = body.pooled
  BY DEF ExInv, ExTyped, BodyRecords
<1>2. ~body.pooled /\ body' = End(b, t) /\ t \in {"error", "not_sent", "end", "dropped"}
  BY DEF ExInv, TurnFits
<1> HIDE DEF b
<1>3. /\ body' \in BodyRecords /\ body'.at = "drive" /\ body'.phase = "over" /\ ~body'.pump
      /\ ~body'.pooled
  BY <1>1, <1>2, EndsABody
<1>4. PooledIsClean'
  BY <1>3 DEF PooledIsClean
<1> QED
  BY <1>3, <1>4, ExEnds

\* The peer moves while the exchange waits for it.
LEMMA PeerStep ==
  ASSUME ExInv, body.at = "drive", body.phase # "over", UNCHANGED <<req, body>>,
         peer' \in PeerRecords, peer.reset # "none" => peer'.reset # "none",
         h2s' \in H2sRecords, h2s'.half = h2s.half
  PROVE  ExInv'
<1>1. ExTyped' /\ Accounted'
  BY DEF ExInv, ExTyped, Accounted
<1>2. HalfFits'
  BY DEF ExInv, HalfFits
<1>3. TurnFits' /\ PooledIsClean'
  BY DEF ExInv, TurnFits, PooledIsClean
<1> QED
  BY <1>1, <1>2, <1>3 DEF ExInv

LEMMA PeersStep ==
  ASSUME ExInv, PeerAnswers \/ PeerResets \/ PeerOpensWindow \/ ConnectionEnds
  PROVE  ExInv'
<1>1. peer \in PeerRecords /\ h2s \in H2sRecords /\ peer.frames \in 0 .. MaxFrames /\ MaxFrames \in Nat
      /\ ChunkSize \in Nat
  BY ExchangeConstants DEF ExInv, ExTyped, PeerRecords
<1>2. CASE PeerAnswers
  <2>1. CASE PeerMoves([peer EXCEPT !.head = TRUE])
    BY <1>1, <1>2, <2>1, PeerStep DEF PeerAnswers, PeerMoves, PeerRecords
  <2>2. CASE peer.frames < MaxFrames /\ PeerMoves([peer EXCEPT !.frames = @ + 1])
    <3>1. peer.frames + 1 \in 0 .. MaxFrames
      BY <1>1, <2>2
    <3> QED
      BY <1>1, <1>2, <2>2, <3>1, PeerStep DEF PeerAnswers, PeerMoves, PeerRecords
  <2>3. CASE PeerMoves([peer EXCEPT !.ended = TRUE])
    BY <1>1, <1>2, <2>3, PeerStep DEF PeerAnswers, PeerMoves, PeerRecords
  <2> QED
    BY <1>2, <2>1, <2>2, <2>3 DEF PeerAnswers
<1>3. CASE PeerResets
  <2>1. PICK code \in {"no_error", "cancel"} : PeerMoves([peer EXCEPT !.reset = code])
    BY <1>3 DEF PeerResets
  <2>2. [peer EXCEPT !.reset = code] \in PeerRecords /\ [peer EXCEPT !.reset = code].reset = code
    BY <1>1 DEF PeerRecords
  <2> QED
    BY <1>1, <1>3, <2>1, <2>2, PeerStep DEF PeerResets, PeerMoves
<1>4. CASE PeerOpensWindow
  <2>1. PICK n \in 1 .. ChunkSize : h2s' = [h2s EXCEPT !.window = n]
    BY <1>4 DEF PeerOpensWindow
  <2>2. h2s' \in H2sRecords /\ h2s'.half = h2s.half
    BY <1>1, <2>1 DEF H2sRecords
  <2> QED
    BY <1>1, <1>4, <2>2, PeerStep DEF PeerOpensWindow, PeerMoves
<1>5. CASE ConnectionEnds
  <2>1. PICK how \in {"closed", "broken"} : PeerMoves([peer EXCEPT !.conn = how])
    BY <1>5 DEF ConnectionEnds
  <2>2. /\ [peer EXCEPT !.conn = how] \in PeerRecords
        /\ [peer EXCEPT !.conn = how].reset = peer.reset
    BY <1>1 DEF PeerRecords
  <2> QED
    BY <1>1, <1>5, <2>1, <2>2, PeerStep DEF ConnectionEnds, PeerMoves
<1> QED
  BY <1>2, <1>3, <1>4, <1>5

LEMMA HandsOverStep ==
  ASSUME ExInv, HandsOver
  PROVE  ExInv'
<1>1. /\ body.at = "drive" /\ body.phase = "ready" /\ UNCHANGED <<req, peer>>
      /\ h2s.half = "none" /\ req.pending = 0 /\ ~body.pump /\ ~body.pooled
  BY DEF HandsOver, ExInv, HalfFits, TurnFits
<1>2. CASE /\ h2s' = [h2s EXCEPT !.half = IF Eos THEN "ended" ELSE "open", !.undriven = TRUE]
           /\ body' = [body EXCEPT !.phase = "head", !.pump = ~Eos]
  <2>1. /\ h2s' \in H2sRecords /\ h2s'.half = IF Eos THEN "ended" ELSE "open"
        /\ body' \in BodyRecords /\ body'.phase = "head" /\ body'.pump = ~Eos
        /\ body'.at = "drive" /\ body'.pooled = body.pooled
    BY <1>1, <1>2 DEF ExInv, ExTyped, H2sRecords, BodyRecords, Eos
  <2>2. ExTyped' /\ Accounted'
    BY <1>1, <2>1 DEF ExInv, ExTyped, Accounted
  <2>3. HalfFits'
    BY <1>1, <2>1 DEF HalfFits, Eos
  <2>4. TurnFits' /\ PooledIsClean'
    BY <1>1, <2>1 DEF TurnFits, PooledIsClean
  <2> QED
    BY <2>2, <2>3, <2>4 DEF ExInv
<1>3. CASE body' = End([body EXCEPT !.reuse = FALSE], "not_sent") /\ UNCHANGED h2s
  <2> DEFINE b == [body EXCEPT !.reuse = FALSE]
  <2>1. b \in BodyRecords /\ b.pooled = body.pooled /\ body' = End(b, "not_sent")
    BY <1>3 DEF ExInv, ExTyped, BodyRecords
  <2> HIDE DEF b
  <2>2. /\ body' \in BodyRecords /\ body'.at = "drive" /\ body'.phase = "over" /\ ~body'.pump
        /\ ~body'.pooled
    BY <1>1, <2>1, EndsABody
  <2>3. ExTyped' /\ Accounted'
    BY <1>1, <1>3, <2>2 DEF ExInv, ExTyped, Accounted
  <2>4. HalfFits' /\ TurnFits' /\ PooledIsClean'
    BY <1>1, <1>3, <2>2 DEF HalfFits, TurnFits, PooledIsClean
  <2> QED
    BY <2>3, <2>4 DEF ExInv
<1> QED
  BY <1>2, <1>3 DEF HandsOver

LEMMA DriveConnStep ==
  ASSUME ExInv, DriveConn
  PROVE  ExInv'
<1>1. body.at = "drive" /\ body.phase \in {"head", "body"} /\ ~body.pooled
  BY DEF DriveConn, ExInv, TurnFits
<1>2. CASE ExFails
  BY <1>1, <1>2, ExFailsStep DEF ExFails
<1>3. ASSUME body' = [body EXCEPT !.conn = @ /\ ~(peer.conn = "closed"),
                                  !.reuse = @ /\ ~(peer.conn = "closed"),
                                  !.at = IF body.pump THEN "pump" ELSE "recv"],
             h2s' = [h2s EXCEPT !.undriven = @ /\ ~body.conn], UNCHANGED <<req, peer>>
      PROVE  ExInv'
  <2>1. body \in BodyRecords /\ h2s \in H2sRecords
    BY DEF ExInv, ExTyped
  <2>2. /\ (body.conn /\ ~(peer.conn = "closed")) \in BOOLEAN
        /\ (body.reuse /\ ~(peer.conn = "closed")) \in BOOLEAN
        /\ (h2s.undriven /\ ~body.conn) \in BOOLEAN
    BY <2>1 DEF BodyRecords, H2sRecords
  <2>3. /\ body' \in BodyRecords /\ body'.phase = body.phase /\ body'.pump = body.pump
        /\ body'.at = IF body.pump THEN "pump" ELSE "recv"
        /\ body'.conn => body.conn
        /\ body'.pooled = body.pooled
    BY <1>3, <2>1, <2>2, ZenonT(60) DEF BodyRecords
  <2>4. /\ h2s' \in H2sRecords /\ h2s'.half = h2s.half
        /\ body.conn => ~h2s'.undriven
    BY <1>3, <2>1, <2>2 DEF H2sRecords
  <2>5. ExTyped' /\ Accounted'
    BY <1>3, <2>3, <2>4 DEF ExInv, ExTyped, Accounted
  <2>6. HalfFits'
    BY <1>3, <2>3, <2>4 DEF ExInv, HalfFits
  <2>7. TurnFits' /\ PooledIsClean'
    BY <1>1, <2>3, <2>4 DEF TurnFits, PooledIsClean
  <2> QED
    BY <2>5, <2>6, <2>7 DEF ExInv
<1> QED
  BY <1>2, <1>3 DEF DriveConn

\* The pump settles: it is gone, and our half is ended or stopped.
LEMMA PumpSettlesStep ==
  ASSUME ExInv, body.at = "pump", NEW settled \in {"ended", "peer_stopped"}, PumpSettles(settled),
         UNCHANGED <<req, peer>>,
         settled = "ended" => req.chunks = 0 /\ req.pending = 0 /\ req.tail \in {"end", "trailers"},
         settled = "peer_stopped" => peer.reset # "none"
  PROVE  ExInv'
<1>1. body \in BodyRecords /\ h2s \in H2sRecords /\ body.phase \in {"head", "body"} /\ ~body.pooled
  BY DEF ExInv, ExTyped, TurnFits, BodyRecords
<1>2. /\ body' \in BodyRecords /\ body'.pump = FALSE /\ body'.at = "drive"
      /\ body'.phase = body.phase /\ body'.pooled = body.pooled
  BY <1>1 DEF PumpSettles, Rounds, BodyRecords
<1>3. h2s' \in H2sRecords /\ h2s'.half = settled
  <2>1. (h2s.undriven \/ settled = "ended") \in BOOLEAN
    OBVIOUS
  <2> QED
    BY <1>1, <2>1 DEF PumpSettles, H2sRecords
<1>4. ExTyped' /\ Accounted'
  BY <1>2, <1>3 DEF ExInv, ExTyped, Accounted
<1>5. HalfFits'
  BY <1>1, <1>2, <1>3 DEF HalfFits
<1>6. TurnFits' /\ PooledIsClean'
  BY <1>1, <1>2 DEF TurnFits, PooledIsClean
<1> QED
  BY <1>4, <1>5, <1>6 DEF ExInv

\* Nothing but the turn changes: the pump waits, or another round begins.
LEMMA TurnStep ==
  ASSUME ExInv, NEW place \in {"drive", "recv"}, NEW phase \in {"head", "body"},
         body.phase \in {"head", "body"},
         body' = [body EXCEPT !.at = place, !.phase = phase], UNCHANGED <<req, h2s, peer>>,
         place = "recv" => body.pump
  PROVE  ExInv'
<1>1. body \in BodyRecords /\ ~body.pooled
  BY DEF ExInv, ExTyped, TurnFits
<1>2. /\ body' \in BodyRecords /\ body'.at = place /\ body'.phase = phase
      /\ body'.pump = body.pump /\ body'.conn = body.conn /\ body'.pooled = body.pooled
  BY <1>1 DEF BodyRecords
<1>3. ExTyped' /\ Accounted'
  BY <1>2 DEF ExInv, ExTyped, Accounted
<1>4. HalfFits'
  BY <1>2 DEF ExInv, HalfFits
<1>5. TurnFits' /\ PooledIsClean'
  BY <1>1, <1>2 DEF TurnFits, PooledIsClean
<1> QED
  BY <1>3, <1>4, <1>5 DEF ExInv

\* The pump's chunk moves on: from the body to the pump, or to the window.
LEMMA ChunkStep ==
  ASSUME ExInv, body.at = "pump", req' \in ReqRecords, Accounted',
         h2s' \in H2sRecords, h2s'.half = h2s.half, UNCHANGED <<peer, body>>
  PROVE  ExInv'
<1>1. body.pump /\ h2s.half = "open" /\ body.phase \in {"head", "body"} /\ ~body.pooled
  BY DEF ExInv, ExTyped, TurnFits, HalfFits, BodyRecords
<1>2. ExTyped'
  BY DEF ExInv, ExTyped
<1>3. HalfFits'
  BY <1>1 DEF HalfFits
<1>4. TurnFits' /\ PooledIsClean'
  BY <1>1 DEF TurnFits, PooledIsClean
<1> QED
  BY <1>2, <1>3, <1>4 DEF ExInv

LEMMA PumpSendsStep ==
  ASSUME ExInv, PumpSends
  PROVE  ExInv'
<1>1. /\ body.at = "pump" /\ body.pump /\ body.phase \in {"head", "body"}
      /\ body \in BodyRecords /\ req \in ReqRecords /\ h2s \in H2sRecords
  BY DEF PumpSends, Pumping, ExInv, ExTyped, TurnFits, BodyRecords
<1>2. CASE PumpWaits
  <2>1. body' = [body EXCEPT !.at = "recv", !.phase = body.phase]
    BY <1>1, <1>2 DEF PumpWaits, BodyRecords
  <2> QED
    BY <1>1, <1>2, <2>1, TurnStep DEF PumpWaits
<1>3. CASE /\ h2s.window > 0
           /\ req' = [req EXCEPT !.pending = @ - Sendable, !.sent = @ + Sendable]
           /\ h2s' = [h2s EXCEPT !.window = @ - Sendable, !.undriven = TRUE]
           /\ UNCHANGED <<peer, body>>
  <2>1. /\ req.pending \in 0 .. ChunkSize /\ h2s.window \in 0 .. ChunkSize /\ ChunkSize \in Nat
        /\ req.sent \in Nat /\ req.given = req.sent + req.pending
    BY <1>1, ExchangeConstants DEF ReqRecords, H2sRecords, ExInv, Accounted
  <2>2. Sendable \in Nat /\ Sendable <= req.pending /\ Sendable <= h2s.window
    BY <2>1 DEF Sendable
  <2>3. /\ req.pending - Sendable \in 0 .. ChunkSize /\ req.sent + Sendable \in Nat
        /\ h2s.window - Sendable \in 0 .. ChunkSize
        /\ req.given = (req.sent + Sendable) + (req.pending - Sendable)
    BY <2>1, <2>2
  <2>4. /\ req' \in ReqRecords /\ req'.pending = req.pending - Sendable
        /\ req'.sent = req.sent + Sendable /\ req'.given = req.given /\ req'.chunks = req.chunks
    BY <1>1, <1>3, <2>3 DEF ReqRecords
  <2>5. Accounted'
    BY <2>3, <2>4 DEF ExInv, Accounted
  <2>6. h2s' \in H2sRecords /\ h2s'.half = h2s.half
    BY <1>1, <1>3, <2>3 DEF H2sRecords
  <2> QED
    BY <1>1, <1>3, <2>4, <2>5, <2>6, ChunkStep
<1> QED
  BY <1>2, <1>3 DEF PumpSends

LEMMA PumpReadsStep ==
  ASSUME ExInv, PumpReads
  PROVE  ExInv'
<1>1. /\ body.at = "pump" /\ body.pump /\ body.phase \in {"head", "body"}
      /\ body \in BodyRecords /\ req \in ReqRecords /\ req.pending = 0
  BY DEF PumpReads, Pumping, ExInv, ExTyped, TurnFits, BodyRecords
<1>2. CASE PumpWaits
  <2>1. body' = [body EXCEPT !.at = "recv", !.phase = body.phase]
    BY <1>1, <1>2 DEF PumpWaits, BodyRecords
  <2> QED
    BY <1>1, <1>2, <2>1, TurnStep DEF PumpWaits
<1>3. ASSUME req.chunks > 0, UNCHANGED <<h2s, peer, body>>, NEW size \in {0, ChunkSize},
             req' = [req EXCEPT !.chunks = @ - 1, !.pending = size, !.given = @ + size]
      PROVE  ExInv'
  <2>1. /\ req.chunks \in 0 .. MaxChunks /\ MaxChunks \in Nat /\ ChunkSize \in Nat
        /\ req.given \in Nat /\ req.sent \in Nat /\ req.given = req.sent
        /\ req.given + ChunkSize * req.chunks <= ChunkSize * MaxChunks
    BY <1>1, ExchangeConstants DEF ReqRecords, ExInv, Accounted
  <2>2. /\ req.chunks - 1 \in 0 .. MaxChunks /\ size \in 0 .. ChunkSize
        /\ req.given + size \in Nat
    BY <1>3, <2>1
  <2>3. ChunkSize * (req.chunks - 1) = ChunkSize * req.chunks - ChunkSize
    BY <2>1
  <2>4. /\ req' \in ReqRecords /\ req'.chunks = req.chunks - 1 /\ req'.pending = size
        /\ req'.given = req.given + size /\ req'.sent = req.sent
    BY <1>1, <1>3, <2>2 DEF ReqRecords
  <2>5. (req.given + size) + ChunkSize * (req.chunks - 1) <= ChunkSize * MaxChunks
    <3> DEFINE a == ChunkSize * req.chunks
               m == ChunkSize * MaxChunks
    <3>1. a \in Int /\ m \in Int
      BY <2>1
    <3>2. ChunkSize * (req.chunks - 1) = a - ChunkSize /\ req.given + a <= m
      BY <2>1, <2>3
    <3> HIDE DEF a, m
    <3>3. (req.given + size) + (a - ChunkSize) <= m
      BY <2>1, <2>2, <3>1, <3>2
    <3> QED
      BY <3>2, <3>3 DEF m
  <2>6. Accounted'
    BY <2>1, <2>4, <2>5 DEF Accounted
  <2>7. h2s' \in H2sRecords
    BY <1>3 DEF ExInv, ExTyped
  <2> QED
    BY <1>1, <1>3, <2>4, <2>6, <2>7, ChunkStep
<1>4. CASE /\ req.chunks = 0 /\ req.tail \in {"end", "trailers"} /\ PumpSettles("ended")
           /\ UNCHANGED <<req, peer>>
  BY <1>1, <1>4, PumpSettlesStep
<1>5. CASE ExFails
  BY <1>1, <1>5, ExFailsStep DEF ExFails
<1> QED
  BY <1>2, <1>3, <1>4, <1>5 DEF PumpReads

LEMMA RecvHeadStep ==
  ASSUME ExInv, RecvHead
  PROVE  ExInv'
<1>1. body.at = "recv" /\ body.phase = "head" /\ body \in BodyRecords
  BY DEF RecvHead, ExInv, ExTyped
<1>2. CASE body' = [body EXCEPT !.phase = "body", !.at = "drive"] /\ UNCHANGED <<req, h2s, peer>>
  <2>1. body' = [body EXCEPT !.at = "drive", !.phase = "body"]
    BY <1>1, <1>2 DEF BodyRecords
  <2> QED
    BY <1>1, <1>2, <2>1, TurnStep
<1>3. CASE ExFails
  BY <1>1, <1>3, ExFailsStep DEF ExFails
<1>4. CASE body' = [body EXCEPT !.at = "drive"] /\ UNCHANGED <<req, h2s, peer>>
  <2>1. body' = [body EXCEPT !.at = "drive", !.phase = body.phase]
    BY <1>1, <1>4 DEF BodyRecords
  <2> QED
    BY <1>1, <1>4, <2>1, TurnStep
<1> QED
  BY <1>2, <1>3, <1>4 DEF RecvHead

LEMMA RecvBodyStep ==
  ASSUME ExInv, RecvBody
  PROVE  ExInv'
<1>1. body.at = "recv" /\ body.phase = "body" /\ body \in BodyRecords /\ peer \in PeerRecords
      /\ ~body.pooled
  BY DEF RecvBody, ExInv, ExTyped, TurnFits
<1>2. CASE /\ peer.frames > 0
           /\ peer' = [peer EXCEPT !.frames = @ - 1]
           /\ body' = [body EXCEPT !.at = "drive"]
           /\ UNCHANGED <<req, h2s>>
  <2>1. peer.frames - 1 \in 0 .. MaxFrames
    BY <1>1, <1>2, ExchangeConstants DEF PeerRecords
  <2>2. peer' \in PeerRecords /\ peer'.reset = peer.reset
    BY <1>1, <1>2, <2>1 DEF PeerRecords
  <2>3. /\ body' \in BodyRecords /\ body'.at = "drive" /\ body'.phase = "body"
        /\ body'.pump = body.pump /\ body'.pooled = body.pooled
    BY <1>1, <1>2 DEF BodyRecords
  <2>4. ExTyped' /\ Accounted'
    BY <1>2, <2>2, <2>3 DEF ExInv, ExTyped, Accounted
  <2>5. HalfFits'
    BY <1>1, <1>2, <2>2, <2>3 DEF ExInv, HalfFits
  <2>6. TurnFits' /\ PooledIsClean'
    BY <1>1, <2>3 DEF TurnFits, PooledIsClean
  <2> QED
    BY <2>4, <2>5, <2>6 DEF ExInv
<1>3. CASE Complete /\ body' = HandBack(End(body, "end")) /\ ExDropPump /\ UNCHANGED <<req, peer>>
  <2> DEFINE b == End(body, "end")
  <2>1. /\ b \in BodyRecords /\ b.at = "drive" /\ b.phase = "over" /\ ~b.pump
        /\ b.reuse <=> (body.reuse /\ ~body.pump)
        /\ b.conn = body.conn
    BY <1>1, EndsABody
  <2> HIDE DEF b
  <2>2. (b.conn /\ b.reuse) \in BOOLEAN
    BY <2>1 DEF BodyRecords
  <2>3. body' = [b EXCEPT !.pooled = b.conn /\ b.reuse, !.conn = FALSE, !.reuse = FALSE]
    BY <1>3 DEF HandBack, b
  <2>4. /\ body' \in BodyRecords /\ body'.at = "drive" /\ body'.phase = "over" /\ ~body'.pump
        /\ body'.pooled = (b.conn /\ b.reuse)
    BY <2>1, <2>2, <2>3 DEF BodyRecords
  <2>5. body'.pooled => body.conn /\ ~body.pump
    BY <2>1, <2>4
  <2>6. PooledIsClean'
    <3> SUFFICES ASSUME body'.pooled
                 PROVE  h2s'.half = "ended" /\ peer.reset = "none" /\ peer.ended /\ ~h2s'.undriven
      BY <1>3 DEF PooledIsClean
    <3>1. ~h2s.undriven /\ peer.reset = "none" /\ peer.ended
      BY <1>1, <1>3, <2>5 DEF ExInv, TurnFits, Complete
    <3>2. h2s.half = "ended" /\ h2s \in H2sRecords
      BY <1>1, <2>5, <3>1 DEF ExInv, ExTyped, HalfFits, H2sRecords
    <3>3. h2s'.half = "ended" /\ h2s'.undriven = h2s.undriven
      BY <1>3, <3>2 DEF ExDropPump, ResetIfOpen, H2sRecords
    <3> QED
      BY <3>1, <3>3
  <2> QED
    BY <1>3, <2>4, <2>6, ExEnds
<1>4. CASE body' = End([body EXCEPT !.reuse = FALSE], "end") /\ ExDropPump /\ UNCHANGED <<req, peer>>
  <2> DEFINE b == [body EXCEPT !.reuse = FALSE]
  <2>1. b \in BodyRecords /\ b.pooled = body.pooled /\ body' = End(b, "end")
    BY <1>1, <1>4 DEF BodyRecords
  <2> HIDE DEF b
  <2>2. /\ body' \in BodyRecords /\ body'.at = "drive" /\ body'.phase = "over" /\ ~body'.pump
        /\ ~body'.pooled
    BY <1>1, <2>1, EndsABody
  <2>3. PooledIsClean'
    BY <2>2 DEF PooledIsClean
  <2> QED
    BY <1>4, <2>2, <2>3, ExEnds
<1>5. CASE ExFails
  BY <1>1, <1>5, ExFailsStep DEF ExFails
<1>6. CASE body' = [body EXCEPT !.at = "drive"] /\ UNCHANGED <<req, h2s, peer>>
  <2>1. body' = [body EXCEPT !.at = "drive", !.phase = body.phase]
    BY <1>1, <1>6 DEF BodyRecords
  <2> QED
    BY <1>1, <1>6, <2>1, TurnStep
<1> QED
  BY <1>2, <1>3, <1>4, <1>5, <1>6 DEF RecvBody

LEMMA ExStep == ExInv /\ [ExNext]_exVars => ExInv'
<1> SUFFICES ASSUME ExInv, [ExNext]_exVars PROVE ExInv'
  OBVIOUS
<1>1. CASE PumpSeesReset
  BY <1>1, PumpSettlesStep DEF PumpSeesReset
<1>2. CASE PumpFails
  <2>1. body.phase # "over"
    BY <1>2 DEF PumpFails, ExInv, TurnFits
  <2> QED
    BY <1>2, <2>1, ExFailsStep DEF PumpFails, ExFails
<1>3. CASE Abandon
  BY <1>3, ExFailsStep DEF Abandon
<1>4. CASE UNCHANGED exVars
  BY <1>4 DEF exVars, ExInv, ExTyped, Accounted, HalfFits, TurnFits, PooledIsClean
<1> QED
  BY <1>1, <1>2, <1>3, <1>4, PeersStep, HandsOverStep, DriveConnStep, PumpSendsStep,
     PumpReadsStep, RecvHeadStep, RecvBodyStep DEF ExNext

LEMMA ExBegins == ExInit => ExInv
<1> SUFFICES ASSUME NEW n \in 0 .. MaxChunks, NEW t \in RequestTails, ExInit,
                    req = [chunks |-> n, tail |-> t, pending |-> 0, given |-> 0, sent |-> 0]
             PROVE  ExInv
  BY DEF ExInit
<1>1. MaxChunks \in Nat /\ ChunkSize \in Nat /\ MaxFrames \in Nat /\ n \in Nat /\ n <= MaxChunks
  BY ExchangeConstants
<1>2. req \in ReqRecords
  BY <1>1 DEF ReqRecords
<1>3. h2s \in H2sRecords /\ peer \in PeerRecords /\ body \in BodyRecords
  BY <1>1 DEF ExInit, H2sRecords, PeerRecords, BodyRecords
<1>4. ChunkSize * n <= ChunkSize * MaxChunks /\ ChunkSize * n \in Nat
  BY <1>1
<1>5. Accounted
  BY <1>4 DEF Accounted
<1>6. HalfFits /\ TurnFits /\ PooledIsClean
  BY DEF ExInit, HalfFits, TurnFits, PooledIsClean
<1> QED
  BY <1>2, <1>3, <1>5, <1>6 DEF ExInv, ExTyped

LEMMA ExInvHolds == ExInv => ExchangeHolds
<1> SUFFICES ASSUME ExInv PROVE ExchangeHolds
  OBVIOUS
<1>1. /\ req.sent \in Nat /\ req.given \in Nat /\ req.pending \in Nat /\ req.chunks \in Nat
      /\ ChunkSize \in Nat /\ MaxChunks \in Nat
      /\ req.given = req.sent + req.pending
      /\ req.given + ChunkSize * req.chunks <= ChunkSize * MaxChunks
  BY ExchangeConstants DEF ExInv, ExTyped, ReqRecords, Accounted
<1>2. ChunkSize * req.chunks \in Nat /\ ChunkSize * MaxChunks \in Nat
  BY <1>1
<1>3. req.sent <= ChunkSize * MaxChunks
  BY <1>1, <1>2
<1>4. ExTypeOK
  BY <1>3 DEF ExInv, ExTyped, ReqRecords, H2sRecords, BodyRecords, ExTypeOK
<1>5. EndedMeansWhole
  BY <1>1 DEF ExInv, HalfFits, EndedMeansWhole
<1>6. NothingLeftOpen
  BY DEF ExInv, HalfFits, TurnFits, NothingLeftOpen
<1> QED
  BY <1>4, <1>5, <1>6 DEF ExInv, ExchangeHolds

------------------------------------------------------------------------------
(* The layers of a response body (idle.rs, cached.rs, deadline.rs,          *)
(* decompress.rs, limit.rs).                                                *)

FrameOrError == {"data", "bad", "trailers", "error"}

NetType ==
  [inbox : Seq(FrameOrError), given : Nat, over : {"open", "none", "error"}, last : Nat,
   trailers : BOOLEAN]

Outs == {"pending", "nothing", "data", "bad", "trailers", "none", "error", "idle_error",
         "deadline_error", "decode_error", "too_large"}

ChainType ==
  [out : Outs, told : Outs, delivered : Nat, idle : BOOLEAN, sleep : Nat,
   rec : {"off", "on", "committing"}, buffered : Nat, writing : BOOLEAN, stored : BOOLEAN,
   live : BOOLEAN, coding : {"through", "decoding", "ended"}, half : BOOLEAN, fed : BOOLEAN,
   limit : SizeLimits \cup {NoLimit}, seen : Nat, open : BOOLEAN]

\* The transport has m frames of data left, and what ends a body after them.
NetFits(n, m, now) ==
  /\ m \in 0 .. Len(n.inbox) /\ m <= n.given /\ n.given <= MaxData /\ n.last <= now
  /\ \A i \in 1 .. m : n.inbox[i] \in {"data", "bad"}
  /\ \A i \in m + 1 .. Len(n.inbox) : n.inbox[i] \in {"trailers", "error"}
  /\ m < Len(n.inbox) => n.trailers \/ n.over = "error"

\* The inner layers.  A recording holds all that was read and no trailers were,
\* one that is being written, or was, holds all there is, and a timer that runs
\* was set after the last frame, or one is there to be read.
InnerFits(c, n, m) ==
  /\ c.buffered <= CacheMax
  /\ c.rec = "committing" \/ c.writing \/ c.stored =>
       n.over = "none" /\ n.inbox = <<>> /\ ~n.trailers /\ c.buffered = n.given
  /\ c.writing => c.rec = "committing"
  /\ c.rec = "on" =>
       /\ c.buffered = n.given - m
       /\ n.trailers => m < Len(n.inbox) /\ n.inbox[m + 1] = "trailers"
  /\ c.sleep # Never =>
       n.inbox # <<>> \/ n.over = "none" \/ c.sleep >= n.last + Every

\* The outer layers.  Until the coding ends or the limit is passed what was read
\* is what was delivered, decoded; and where a layer has ended the caller knows.
OuterFits(c, n, m) ==
  /\ c.delivered <= n.given - m
  /\ c.open => c.seen = c.delivered
  /\ c.limit # NoLimit => c.delivered <= c.limit
  /\ ~c.open => c.limit # NoLimit /\ c.seen > c.limit
  /\ c.told = "too_large" => ~c.open
  /\ ~c.open \/ c.coding = "ended" \/ ~c.idle => c.told # "nothing"
  /\ c.coding = "through" => ~c.half /\ \A i \in 1 .. Len(n.inbox) : n.inbox[i] # "bad"
  /\ c.open /\ c.coding = "through" => c.delivered = n.given - m
  /\ c.open /\ c.coding = "decoding" =>
       n.given - m = 2 * c.delivered + (IF c.half THEN 1 ELSE 0)
  /\ c.coding = "decoding" /\ c.half => c.fed
  /\ c.told = "none" =>
       /\ n.over = "none" /\ n.inbox = <<>> /\ ~c.half
       /\ c.delivered = IF c.coding = "through" THEN n.given ELSE n.given \div 2

LayersInv ==
  /\ at \in Nat /\ net \in NetType /\ chain \in ChainType
  /\ \E m \in Nat : NetFits(net, m, at) /\ InnerFits(chain, net, m) /\ OuterFits(chain, net, m)

\* Between-bytes timeouts that are due, and nothing after the total one.
BodyInTime ==
  /\ (chain.told = "nothing" /\ chain'.told = "idle_error") =>
       net.inbox = <<>> /\ at >= net.last + Every
  /\ chain'.delivered > chain.delivered => at < Total

LEMMA LayersBegin == LayersInit => LayersInv
<1> SUFFICES ASSUME LayersInit PROVE LayersInv
  OBVIOUS
<1> USE LayersConstants
<1>1. at = 0 /\ Never \in Nat
  BY DEF LayersInit, Never
<1>2. PICK limit \in SizeLimits \cup {NoLimit}, coded \in BOOLEAN, rec \in {"off", "on"} :
        chain = [out |-> Pending, told |-> "nothing", delivered |-> 0,
                 idle |-> TRUE, sleep |-> Never,
                 rec |-> rec, buffered |-> 0, writing |-> FALSE, stored |-> FALSE,
                 live |-> TRUE,
                 coding |-> IF coded THEN "decoding" ELSE "through", half |-> FALSE, fed |-> FALSE,
                 limit |-> limit, seen |-> 0, open |-> TRUE]
  BY DEF LayersInit
<1>3. net = [inbox |-> <<>>, given |-> 0, over |-> "open", last |-> 0, trailers |-> FALSE]
  BY DEF LayersInit
<1>4. Pending \in Outs /\ "nothing" \in Outs
  BY DEF Outs, Pending
<1>5. chain \in ChainType
  <2>1. (IF coded THEN "decoding" ELSE "through") \in {"through", "decoding", "ended"}
    OBVIOUS
  <2> QED
    BY <1>1, <1>2, <1>4, <2>1 DEF ChainType
<1>6. net \in NetType
  BY <1>3 DEF NetType
<1>7. NetFits(net, 0, at)
  BY <1>1, <1>3 DEF NetFits
<1>8. InnerFits(chain, net, 0)
  BY <1>2, <1>3 DEF InnerFits
<1>9. OuterFits(chain, net, 0)
  <2>1. /\ chain.delivered = 0 /\ chain.seen = 0 /\ chain.open /\ chain.told = "nothing"
        /\ chain.idle /\ ~chain.half /\ chain.coding # "ended"
        /\ chain.limit # NoLimit => chain.limit \in Nat
    BY <1>2
  <2>2. net.given = 0 /\ net.inbox = <<>>
    BY <1>3
  <2> QED
    BY <2>1, <2>2 DEF OuterFits
<1> QED
  BY <1>1, <1>5, <1>6, <1>7, <1>8, <1>9 DEF LayersInv

LEMMA LayersTickStep == LayersInv /\ LayersTick => LayersInv'
<1> SUFFICES ASSUME LayersInv, LayersTick PROVE LayersInv'
  OBVIOUS
<1>1. at \in Nat /\ at' = at + 1 /\ net' = net /\ chain' = chain /\ net \in NetType
  BY DEF LayersInv, LayersTick
<1>2. PICK m \in Nat : NetFits(net, m, at) /\ InnerFits(chain, net, m) /\ OuterFits(chain, net, m)
  BY DEF LayersInv
<1>3. NetFits(net, m, at + 1)
  BY <1>1, <1>2 DEF NetFits, NetType
<1> QED
  BY <1>1, <1>2, <1>3 DEF LayersInv

LEMMA StoreWritesStep == LayersInv /\ StoreWrites => LayersInv'
<1> SUFFICES ASSUME LayersInv, StoreWrites PROVE LayersInv'
  OBVIOUS
<1>1. chain.writing /\ chain' = [chain EXCEPT !.writing = FALSE, !.stored = TRUE]
      /\ net' = net /\ at' = at /\ chain \in ChainType
  BY DEF StoreWrites, LayersInv
<1>2. PICK m \in Nat : NetFits(net, m, at) /\ InnerFits(chain, net, m) /\ OuterFits(chain, net, m)
  BY DEF LayersInv
<1>3. chain' \in ChainType
  BY <1>1 DEF ChainType
<1>4. /\ chain'.delivered = chain.delivered /\ chain'.seen = chain.seen /\ chain'.open = chain.open
      /\ chain'.limit = chain.limit /\ chain'.told = chain.told /\ chain'.coding = chain.coding
      /\ chain'.idle = chain.idle /\ chain'.half = chain.half /\ chain'.fed = chain.fed
      /\ chain'.rec = chain.rec /\ chain'.buffered = chain.buffered /\ chain'.sleep = chain.sleep
      /\ chain'.writing = FALSE
  BY <1>1 DEF ChainType
<1>5. InnerFits(chain', net, m)
  BY <1>1, <1>2, <1>4 DEF InnerFits
<1>6. OuterFits(chain', net, m)
  BY <1>2, <1>4 DEF OuterFits
<1> QED
  BY <1>1, <1>2, <1>3, <1>5, <1>6 DEF LayersInv

\* What arrives goes to the end of what is there.
LEMMA ArrivesFits ==
  ASSUME LayersInv, net.over = "open", at' = at, chain' = chain, net' \in NetType, net'.last = at,
         NEW f \in FrameOrError, NEW add \in BOOLEAN,
         net'.inbox = IF add THEN Append(net.inbox, f) ELSE net.inbox,
         \/ /\ add /\ f \in {"data", "bad"} /\ ~net.trailers /\ (f = "bad" => chain.coding # "through")
            /\ net'.given = net.given + 1 /\ net'.given <= MaxData
            /\ ~net'.trailers /\ net'.over = "open"
         \/ /\ add /\ f = "trailers" /\ ~net.trailers
            /\ net'.given = net.given /\ net'.trailers /\ net'.over = "open"
         \/ /\ add /\ f = "error"
            /\ net'.given = net.given /\ net'.trailers = net.trailers /\ net'.over = "error"
         \/ /\ ~add
            /\ net'.given = net.given /\ net'.trailers = net.trailers /\ net'.over = "none"
  PROVE  LayersInv'
<1>0. at \in Nat /\ net \in NetType /\ chain \in ChainType
  BY DEF LayersInv
<1> DEFINE n == net' b == net.inbox nb == n.inbox
<1> DEFINE g == n.given  over == n.over  trailers == n.trailers
<1>1. /\ n \in NetType /\ n.last = at /\ g \in Nat /\ trailers \in BOOLEAN
      /\ n.inbox = IF add THEN Append(b, f) ELSE b
  BY <1>0 DEF NetType
<1>2. b \in Seq(FrameOrError) /\ net.given \in Nat /\ net.last \in Nat
  BY <1>0 DEF NetType
<1>3. PICK m \in Nat : NetFits(net, m, at) /\ InnerFits(chain, net, m) /\ OuterFits(chain, net, m)
  BY DEF LayersInv
<1>4. m \in 0 .. Len(b) /\ m <= net.given /\ net.given <= MaxData
      /\ (\A i \in 1 .. m : b[i] \in {"data", "bad"})
      /\ (\A i \in m + 1 .. Len(b) : b[i] \in {"trailers", "error"})
      /\ (m < Len(b) => net.trailers)
  BY <1>3 DEF NetFits
<1>5. add => /\ Len(nb) = Len(b) + 1 /\ nb[Len(b) + 1] = f /\ nb # <<>>
             /\ \A i \in 1 .. Len(b) : nb[i] = b[i]
  <2>1. add => nb = Append(b, f)
    BY <1>1
  <2> HIDE DEF n, b
  <2> QED
    BY <1>2, <2>1, SMTT(30)
<1>6. ~add => nb = b
  BY <1>1
<1> DEFINE k == IF add /\ f \in {"data", "bad"} THEN m + 1 ELSE m
<1>7. k \in Nat
  OBVIOUS
<1>8. NetFits(n, k, at)
  <2>1. CASE add /\ f \in {"data", "bad"}
    <3>1. m = Len(b) /\ k = m + 1 /\ g = net.given + 1 /\ g <= MaxData
      BY <1>4, <2>1, <1>2
    <3> QED
      BY <1>0, <1>1, <1>2, <1>4, <1>5, <2>1, <3>1, SMTT(30) DEF NetFits
  <2>2. CASE add /\ f \notin {"data", "bad"}
    <3>1. k = m /\ g = net.given /\ f \in {"trailers", "error"} /\ (trailers \/ over = "error")
      BY <2>2
    <3> QED
      BY SMTT(30), <1>0, <1>1, <1>2, <1>4, <1>5, <2>2, <3>1 DEF NetFits
  <2>3. CASE ~add
    BY <1>0, <1>1, <1>2, <1>4, <1>6, <2>3 DEF NetFits
  <2> QED
    BY <2>1, <2>2, <2>3
<1>9. InnerFits(chain, n, k)
  <2>1. chain.rec # "committing" /\ ~chain.writing /\ ~chain.stored
    BY <1>3 DEF InnerFits
  <2>2. nb # <<>> \/ n.over = "none"
    BY <1>1, <1>5
  <2>3. chain.rec = "on" => chain.buffered = n.given - k
    BY <1>1, <1>2, <1>3 DEF InnerFits
  <2>4. chain.rec = "on" /\ n.trailers => k < Len(nb) /\ nb[k + 1] = "trailers"
    <3> SUFFICES ASSUME chain.rec = "on", trailers PROVE k < Len(nb) /\ nb[k + 1] = "trailers"
      BY <1>1
    <3>1. CASE f = "trailers" /\ add
      <4>1. m = Len(b) /\ k = m
        BY <1>2, <1>4, <3>1
      <4> QED
        BY <1>2, <1>5, <3>1, <4>1
    <3>2. CASE ~(f = "trailers" /\ add)
      <4>1. net.trailers /\ k = m
        BY <3>2
      <4>2. m < Len(b) /\ b[m + 1] = "trailers"
        BY <1>3, <4>1 DEF InnerFits
      <4>3. m \in 0 .. Len(b) /\ m + 1 \in 1 .. Len(b) /\ Len(b) \in Nat
        BY <1>2, <1>4, <4>2
      <4>4. CASE add
        BY <1>5, <4>1, <4>2, <4>3, <4>4
      <4>5. CASE ~add
        BY <1>6, <4>1, <4>2, <4>5
      <4> QED
        BY <4>4, <4>5
    <3> QED
      BY <3>1, <3>2
  <2> QED
    BY <1>3, <2>1, <2>2, <2>3, <2>4 DEF InnerFits
<1>10. OuterFits(chain, n, k)
  <2>1. chain.told # "none"
    BY <1>3 DEF OuterFits
  <2>2. n.given - k = net.given - m
    BY <1>1, <1>2
  <2>3. chain.coding = "through" => \A i \in 1 .. Len(nb) : nb[i] # "bad"
    <3> SUFFICES ASSUME chain.coding = "through", NEW i \in 1 .. Len(nb) PROVE nb[i] # "bad"
      OBVIOUS
    <3>1. \A j \in 1 .. Len(b) : b[j] # "bad"
      BY <1>3 DEF OuterFits
    <3>2. f = "bad" => ~add
      OBVIOUS
    <3> QED
      BY <1>2, <1>5, <1>6, <3>1, <3>2
  <2> QED
    BY <1>3, <2>1, <2>2, <2>3 DEF OuterFits
<1> QED
  BY <1>0, <1>1, <1>7, <1>8, <1>9, <1>10 DEF LayersInv

LEMMA FrameArrivesStep ==
  ASSUME LayersInv, NEW f \in Frames, FrameArrives(f)
  PROVE  LayersInv'
<1>0. at \in Nat /\ net \in NetType /\ net.given \in Nat /\ MaxData \in Nat
      /\ net.inbox \in Seq(FrameOrError)
  BY LayersConstants DEF LayersInv, NetType
<1>1. net.over = "open" /\ ~net.trailers /\ at' = at /\ chain' = chain /\ f \in FrameOrError
  BY DEF FrameArrives, Frames, FrameOrError
<1>2. CASE /\ f = "data" \/ (f = "bad" /\ chain.coding # "through")
           /\ net.given < MaxData
           /\ net' = [net EXCEPT !.inbox = Append(@, f), !.given = @ + 1, !.last = at]
  <2>1. Append(net.inbox, f) \in Seq(FrameOrError) /\ net.given + 1 \in Nat
    BY <1>0, <1>1
  <2>2. net' \in NetType /\ net'.last = at /\ net'.inbox = Append(net.inbox, f)
        /\ net'.given = net.given + 1 /\ ~net'.trailers /\ net'.over = "open"
    BY <1>0, <1>1, <1>2, <2>1 DEF NetType
  <2>3. net.given + 1 <= MaxData
    BY <1>0, <1>2
  <2> QED
    BY <1>0, <1>1, <1>2, <2>2, <2>3, ArrivesFits
<1>3. CASE f = "trailers" /\ net' = [net EXCEPT !.inbox = Append(@, f), !.trailers = TRUE, !.last = at]
  <2>1. Append(net.inbox, f) \in Seq(FrameOrError)
    BY <1>0, <1>1
  <2>2. net' \in NetType /\ net'.last = at /\ net'.inbox = Append(net.inbox, f)
        /\ net'.given = net.given /\ net'.trailers /\ net'.over = "open"
    BY <1>0, <1>1, <1>3, <2>1 DEF NetType
  <2> QED
    BY <1>0, <1>1, <1>3, <2>2, ArrivesFits
<1> QED
  BY <1>2, <1>3 DEF FrameArrives

LEMMA BodyEndsStep ==
  ASSUME LayersInv, NEW how \in Endings, BodyEnds(how)
  PROVE  LayersInv'
<1>0. at \in Nat /\ net \in NetType /\ "error" \in FrameOrError
      /\ net.inbox \in Seq(FrameOrError)
  BY DEF LayersInv, NetType, FrameOrError
<1>1. net.over = "open" /\ at' = at /\ chain' = chain /\ how \in {"none", "error"}
      /\ net' = [net EXCEPT !.over = how, !.last = at,
                            !.inbox = IF how = "error" THEN Append(@, how) ELSE @]
  BY DEF BodyEnds, Endings
<1>2. CASE how = "error"
  <2>1. Append(net.inbox, "error") \in Seq(FrameOrError)
    BY <1>0
  <2>2. net' \in NetType /\ net'.last = at /\ net'.inbox = Append(net.inbox, "error")
        /\ net'.given = net.given /\ net'.trailers = net.trailers /\ net'.over = "error"
    BY <1>0, <1>1, <1>2, <2>1 DEF NetType
  <2> QED
    BY <1>0, <1>1, <2>2, ArrivesFits
<1>3. CASE how = "none"
  <2>1. net' \in NetType /\ net'.last = at /\ net'.inbox = net.inbox
        /\ net'.given = net.given /\ net'.trailers = net.trailers /\ net'.over = "none"
    BY <1>0, <1>1, <1>3 DEF NetType
  <2> QED
    BY <1>0, <1>1, <2>1, ArrivesFits
<1> QED
  BY <1>1, <1>2, <1>3

\* What the outer layers keep, and what the inner ones do.
OuterSame(p, c) ==
  /\ p.told = c.told /\ p.delivered = c.delivered /\ p.coding = c.coding /\ p.half = c.half
  /\ p.fed = c.fed /\ p.limit = c.limit /\ p.seen = c.seen /\ p.open = c.open

InnerSame(p, c) ==
  /\ p.idle = c.idle /\ p.sleep = c.sleep /\ p.rec = c.rec /\ p.buffered = c.buffered
  /\ p.writing = c.writing /\ p.stored = c.stored /\ p.live = c.live

\* When a timer that may not run yet is due.
Due(c) == IF c.sleep = Never THEN at + Every ELSE c.sleep

LEMMA OutsAre ==
  /\ {"pending", "nothing", "data", "bad", "trailers", "none", "error", "idle_error",
      "deadline_error", "decode_error", "too_large"} \subseteq Outs
  /\ Pending = "pending" /\ Pending \in Outs
BY DEF Outs, Pending

LEMMA HeadIs ==
  ASSUME net \in NetType, net.inbox # <<>>
  PROVE  Head(net.inbox) \in FrameOrError /\ Head(net.inbox) \in Outs /\ Head(net.inbox) = net.inbox[1]
         /\ Head(net.inbox) # "pending"
<1>1. net.inbox \in Seq(FrameOrError)
  BY DEF NetType
<1>2. Head(net.inbox) \in FrameOrError /\ Head(net.inbox) = net.inbox[1]
  BY <1>1
<1> QED
  BY <1>2 DEF FrameOrError, Outs

\* IdleTimeout::poll_frame over the transport's body.
LEMMA IdleIs ==
  ASSUME at \in Nat, net \in NetType, NEW c \in ChainType
  PROVE  LET p == IdlePoll(c) IN
         /\ p \in ChainType /\ OuterSame(p, c)
         /\ p.rec = c.rec /\ p.buffered = c.buffered /\ p.writing = c.writing
         /\ p.stored = c.stored /\ p.live = c.live
         /\ ~c.idle => p.out = "idle_error" /\ p.idle = c.idle /\ p.sleep = c.sleep
         /\ c.idle /\ net.inbox # <<>> => p.out = Head(net.inbox) /\ p.idle /\ p.sleep = Never
         /\ c.idle /\ net.inbox = <<>> /\ net.over = "none" =>
              p.out = "none" /\ p.idle /\ p.sleep = Never
         /\ c.idle /\ net.inbox = <<>> /\ net.over # "none" =>
              \/ p.out = "idle_error" /\ ~p.idle /\ p.sleep = Never /\ at >= Due(c)
              \/ p.out = "pending" /\ p.idle /\ p.sleep = Due(c)
<1> DEFINE o == IF net.inbox # <<>> THEN Head(net.inbox)
                ELSE IF net.over = "none" THEN "none" ELSE Pending
           p == [c EXCEPT !.out = o]
           due == Due(c)
<1>1. o \in Outs /\ (o = "pending" <=> net.inbox = <<>> /\ net.over # "none")
      /\ (net.inbox # <<>> => o = Head(net.inbox))
      /\ (net.inbox = <<>> /\ net.over = "none" => o = "none")
  BY HeadIs, OutsAre
<1>2. NetPoll(c) = p
  BY DEF NetPoll
<1>3. Never \in Nat /\ due \in Nat
  BY LayersConstants DEF Never, Due, ChainType
<1>4. IdlePoll(c) = IF ~c.idle THEN [c EXCEPT !.out = "idle_error"]
                    ELSE IF p.out # Pending THEN [p EXCEPT !.sleep = Never]
                    ELSE IF at >= due
                    THEN [p EXCEPT !.idle = FALSE, !.sleep = Never, !.out = "idle_error"]
                    ELSE [p EXCEPT !.sleep = due]
  BY <1>2 DEF IdlePoll, Due
<1>5. /\ p \in ChainType /\ p.out = o /\ OuterSame(p, c) /\ InnerSame(p, c) /\ c.idle \in BOOLEAN
  <2> HIDE DEF o
  <2> QED
    BY <1>1 DEF ChainType, OuterSame, InnerSame
<1> HIDE DEF o, p, due
<1>6. CASE ~c.idle
  <2>1. IdlePoll(c) = [c EXCEPT !.out = "idle_error"]
    BY <1>4, <1>6
  <2> QED
    BY <1>6, <2>1, OutsAre DEF ChainType, OuterSame
<1>7. CASE c.idle /\ o # "pending"
  <2>1. IdlePoll(c) = [p EXCEPT !.sleep = Never]
    BY <1>4, <1>5, <1>7, OutsAre
  <2>2. LET q == [p EXCEPT !.sleep = Never]
        IN  /\ q \in ChainType /\ OuterSame(q, p) /\ q.out = p.out /\ q.idle = p.idle
            /\ q.sleep = Never /\ q.rec = p.rec /\ q.buffered = p.buffered
            /\ q.writing = p.writing /\ q.stored = p.stored /\ q.live = p.live
    BY <1>3, <1>5 DEF ChainType, OuterSame
  <2> QED
    BY <1>1, <1>5, <1>7, <2>1, <2>2, ZenonT(60) DEF OuterSame, InnerSame
<1>8. CASE c.idle /\ o = "pending" /\ at >= due
  <2>1. IdlePoll(c) = [p EXCEPT !.idle = FALSE, !.sleep = Never, !.out = "idle_error"]
    BY <1>4, <1>5, <1>8, OutsAre
  <2>2. LET q == [p EXCEPT !.idle = FALSE, !.sleep = Never, !.out = "idle_error"]
        IN  /\ q \in ChainType /\ OuterSame(q, p) /\ q.out = "idle_error" /\ q.idle = FALSE
            /\ q.sleep = Never /\ q.rec = p.rec /\ q.buffered = p.buffered
            /\ q.writing = p.writing /\ q.stored = p.stored /\ q.live = p.live
    BY <1>3, <1>5, OutsAre DEF ChainType, OuterSame
  <2> QED
    BY <1>1, <1>5, <1>8, <2>1, <2>2 DEF OuterSame, InnerSame, due
<1>9. CASE c.idle /\ o = "pending" /\ ~(at >= due)
  <2>1. IdlePoll(c) = [p EXCEPT !.sleep = due]
    BY <1>4, <1>5, <1>9, OutsAre
  <2>2. LET q == [p EXCEPT !.sleep = due]
        IN  /\ q \in ChainType /\ OuterSame(q, p) /\ q.out = p.out /\ q.idle = p.idle
            /\ q.sleep = due /\ q.rec = p.rec /\ q.buffered = p.buffered
            /\ q.writing = p.writing /\ q.stored = p.stored /\ q.live = p.live
    BY <1>3, <1>5 DEF ChainType, OuterSame
  <2> QED
    BY <1>1, <1>5, <1>9, <2>1, <2>2, ZenonT(60) DEF OuterSame, InnerSame, due
<1> QED
  BY <1>5, <1>6, <1>7, <1>8, <1>9

\* What Recorder::push leaves of a recording.
Records(q, p) ==
  IF p.rec # "on" THEN q.rec = p.rec /\ q.buffered = p.buffered
  ELSE IF p.buffered + 1 > CacheMax THEN q.rec = "off" /\ q.buffered = 0
  ELSE q.rec = "on" /\ q.buffered = p.buffered + 1

LEMMA CachedOutcomeIs ==
  ASSUME NEW p \in ChainType
  PROVE  LET q == CachedOutcome(p) IN
         /\ q \in ChainType /\ OuterSame(q, p) /\ q.out = p.out
         /\ q.idle = p.idle /\ q.sleep = p.sleep /\ q.stored = p.stored /\ q.live = p.live
         /\ p.out \in {"data", "bad"} => Records(q, p) /\ q.writing = p.writing
         /\ p.out \in {"trailers", "error", "idle_error"} =>
              q.rec = "off" /\ q.buffered = p.buffered /\ q.writing = p.writing
         /\ p.out = "none" /\ p.rec = "on" =>
              q.rec = "committing" /\ q.buffered = p.buffered /\ q.writing = TRUE
         /\ (p.out = "none" /\ p.rec # "on") \/ p.out = "pending" =>
              q.rec = p.rec /\ q.buffered = p.buffered /\ q.writing = p.writing
<1>1. p.buffered \in Nat /\ CacheMax \in Nat /\ p.rec \in {"off", "on", "committing"}
  BY LayersConstants DEF ChainType
<1>2. CASE p.out \in {"data", "bad"}
  <2>1. CachedOutcome(p) = Recorded(p)
    BY <1>2 DEF CachedOutcome
  <2>2. CASE p.rec # "on"
    BY <1>2, <2>1, <2>2 DEF Recorded, Records, OuterSame
  <2>3. CASE p.rec = "on" /\ p.buffered + 1 > CacheMax
    <3>1. CachedOutcome(p) = [p EXCEPT !.rec = "off", !.buffered = 0]
      BY <2>1, <2>3 DEF Recorded
    <3> DEFINE q == [p EXCEPT !.rec = "off", !.buffered = 0]
    <3>2. q \in ChainType /\ OuterSame(q, p) /\ q.out = p.out /\ q.idle = p.idle /\ q.sleep = p.sleep
          /\ q.stored = p.stored /\ q.live = p.live /\ q.writing = p.writing
          /\ q.rec = "off" /\ q.buffered = 0
      BY DEF OuterSame, ChainType
    <3> HIDE DEF q
    <3>3. Records(q, p)
      BY <2>3, <3>2 DEF Records
    <3> QED
      BY <1>2, <2>3, <3>1, <3>2, <3>3 DEF q
  <2>4. CASE p.rec = "on" /\ ~(p.buffered + 1 > CacheMax)
    <3>1. CachedOutcome(p) = [p EXCEPT !.buffered = p.buffered + 1] /\ p.buffered + 1 \in Nat
      BY <1>1, <2>1, <2>4 DEF Recorded
    <3> QED
      BY <1>2, <2>4, <3>1 DEF Records, OuterSame, ChainType
  <2> QED
    BY <2>2, <2>3, <2>4
<1>3. CASE p.out \in {"trailers", "error", "idle_error"}
  <2>1. CachedOutcome(p) = [p EXCEPT !.rec = "off"]
    BY <1>3 DEF CachedOutcome
  <2> QED
    BY <1>3, <2>1 DEF OuterSame, ChainType
<1>4. CASE p.out = "none" /\ p.rec = "on"
  <2>1. CachedOutcome(p) = [p EXCEPT !.rec = "committing", !.writing = TRUE]
    BY <1>4 DEF CachedOutcome
  <2> QED
    BY <1>4, <2>1, ZenonT(60) DEF OuterSame, ChainType
<1>5. CASE p.out \notin {"data", "bad", "trailers", "error", "idle_error"} /\ ~(p.out = "none" /\ p.rec = "on")
  <2>1. CachedOutcome(p) = p
    BY <1>5 DEF CachedOutcome
  <2> QED
    BY <1>5, <2>1 DEF OuterSame
<1> QED
  BY <1>2, <1>3, <1>4, <1>5

LEMMA CommittedIs ==
  ASSUME NEW c \in ChainType, c.rec = "committing"
  PROVE  LET q == Committed(c) IN
         /\ q \in ChainType /\ OuterSame(q, c)
         /\ q.idle = c.idle /\ q.sleep = c.sleep /\ q.stored = c.stored /\ q.live = c.live
         /\ q.buffered = c.buffered /\ q.writing = c.writing
         /\ c.writing => q.out = "pending" /\ q.rec = "committing"
         /\ ~c.writing => q.out = "none" /\ q.rec = "off"
<1>1. CASE c.writing
  BY <1>1, OutsAre DEF Committed, ChainType, OuterSame
<1>2. CASE ~c.writing
  <2>1. Committed(c) = [c EXCEPT !.out = "none", !.rec = "off"]
    BY <1>2 DEF Committed
  <2> QED
    BY <1>2, <2>1, OutsAre, ZenonT(60) DEF ChainType, OuterSame
<1> QED
  BY <1>1, <1>2

\* What Deadline, Cached and IdleTimeout make of a poll together.
Late(c) == at >= Total \/ ~c.live

InnerPolled(d, c) ==
  /\ d \in ChainType /\ OuterSame(d, c) /\ d.stored = c.stored
  /\ Late(c) => /\ d.out = "deadline_error" /\ d.idle = c.idle /\ d.sleep = c.sleep
                /\ d.rec = c.rec /\ d.buffered = c.buffered /\ d.writing = c.writing
  /\ ~Late(c) /\ c.rec = "committing" =>
       /\ d.idle = c.idle /\ d.sleep = c.sleep /\ d.buffered = c.buffered /\ d.writing = c.writing
       /\ c.writing => d.out = "pending" /\ d.rec = "committing"
       /\ ~c.writing => d.out = "none" /\ d.rec = "off"
  /\ ~Late(c) /\ c.rec # "committing" =>
       /\ ~c.idle => /\ d.out = "idle_error" /\ d.idle = c.idle /\ d.sleep = c.sleep
                     /\ d.rec = "off" /\ d.buffered = c.buffered /\ d.writing = c.writing
       /\ c.idle /\ net.inbox # <<>> =>
            /\ d.out = Head(net.inbox) /\ d.idle /\ d.sleep = Never /\ d.writing = c.writing
            /\ d.out \in {"data", "bad"} => Records(d, c)
            /\ d.out \in {"trailers", "error"} => d.rec = "off" /\ d.buffered = c.buffered
       /\ c.idle /\ net.inbox = <<>> /\ net.over = "none" =>
            /\ d.idle /\ d.sleep = Never /\ d.buffered = c.buffered
            /\ c.rec = "on" => d.out = "pending" /\ d.rec = "committing" /\ d.writing
            /\ c.rec # "on" => d.out = "none" /\ d.rec = c.rec /\ d.writing = c.writing
       /\ c.idle /\ net.inbox = <<>> /\ net.over # "none" =>
            /\ d.buffered = c.buffered /\ d.writing = c.writing
            /\ \/ d.out = "idle_error" /\ ~d.idle /\ d.sleep = Never /\ at >= Due(c) /\ d.rec = "off"
               \/ d.out = "pending" /\ d.idle /\ d.sleep = Due(c) /\ d.rec = c.rec

LEMMA DeadlineIs ==
  ASSUME at \in Nat, net \in NetType, NEW c \in ChainType
  PROVE  InnerPolled(DeadlinePoll(c), c)
<1>1. CASE Late(c)
  <2>1. DeadlinePoll(c) = [c EXCEPT !.live = FALSE, !.out = "deadline_error"]
    BY <1>1 DEF Late, DeadlinePoll, Overrun, Fire
  <2> QED
    BY <1>1, <2>1, OutsAre, ZenonT(60) DEF InnerPolled, ChainType, OuterSame
<1>2. CASE ~Late(c) /\ c.rec = "committing"
  <2>1. DeadlinePoll(c) = Committed(c)
    BY <1>2 DEF Late, DeadlinePoll, Overrun, CachedPoll
  <2> QED
    BY <1>2, <2>1, CommittedIs DEF InnerPolled
<1>3. CASE ~Late(c) /\ c.rec # "committing"
  <2> DEFINE p == IdlePoll(c)
             q == CachedOutcome(p)
             d == DeadlinePoll(c)
  <2>1. d = IF q.rec = "committing" THEN Committed(q) ELSE q
    BY <1>3 DEF Late, DeadlinePoll, Overrun, CachedPoll
  <2>2. /\ p \in ChainType /\ OuterSame(p, c)
        /\ p.rec = c.rec /\ p.buffered = c.buffered /\ p.writing = c.writing
        /\ p.stored = c.stored /\ p.live = c.live
        /\ ~c.idle => p.out = "idle_error" /\ p.idle = c.idle /\ p.sleep = c.sleep
        /\ c.idle /\ net.inbox # <<>> => p.out = Head(net.inbox) /\ p.idle /\ p.sleep = Never
        /\ c.idle /\ net.inbox = <<>> /\ net.over = "none" =>
             p.out = "none" /\ p.idle /\ p.sleep = Never
        /\ c.idle /\ net.inbox = <<>> /\ net.over # "none" =>
             \/ p.out = "idle_error" /\ ~p.idle /\ p.sleep = Never /\ at >= Due(c)
             \/ p.out = "pending" /\ p.idle /\ p.sleep = Due(c)
    BY IdleIs
  <2> HIDE DEF p
  <2>3. /\ q \in ChainType /\ OuterSame(q, p) /\ q.out = p.out
        /\ q.idle = p.idle /\ q.sleep = p.sleep /\ q.stored = p.stored /\ q.live = p.live
        /\ p.out \in {"data", "bad"} => Records(q, p) /\ q.writing = p.writing
        /\ p.out \in {"trailers", "error", "idle_error"} =>
             q.rec = "off" /\ q.buffered = p.buffered /\ q.writing = p.writing
        /\ p.out = "none" /\ p.rec = "on" =>
             q.rec = "committing" /\ q.buffered = p.buffered /\ q.writing = TRUE
        /\ (p.out = "none" /\ p.rec # "on") \/ p.out = "pending" =>
             q.rec = p.rec /\ q.buffered = p.buffered /\ q.writing = p.writing
    BY <2>2, CachedOutcomeIs
  <2> HIDE DEF q, d
  <2>4. OuterSame(q, c) /\ q.stored = c.stored
    BY <2>2, <2>3 DEF OuterSame
  <2>5. p.out \in {"data", "bad"} => Records(q, c) /\ q.rec # "committing"
    BY <1>3, <2>2, <2>3 DEF Records
  <2>6. net.inbox # <<>> => Head(net.inbox) \in {"data", "bad", "trailers", "error"}
    BY HeadIs DEF FrameOrError
  <2>7. CASE q.rec = "committing"
    <3>1. p.out = "none" /\ c.rec = "on" /\ q.writing = TRUE /\ q.buffered = c.buffered
          /\ c.idle /\ net.inbox = <<>> /\ net.over = "none" /\ p.idle /\ p.sleep = Never
      BY <1>3, <2>2, <2>3, <2>5, <2>6, <2>7
    <3>2. d = Committed(q)
      BY <2>1, <2>7
    <3>3. /\ d \in ChainType /\ OuterSame(d, q)
          /\ d.idle = q.idle /\ d.sleep = q.sleep /\ d.stored = q.stored /\ d.live = q.live
          /\ d.buffered = q.buffered /\ d.writing = q.writing
          /\ d.out = "pending" /\ d.rec = "committing"
      BY <2>3, <2>7, <3>1, <3>2, CommittedIs
    <3>4. OuterSame(d, c)
      BY <2>4, <3>3 DEF OuterSame
    <3> QED
      BY <1>3, <2>3, <2>4, <3>1, <3>3, <3>4 DEF InnerPolled, d
  <2>8. CASE q.rec # "committing"
    <3>1. d = q
      BY <2>1, <2>8
    <3>2. CASE ~c.idle
      BY <1>3, <2>2, <2>3, <2>4, <2>8, <3>1, <3>2 DEF InnerPolled, d
    <3>3. CASE c.idle /\ net.inbox # <<>>
      BY <1>3, <2>2, <2>3, <2>4, <2>5, <2>6, <2>8, <3>1, <3>3 DEF InnerPolled, d
    <3>4. CASE c.idle /\ net.inbox = <<>> /\ net.over = "none"
      BY <1>3, <2>2, <2>3, <2>4, <2>8, <3>1, <3>4 DEF InnerPolled, d
    <3>5. CASE c.idle /\ net.inbox = <<>> /\ net.over # "none"
      BY <1>3, <2>2, <2>3, <2>4, <2>8, <3>1, <3>5 DEF InnerPolled, d
    <3> QED
      BY <3>2, <3>3, <3>4, <3>5
  <2> QED
    BY <2>7, <2>8 DEF d
<1> QED
  BY <1>1, <1>2, <1>3

\* The caller acts on the first ending it hears.
Hears(before, o) == IF before = "nothing" THEN o ELSE before

Passes(c) == c.limit # NoLimit /\ c.seen + 1 > c.limit

\* A frame of data goes up to the caller, or is the one too many.
Counts(e, c) ==
  /\ e.seen = c.seen + 1
  /\ IF Passes(c) THEN ~e.open /\ e.delivered = c.delivered /\ e.told = Hears(c.told, "too_large")
     ELSE e.open = c.open /\ e.delivered = c.delivered + 1 /\ e.told = c.told

Stays(e, c) == e.seen = c.seen /\ e.open = c.open /\ e.delivered = c.delivered

LEMMA DataGoesUp ==
  ASSUME NEW p \in ChainType, p.out = "data"
  PROVE  LET e == Told(Counted(p)) IN
         /\ e \in ChainType /\ InnerSame(e, p) /\ Counts(e, p)
         /\ e.coding = p.coding /\ e.half = p.half /\ e.fed = p.fed /\ e.limit = p.limit
<1>1. p.seen + 1 \in Nat /\ p.delivered + 1 \in Nat /\ p.told \in Outs
  BY DEF ChainType
<1>2. CASE Passes(p)
  <2> DEFINE w == [p EXCEPT !.seen = p.seen + 1, !.open = FALSE, !.out = "too_large"]
             h == Hears(p.told, "too_large")
             e == [w EXCEPT !.told = h]
  <2>1. Counted(p) = w
    BY <1>2 DEF Counted, Passes
  <2>2. /\ w \in ChainType /\ InnerSame(w, p) /\ w.seen = p.seen + 1 /\ w.open = FALSE
        /\ w.out = "too_large" /\ w.told = p.told /\ w.delivered = p.delivered
        /\ w.coding = p.coding /\ w.half = p.half /\ w.fed = p.fed /\ w.limit = p.limit
    BY <1>1, OutsAre DEF ChainType, InnerSame
  <2>3. h \in Outs
    BY <1>1, OutsAre DEF Hears
  <2> HIDE DEF w
  <2>4. Told(w) = e
    <3>1. CASE p.told = "nothing"
      BY <2>2, <3>1 DEF Told, Hears, Pending
    <3>2. CASE p.told # "nothing"
      <4>1. Told(w) = w
        BY <2>2, <3>2 DEF Told, Pending
      <4>2. h = w.told
        BY <2>2, <3>2 DEF Hears
      <4> HIDE DEF h
      <4>3. [w EXCEPT !.told = h] = w
        BY <2>2, <4>2 DEF ChainType
      <4> QED
        BY <4>1, <4>3
    <3> QED
      BY <3>1, <3>2
  <2> HIDE DEF h
  <2>5. /\ e \in ChainType /\ InnerSame(e, w) /\ e.seen = w.seen /\ e.open = w.open
        /\ e.told = h /\ e.delivered = w.delivered
        /\ e.coding = w.coding /\ e.half = w.half /\ e.fed = w.fed /\ e.limit = w.limit
    BY <2>2, <2>3 DEF ChainType, InnerSame
  <2> HIDE DEF e
  <2>6. Counts(e, p) /\ InnerSame(e, p)
    BY <1>2, <2>2, <2>5 DEF Counts, InnerSame, h
  <2> QED
    BY <2>1, <2>2, <2>4, <2>5, <2>6
<1>3. CASE ~Passes(p)
  <2> DEFINE w == [p EXCEPT !.seen = p.seen + 1]
             e == [w EXCEPT !.delivered = w.delivered + 1]
  <2>1. Counted(p) = w
    BY <1>3 DEF Counted, Passes
  <2>2. /\ w \in ChainType /\ InnerSame(w, p) /\ w.seen = p.seen + 1 /\ w.open = p.open
        /\ w.out = "data" /\ w.told = p.told /\ w.delivered = p.delivered
        /\ w.coding = p.coding /\ w.half = p.half /\ w.fed = p.fed /\ w.limit = p.limit
    BY <1>1 DEF ChainType, InnerSame
  <2> HIDE DEF w
  <2>3. Told(w) = e
    BY <2>2 DEF Told
  <2>4. /\ e \in ChainType /\ InnerSame(e, w) /\ e.seen = w.seen /\ e.open = w.open
        /\ e.told = w.told /\ e.delivered = w.delivered + 1
        /\ e.coding = w.coding /\ e.half = w.half /\ e.fed = w.fed /\ e.limit = w.limit
    BY <1>1, <2>2 DEF ChainType, InnerSame
  <2> HIDE DEF e
  <2>5. Counts(e, p) /\ InnerSame(e, p)
    BY <1>3, <2>2, <2>4 DEF Counts, InnerSame
  <2> QED
    BY <2>1, <2>2, <2>3, <2>4, <2>5
<1> QED
  BY <1>2, <1>3

LEMMA EndGoesUp ==
  ASSUME NEW p \in ChainType, p.out # "data"
  PROVE  LET e == Told(p) IN
         /\ e \in ChainType /\ InnerSame(e, p) /\ Stays(e, p)
         /\ e.coding = p.coding /\ e.half = p.half /\ e.fed = p.fed /\ e.limit = p.limit
         /\ p.out \in {"pending", "trailers"} => e.told = p.told
         /\ p.out \notin {"pending", "trailers"} => e.told = Hears(p.told, p.out)
<1>1. CASE p.out \in {"pending", "trailers"} \/ p.told # "nothing"
  <2>1. Told(p) = p
    BY <1>1 DEF Told, Pending
  <2> QED
    BY <1>1, <2>1 DEF InnerSame, Stays, Hears
<1>2. CASE p.out \notin {"pending", "trailers"} /\ p.told = "nothing"
  <2> DEFINE o == p.out
  <2>1. Told(p) = [p EXCEPT !.told = o] /\ o \in Outs
    BY <1>2 DEF Told, Pending, ChainType
  <2> HIDE DEF o
  <2>2. LET e == [p EXCEPT !.told = o]
        IN  /\ e \in ChainType /\ InnerSame(e, p) /\ Stays(e, p) /\ e.told = o
            /\ e.coding = p.coding /\ e.half = p.half /\ e.fed = p.fed /\ e.limit = p.limit
    BY <2>1 DEF ChainType, InnerSame, Stays
  <2> QED
    BY <1>2, <2>1, <2>2 DEF Hears, o
<1> QED
  BY <1>1, <1>2

\* What the caller hears at the end of a coding that inner layers ended with o.
EndOfCoding(c, o) ==
  IF o = "none" THEN Finish(c) ELSE IF o = "bad" THEN "decode_error" ELSE o

\* What Decompressed and Limited make of what the layers below answered.
OuterPolled(e, d, c) ==
  /\ e \in ChainType /\ InnerSame(e, d) /\ e.limit = c.limit
  /\ c.coding = "through" =>
       /\ e.coding = "through" /\ e.half = c.half
       /\ d.out = "data" => Counts(e, c)
       /\ d.out # "data" => Stays(e, c)
       /\ d.out \in {"pending", "trailers"} => e.told = c.told
       /\ d.out \notin {"data", "pending", "trailers"} => e.told = Hears(c.told, d.out)
  /\ c.coding = "decoding" =>
       /\ d.out = "data" /\ c.half => Counts(e, c) /\ e.coding = "decoding" /\ ~e.half
       /\ d.out = "data" /\ ~c.half =>
            Stays(e, c) /\ e.coding = "decoding" /\ e.half /\ e.fed /\ e.told = c.told
       /\ d.out \in {"pending", "trailers"} =>
            /\ Stays(e, c) /\ e.coding = "decoding" /\ e.half = c.half /\ e.fed = c.fed
            /\ e.told = c.told
       /\ d.out \notin {"data", "pending", "trailers"} =>
            /\ Stays(e, c) /\ e.coding = "ended" /\ e.half = c.half
            /\ e.told = Hears(c.told, EndOfCoding(c, d.out))

\* The counters and the ending are those of the chain below.
LEMMA CountsAs ==
  ASSUME NEW e \in ChainType, NEW p \in ChainType, NEW c \in ChainType,
         p.told = c.told, p.delivered = c.delivered, p.limit = c.limit, p.seen = c.seen, p.open = c.open
  PROVE  (Counts(e, p) => Counts(e, c)) /\ (Stays(e, p) => Stays(e, c))
BY DEF Counts, Stays, Passes

LEMMA OuterIs ==
  ASSUME NEW c \in ChainType, c.open, c.coding # "ended",
         NEW d \in ChainType, d = DeadlinePoll(c), OuterSame(d, c)
  PROVE  OuterPolled(Told(LimitedPoll(c)), d, c)
<1> DEFINE p == DecompressedPoll(c)
           e == Told(LimitedPoll(c))
<1>1. e = IF p.out = "data" THEN Told(Counted(p)) ELSE Told(p)
  BY DEF LimitedPoll
<1>2. /\ d.told = c.told /\ d.delivered = c.delivered /\ d.coding = c.coding /\ d.half = c.half
      /\ d.fed = c.fed /\ d.limit = c.limit /\ d.seen = c.seen /\ d.open = c.open
      /\ c.coding \in {"through", "decoding"} /\ d.half \in BOOLEAN /\ d.out \in Outs
  BY DEF OuterSame, ChainType
<1>3. ASSUME p \in ChainType, InnerSame(p, d), p.told = c.told, p.delivered = c.delivered,
             p.limit = c.limit, p.seen = c.seen, p.open = c.open
      PROVE  /\ e \in ChainType /\ InnerSame(e, d) /\ e.limit = c.limit
             /\ e.coding = p.coding /\ e.half = p.half /\ e.fed = p.fed
             /\ p.out = "data" => Counts(e, c)
             /\ p.out # "data" => Stays(e, c)
             /\ p.out \in {"pending", "trailers"} => e.told = c.told
             /\ p.out \notin {"data", "pending", "trailers"} => e.told = Hears(c.told, p.out)
  <2> HIDE DEF p, e
  <2>1. CASE p.out = "data"
    <3>1. /\ e \in ChainType /\ InnerSame(e, p) /\ Counts(e, p)
          /\ e.coding = p.coding /\ e.half = p.half /\ e.fed = p.fed /\ e.limit = p.limit
      BY <1>1, <1>3, <2>1, DataGoesUp
    <3>2. Counts(e, c)
      BY <1>3, <3>1, CountsAs
    <3>3. InnerSame(e, d)
      BY <1>3, <3>1 DEF InnerSame
    <3> QED
      BY <1>3, <2>1, <3>1, <3>2, <3>3
  <2>2. CASE p.out # "data"
    <3>1. /\ e \in ChainType /\ InnerSame(e, p) /\ Stays(e, p)
          /\ e.coding = p.coding /\ e.half = p.half /\ e.fed = p.fed /\ e.limit = p.limit
          /\ p.out \in {"pending", "trailers"} => e.told = p.told
          /\ p.out \notin {"pending", "trailers"} => e.told = Hears(p.told, p.out)
      BY <1>1, <1>3, <2>2, EndGoesUp
    <3>2. Stays(e, c)
      BY <1>3, <3>1, CountsAs
    <3>3. InnerSame(e, d)
      BY <1>3, <3>1 DEF InnerSame
    <3> QED
      BY <1>3, <2>2, <3>1, <3>2, <3>3
  <2> QED
    BY <2>1, <2>2
<1>4. CASE c.coding = "through"
  <2>1. p = d
    BY <1>4 DEF DecompressedPoll
  <2>2. InnerSame(d, d)
    BY DEF InnerSame
  <2> HIDE DEF e, p
  <2> QED
    BY <1>2, <1>3, <1>4, <2>1, <2>2 DEF OuterPolled, e
<1>5. CASE c.coding = "decoding"
  <2>1. p = Decoded(d)
    BY <1>5 DEF DecompressedPoll
  <2>2. CASE d.out \in {"pending", "trailers"}
    <3>1. p = d /\ InnerSame(d, d)
      BY <2>1, <2>2 DEF Decoded, Pending, InnerSame
    <3> HIDE DEF e, p
    <3> QED
      BY <1>2, <1>3, <1>5, <2>2, <3>1 DEF OuterPolled, e
  <2>3. CASE d.out = "data" /\ d.half
    <3>1. p = [d EXCEPT !.half = FALSE, !.fed = TRUE]
      BY <2>1, <2>3 DEF Decoded, Pending, Push
    <3>2. /\ p \in ChainType /\ InnerSame(p, d) /\ p.told = d.told /\ p.delivered = d.delivered
          /\ p.limit = d.limit /\ p.seen = d.seen /\ p.open = d.open /\ p.out = "data"
          /\ p.half = FALSE /\ p.coding = d.coding
      <4> HIDE DEF p
      <4>1. p \in ChainType
        BY <3>1, ZenonT(60) DEF ChainType
      <4>2. /\ p.told = d.told /\ p.delivered = d.delivered /\ p.limit = d.limit /\ p.seen = d.seen
            /\ p.open = d.open /\ p.out = d.out /\ p.half = FALSE /\ p.coding = d.coding
        BY <3>1 DEF ChainType
      <4>3. InnerSame(p, d)
        BY <3>1 DEF ChainType, InnerSame
      <4> QED
        BY <2>3, <4>1, <4>2, <4>3
    <3> HIDE DEF e, p
    <3> QED
      BY <1>2, <1>3, <1>5, <2>3, <3>2 DEF OuterPolled, e
  <2>4. CASE d.out = "data" /\ ~d.half
    <3>1. p = [d EXCEPT !.half = TRUE, !.fed = TRUE, !.out = "pending"]
      BY <2>1, <2>4 DEF Decoded, Pending, Push
    <3>2. /\ p \in ChainType /\ InnerSame(p, d) /\ p.told = d.told /\ p.delivered = d.delivered
          /\ p.limit = d.limit /\ p.seen = d.seen /\ p.open = d.open /\ p.out = "pending"
          /\ p.half = TRUE /\ p.fed = TRUE /\ p.coding = d.coding
      <4> HIDE DEF p
      <4>1. p \in ChainType
        BY <3>1, OutsAre, ZenonT(60) DEF ChainType
      <4>2. /\ p.told = d.told /\ p.delivered = d.delivered /\ p.limit = d.limit /\ p.seen = d.seen
            /\ p.open = d.open /\ p.out = "pending" /\ p.half = TRUE /\ p.fed = TRUE
            /\ p.coding = d.coding
        BY <3>1 DEF ChainType
      <4>3. InnerSame(p, d)
        BY <3>1 DEF ChainType, InnerSame
      <4> QED
        BY <4>1, <4>2, <4>3
    <3> HIDE DEF e, p
    <3> QED
      BY <1>2, <1>3, <1>5, <2>4, <3>2 DEF OuterPolled, e
  <2>5. CASE d.out \notin {"data", "pending", "trailers"}
    <3> DEFINE o == EndOfCoding(c, d.out)
    <3>1. Finish(d) = Finish(c) /\ Finish(c) \in {"decode_error", "none"}
      BY <1>2 DEF Finish
    <3>2. o \in Outs /\ o \notin {"data", "pending", "trailers"}
      BY <1>2, <2>5, <3>1, OutsAre DEF EndOfCoding
    <3>3. \/ p = [d EXCEPT !.coding = "ended", !.fed = TRUE, !.out = o]
          \/ p = [d EXCEPT !.coding = "ended", !.out = o]
      <4>1. CASE d.out = "bad"
        BY <2>1, <4>1 DEF Decoded, Pending, EndOfCoding
      <4>2. CASE d.out = "none"
        BY <2>1, <3>1, <4>2 DEF Decoded, Pending, EndOfCoding
      <4>3. CASE d.out \notin {"bad", "none"}
        <5>1. p = [d EXCEPT !.coding = "ended"] /\ o = d.out
          BY <2>1, <2>5, <4>3 DEF Decoded, Pending, EndOfCoding
        <5>2. [d EXCEPT !.coding = "ended"] = [d EXCEPT !.coding = "ended", !.out = d.out]
          BY DEF ChainType
        <5> QED
          BY <5>1, <5>2
      <4> QED
        BY <4>1, <4>2, <4>3
    <3> HIDE DEF o, p
    <3>4. /\ p \in ChainType /\ InnerSame(p, d) /\ p.told = d.told /\ p.delivered = d.delivered
          /\ p.limit = d.limit /\ p.seen = d.seen /\ p.open = d.open /\ p.out = o
          /\ p.half = d.half /\ p.coding = "ended"
      <4>1. CASE p = [d EXCEPT !.coding = "ended", !.fed = TRUE, !.out = o]
        BY <3>2, <4>1, ZenonT(60) DEF ChainType, InnerSame
      <4>2. CASE p = [d EXCEPT !.coding = "ended", !.out = o]
        BY <3>2, <4>2, ZenonT(60) DEF ChainType, InnerSame
      <4> QED
        BY <3>3, <4>1, <4>2
    <3> HIDE DEF e
    <3> QED
      BY <1>2, <1>3, <1>5, <2>5, <3>2, <3>4 DEF OuterPolled, e, o
  <2> QED
    BY <1>2, <2>2, <2>3, <2>4, <2>5
<1> QED
  BY <1>2, <1>4, <1>5

\* The transport after a frame of its own was read: one of data while there are.
Popped(n) == [n EXCEPT !.inbox = Tail(@)]
FewerData(m) == IF m > 0 THEN m - 1 ELSE 0

LEMMA NetPops ==
  ASSUME net \in NetType, net.inbox # <<>>, NEW m \in Nat, NetFits(net, m, at)
  PROVE  LET n == Popped(net) k == FewerData(m) IN
         /\ n \in NetType /\ k \in Nat /\ NetFits(n, k, at)
         /\ n.given = net.given /\ n.over = net.over /\ n.last = net.last /\ n.trailers = net.trailers
         /\ n.inbox \in Seq(FrameOrError) /\ Len(n.inbox) = Len(net.inbox) - 1 /\ Len(net.inbox) \in Nat
         /\ \A i \in 1 .. Len(n.inbox) : n.inbox[i] = net.inbox[i + 1]
         /\ Head(net.inbox) \in {"data", "bad"} => m > 0 /\ k = m - 1
         /\ Head(net.inbox) \in {"trailers", "error"} => m = 0 /\ k = 0
<1> DEFINE b == net.inbox n == Popped(net) k == FewerData(m)
<1>1. b \in Seq(FrameOrError) /\ net.given \in Nat
  BY DEF NetType
<1>2. /\ Tail(b) \in Seq(FrameOrError) /\ Len(Tail(b)) = Len(b) - 1 /\ Len(b) \in Nat /\ Len(b) > 0
      /\ (\A i \in 1 .. Len(b) - 1 : Tail(b)[i] = b[i + 1]) /\ Head(b) = b[1]
  BY <1>1
<1>3. /\ n \in NetType /\ n.inbox = Tail(b) /\ n.given = net.given /\ n.over = net.over
      /\ n.last = net.last /\ n.trailers = net.trailers
  BY <1>2 DEF NetType, Popped
<1>4. /\ m \in 0 .. Len(b) /\ m <= net.given /\ net.given <= MaxData /\ net.last <= at
      /\ (\A i \in 1 .. m : b[i] \in {"data", "bad"})
      /\ (\A i \in m + 1 .. Len(b) : b[i] \in {"trailers", "error"})
      /\ (m < Len(b) => net.trailers \/ net.over = "error")
  BY DEF NetFits
<1>5. (m > 0 => k = m - 1 /\ Head(b) \in {"data", "bad"}) /\ (m = 0 => k = 0 /\ Head(b) \in {"trailers", "error"})
  BY <1>2, <1>4 DEF FewerData
<1>6. k \in Nat /\ k <= m
  BY DEF FewerData
<1> HIDE DEF n, k, b
<1>7. /\ k \in 0 .. Len(n.inbox) /\ k <= n.given /\ n.given <= MaxData /\ n.last <= at
      /\ k < Len(n.inbox) => n.trailers \/ n.over = "error"
  BY <1>1, <1>2, <1>3, <1>4, <1>5, <1>6
<1>8. ASSUME NEW i \in 1 .. k PROVE n.inbox[i] \in {"data", "bad"}
  <2>1. m > 0 /\ k = m - 1
    BY <1>5, <1>6
  <2>2. i \in 1 .. Len(b) - 1 /\ i + 1 \in 1 .. m
    BY <1>2, <1>4, <2>1
  <2> QED
    BY <1>2, <1>3, <1>4, <2>2
<1>9. ASSUME NEW i \in k + 1 .. Len(n.inbox) PROVE n.inbox[i] \in {"trailers", "error"}
  <2>1. i \in 1 .. Len(b) - 1 /\ i + 1 \in m + 1 .. Len(b)
    BY <1>2, <1>3, <1>4, <1>5, <1>6
  <2> QED
    BY <1>2, <1>3, <1>4, <2>1
<1>10. NetFits(n, k, at)
  BY <1>7, <1>8, <1>9 DEF NetFits
<1> QED
  BY <1>2, <1>3, <1>5, <1>6, <1>10 DEF n, k, b

\* The outer layers once a poll has ended the body with o.
LEMMA OuterEnds ==
  ASSUME NEW c \in ChainType, NEW e \in ChainType, NEW n \in NetType, NEW m \in Nat, NEW k \in Nat,
         net \in NetType, OuterFits(c, net, m), c.open, c.coding # "ended",
         Stays(e, c), e.limit = c.limit, e.half = c.half,
         e.coding = IF c.coding = "decoding" THEN "ended" ELSE "through",
         NEW o \in Outs, o \notin {"nothing", "none", "too_large"}, e.told = Hears(c.told, o),
         n.given = net.given, k <= m, c.coding = "through" => k = m,
         c.coding = "through" => \A i \in 1 .. Len(n.inbox) : n.inbox[i] # "bad",
         net.inbox = <<>> => n = net
  PROVE  OuterFits(e, n, k)
<1>1. /\ e.delivered = c.delivered /\ e.seen = c.seen /\ e.open /\ c.delivered <= net.given - m
      /\ c.told # "too_large" /\ net.given \in Nat /\ c.delivered \in Nat
      /\ c.coding \in {"through", "decoding"}
  BY DEF Stays, OuterFits, NetType, ChainType
<1>2. e.told # "nothing" /\ e.told # "too_large" /\ (e.told = "none" => c.told = "none")
  BY <1>1 DEF Hears
<1>3. e.delivered <= n.given - k /\ e.seen = e.delivered /\ (e.limit # NoLimit => e.delivered <= e.limit)
  BY <1>1 DEF OuterFits
<1>4. e.coding = "through" => ~e.half /\ e.delivered = n.given - k
  BY <1>1 DEF OuterFits
<1>5. e.told = "none" => /\ n.over = "none" /\ n.inbox = <<>> /\ ~e.half
                         /\ e.delivered = IF e.coding = "through" THEN n.given ELSE n.given \div 2
  BY <1>1, <1>2 DEF OuterFits
<1> QED
  BY <1>1, <1>2, <1>3, <1>4, <1>5 DEF OuterFits

\* The outer layers after a poll that brought nothing up.
LEMMA OuterWaits ==
  ASSUME NEW c \in ChainType, NEW e \in ChainType, NEW n \in NetType, NEW m \in Nat,
         net \in NetType, OuterFits(c, net, m), c.open, c.coding # "ended",
         Stays(e, c), e.limit = c.limit, e.half = c.half, e.coding = c.coding,
         e.coding = "decoding" => e.fed = c.fed, e.told = c.told,
         e.idle = c.idle \/ e.idle, n.given = net.given,
         c.coding = "through" => \A i \in 1 .. Len(n.inbox) : n.inbox[i] # "bad",
         net.inbox = <<>> => n = net
  PROVE  OuterFits(e, n, m)
BY DEF OuterFits, Stays

\* A body that has ended for its caller answers so again, and nothing else moves.
LEMMA EndedPollStep ==
  ASSUME LayersInv, PollFrame, ~chain.open \/ chain.coding = "ended"
  PROVE  LayersInv' /\ BodyInTime
<1> DEFINE c == chain  w == [c EXCEPT !.out = "none"]  e == Told(w)
<1>1. at \in Nat /\ net \in NetType /\ c \in ChainType
  BY DEF LayersInv
<1>2. PICK m \in Nat : NetFits(net, m, at) /\ InnerFits(c, net, m) /\ OuterFits(c, net, m)
  BY DEF LayersInv
<1>3. w \in ChainType /\ w.out = "none" /\ InnerSame(w, c) /\ OuterSame(w, c)
  BY <1>1, OutsAre DEF ChainType, InnerSame, OuterSame
<1>4. LimitedPoll(c) = w
  <2>1. CASE ~c.open
    BY <2>1 DEF LimitedPoll
  <2>2. CASE c.open /\ c.coding = "ended"
    <3>1. DecompressedPoll(c) = w
      BY <2>2 DEF DecompressedPoll
    <3> QED
      BY <1>3, <2>2, <3>1 DEF LimitedPoll
  <2> QED
    BY <2>1, <2>2
<1>5. chain' = e /\ at' = at /\ net' = net
  BY <1>4 DEF PollFrame, PollReaches
<1> HIDE DEF w
<1>6. /\ e \in ChainType /\ InnerSame(e, w) /\ Stays(e, w)
      /\ e.coding = w.coding /\ e.half = w.half /\ e.fed = w.fed /\ e.limit = w.limit
      /\ e.told = Hears(w.told, "none")
  BY <1>3, EndGoesUp
<1>7. c.told # "nothing"
  BY <1>2 DEF OuterFits
<1> HIDE DEF e, c
<1>8. /\ e.told = c.told /\ e.idle = c.idle /\ e.seen = c.seen /\ e.open = c.open
      /\ e.delivered = c.delivered /\ e.coding = c.coding /\ e.half = c.half /\ e.fed = c.fed
      /\ e.limit = c.limit /\ InnerSame(e, c)
  BY <1>3, <1>6, <1>7 DEF OuterSame, InnerSame, Stays, Hears
<1>9. InnerFits(e, net, m)
  BY <1>2, <1>8 DEF InnerFits, InnerSame
<1>10. OuterFits(e, net, m)
  BY <1>2, <1>8 DEF OuterFits
<1>11. BodyInTime
  BY <1>1, <1>5, <1>7, <1>8 DEF BodyInTime, ChainType, c
<1> QED
  BY <1>1, <1>2, <1>5, <1>6, <1>9, <1>10, <1>11 DEF LayersInv

\* Before that, what the inner layers keep ...
LEMMA InnerStep ==
  ASSUME at \in Nat, net \in NetType, NEW c \in ChainType, NEW d \in ChainType, NEW e \in ChainType,
         NEW m \in Nat, NetFits(net, m, at), InnerFits(c, net, m),
         InnerPolled(d, c), InnerSame(e, d)
  PROVE  IF ~Late(c) /\ c.rec # "committing" /\ c.idle /\ net.inbox # <<>>
         THEN InnerFits(e, Popped(net), FewerData(m))
         ELSE InnerFits(e, net, m)
<1>0. /\ c.buffered \in Nat /\ c.sleep \in Nat /\ net.given \in Nat /\ net.last \in Nat
      /\ CacheMax \in Nat /\ Every \in Nat /\ net.last <= at
      /\ e.sleep = d.sleep /\ e.rec = d.rec /\ e.buffered = d.buffered /\ e.writing = d.writing
      /\ e.stored = d.stored /\ d.stored = c.stored
      /\ c.rec \in {"off", "on", "committing"}
  BY LayersConstants DEF ChainType, NetType, InnerSame, InnerPolled, NetFits
<1>1. CASE Late(c)
  <2>1. d.sleep = c.sleep /\ d.rec = c.rec /\ d.buffered = c.buffered /\ d.writing = c.writing
    BY <1>1 DEF InnerPolled
  <2> QED
    BY <1>0, <1>1, <2>1 DEF InnerFits
<1>2. CASE ~Late(c) /\ c.rec = "committing"
  <2>1. d.sleep = c.sleep /\ d.buffered = c.buffered /\ d.writing = c.writing
        /\ (c.writing => d.rec = "committing") /\ (~c.writing => d.rec = "off")
    BY <1>2 DEF InnerPolled
  <2> QED
    BY <1>0, <1>2, <2>1 DEF InnerFits
<1>3. CASE ~Late(c) /\ c.rec # "committing" /\ ~c.idle
  <2>1. d.sleep = c.sleep /\ d.buffered = c.buffered /\ d.writing = c.writing /\ d.rec = "off"
    BY <1>3 DEF InnerPolled
  <2> QED
    BY <1>0, <1>3, <2>1 DEF InnerFits
<1>4. CASE ~Late(c) /\ c.rec # "committing" /\ c.idle /\ net.inbox # <<>>
  <2> DEFINE n == Popped(net) k == FewerData(m)
  <2>1. /\ n \in NetType /\ k \in Nat /\ NetFits(n, k, at)
        /\ n.given = net.given /\ n.over = net.over /\ n.last = net.last /\ n.trailers = net.trailers
        /\ Len(n.inbox) = Len(net.inbox) - 1 /\ Len(net.inbox) \in Nat
        /\ \A i \in 1 .. Len(n.inbox) : n.inbox[i] = net.inbox[i + 1]
        /\ Head(net.inbox) \in {"data", "bad"} => m > 0 /\ k = m - 1
    BY <1>4, NetPops
  <2>2. /\ d.out = Head(net.inbox) /\ d.sleep = Never /\ d.writing = c.writing
        /\ d.out \in {"data", "bad"} => Records(d, c)
        /\ d.out \in {"trailers", "error"} => d.rec = "off" /\ d.buffered = c.buffered
    BY <1>4 DEF InnerPolled
  <2>3. ~c.writing /\ ~c.stored /\ c.buffered <= CacheMax
    BY <1>4 DEF InnerFits
  <2>4. d.out \in {"data", "bad", "trailers", "error"}
    BY <1>4, <2>2, HeadIs DEF FrameOrError
  <2> HIDE DEF n, k
  <2>5. CASE d.rec # "on"
    <3>1. d.rec = "off" /\ d.buffered <= CacheMax
      BY <1>0, <1>4, <2>2, <2>3, <2>4, <2>5 DEF Records
    <3> QED
      BY <1>0, <1>4, <2>2, <2>3, <3>1 DEF InnerFits, n, k
  <2>6. CASE d.rec = "on"
    <3>1. /\ c.rec = "on" /\ d.buffered = c.buffered + 1 /\ d.buffered <= CacheMax
          /\ m > 0 /\ k = m - 1
      BY SMTT(30), <1>0, <2>1, <2>2, <2>4, <2>6 DEF Records
    <3>2. c.buffered = net.given - m /\ (net.trailers => m < Len(net.inbox) /\ net.inbox[m + 1] = "trailers")
      BY <3>1 DEF InnerFits
    <3>3. d.buffered = n.given - k
      BY <1>0, <2>1, <3>1, <3>2
    <3>4. n.trailers => k < Len(n.inbox) /\ n.inbox[k + 1] = "trailers"
      <4> SUFFICES ASSUME net.trailers PROVE k < Len(n.inbox) /\ n.inbox[k + 1] = "trailers"
        BY <2>1
      <4>1. m < Len(net.inbox) /\ net.inbox[m + 1] = "trailers" /\ k < Len(n.inbox)
            /\ m \in 1 .. Len(n.inbox) /\ k + 1 = m
        BY <2>1, <3>1, <3>2
      <4> QED
        BY <2>1, <4>1
    <3> QED
      BY <1>0, <1>4, <2>2, <2>3, <2>6, <3>1, <3>3, <3>4 DEF InnerFits, n, k
  <2> QED
    BY <2>5, <2>6
<1>5. CASE ~Late(c) /\ c.rec # "committing" /\ c.idle /\ net.inbox = <<>> /\ net.over = "none"
  <2>1. /\ d.sleep = Never /\ d.buffered = c.buffered
        /\ c.rec = "on" => d.rec = "committing" /\ d.writing
        /\ c.rec # "on" => d.rec = c.rec /\ d.writing = c.writing
    BY <1>5 DEF InnerPolled
  <2>2. m = 0 /\ Len(net.inbox) = 0
    BY <1>5 DEF NetFits
  <2>3. CASE c.rec = "on"
    <3>1. c.buffered = net.given /\ ~net.trailers
      BY <1>0, <2>2, <2>3 DEF InnerFits, NetType
    <3> QED
      BY <1>0, <1>5, <2>1, <2>3, <3>1 DEF InnerFits
  <2>4. CASE c.rec # "on"
    BY <1>0, <1>5, <2>1, <2>4 DEF InnerFits
  <2> QED
    BY <2>3, <2>4
<1>6. CASE ~Late(c) /\ c.rec # "committing" /\ c.idle /\ net.inbox = <<>> /\ net.over # "none"
  <2>1. /\ d.buffered = c.buffered /\ d.writing = c.writing
        /\ \/ d.sleep = Never /\ d.rec = "off"
           \/ d.sleep = Due(c) /\ d.rec = c.rec
    BY <1>6 DEF InnerPolled
  <2>2. Due(c) >= net.last + Every
    BY <1>0, <1>6, SMTT(30) DEF Due, InnerFits
  <2>3. ~c.writing /\ ~c.stored
    BY <1>6 DEF InnerFits
  <2> QED
    BY <1>0, <1>6, <2>1, <2>2, <2>3 DEF InnerFits
<1> QED
  BY <1>1, <1>2, <1>3, <1>4, <1>5, <1>6

\* ... and what the outer ones do, with the timeouts that were due.
LEMMA OuterFrame ==
  ASSUME at \in Nat, net \in NetType, NEW c \in ChainType, NEW d \in ChainType, NEW e \in ChainType,
         NEW m \in Nat, NetFits(net, m, at), OuterFits(c, net, m), c.open, c.coding # "ended",
         OuterPolled(e, d, c), net.inbox # <<>>, d.out = Head(net.inbox), d.idle
  PROVE  OuterFits(e, Popped(net), FewerData(m))
<1> DEFINE n == Popped(net) k == FewerData(m)
<1>1. /\ n \in NetType /\ k \in Nat /\ NetFits(n, k, at)
      /\ n.given = net.given /\ n.over = net.over /\ n.last = net.last /\ n.trailers = net.trailers
      /\ Len(n.inbox) = Len(net.inbox) - 1 /\ Len(net.inbox) \in Nat
      /\ \A i \in 1 .. Len(n.inbox) : n.inbox[i] = net.inbox[i + 1]
      /\ Head(net.inbox) \in {"data", "bad"} => m > 0 /\ k = m - 1
      /\ Head(net.inbox) \in {"trailers", "error"} => m = 0 /\ k = 0
  BY NetPops
<1>2. d.out \in {"data", "bad", "trailers", "error"} /\ d.out = net.inbox[1]
  BY HeadIs DEF FrameOrError
<1>3. /\ e.idle /\ e.limit = c.limit /\ c.coding \in {"through", "decoding"} /\ c.told # "none"
      /\ c.delivered \in Nat /\ c.seen \in Nat /\ net.given \in Nat /\ c.told # "too_large"
      /\ (c.limit # NoLimit => c.limit \in Nat) /\ c.seen = c.delivered
      /\ (c.limit # NoLimit => c.delivered <= c.limit) /\ m <= net.given
      /\ c.delivered <= net.given - m
  BY LayersConstants DEF OuterPolled, InnerSame, ChainType, OuterFits, NetType, NetFits
<1>4. Len(net.inbox) > 0
  BY DEF NetType
<1>5. c.coding = "through" => d.out # "bad" /\ \A i \in 1 .. Len(n.inbox) : n.inbox[i] # "bad"
  <2> SUFFICES ASSUME c.coding = "through"
               PROVE  d.out # "bad" /\ \A i \in 1 .. Len(n.inbox) : n.inbox[i] # "bad"
    OBVIOUS
  <2>1. \A i \in 1 .. Len(net.inbox) : net.inbox[i] # "bad"
    BY DEF OuterFits
  <2> HIDE DEF n, k
  <2>2. 1 \in 1 .. Len(net.inbox) /\ d.out # "bad"
    BY <1>1, <1>2, <1>4, <2>1
  <2>3. ASSUME NEW i \in 1 .. Len(n.inbox) PROVE n.inbox[i] # "bad"
    <3>1. i + 1 \in 1 .. Len(net.inbox) /\ n.inbox[i] = net.inbox[i + 1]
      BY <1>1
    <3> QED
      BY <2>1, <3>1
  <2> QED
    BY <2>2, <2>3
<1> HIDE DEF n, k
\* A frame that goes up to the caller.
<1>6. ASSUME d.out = "data", Counts(e, c), e.coding = c.coding, ~e.half,
             c.coding = "through" => c.delivered = net.given - m,
             c.coding = "decoding" => net.given - m = 2 * c.delivered + 1
      PROVE  OuterFits(e, n, k)
  <2>1. m > 0 /\ k = m - 1 /\ n.given - k = net.given - m + 1
    BY <1>1, <1>3, <1>6
  <2>2. CASE Passes(c)
    <3>1. e.seen = c.seen + 1 /\ ~e.open /\ e.delivered = c.delivered /\ e.told = Hears(c.told, "too_large")
      BY <1>6, <2>2 DEF Counts
    <3>2. e.told # "nothing" /\ e.told # "none"
      BY <1>3, <3>1 DEF Hears
    <3> QED
      BY <1>3, <1>5, <1>6, <2>1, <2>2, <3>1, <3>2 DEF OuterFits, Passes
  <2>3. CASE ~Passes(c)
    <3>1. e.seen = c.seen + 1 /\ e.open /\ e.delivered = c.delivered + 1 /\ e.told = c.told
      BY <1>6, <2>3 DEF Counts
    <3>2. /\ e.delivered <= n.given - k /\ e.seen = e.delivered
          /\ c.coding = "through" => e.delivered = n.given - k
          /\ c.coding = "decoding" => n.given - k = 2 * e.delivered
      <4>1. c.delivered \in Nat /\ c.delivered <= net.given - m /\ c.seen = c.delivered
        BY <1>3
      <4>2. n.given - k = net.given - m + 1 /\ net.given - m \in Int
        BY <1>3, <2>1
      <4>3. e.delivered <= n.given - k /\ e.seen = e.delivered
        BY <3>1, <4>1, <4>2
      <4>4. ASSUME c.coding = "through" PROVE e.delivered = n.given - k
        BY <1>6, <3>1, <4>1, <4>2, <4>4
      <4>5. ASSUME c.coding = "decoding" PROVE n.given - k = 2 * e.delivered
        BY <1>6, <3>1, <4>1, <4>2, <4>5
      <4> QED
        BY <4>3, <4>4, <4>5
    <3>3. e.limit # NoLimit => e.delivered <= e.limit
      BY <1>3, <2>3, <3>1 DEF Passes
    <3> QED
      BY <1>3, <1>5, <1>6, <3>1, <3>2, <3>3, SMTT(30) DEF OuterFits
  <2> QED
    BY <2>2, <2>3
<1>7. CASE d.out = "data" /\ c.coding = "through"
  <2>1. Counts(e, c) /\ e.coding = c.coding /\ ~e.half
    BY <1>7 DEF OuterPolled, OuterFits
  <2>2. c.delivered = net.given - m
    BY <1>7 DEF OuterFits
  <2> QED
    BY <1>6, <1>7, <2>1, <2>2 DEF n, k
<1>8. CASE d.out = "data" /\ c.coding = "decoding" /\ c.half
  <2>1. Counts(e, c) /\ e.coding = c.coding /\ ~e.half
    BY <1>8 DEF OuterPolled
  <2>2. net.given - m = 2 * c.delivered + 1
    BY <1>8 DEF OuterFits
  <2> QED
    BY <1>6, <1>8, <2>1, <2>2 DEF n, k
<1>9. CASE d.out = "data" /\ c.coding = "decoding" /\ ~c.half
  <2>1. Stays(e, c) /\ e.coding = "decoding" /\ e.half /\ e.fed /\ e.told = c.told
    BY <1>9 DEF OuterPolled
  <2>2. net.given - m = 2 * c.delivered
    BY <1>3, <1>9 DEF OuterFits
  <2>3. m > 0 /\ k = m - 1 /\ n.given - k = net.given - m + 1
    BY SMTT(30), <1>1, <1>3, <1>9
  <2>4. e.delivered <= n.given - k /\ n.given - k = 2 * e.delivered + 1
    BY SMTT(30), <1>3, <2>1, <2>2, <2>3 DEF Stays
  <2> QED
    BY <1>3, <1>9, <2>1, <2>4 DEF OuterFits, Stays, n, k
<1>10. CASE d.out = "trailers"
  <2>1. /\ Stays(e, c) /\ e.half = c.half /\ e.coding = c.coding /\ e.told = c.told
        /\ e.coding = "decoding" => e.fed = c.fed
    BY <1>3, <1>10 DEF OuterPolled
  <2>2. k = m
    BY <1>1, <1>2, <1>10
  <2> QED
    BY <1>1, <1>3, <1>5, <2>1, <2>2, OuterWaits DEF n, k
<1>11. CASE d.out \in {"bad", "error"}
  <2> DEFINE o == IF d.out = "bad" THEN "decode_error" ELSE "error"
  <2>1. o \in Outs /\ o \notin {"nothing", "none", "too_large"}
    BY OutsAre
  <2>2. Stays(e, c) /\ e.half = c.half /\ e.told = Hears(c.told, o)
        /\ e.coding = IF c.coding = "decoding" THEN "ended" ELSE "through"
    BY <1>3, <1>5, <1>11 DEF OuterPolled, EndOfCoding
  <2>3. k <= m /\ (c.coding = "through" => k = m)
    BY <1>1, <1>2, <1>5, <1>11
  <2> HIDE DEF o
  <2> QED
    BY <1>1, <1>3, <1>5, <2>1, <2>2, <2>3, OuterEnds DEF n, k
<1> QED
  BY <1>2, <1>3, <1>7, <1>8, <1>9, <1>10, <1>11

\* The end of the transport's body, seen or kept by a recording until it was written.
LEMMA OuterEndOfBody ==
  ASSUME at \in Nat, net \in NetType, NEW c \in ChainType, NEW d \in ChainType, NEW e \in ChainType,
         NEW m \in Nat, NetFits(net, m, at), OuterFits(c, net, m), c.open, c.coding # "ended",
         OuterPolled(e, d, c), net.inbox = <<>>, net.over = "none", d.out = "none",
         d.idle = c.idle \/ d.idle
  PROVE  OuterFits(e, net, m)
<1>1. m = 0 /\ net.given \in Nat /\ c.delivered \in Nat /\ net.given - m = net.given
  BY SMTT(30) DEF NetFits, NetType, ChainType
<1>2. c.coding \in {"through", "decoding"} /\ (e.idle = c.idle \/ e.idle) /\ e.limit = c.limit
      /\ c.half \in BOOLEAN
  BY DEF ChainType, OuterPolled, InnerSame
<1>3. CASE c.coding = "through"
  <2>1. e.coding = "through" /\ e.half = c.half /\ Stays(e, c) /\ e.told = Hears(c.told, "none")
    BY <1>3 DEF OuterPolled
  <2>2. ~c.half /\ c.delivered = net.given
    BY <1>1, <1>3 DEF OuterFits
  <2> QED
    BY <1>1, <1>2, <1>3, <2>1, <2>2 DEF OuterFits, Stays, Hears
<1>4. CASE c.coding = "decoding"
  <2>1. e.coding = "ended" /\ e.half = c.half /\ Stays(e, c)
        /\ e.told = Hears(c.told, Finish(c))
    BY <1>4 DEF OuterPolled, EndOfCoding
  <2>2. CASE c.half
    <3>1. Finish(c) = "decode_error"
      BY <1>4, <2>2 DEF Finish, OuterFits
    <3>2. "decode_error" \in Outs /\ e.told = Hears(c.told, "decode_error")
          /\ e.coding = IF c.coding = "decoding" THEN "ended" ELSE "through"
      BY <1>4, <2>1, <3>1, OutsAre
    <3>3. m <= m
      OBVIOUS
    <3> QED
      BY <1>2, <1>4, <2>1, <3>2, <3>3, OuterEnds
  <2>3. CASE ~c.half
    <3>1. Finish(c) = "none"
      BY <2>3 DEF Finish
    <3>2. net.given = 2 * c.delivered
      BY <1>1, <1>4, <2>3 DEF OuterFits
    <3>3. net.given \div 2 = c.delivered
      BY <1>1, <3>2
    <3> QED
      BY <1>1, <1>2, <1>4, <2>1, <2>3, <3>1, <3>3 DEF OuterFits, Stays, Hears
  <2> QED
    BY <1>2, <2>2, <2>3
<1> QED
  BY <1>2, <1>3, <1>4

LEMMA LivePollStep ==
  ASSUME LayersInv, PollFrame, chain.open, chain.coding # "ended"
  PROVE  LayersInv' /\ BodyInTime
<1> DEFINE c == chain  d == DeadlinePoll(c)  e == chain'
           reaches == ~Late(c) /\ c.rec # "committing" /\ c.idle /\ net.inbox # <<>>
<1>1. at \in Nat /\ net \in NetType /\ c \in ChainType /\ c.coding \in {"through", "decoding"}
  BY DEF LayersInv, ChainType
<1>2. PICK m \in Nat : NetFits(net, m, at) /\ InnerFits(c, net, m) /\ OuterFits(c, net, m)
  BY DEF LayersInv
<1>3. InnerPolled(d, c)
  BY <1>1, DeadlineIs
<1>4. d \in ChainType /\ OuterSame(d, c)
  BY <1>3 DEF InnerPolled
<1>5. OuterPolled(e, d, c) /\ at' = at
  <2>1. OuterPolled(Told(LimitedPoll(c)), d, c)
    BY <1>1, <1>4, OuterIs
  <2> QED
    BY <2>1 DEF PollFrame
<1>6. net' = IF reaches THEN Popped(net) ELSE net
  BY DEF PollFrame, PollReaches, Popped, Late, Overrun
<1>7. e \in ChainType /\ InnerSame(e, d)
  BY <1>5 DEF OuterPolled
<1> HIDE DEF d, e
<1>8. IF reaches THEN InnerFits(e, Popped(net), FewerData(m)) ELSE InnerFits(e, net, m)
  BY <1>1, <1>2, <1>3, <1>4, <1>7, InnerStep
\* What the caller hears, by what the inner layers answered.
<1>9. ASSUME d.out \in {"deadline_error", "idle_error"} PROVE OuterFits(e, net, m)
  <2>1. Stays(e, c) /\ e.half = c.half /\ e.told = Hears(c.told, d.out) /\ e.limit = c.limit
        /\ e.coding = IF c.coding = "decoding" THEN "ended" ELSE "through"
    BY <1>1, <1>5, <1>9 DEF OuterPolled, EndOfCoding
  <2>2. d.out \in Outs /\ d.out \notin {"nothing", "none", "too_large"} /\ m <= m
    BY <1>9, OutsAre
  <2>3. c.coding = "through" => \A i \in 1 .. Len(net.inbox) : net.inbox[i] # "bad"
    BY <1>2 DEF OuterFits
  <2> QED
    BY <1>1, <1>2, <1>7, <2>1, <2>2, <2>3, OuterEnds
<1>10. ASSUME d.out = "pending", d.idle = c.idle \/ d.idle PROVE OuterFits(e, net, m)
  <2>1. /\ Stays(e, c) /\ e.half = c.half /\ e.coding = c.coding /\ e.told = c.told /\ e.limit = c.limit
        /\ e.coding = "decoding" => e.fed = c.fed
    BY <1>1, <1>5, <1>10 DEF OuterPolled
  <2>2. e.idle = c.idle \/ e.idle
    BY <1>7, <1>10 DEF InnerSame
  <2>3. c.coding = "through" => \A i \in 1 .. Len(net.inbox) : net.inbox[i] # "bad"
    BY <1>2 DEF OuterFits
  <2> QED
    BY <1>1, <1>2, <1>7, <2>1, <2>2, <2>3, OuterWaits
<1> HIDE DEF c
<1>11. IF reaches THEN OuterFits(e, Popped(net), FewerData(m)) ELSE OuterFits(e, net, m)
  <2>1. CASE Late(c)
    <3>1. d.out = "deadline_error"
      BY <1>3, <2>1 DEF InnerPolled
    <3> QED
      BY <1>9, <2>1, <3>1
  <2>2. CASE ~Late(c) /\ c.rec = "committing"
    <3>1. /\ d.idle = c.idle /\ (c.writing => d.out = "pending") /\ (~c.writing => d.out = "none")
          /\ net.inbox = <<>> /\ net.over = "none"
      BY <1>2, <1>3, <2>2 DEF InnerPolled, InnerFits
    <3>2. d.out = "none" => OuterFits(e, net, m)
      BY <1>1, <1>2, <1>4, <1>5, <1>7, <3>1, OuterEndOfBody DEF c
    <3> QED
      BY <1>10, <2>2, <3>1, <3>2
  <2>3. CASE ~Late(c) /\ c.rec # "committing" /\ ~c.idle
    <3>1. d.out = "idle_error"
      BY <1>3, <2>3 DEF InnerPolled
    <3> QED
      BY <1>9, <2>3, <3>1
  <2>4. CASE reaches
    <3>1. d.out = Head(net.inbox) /\ d.idle /\ net.inbox # <<>>
      BY <1>3, <2>4 DEF InnerPolled
    <3> QED
      BY <1>1, <1>2, <1>4, <1>5, <1>7, <2>4, <3>1, OuterFrame DEF c
  <2>5. CASE ~Late(c) /\ c.rec # "committing" /\ c.idle /\ net.inbox = <<>> /\ net.over = "none"
    <3>1. d.idle /\ d.out \in {"pending", "none"}
      BY <1>3, <2>5 DEF InnerPolled
    <3>2. d.out = "none" => OuterFits(e, net, m)
      BY <1>1, <1>2, <1>4, <1>5, <1>7, <2>5, <3>1, OuterEndOfBody DEF c
    <3> QED
      BY <1>10, <2>5, <3>1, <3>2
  <2>6. CASE ~Late(c) /\ c.rec # "committing" /\ c.idle /\ net.inbox = <<>> /\ net.over # "none"
    <3>1. d.out = "idle_error" \/ (d.out = "pending" /\ d.idle)
      BY <1>3, <2>6 DEF InnerPolled
    <3> QED
      BY <1>9, <1>10, <2>6, <3>1
  <2> QED
    BY <2>1, <2>2, <2>3, <2>4, <2>5, <2>6
<1>12. BodyInTime
  <2>1. ASSUME c.told = "nothing", e.told = "idle_error" PROVE net.inbox = <<>> /\ at >= net.last + Every
    <3>1. c.idle
      BY <1>2, <2>1 DEF OuterFits
    <3>2. d.out = "idle_error"
      BY <1>1, <1>5, <2>1 DEF OuterPolled, Hears, EndOfCoding, Finish, Counts
    <3>3. net.inbox # <<>> => Head(net.inbox) \in {"data", "bad", "trailers", "error"}
      BY <1>1, HeadIs DEF FrameOrError
    <3>4. ~Late(c) /\ c.rec # "committing" /\ net.inbox = <<>> /\ net.over # "none" /\ at >= Due(c)
      BY <1>3, <3>1, <3>2, <3>3 DEF InnerPolled
    <3>5. c.sleep \in Nat /\ Every \in Nat /\ net.last \in Nat /\ net.last <= at
      BY <1>1, <1>2, LayersConstants DEF ChainType, NetType, NetFits
    <3>6. Due(c) >= net.last + Every
      BY <1>1, <1>2, <3>4, <3>5 DEF Due, InnerFits
    <3>7. Due(c) \in Nat
      BY <1>1, <3>5 DEF Due
    <3> QED
      BY <1>1, <3>4, <3>5, <3>6, <3>7
  <2>2. ASSUME e.delivered > c.delivered PROVE at < Total
    <3>1. ~Stays(e, c)
      BY <1>1, <1>7, <2>2 DEF Stays, ChainType
    <3>2. d.out = "data"
      BY <1>1, <1>5, <3>1 DEF OuterPolled
    <3>3. ~Late(c)
      BY <1>3, <3>2 DEF InnerPolled
    <3> QED
      BY <1>1, <3>3, LayersConstants DEF Late
  <2> QED
    BY <2>1, <2>2 DEF BodyInTime, c, e
<1>13. CASE reaches
  <2> DEFINE n == Popped(net) k == FewerData(m)
  <2>1. n \in NetType /\ k \in Nat /\ NetFits(n, k, at)
    BY <1>1, <1>2, <1>13, NetPops
  <2> HIDE DEF k
  <2>2. net' = n /\ InnerFits(e, n, k) /\ OuterFits(e, n, k)
    BY <1>6, <1>8, <1>11, <1>13 DEF k
  <2> QED
    BY <1>1, <1>5, <1>7, <1>12, <2>1, <2>2 DEF LayersInv, e
<1>14. CASE ~reaches
  <2>1. net' = net /\ InnerFits(e, net, m) /\ OuterFits(e, net, m)
    BY <1>6, <1>8, <1>11, <1>14
  <2> QED
    BY <1>1, <1>2, <1>5, <1>7, <1>12, <2>1 DEF LayersInv, e
<1> QED
  BY <1>13, <1>14

LEMMA LayersStep ==
  LayersInv /\ [LayersNext]_layersVars => LayersInv' /\ [BodyInTime]_layersVars
<1> SUFFICES ASSUME LayersInv, [LayersNext]_layersVars PROVE LayersInv' /\ [BodyInTime]_layersVars
  OBVIOUS
<1>1. CASE UNCHANGED layersVars
  BY <1>1 DEF layersVars, LayersInv
<1>2. CASE PollFrame
  BY <1>2, EndedPollStep, LivePollStep
<1>3. ASSUME chain'.told = chain.told, chain'.delivered = chain.delivered PROVE BodyInTime
  <2>1. chain.delivered \in Nat
    BY DEF LayersInv, ChainType
  <2> QED
    BY <1>3, <2>1 DEF BodyInTime
<1>4. CASE StoreWrites
  <2>1. chain'.told = chain.told /\ chain'.delivered = chain.delivered
    BY <1>4 DEF StoreWrites, LayersInv, ChainType
  <2> QED
    BY <1>3, <1>4, <2>1, StoreWritesStep
<1>5. CASE LayersTick
  BY <1>3, <1>5, LayersTickStep, SMTT(30) DEF LayersTick
<1>6. ASSUME NEW f \in Frames, FrameArrives(f) PROVE LayersInv' /\ BodyInTime
  BY <1>3, <1>6, FrameArrivesStep DEF FrameArrives
<1>7. ASSUME NEW how \in Endings, BodyEnds(how) PROVE LayersInv' /\ BodyInTime
  BY <1>3, <1>7, BodyEndsStep DEF BodyEnds
<1> QED
  BY <1>1, <1>2, <1>4, <1>5, <1>6, <1>7 DEF LayersNext

LEMMA LayersPromise == LayersInv => LayersHold
<1> SUFFICES ASSUME LayersInv PROVE LayersHold
  OBVIOUS
<1>1. PICK m \in Nat : NetFits(net, m, at) /\ InnerFits(chain, net, m) /\ OuterFits(chain, net, m)
  BY DEF LayersInv
<1>2. /\ chain \in ChainType /\ net \in NetType /\ chain.delivered \in Nat /\ chain.buffered \in Nat
      /\ chain.seen \in Nat /\ net.given \in Nat /\ MaxData \in Nat /\ CacheMax \in Nat
      /\ chain.open \in BOOLEAN
      /\ chain.coding \in {"through", "decoding", "ended"} /\ chain.rec \in {"off", "on", "committing"}
  BY LayersConstants DEF LayersInv, ChainType, NetType
<1>3. chain.delivered <= MaxData /\ chain.buffered <= CacheMax
  BY <1>1, <1>2 DEF NetFits, OuterFits, InnerFits
<1>4. LayersTypeOK
  BY <1>2, <1>3 DEF LayersTypeOK
<1>5. CleanEndIsWhole
  BY <1>1 DEF CleanEndIsWhole, OuterFits, Delivers
<1>6. StoredIsWhole
  BY <1>1 DEF StoredIsWhole, InnerFits
<1>7. LimitIsExact
  BY <1>1 DEF LimitIsExact, OuterFits
<1> QED
  BY <1>4, <1>5, <1>6, <1>7 DEF LayersHold

------------------------------------------------------------------------------
(* A tunnel asked of a proxy over HTTP/3, then over HTTP/2 (dial.rs).       *)

Versions == {"h3", "h2"}

TunnelType ==
  [pc : {"idle", "h3", "h2", "ended"}, takes : SUBSET Versions, lends : SUBSET Versions,
   due : Nat, h3Due : Nat, h3Left : Nat, tried : SUBSET Versions,
   outcome : {"none", "open", "h3_error", "h2_error", "unsupported", "timeout"}]

\* The HTTP/3 attempt ends while half of what it began with is left.
DialInv ==
  /\ tNow \in Nat /\ tunnel \in TunnelType
  /\ tunnel.pc = "h3" =>
       /\ tNow <= tunnel.h3Due
       /\ H2Follows(tunnel) => 2 * (tunnel.due - tunnel.h3Due) >= tunnel.h3Left

ShareIsKept ==
  tunnel.pc = "h3" /\ tunnel'.pc = "h2" => 2 * (tunnel.due - tNow) >= tunnel.h3Left

LEMMA DialBegins == DialInit => DialInv
BY DEF DialInit, DialInv, NoTunnel, TunnelType

LEMMA AfterH3Is ==
  ASSUME NEW t \in TunnelType, NEW failed \in BOOLEAN
  PROVE  /\ AfterH3(t, failed) \in TunnelType
         /\ AfterH3(t, failed).pc # "h3"
         /\ AfterH3(t, failed).pc = "h2" => H2Follows(t)
<1>1. CASE H2Follows(t)
  <2>1. t.tried \cup {"h2"} \in SUBSET Versions
    BY DEF TunnelType, Versions
  <2>2. AfterH3(t, failed) = [t EXCEPT !.pc = "h2", !.tried = t.tried \cup {"h2"}]
    BY <1>1 DEF AfterH3
  <2> QED
    BY <1>1, <2>1, <2>2 DEF TunnelType
<1>2. CASE ~H2Follows(t)
  <2> DEFINE o == IF failed THEN "h3_error" ELSE "unsupported"
  <2>1. AfterH3(t, failed) = [t EXCEPT !.pc = "ended", !.outcome = o]
        /\ o \in {"none", "open", "h3_error", "h2_error", "unsupported", "timeout"}
    BY <1>2 DEF AfterH3
  <2> HIDE DEF o
  <2> QED
    BY <2>1 DEF TunnelType
<1> QED
  BY <1>1, <1>2

LEMMA AskTunnelStep ==
  ASSUME DialInv, NEW r \in TunnelRequests, AskTunnel(r)
  PROVE  DialInv' /\ ShareIsKept
<1> DEFINE t == [NoTunnel EXCEPT !.takes = r.takes, !.lends = r.lends,
                                 !.due = tNow + r.bound, !.pc = "h3"]
           left == tNow + H3Budget(r, r.bound)
           h == [t EXCEPT !.tried = {"h3"}, !.h3Left = r.bound, !.h3Due = left]
<1>1. tNow \in Nat /\ tNow' = tNow /\ tunnel.pc # "h3"
      /\ tunnel' = IF AsksH3(r) THEN h ELSE AfterH3(t, FALSE)
  BY DEF AskTunnel, DialInv
<1>2. r.bound \in Nat /\ r.takes \in SUBSET Versions /\ r.lends \in SUBSET Versions
  BY TunnelBoundsOK DEF TunnelRequests, Versions
<1>3. tNow + r.bound \in Nat
  BY <1>1, <1>2
<1>4. t \in TunnelType /\ t.takes = r.takes /\ t.lends = r.lends /\ t.due = tNow + r.bound /\ t.pc = "h3"
  BY <1>2, <1>3 DEF NoTunnel, TunnelType
<1>5. /\ H3Budget(r, r.bound) \in Nat
      /\ H2Follows(r) => 2 * (r.bound - H3Budget(r, r.bound)) >= r.bound
  <2>1. H3TunnelBeforeH2 \in Nat
    BY TunnelBoundsOK
  <2>2. r.bound \div 2 \in Nat /\ 2 * (r.bound \div 2) <= r.bound
    BY <1>2
  <2> QED
    BY <1>2, <2>1, <2>2 DEF H3Budget, Min2
<1>6. left \in Nat /\ tNow <= left
  BY <1>1, <1>5
<1>7. CASE AsksH3(r)
  <2>1. H2Follows(r) => 2 * (tNow + r.bound - left) >= r.bound
    BY <1>1, <1>2, <1>5
  <2> HIDE DEF t, left
  <2>2. {"h3"} \in SUBSET Versions
    BY DEF Versions
  <2>3. /\ h \in TunnelType /\ h.takes = r.takes /\ h.lends = r.lends /\ h.due = tNow + r.bound
        /\ h.h3Left = r.bound /\ h.h3Due = left
    BY <1>2, <1>4, <1>6, <2>2 DEF TunnelType
  <2>4. H2Follows(h) <=> H2Follows(r)
    BY <2>3 DEF H2Follows
  <2> HIDE DEF h
  <2>5. tunnel' = h
    BY <1>1, <1>7
  <2>6. H2Follows(h) => 2 * (h.due - h.h3Due) >= h.h3Left
    BY <1>1, <1>2, <1>6, <2>1, <2>3, <2>4
  <2>7. tNow <= h.h3Due
    BY <1>6, <2>3
  <2> QED
    BY <1>1, <2>3, <2>5, <2>6, <2>7 DEF DialInv, ShareIsKept
<1>8. CASE ~AsksH3(r)
  <2> HIDE DEF t
  <2>1. tunnel' = AfterH3(t, FALSE)
    BY <1>1, <1>8
  <2>2. tunnel' \in TunnelType /\ tunnel'.pc # "h3"
    BY <1>4, <2>1, AfterH3Is
  <2> QED
    BY <1>1, <2>2 DEF DialInv, ShareIsKept
<1> QED
  BY <1>7, <1>8

LEMMA DialStep == DialInv /\ [DialNext]_dialVars => DialInv' /\ [ShareIsKept]_dialVars
<1> SUFFICES ASSUME DialInv, [DialNext]_dialVars PROVE DialInv' /\ [ShareIsKept]_dialVars
  OBVIOUS
<1>0. tNow \in Nat /\ tunnel \in TunnelType /\ tunnel.due \in Nat /\ tunnel.h3Due \in Nat /\ tunnel.h3Left \in Nat
  BY DEF DialInv, TunnelType
<1>1. CASE UNCHANGED dialVars
  BY <1>1 DEF dialVars, DialInv, H2Follows
<1>2. CASE \E r \in TunnelRequests : AskTunnel(r)
  BY <1>2, AskTunnelStep
<1>3. CASE H3TunnelOpens \/ H2TunnelEnds \/ TunnelTimesOut
  <2>1. PICK o \in {"open", "h2_error", "timeout"} : tunnel' = [tunnel EXCEPT !.pc = "ended", !.outcome = o]
    BY <1>3 DEF H3TunnelOpens, H2TunnelEnds, TunnelTimesOut
  <2>2. tunnel' \in TunnelType /\ tunnel'.pc = "ended"
    BY <1>0, <2>1 DEF TunnelType
  <2>3. tNow' = tNow
    BY <1>3 DEF H3TunnelOpens, H2TunnelEnds, TunnelTimesOut
  <2> QED
    BY <1>0, <2>2, <2>3 DEF DialInv, ShareIsKept
<1>4. CASE H3TunnelFails
  <2>1. tunnel.pc = "h3" /\ tNow' = tNow /\ tunnel' = AfterH3(tunnel, TRUE)
    BY <1>4 DEF H3TunnelFails
  <2>2. tunnel' \in TunnelType /\ tunnel'.pc # "h3" /\ (tunnel'.pc = "h2" => H2Follows(tunnel))
    BY <1>0, <2>1, AfterH3Is
  <2>3. tunnel'.pc = "h2" => 2 * (tunnel.due - tNow) >= tunnel.h3Left
    <3>1. tNow <= tunnel.h3Due /\ (H2Follows(tunnel) => 2 * (tunnel.due - tunnel.h3Due) >= tunnel.h3Left)
      BY <2>1 DEF DialInv
    <3> QED
      BY <1>0, <2>2, <3>1
  <2> QED
    BY <1>0, <2>1, <2>2, <2>3 DEF DialInv, ShareIsKept
<1>5. CASE ForgetTunnelFailures
  BY <1>0, <1>5 DEF ForgetTunnelFailures, DialInv, ShareIsKept, H2Follows
<1>6. CASE TunnelTick
  <2>1. tNow' = tNow + 1 /\ tNow' \in Nat /\ tunnel' = tunnel /\ (tunnel.pc = "h3" => tNow' <= tunnel.h3Due)
    BY <1>0, <1>6 DEF TunnelTick
  <2> QED
    BY <1>0, <2>1 DEF DialInv, ShareIsKept, H2Follows
<1> QED
  BY <1>1, <1>2, <1>3, <1>4, <1>5, <1>6 DEF DialNext

Count(n) == [i \in 1 .. n |-> i]

\* A chunk leaves the head of a sequence.
LEMMA HeadLeaves ==
  ASSUME NEW S, NEW s \in Seq(S), s # <<>>
  PROVE  /\ Head(s) \in S /\ Tail(s) \in Seq(S) /\ <<Head(s)>> \in Seq(S)
         /\ Len(Tail(s)) = Len(s) - 1 /\ <<Head(s)>> \o Tail(s) = s
<1>1. Head(s) \in S /\ Tail(s) \in Seq(S) /\ Len(Tail(s)) = Len(s) - 1 /\ Len(s) \in Nat /\ Len(s) >= 1
      /\ \A i \in 1 .. Len(Tail(s)) : Tail(s)[i] = s[i + 1]
  BY HeadTailProperties, EmptySeq, LenProperties
<1>2. <<Head(s)>> \in Seq(S) /\ Len(<<Head(s)>>) = 1 /\ <<Head(s)>>[1] = Head(s) /\ Head(s) = s[1]
  BY <1>1
<1>3. PICK h, t : h = <<Head(s)>> /\ t = Tail(s)
  OBVIOUS
<1>4. /\ h \o t \in Seq(S) /\ Len(h \o t) = Len(s)
      /\ \A i \in 1 .. Len(s) : (h \o t)[i] = IF i <= 1 THEN h[i] ELSE t[i - 1]
  BY <1>1, <1>2, <1>3, ConcatProperties
<1>5. \A i \in 1 .. Len(s) : (h \o t)[i] = s[i]
  <2> SUFFICES ASSUME NEW i \in 1 .. Len(s) PROVE (h \o t)[i] = s[i]
    OBVIOUS
  <2>1. CASE i = 1
    BY <1>2, <1>3, <1>4, <2>1
  <2>2. CASE i # 1
    <3>1. i - 1 \in 1 .. Len(t) /\ i > 1 /\ (i - 1) + 1 = i
      BY <1>1, <1>3, <2>2
    <3> QED
      BY <1>1, <1>3, <1>4, <3>1
  <2> QED
    BY <2>1, <2>2
<1>6. h \o t = s
  BY <1>4, <1>5, SeqEqual
<1> QED
  BY <1>1, <1>2, <1>3, <1>6

LEMMA PiecesJoin ==
  ASSUME NEW S, NEW a \in Seq(S), NEW b \in Seq(S), NEW h \in Seq(S), NEW z \in Seq(S)
  PROVE  a \o b \o h \o z = a \o b \o <<>> \o (h \o z)
<1>1. PICK x : x = a \o b
  OBVIOUS
<1>2. x \in Seq(S) /\ x \o <<>> = x
  BY <1>1, ConcatProperties, ConcatEmptySeq
<1>3. (x \o h) \o z = x \o (h \o z)
  BY SMTT(30), <1>2, ConcatAssociative
<1> QED
  BY <1>1, <1>2, <1>3

LEMMA PiecesPull ==
  ASSUME NEW S, NEW a \in Seq(S), NEW b \in Seq(S), NEW d \in Seq(S), d # <<>>
  PROVE  a \o b \o <<Head(d)>> \o Tail(d) = a \o b \o <<>> \o d
<1>1. <<Head(d)>> \in Seq(S) /\ Tail(d) \in Seq(S) /\ <<Head(d)>> \o Tail(d) = d
  BY HeadLeaves
<1>2. a \o b \o <<Head(d)>> \o Tail(d) = a \o b \o <<>> \o (<<Head(d)>> \o Tail(d))
  BY SMTT(30), <1>1, PiecesJoin
<1> QED
  BY <1>1, <1>2

LEMMA PiecesSend ==
  ASSUME NEW S, NEW a \in Seq(S), NEW c \in Seq(S), NEW d \in Seq(S)
  PROVE  a \o (<<>> \o c) \o <<>> \o d = a \o <<>> \o c \o d
<1>1. <<>> \o c = c /\ a \o <<>> = a
  BY ConcatEmptySeq
<1>2. a \o c \in Seq(S)
  BY ConcatProperties
<1>3. (a \o c) \o <<>> = a \o c
  BY <1>2, ConcatEmptySeq
<1> QED
  BY <1>1, <1>3

LEMMA PiecesTake ==
  ASSUME NEW S, NEW a \in Seq(S), NEW c \in Seq(S), Len(c) = 1
  PROVE  /\ Append(a, Head(c)) \o Tail(c) = a \o c
         /\ Tail(c) = <<>> /\ c # <<>> /\ Head(c) = c[1]
         /\ Append(a, Head(c)) \in Seq(S) /\ Len(Append(a, Head(c))) = Len(a) + 1
<1>1. c # <<>>
  BY EmptySeq
<1>2. /\ Head(c) \in S /\ Tail(c) \in Seq(S) /\ <<Head(c)>> \in Seq(S) /\ Len(Tail(c)) = 0
      /\ <<Head(c)>> \o Tail(c) = c /\ Head(c) = c[1]
  BY <1>1, HeadLeaves, HeadTailProperties
<1>3. Tail(c) = <<>>
  BY <1>2, EmptySeq
<1>4. <<Head(c)>> = c
  BY <1>2, <1>3, ConcatEmptySeq
<1>5. Append(a, Head(c)) \in Seq(S) /\ Len(Append(a, Head(c))) = Len(a) + 1
      /\ Append(a, Head(c)) = a \o <<Head(c)>>
  BY <1>2, AppendProperties, AppendIsConcat
<1>6. Append(a, Head(c)) \o <<>> = Append(a, Head(c))
  BY <1>5, ConcatEmptySeq
<1> QED
  BY <1>1, <1>2, <1>3, <1>4, <1>5, <1>6

LEMMA NextOf ==
  ASSUME NEW S, NEW a \in Seq(S), NEW c \in Seq(S), Len(c) = 1
  PROVE  /\ a \o c \in Seq(S) /\ Len(a \o c) = Len(a) + 1
         /\ (a \o c)[Len(a) + 1] = c[1]
<1>1. PICK x : x = a \o c
  OBVIOUS
<1>2. Len(a) \in Nat
  BY LenProperties
<1>3. /\ x \in Seq(S) /\ Len(x) = Len(a) + Len(c)
      /\ \A i \in 1 .. Len(a) + Len(c) : x[i] = IF i <= Len(a) THEN a[i] ELSE c[i - Len(a)]
  BY <1>1, ConcatProperties
<1>4. x[Len(a) + 1] = c[1]
  BY <1>2, <1>3
<1> QED
  BY <1>1, <1>3, <1>4

LEMMA PiecesGrow ==
  ASSUME NEW S, NEW x \in Seq(S), NEW d \in Seq(S), NEW e \in S
  PROVE  x \o Append(d, e) = Append(x \o d, e)
<1>1. Append(d, e) = d \o <<e>> /\ <<e>> \in Seq(S) /\ x \o d \in Seq(S)
  BY AppendIsConcat, ConcatProperties
<1>2. Append(x \o d, e) = (x \o d) \o <<e>>
  BY <1>1, AppendIsConcat
<1> QED
  BY <1>1, <1>2, ConcatAssociative

\* Counting one further.
LEMMA CountGrows ==
  ASSUME NEW n \in Nat
  PROVE  /\ Append(Count(n), n + 1) = Count(n + 1) /\ Len(Count(n)) = n
         /\ \A s : s = Count(Len(s)) /\ Len(s) \in Nat => Append(s, Len(s) + 1) = Count(Len(s) + 1)
<1>1. \A k \in Nat : Count(k) \in Seq(Nat) /\ Len(Count(k)) = k
  BY IsASeq DEF Count
<1>2. \A k \in Nat : Append(Count(k), k + 1) = Count(k + 1)
  <2> SUFFICES ASSUME NEW k \in Nat PROVE Append(Count(k), k + 1) = Count(k + 1)
    OBVIOUS
  <2>1. PICK c, d : c = Count(k) /\ d = Append(c, k + 1)
    OBVIOUS
  <2>2. /\ d \in Seq(Nat) /\ Len(d) = k + 1 /\ \A i \in 1 .. Len(c) : d[i] = c[i]
        /\ d[Len(c) + 1] = k + 1 /\ Len(c) = k
    BY <1>1, <2>1, AppendProperties
  <2>3. \A i \in 1 .. k + 1 : d[i] = i
    BY <2>1, <2>2 DEF Count
  <2>4. Count(k + 1) \in Seq(Nat) /\ Len(Count(k + 1)) = k + 1
    BY <1>1
  <2>5. \A i \in 1 .. k + 1 : Count(k + 1)[i] = i
    BY DEF Count
  <2>6. d = Count(k + 1)
    BY <2>2, <2>3, <2>4, <2>5, SeqEqual
  <2> QED
    BY <2>1, <2>6
<1> QED
  BY <1>1, <1>2

------------------------------------------------------------------------------
(* The exchange of the browser transport (hclient-fetch).                  *)

Chunks == Seq(0 .. MaxParts)

CallerStates == {"new", "waits", "reads", "failed", "gone"}
TaskStates == {"none", "works", "done"}
BrowserStates == {"none", "runs", "settled", "aborted"}
PromiseStates == {"pending", "ok", "failed"}
HolderStates == {"none", "oneshot", "caller", "gone"}
StreamStates == {"none", "open", "ended", "cancelled"}
PumpStates == {"none", "pulls", "sends", "done"}
Tellings == {"no", "end", "error"}
ChunkCounts == 0 .. MaxParts

FetchRec ==
  [send : BOOLEAN, caller : CallerStates, task : TaskStates, taskDue : BOOLEAN,
   guard : BOOLEAN, browser : BrowserStates, promise : PromiseStates, holder : HolderStates,
   stream : StreamStates, source : Chunks, made : ChunkCounts, pump : PumpStates,
   pumpDue : BOOLEAN, item : Chunks, chan : Chunks, senderParked : BOOLEAN, got : Chunks,
   told : Tellings, parked : BOOLEAN, woken : BOOLEAN]

\* Every chunk the stream made is in one of four places, in order, and an error
\* after the last of them.
Pieces(f) == f.got \o f.chan \o f.item \o f.source

FetchWhole(f) ==
  /\ f.got = Count(Len(f.got))
  /\ f.holder # "gone" =>
       \/ Pieces(f) = Count(f.made)
       \/ (f.stream = "ended" /\ Pieces(f) = Append(Count(f.made), 0))
  /\ f.told = "end" => Len(f.got) = f.made /\ f.source = <<>>

\* The channel has no buffer and the pump reads one chunk ahead.
Short(s) == s = <<>> \/ Len(s) = 1

LEMMA ShortEmpty == Short(<<>>)
  BY DEF Short

\* Where each half of the exchange stands, without the chunks.
FetchStands(f) ==
  /\ f.pump = "sends" <=> f.item # <<>>
  /\ Short(f.item) /\ Short(f.chan)
  /\ f.chan # <<>> => f.senderParked
  /\ f.pump = "none" =>
       f.got = <<>> /\ f.chan = <<>> /\ f.item = <<>> /\ f.source = <<>> /\ f.made = 0
  /\ f.pump = "done" /\ f.holder # "gone" => f.source = <<>> /\ f.stream \in {"ended", "none"}
  /\ f.pump = "done" => f.stream # "open"
  /\ f.pump = "none" <=> f.holder = "none"
  /\ f.told # "no" => f.holder = "gone"
  /\ f.told = "end" => f.stream \in {"ended", "none"}
  /\ f.parked => f.caller = "reads" /\ f.holder = "caller"
  /\ f.parked /\ ~f.woken => f.chan = <<>> /\ f.pump # "done"
  /\ f.holder = "caller" => f.caller = "reads"
  /\ f.caller = "reads" /\ f.told = "no" => f.holder = "caller"
  /\ f.holder = "oneshot" => f.caller = "waits"

\* What runs for the exchange: the browser for a promise, the task for both.
FetchRunsFor(f) ==
  /\ f.promise = "pending" => f.stream = "none" /\ f.pump = "none"
  /\ f.promise = "failed" => f.stream = "none" /\ f.pump = "none"
  /\ f.promise # "pending" => f.browser # "runs"
  /\ f.caller = "new" => f.browser = "none" /\ f.task = "none" /\ f.promise = "pending"
  /\ f.caller = "waits" /\ ~f.send => f.guard /\ f.pump = "none"
  /\ f.caller = "waits" /\ f.send => f.task # "none"
  /\ f.caller = "waits" /\ f.holder # "oneshot" => f.pump = "none"
  /\ f.caller = "reads" => f.pump # "none"
  /\ f.pump # "none" => ~f.guard
  /\ f.task = "works" => f.send /\ f.guard /\ f.pump = "none" /\ f.caller \in {"waits", "gone"}
  /\ f.task = "works" /\ (f.caller = "gone" \/ f.promise # "pending") => f.taskDue
  /\ f.task = "done" => f.pump # "none" \/ (f.browser # "runs" /\ f.stream = "none")
  /\ f.caller = "gone" => f.holder \in {"none", "gone"}
  /\ f.caller = "gone" /\ f.pump = "none" /\ f.task # "works" => f.browser # "runs" /\ f.stream # "open"
  /\ f.holder = "gone" /\ f.pump \in {"pulls", "sends"} => f.pumpDue

FetchInv ==
  /\ fetch \in FetchRec
  /\ FetchWhole(fetch)
  /\ FetchStands(fetch)
  /\ FetchRunsFor(fetch)

\* What a promise that has settled, a dropped body, a dropped guard and a pump
\* that ends change, field by field.
FetchFinished(f, g) ==
  /\ g \in FetchRec /\ g.guard = FALSE
  /\ g.pump = (IF f.stream = "none" THEN "done" ELSE "pulls")
  /\ g.pumpDue <=> f.stream # "none"
  /\ g.send = f.send /\ g.caller = f.caller /\ g.task = f.task /\ g.taskDue = f.taskDue
  /\ g.browser = f.browser /\ g.promise = f.promise /\ g.holder = f.holder
  /\ g.stream = f.stream /\ g.source = f.source /\ g.made = f.made /\ g.item = f.item
  /\ g.chan = f.chan /\ g.senderParked = f.senderParked /\ g.got = f.got
  /\ g.told = f.told /\ g.parked = f.parked /\ g.woken = f.woken

LEMMA FinishesIs ==
  ASSUME NEW f \in FetchRec, NEW g, g = Finishes(f), f.promise # "failed"
  PROVE  FetchFinished(f, g)
<1>1. PICK p, d : p = (IF f.stream = "none" THEN "done" ELSE "pulls") /\ d = (f.stream # "none")
  OBVIOUS
<1>2. p \in PumpStates /\ d \in BOOLEAN
  BY <1>1 DEF PumpStates
<1>3. g = [f EXCEPT !.guard = FALSE, !.pump = p, !.pumpDue = d]
  BY <1>1 DEF Finishes
<1>4. g \in FetchRec
  BY <1>2, <1>3, ZenonT(60) DEF FetchRec
<1> QED
  BY ZenonT(60), <1>1, <1>3, <1>4 DEF FetchRec, FetchFinished

BodyDropped(f, g) ==
  /\ g \in FetchRec /\ g.holder = "gone" /\ g.chan = <<>>
  /\ g.pumpDue <=> f.pump \in {"pulls", "sends"}
  /\ g.send = f.send /\ g.caller = f.caller /\ g.task = f.task /\ g.taskDue = f.taskDue
  /\ g.guard = f.guard /\ g.browser = f.browser /\ g.promise = f.promise
  /\ g.stream = f.stream /\ g.source = f.source /\ g.made = f.made /\ g.pump = f.pump
  /\ g.item = f.item /\ g.senderParked = f.senderParked /\ g.got = f.got
  /\ g.told = f.told /\ g.parked = f.parked /\ g.woken = f.woken

LEMMA DropBodyIs ==
  ASSUME NEW f \in FetchRec, NEW g, g = DropBody(f)
  PROVE  BodyDropped(f, g)
<1>1. PICK d : d = (f.pump \in {"pulls", "sends"})
  OBVIOUS
<1>2. d \in BOOLEAN /\ <<>> \in Chunks /\ "gone" \in HolderStates
  BY <1>1 DEF Chunks, HolderStates
<1>3. g = [f EXCEPT !.holder = "gone", !.chan = <<>>, !.pumpDue = d]
  BY <1>1 DEF DropBody
<1>4. g \in FetchRec
  BY <1>2, <1>3, ZenonT(60) DEF FetchRec
<1> QED
  BY ZenonT(60), <1>1, <1>3, <1>4 DEF FetchRec, BodyDropped

Aborted(f, g) ==
  /\ g \in FetchRec /\ g.guard = FALSE
  /\ g.browser = (IF f.guard /\ f.browser = "runs" THEN "aborted" ELSE f.browser)
  /\ g.stream = (IF f.guard /\ f.stream = "open" THEN "cancelled" ELSE f.stream)
  /\ g.send = f.send /\ g.caller = f.caller /\ g.task = f.task /\ g.taskDue = f.taskDue
  /\ g.promise = f.promise /\ g.holder = f.holder /\ g.source = f.source /\ g.made = f.made
  /\ g.pump = f.pump /\ g.pumpDue = f.pumpDue /\ g.item = f.item /\ g.chan = f.chan
  /\ g.senderParked = f.senderParked /\ g.got = f.got /\ g.told = f.told
  /\ g.parked = f.parked /\ g.woken = f.woken

LEMMA AbortsOnDropIs ==
  ASSUME NEW f \in FetchRec, NEW g, g = AbortsOnDrop(f)
  PROVE  Aborted(f, g)
<1>1. PICK b, s : /\ b = (IF f.guard /\ f.browser = "runs" THEN "aborted" ELSE f.browser)
                  /\ s = (IF f.guard /\ f.stream = "open" THEN "cancelled" ELSE f.stream)
  OBVIOUS
<1>2. b \in BrowserStates /\ s \in StreamStates
  BY <1>1 DEF FetchRec, BrowserStates, StreamStates
<1>3. g = [f EXCEPT !.guard = FALSE, !.browser = b, !.stream = s]
  BY <1>1 DEF AbortsOnDrop
<1>4. g \in FetchRec
  BY <1>2, <1>3, ZenonT(60) DEF FetchRec
<1> QED
  BY <1>1, <1>3, <1>4 DEF FetchRec, Aborted

PumpEnded(f, g) ==
  /\ g \in FetchRec /\ g.pump = "done" /\ g.pumpDue = FALSE /\ g.item = <<>>
  /\ g.woken <=> f.woken \/ f.parked
  /\ g.stream = (IF f.stream = "open" THEN "cancelled" ELSE f.stream)
  /\ g.send = f.send /\ g.caller = f.caller /\ g.task = f.task /\ g.taskDue = f.taskDue
  /\ g.guard = f.guard /\ g.browser = f.browser /\ g.promise = f.promise
  /\ g.holder = f.holder /\ g.source = f.source /\ g.made = f.made /\ g.chan = f.chan
  /\ g.senderParked = f.senderParked /\ g.got = f.got /\ g.told = f.told
  /\ g.parked = f.parked

LEMMA PumpEndsIs ==
  ASSUME NEW f \in FetchRec, NEW g, g = PumpEnds(f)
  PROVE  PumpEnded(f, g)
<1>1. PICK w, s : /\ w = (f.woken \/ f.parked)
                  /\ s = (IF f.stream = "open" THEN "cancelled" ELSE f.stream)
  OBVIOUS
<1>2. w \in BOOLEAN /\ s \in StreamStates /\ <<>> \in Chunks /\ "done" \in PumpStates
  BY <1>1 DEF FetchRec, StreamStates, PumpStates, Chunks
<1>3. g = [f EXCEPT !.pump = "done", !.pumpDue = FALSE, !.item = <<>>, !.woken = w, !.stream = s]
  BY <1>1 DEF PumpEnds
<1>4. g \in FetchRec
  BY <1>2, <1>3, ZenonT(60) DEF FetchRec
<1> QED
  BY <1>1, <1>3, <1>4 DEF FetchRec, PumpEnded

\* The chunks stay where they are, or some are dropped with their body.
LEMMA WholeStill ==
  ASSUME NEW f, FetchWhole(f), NEW g,
         g.got = f.got, g.made = f.made, g.source = f.source, g.told = f.told,
         g.holder # "gone" =>
           /\ f.holder # "gone" /\ g.chan = f.chan /\ g.item = f.item
           /\ f.stream = "ended" => g.stream = "ended"
  PROVE  FetchWhole(g)
  BY DEF FetchWhole, Pieces

\* The pump takes the next chunk of the stream.
LEMMA WholePulls ==
  ASSUME NEW f \in FetchRec, FetchWhole(f), f.source # <<>>, f.item = <<>>, NEW g,
         g.got = f.got, g.chan = f.chan, g.made = f.made, g.told = f.told,
         g.stream = f.stream, g.holder = f.holder,
         g.item = <<Head(f.source)>>, g.source = Tail(f.source)
  PROVE  FetchWhole(g)
<1>1. PICK a, b, d : a = f.got /\ b = f.chan /\ d = f.source
  OBVIOUS
<1>2. a \in Seq(0 .. MaxParts) /\ b \in Seq(0 .. MaxParts) /\ d \in Seq(0 .. MaxParts) /\ d # <<>>
  BY <1>1 DEF FetchRec, Chunks
<1>3. a \o b \o <<Head(d)>> \o Tail(d) = a \o b \o <<>> \o d
  BY SMTT(30), <1>2, PiecesPull
<1>4. Pieces(g) = Pieces(f)
  BY <1>1, <1>3 DEF Pieces
<1>5. f.told # "end"
  BY DEF FetchWhole
<1> QED
  BY <1>4, <1>5 DEF FetchWhole

\* The pump hands its chunk to an empty channel.
LEMMA WholeSends ==
  ASSUME NEW f \in FetchRec, FetchWhole(f), f.chan = <<>>, NEW g,
         g.got = f.got, g.source = f.source, g.made = f.made, g.told = f.told,
         f.stream = "ended" => g.stream = "ended", g.holder = f.holder,
         g.item = <<>>, g.chan = <<>> \o f.item
  PROVE  FetchWhole(g)
<1>1. f.got \in Chunks /\ f.item \in Chunks /\ f.source \in Chunks
  BY DEF FetchRec
<1>2. f.got \o (<<>> \o f.item) \o <<>> \o f.source = f.got \o <<>> \o f.item \o f.source
  BY <1>1, PiecesSend DEF Chunks
<1>3. Pieces(g) = Pieces(f)
  BY <1>2 DEF Pieces
<1> QED
  BY <1>3 DEF FetchWhole

\* What the stream adds comes after the chunks on their way.
LEMMA PiecesAdd ==
  ASSUME NEW f \in FetchRec, NEW e \in 0 .. MaxParts, NEW g,
         g.got = f.got, g.chan = f.chan, g.item = f.item, g.source = Append(f.source, e)
  PROVE  Pieces(g) = Append(Pieces(f), e)
<1>1. /\ f.got \in Seq(0 .. MaxParts) /\ f.chan \in Seq(0 .. MaxParts)
      /\ f.item \in Seq(0 .. MaxParts) /\ f.source \in Seq(0 .. MaxParts)
  BY DEF FetchRec, Chunks
<1>2. PICK x : x = f.got \o f.chan \o f.item
  OBVIOUS
<1>3. x \in Seq(0 .. MaxParts)
  BY <1>1, <1>2, ConcatProperties
<1>4. x \o Append(f.source, e) = Append(x \o f.source, e)
  BY SMTT(30), <1>1, <1>3, PiecesGrow
<1> QED
  BY <1>2, <1>4 DEF Pieces

LEMMA WholeGrows ==
  ASSUME NEW f \in FetchRec, FetchWhole(f), f.stream = "open", f.told # "end", f.made < MaxParts,
         NEW g, g.got = f.got, g.chan = f.chan, g.item = f.item, g.told = f.told,
         g.stream = f.stream, g.holder = f.holder,
         g.source = Append(f.source, f.made + 1), g.made = f.made + 1
  PROVE  FetchWhole(g)
<1>1. f.made \in Nat /\ f.made + 1 \in 0 .. MaxParts
  BY FetchAssumption DEF FetchRec, ChunkCounts
<1>2. Pieces(g) = Append(Pieces(f), f.made + 1)
  BY <1>1, PiecesAdd
<1>3. Append(Count(f.made), f.made + 1) = Count(f.made + 1)
  BY <1>1, CountGrows
<1> QED
  BY <1>2, <1>3 DEF FetchWhole

LEMMA WholeFails ==
  ASSUME NEW f \in FetchRec, FetchWhole(f), f.stream = "open", f.told # "end",
         NEW g, g.got = f.got, g.chan = f.chan, g.item = f.item, g.told = f.told,
         g.stream = "ended", g.holder = f.holder,
         g.source = Append(f.source, 0), g.made = f.made
  PROVE  FetchWhole(g)
<1>1. 0 \in 0 .. MaxParts
  BY FetchAssumption
<1>2. Pieces(g) = Append(Pieces(f), 0)
  BY <1>1, PiecesAdd
<1> QED
  BY <1>2 DEF FetchWhole

\* A piece of the body is the count of its place, or the error that ends it.
LEMMA PieceIs ==
  ASSUME NEW n \in Nat, NEW s, s = Count(n) \/ s = Append(Count(n), 0), NEW i \in 1 .. Len(s)
  PROVE  /\ s[i] = i \/ (i = Len(s) /\ s[i] = 0)
         /\ s[i] = 0 => i = Len(s) /\ s = Append(Count(n), 0)
<1>1. Count(n) \in Seq(Nat) /\ Len(Count(n)) = n /\ \A k \in 1 .. n : Count(n)[k] = k
  BY IsASeq DEF Count
<1>2. CASE s = Count(n)
  BY <1>1, <1>2
<1>3. CASE s = Append(Count(n), 0)
  <2>1. PICK c : c = Count(n)
    OBVIOUS
  <2>2. Len(s) = n + 1 /\ s[n + 1] = 0 /\ \A k \in 1 .. n : s[k] = k
    BY <1>1, <1>3, <2>1, AppendProperties
  <2> QED
    BY <1>3, <2>2
<1> QED
  BY <1>2, <1>3

LEMMA StartFetchKeeps == FetchInv /\ StartFetch => FetchInv'
<1> SUFFICES ASSUME FetchInv, StartFetch PROVE FetchInv'
  OBVIOUS
<1>0. fetch \in FetchRec /\ FetchWhole(fetch) /\ FetchStands(fetch) /\ FetchRunsFor(fetch)
  BY DEF FetchInv
<1>1. PICK t, d : t = (IF fetch.send THEN "works" ELSE "none") /\ d = fetch.send
  OBVIOUS
<1>2. /\ t \in TaskStates /\ d \in BOOLEAN /\ "waits" \in CallerStates /\ "runs" \in BrowserStates
      /\ fetch.caller = "new"
  BY <1>0, <1>1 DEF FetchRec, TaskStates, CallerStates, BrowserStates, StartFetch
<1>3. PICK g : g = [fetch EXCEPT !.caller = "waits", !.browser = "runs", !.guard = TRUE,
                                 !.task = t, !.taskDue = d]
  OBVIOUS
<1>4. fetch' = g
  BY <1>1, <1>3 DEF StartFetch
<1>5. g \in FetchRec
  BY <1>0, <1>2, <1>3, Zenon DEF FetchRec
<1>6. /\ g.caller = "waits" /\ g.browser = "runs" /\ g.guard = TRUE /\ g.task = t /\ g.taskDue = d
      /\ g.send = fetch.send /\ g.promise = fetch.promise /\ g.holder = fetch.holder
      /\ g.stream = fetch.stream /\ g.source = fetch.source /\ g.made = fetch.made
      /\ g.pump = fetch.pump /\ g.pumpDue = fetch.pumpDue /\ g.item = fetch.item
      /\ g.chan = fetch.chan /\ g.senderParked = fetch.senderParked /\ g.got = fetch.got
      /\ g.told = fetch.told /\ g.parked = fetch.parked /\ g.woken = fetch.woken
  BY <1>0, <1>3 DEF FetchRec
<1>7. FetchStands(g)
  BY <1>0, <1>2, <1>6 DEF FetchStands, FetchRunsFor
<1>8. FetchRunsFor(g)
  BY <1>0, <1>1, <1>2, <1>6 DEF FetchRunsFor, FetchStands
<1>9. FetchWhole(g)
  BY <1>0, <1>6, WholeStill
<1> QED
  BY <1>4, <1>5, <1>7, <1>8, <1>9 DEF FetchInv

LEMMA SettlesKeeps == FetchInv /\ Settles => FetchInv'
<1> SUFFICES ASSUME FetchInv, Settles PROVE FetchInv'
  OBVIOUS
<1>0. fetch \in FetchRec /\ FetchWhole(fetch) /\ FetchStands(fetch) /\ FetchRunsFor(fetch)
  BY DEF FetchInv
<1>1. PICK r \in {"ok", "failed"}, b \in {"open", "none"} :
        fetch' = [fetch EXCEPT !.promise = r, !.browser = "settled",
                               !.taskDue = @ \/ fetch.task = "works",
                               !.stream = IF r = "ok" THEN b ELSE "none"]
  BY DEF Settles
<1>2. PICK s, d : s = (IF r = "ok" THEN b ELSE "none") /\ d = (fetch.taskDue \/ fetch.task = "works")
  OBVIOUS
<1>3. /\ s \in StreamStates /\ d \in BOOLEAN /\ r \in PromiseStates /\ "settled" \in BrowserStates
      /\ fetch.browser = "runs" /\ fetch.promise = "pending"
  BY <1>0, <1>2 DEF FetchRec, StreamStates, PromiseStates, BrowserStates, Settles
<1>4. PICK g : g = [fetch EXCEPT !.promise = r, !.browser = "settled", !.taskDue = d, !.stream = s]
  OBVIOUS
<1>5. fetch' = g
  BY <1>0, <1>1, <1>2, <1>4 DEF FetchRec
<1>6. g \in FetchRec
  BY <1>0, <1>3, <1>4, Zenon DEF FetchRec
<1>7. /\ g.promise = r /\ g.browser = "settled" /\ g.taskDue = d /\ g.stream = s
      /\ g.send = fetch.send /\ g.caller = fetch.caller /\ g.task = fetch.task
      /\ g.guard = fetch.guard /\ g.holder = fetch.holder /\ g.source = fetch.source
      /\ g.made = fetch.made /\ g.pump = fetch.pump /\ g.pumpDue = fetch.pumpDue
      /\ g.item = fetch.item /\ g.chan = fetch.chan /\ g.senderParked = fetch.senderParked
      /\ g.got = fetch.got /\ g.told = fetch.told /\ g.parked = fetch.parked
      /\ g.woken = fetch.woken
  BY <1>0, <1>4 DEF FetchRec
<1>8. FetchStands(g)
  BY <1>0, <1>2, <1>3, <1>7 DEF FetchStands, FetchRunsFor
<1>9. FetchRunsFor(g)
  BY ZenonT(60), <1>0, <1>2, <1>3, <1>7 DEF FetchRunsFor, FetchStands
<1>10. FetchWhole(g)
  BY <1>0, <1>3, <1>7, WholeStill DEF FetchRunsFor
<1> QED
  BY <1>5, <1>6, <1>8, <1>9, <1>10 DEF FetchInv

LEMMA ExecutePolledKeeps == FetchInv /\ ExecutePolled => FetchInv'
<1> SUFFICES ASSUME FetchInv, ExecutePolled PROVE FetchInv'
  OBVIOUS
<1>0. fetch \in FetchRec /\ FetchWhole(fetch) /\ FetchStands(fetch) /\ FetchRunsFor(fetch)
  BY DEF FetchInv
<1>1. ~fetch.send /\ fetch.caller = "waits" /\ fetch.promise # "pending"
  BY DEF ExecutePolled
<1>2. CASE fetch.promise = "failed"
  <2>1. PICK g : g = [fetch EXCEPT !.guard = FALSE, !.holder = "none", !.caller = "failed"]
    OBVIOUS
  <2>2. fetch' = g
    BY <1>0, <1>2, <2>1 DEF ExecutePolled, Finishes, FetchRec
  <2>3. "failed" \in CallerStates /\ "none" \in HolderStates
    BY DEF CallerStates, HolderStates
  <2>4. g \in FetchRec
    BY <1>0, <2>1, <2>3, Zenon DEF FetchRec
  <2>5. /\ g.guard = FALSE /\ g.holder = "none" /\ g.caller = "failed"
        /\ g.send = fetch.send /\ g.task = fetch.task /\ g.taskDue = fetch.taskDue
        /\ g.browser = fetch.browser /\ g.promise = fetch.promise /\ g.stream = fetch.stream
        /\ g.source = fetch.source /\ g.made = fetch.made /\ g.pump = fetch.pump
        /\ g.pumpDue = fetch.pumpDue /\ g.item = fetch.item /\ g.chan = fetch.chan
        /\ g.senderParked = fetch.senderParked /\ g.got = fetch.got /\ g.told = fetch.told
        /\ g.parked = fetch.parked /\ g.woken = fetch.woken
    BY <1>0, <2>1 DEF FetchRec
  <2>6. FetchStands(g)
    BY <1>0, <1>1, <1>2, <2>5 DEF FetchStands, FetchRunsFor
  <2>7. FetchRunsFor(g)
    BY <1>0, <1>1, <1>2, <2>5 DEF FetchRunsFor, FetchStands
  <2>8. FetchWhole(g)
    BY <1>0, <1>1, <2>5, WholeStill DEF FetchStands, FetchRunsFor
  <2> QED
    BY <2>2, <2>4, <2>6, <2>7, <2>8 DEF FetchInv
<1>3. CASE fetch.promise # "failed"
  <2>1. PICK f : f = Finishes(fetch)
    OBVIOUS
  <2>2. FetchFinished(fetch, f)
    BY <1>0, <1>3, <2>1, FinishesIs
  <2>3. PICK g : g = [f EXCEPT !.caller = "reads", !.holder = "caller"]
    OBVIOUS
  <2>4. fetch.promise = "ok"
    BY <1>0, <1>1, <1>3 DEF FetchRec, PromiseStates
  <2>5. fetch' = g
    BY <2>1, <2>3, <2>4 DEF ExecutePolled
  <2>6. "reads" \in CallerStates /\ "caller" \in HolderStates
    BY DEF CallerStates, HolderStates
  <2>7. g \in FetchRec
    BY <2>2, <2>3, <2>6, Zenon DEF FetchRec, FetchFinished
  <2>8. /\ g.caller = "reads" /\ g.holder = "caller"
        /\ g.send = f.send /\ g.task = f.task /\ g.taskDue = f.taskDue /\ g.guard = f.guard
        /\ g.browser = f.browser /\ g.promise = f.promise /\ g.stream = f.stream
        /\ g.source = f.source /\ g.made = f.made /\ g.pump = f.pump
        /\ g.pumpDue = f.pumpDue /\ g.item = f.item /\ g.chan = f.chan
        /\ g.senderParked = f.senderParked /\ g.got = f.got /\ g.told = f.told
        /\ g.parked = f.parked /\ g.woken = f.woken
    BY <2>2, <2>3 DEF FetchRec, FetchFinished
  <2>9. FetchStands(g)
    BY <1>0, <1>1, <2>2, <2>8 DEF FetchStands, FetchRunsFor, FetchFinished
  <2>10. FetchRunsFor(g)
    BY <1>0, <1>1, <2>2, <2>4, <2>8 DEF FetchRunsFor, FetchStands, FetchFinished
  <2>11. FetchWhole(g)
    BY <1>0, <1>1, <2>2, <2>8, WholeStill DEF FetchStands, FetchRunsFor, FetchFinished
  <2> QED
    BY <2>5, <2>7, <2>9, <2>10, <2>11 DEF FetchInv
<1> QED
  BY <1>2, <1>3

\* The task is done: what it answers with.
LEMMA AnswersKeeps ==
  ASSUME FetchInv, fetch.task = "works", fetch.promise # "pending", Answers
  PROVE  FetchInv'
<1>0. fetch \in FetchRec /\ FetchWhole(fetch) /\ FetchStands(fetch) /\ FetchRunsFor(fetch)
  BY DEF FetchInv
<1>1. /\ fetch.send /\ fetch.guard /\ fetch.pump = "none" /\ fetch.holder = "none"
      /\ fetch.caller \in {"waits", "gone"}
  BY <1>0 DEF FetchRunsFor, FetchStands
<1>2. "done" \in TaskStates /\ "none" \in HolderStates /\ "oneshot" \in HolderStates
  BY DEF TaskStates, HolderStates
<1>3. CASE fetch.promise = "failed"
  <2>1. PICK g : g = [fetch EXCEPT !.guard = FALSE, !.holder = "none", !.task = "done", !.taskDue = FALSE]
    OBVIOUS
  <2>2. fetch' = g
    BY <1>0, <1>3, <2>1 DEF Answers, Finishes, FetchRec
  <2>3. g \in FetchRec
    BY <1>0, <1>2, <2>1, Zenon DEF FetchRec
  <2>4. /\ g.guard = FALSE /\ g.holder = "none" /\ g.task = "done" /\ g.taskDue = FALSE
        /\ g.send = fetch.send /\ g.caller = fetch.caller /\ g.browser = fetch.browser
        /\ g.promise = fetch.promise /\ g.stream = fetch.stream /\ g.source = fetch.source
        /\ g.made = fetch.made /\ g.pump = fetch.pump /\ g.pumpDue = fetch.pumpDue
        /\ g.item = fetch.item /\ g.chan = fetch.chan /\ g.senderParked = fetch.senderParked
        /\ g.got = fetch.got /\ g.told = fetch.told /\ g.parked = fetch.parked
        /\ g.woken = fetch.woken
    BY <1>0, <2>1 DEF FetchRec
  <2>5. FetchStands(g)
    BY <1>0, <1>1, <2>4 DEF FetchStands, FetchRunsFor
  <2>6. FetchRunsFor(g)
    BY <1>0, <1>1, <1>3, <2>4 DEF FetchRunsFor, FetchStands
  <2>7. FetchWhole(g)
    BY <1>0, <1>1, <2>4, WholeStill
  <2> QED
    BY <2>2, <2>3, <2>5, <2>6, <2>7 DEF FetchInv
<1>4. CASE fetch.promise # "failed"
  <2>1. PICK e, f : e = Finishes(fetch) /\ f = [e EXCEPT !.task = "done", !.taskDue = FALSE]
    OBVIOUS
  <2>2. FetchFinished(fetch, e)
    BY <1>0, <1>4, <2>1, FinishesIs
  <2>3. f \in FetchRec
    BY <1>2, <2>1, <2>2, ZenonT(60) DEF FetchRec, FetchFinished
  <2>4. /\ f.task = "done" /\ f.taskDue = FALSE
        /\ f.send = e.send /\ f.caller = e.caller /\ f.guard = e.guard
        /\ f.browser = e.browser /\ f.promise = e.promise /\ f.holder = e.holder
        /\ f.stream = e.stream /\ f.source = e.source /\ f.made = e.made /\ f.pump = e.pump
        /\ f.pumpDue = e.pumpDue /\ f.item = e.item /\ f.chan = e.chan
        /\ f.senderParked = e.senderParked /\ f.got = e.got /\ f.told = e.told
        /\ f.parked = e.parked /\ f.woken = e.woken
    BY <2>1, <2>2 DEF FetchRec, FetchFinished
  <2>5. fetch.promise = "ok"
    BY <1>0, <1>4 DEF FetchRec, PromiseStates
  <2>6. CASE fetch.caller = "gone"
    <3>1. PICK g : g = DropBody(f)
      OBVIOUS
    <3>2. fetch' = g
      BY <1>4, <2>1, <2>6, <3>1 DEF Answers
    <3>3. BodyDropped(f, g)
      BY <2>3, <3>1, DropBodyIs
    <3>4. FetchStands(g)
      BY <1>0, <1>1, <2>2, <2>4, <3>3 DEF FetchStands, FetchRunsFor, FetchFinished, BodyDropped
    <3>5. FetchRunsFor(g)
      BY <1>0, <1>1, <2>2, <2>4, <2>5, <2>6, <3>3 DEF FetchRunsFor, FetchStands, FetchFinished, BodyDropped
    <3>6. FetchWhole(g)
      BY <1>0, <1>1, <2>2, <2>4, <3>3, WholeStill DEF FetchFinished, BodyDropped
    <3> QED
      BY <3>2, <3>3, <3>4, <3>5, <3>6 DEF FetchInv, BodyDropped
  <2>7. CASE fetch.caller # "gone"
    <3>1. PICK g : g = [f EXCEPT !.holder = "oneshot"]
      OBVIOUS
    <3>2. fetch' = g
      BY <1>4, <2>1, <2>7, <3>1 DEF Answers
    <3>3. g \in FetchRec
      BY <1>2, <2>3, <3>1, Zenon DEF FetchRec
    <3>4. /\ g.holder = "oneshot"
          /\ g.send = f.send /\ g.caller = f.caller /\ g.task = f.task
          /\ g.taskDue = f.taskDue /\ g.guard = f.guard /\ g.browser = f.browser
          /\ g.promise = f.promise /\ g.stream = f.stream /\ g.source = f.source
          /\ g.made = f.made /\ g.pump = f.pump /\ g.pumpDue = f.pumpDue /\ g.item = f.item
          /\ g.chan = f.chan /\ g.senderParked = f.senderParked /\ g.got = f.got
          /\ g.told = f.told /\ g.parked = f.parked /\ g.woken = f.woken
      BY <2>3, <3>1 DEF FetchRec
    <3>5. FetchStands(g)
      BY <1>0, <1>1, <2>2, <2>4, <2>7, <3>4 DEF FetchStands, FetchRunsFor, FetchFinished
    <3>6. FetchRunsFor(g)
      BY <1>0, <1>1, <2>2, <2>4, <2>5, <2>7, <3>4 DEF FetchRunsFor, FetchStands, FetchFinished
    <3>7. FetchWhole(g)
      BY <1>0, <1>1, <2>2, <2>4, <3>4, WholeStill DEF FetchFinished
    <3> QED
      BY <3>2, <3>3, <3>5, <3>6, <3>7 DEF FetchInv
  <2> QED
    BY <2>6, <2>7
<1> QED
  BY <1>3, <1>4

LEMMA TaskPolledKeeps == FetchInv /\ TaskPolled => FetchInv'
<1> SUFFICES ASSUME FetchInv, TaskPolled PROVE FetchInv'
  OBVIOUS
<1>0. fetch \in FetchRec /\ FetchWhole(fetch) /\ FetchStands(fetch) /\ FetchRunsFor(fetch)
  BY DEF FetchInv
<1>1. /\ fetch.task = "works" /\ fetch.taskDue
      /\ fetch.send /\ fetch.guard /\ fetch.pump = "none" /\ fetch.holder = "none"
      /\ fetch.caller \in {"waits", "gone"}
  BY <1>0 DEF FetchRunsFor, FetchStands, TaskPolled
<1>2. CASE fetch.promise # "pending" /\ Answers
  BY <1>1, <1>2, AnswersKeeps
<1>3. CASE /\ fetch.promise = "pending" /\ fetch.caller = "gone"
           /\ fetch' = [AbortsOnDrop(fetch) EXCEPT !.task = "done", !.taskDue = FALSE]
  <2>1. PICK f, g : f = AbortsOnDrop(fetch) /\ g = [f EXCEPT !.task = "done", !.taskDue = FALSE]
    OBVIOUS
  <2>2. Aborted(fetch, f)
    BY <1>0, <2>1, AbortsOnDropIs
  <2>3. "done" \in TaskStates
    BY DEF TaskStates
  <2>4. g \in FetchRec
    BY <2>1, <2>2, <2>3, ZenonT(60) DEF FetchRec, Aborted
  <2>5. /\ g.task = "done" /\ g.taskDue = FALSE
        /\ g.send = f.send /\ g.caller = f.caller /\ g.guard = f.guard
        /\ g.browser = f.browser /\ g.promise = f.promise /\ g.holder = f.holder
        /\ g.stream = f.stream /\ g.source = f.source /\ g.made = f.made /\ g.pump = f.pump
        /\ g.pumpDue = f.pumpDue /\ g.item = f.item /\ g.chan = f.chan
        /\ g.senderParked = f.senderParked /\ g.got = f.got /\ g.told = f.told
        /\ g.parked = f.parked /\ g.woken = f.woken
    BY <2>1, <2>2 DEF FetchRec, Aborted
  <2>6. FetchStands(g)
    BY <1>0, <1>1, <1>3, <2>2, <2>5 DEF FetchStands, FetchRunsFor, Aborted
  <2>7. FetchRunsFor(g)
    BY <1>0, <1>1, <1>3, <2>2, <2>5 DEF FetchRunsFor, FetchStands, Aborted
  <2>8. FetchWhole(g)
    <3>1. fetch.stream # "ended"
      BY <1>0, <1>3 DEF FetchRunsFor
    <3> QED
      BY <1>0, <1>1, <2>2, <2>5, <3>1, WholeStill DEF Aborted
  <2> QED
    BY <1>3, <2>1, <2>4, <2>6, <2>7, <2>8 DEF FetchInv
<1>4. CASE fetch.promise = "pending" /\ fetch.caller # "gone" /\ fetch' = [fetch EXCEPT !.taskDue = FALSE]
  <2>1. PICK g : g = [fetch EXCEPT !.taskDue = FALSE]
    OBVIOUS
  <2>2. g \in FetchRec
    BY <1>0, <2>1, Zenon DEF FetchRec
  <2>3. /\ g.taskDue = FALSE
        /\ g.send = fetch.send /\ g.caller = fetch.caller /\ g.task = fetch.task
        /\ g.guard = fetch.guard /\ g.browser = fetch.browser /\ g.promise = fetch.promise
        /\ g.holder = fetch.holder /\ g.stream = fetch.stream /\ g.source = fetch.source
        /\ g.made = fetch.made /\ g.pump = fetch.pump /\ g.pumpDue = fetch.pumpDue
        /\ g.item = fetch.item /\ g.chan = fetch.chan /\ g.senderParked = fetch.senderParked
        /\ g.got = fetch.got /\ g.told = fetch.told /\ g.parked = fetch.parked
        /\ g.woken = fetch.woken
    BY <1>0, <2>1 DEF FetchRec
  <2>4. FetchStands(g)
    BY <1>0, <2>3 DEF FetchStands
  <2>5. FetchRunsFor(g)
    BY <1>0, <1>1, <1>4, <2>3 DEF FetchRunsFor
  <2>6. FetchWhole(g)
    BY <1>0, <2>3, WholeStill
  <2> QED
    BY <1>4, <2>1, <2>2, <2>4, <2>5, <2>6 DEF FetchInv
<1> QED
  BY <1>2, <1>3, <1>4 DEF TaskPolled

LEMMA SendPolledKeeps == FetchInv /\ SendPolled => FetchInv'
<1> SUFFICES ASSUME FetchInv, SendPolled PROVE FetchInv'
  OBVIOUS
<1>0. fetch \in FetchRec /\ FetchWhole(fetch) /\ FetchStands(fetch) /\ FetchRunsFor(fetch)
  BY DEF FetchInv
<1>1. fetch.send /\ fetch.caller = "waits" /\ fetch.task = "done"
  BY DEF SendPolled
<1>2. PICK c, h : /\ c = (IF fetch.holder = "oneshot" THEN "reads" ELSE "failed")
                  /\ h = (IF fetch.holder = "oneshot" THEN "caller" ELSE fetch.holder)
  OBVIOUS
<1>3. c \in CallerStates /\ h \in HolderStates
  BY <1>0, <1>2 DEF FetchRec, CallerStates, HolderStates
<1>4. PICK g : g = [fetch EXCEPT !.caller = c, !.holder = h]
  OBVIOUS
<1>5. fetch' = g
  BY <1>0, <1>2, <1>4 DEF SendPolled, FetchRec
<1>6. g \in FetchRec
  BY <1>0, <1>3, <1>4, Zenon DEF FetchRec
<1>7. /\ g.caller = c /\ g.holder = h
      /\ g.send = fetch.send /\ g.task = fetch.task /\ g.taskDue = fetch.taskDue
      /\ g.guard = fetch.guard /\ g.browser = fetch.browser /\ g.promise = fetch.promise
      /\ g.stream = fetch.stream /\ g.source = fetch.source /\ g.made = fetch.made
      /\ g.pump = fetch.pump /\ g.pumpDue = fetch.pumpDue /\ g.item = fetch.item
      /\ g.chan = fetch.chan /\ g.senderParked = fetch.senderParked /\ g.got = fetch.got
      /\ g.told = fetch.told /\ g.parked = fetch.parked /\ g.woken = fetch.woken
  BY <1>0, <1>4 DEF FetchRec
<1>8. fetch.holder # "gone" /\ ~fetch.parked
  BY <1>0, <1>1 DEF FetchStands, FetchRunsFor
<1>9. FetchStands(g)
  BY <1>0, <1>1, <1>2, <1>7, <1>8 DEF FetchStands, FetchRunsFor
<1>10. FetchRunsFor(g)
  BY <1>0, <1>1, <1>2, <1>7, <1>8 DEF FetchRunsFor, FetchStands
<1>11. FetchWhole(g)
  BY <1>0, <1>7, <1>8, WholeStill
<1> QED
  BY <1>5, <1>6, <1>9, <1>10, <1>11 DEF FetchInv

LEMMA CallerDropsKeeps == FetchInv /\ CallerDrops => FetchInv'
<1> SUFFICES ASSUME FetchInv, CallerDrops PROVE FetchInv'
  OBVIOUS
<1>0. fetch \in FetchRec /\ FetchWhole(fetch) /\ FetchStands(fetch) /\ FetchRunsFor(fetch)
  BY DEF FetchInv
<1>1. fetch.caller \in {"waits", "reads"}
  BY DEF CallerDrops
<1>2. PICK f : f = [fetch EXCEPT !.caller = "gone", !.parked = FALSE]
  OBVIOUS
<1>3. "gone" \in CallerStates
  BY DEF CallerStates
<1>4. f \in FetchRec
  BY <1>0, <1>2, <1>3, Zenon DEF FetchRec
<1>5. /\ f.caller = "gone" /\ f.parked = FALSE
      /\ f.send = fetch.send /\ f.task = fetch.task /\ f.taskDue = fetch.taskDue
      /\ f.guard = fetch.guard /\ f.browser = fetch.browser /\ f.promise = fetch.promise
      /\ f.holder = fetch.holder /\ f.stream = fetch.stream /\ f.source = fetch.source
      /\ f.made = fetch.made /\ f.pump = fetch.pump /\ f.pumpDue = fetch.pumpDue
      /\ f.item = fetch.item /\ f.chan = fetch.chan /\ f.senderParked = fetch.senderParked
      /\ f.got = fetch.got /\ f.told = fetch.told /\ f.woken = fetch.woken
  BY <1>0, <1>2 DEF FetchRec
<1>6. CASE fetch.holder \in {"oneshot", "caller"}
  <2>1. PICK g : g = DropBody(f)
    OBVIOUS
  <2>2. fetch' = g
    BY <1>2, <1>6, <2>1 DEF CallerDrops
  <2>3. BodyDropped(f, g)
    BY <1>4, <2>1, DropBodyIs
  <2>4. FetchStands(g)
    BY <1>0, <1>1, <1>5, <1>6, <2>3, ShortEmpty DEF FetchStands, FetchRunsFor, BodyDropped
  <2>5. FetchRunsFor(g)
    BY <1>0, <1>1, <1>5, <1>6, <2>3 DEF FetchRunsFor, FetchStands, BodyDropped
  <2>6. FetchWhole(g)
    BY <1>0, <1>5, <2>3, WholeStill DEF BodyDropped
  <2> QED
    BY <2>2, <2>3, <2>4, <2>5, <2>6 DEF FetchInv, BodyDropped
<1>7. CASE fetch.holder \notin {"oneshot", "caller"}
  <2>0. fetch.holder \in {"none", "gone"} /\ (fetch.pump = "none" <=> fetch.holder = "none")
    BY <1>0, <1>1, <1>7 DEF FetchStands, FetchRunsFor, FetchRec, HolderStates
  <2>1. CASE fetch.send
    <3>1. PICK d : d = (fetch.task = "works")
      OBVIOUS
    <3>2. PICK g : g = [f EXCEPT !.taskDue = d]
      OBVIOUS
    <3>3. fetch' = g
      BY <1>2, <1>7, <2>1, <3>1, <3>2 DEF CallerDrops
    <3>4. g \in FetchRec
      BY <1>4, <3>1, <3>2, Zenon DEF FetchRec
    <3>5. /\ g.taskDue = d
          /\ g.send = f.send /\ g.caller = f.caller /\ g.task = f.task /\ g.guard = f.guard
          /\ g.browser = f.browser /\ g.promise = f.promise /\ g.holder = f.holder
          /\ g.stream = f.stream /\ g.source = f.source /\ g.made = f.made
          /\ g.pump = f.pump /\ g.pumpDue = f.pumpDue /\ g.item = f.item /\ g.chan = f.chan
          /\ g.senderParked = f.senderParked /\ g.got = f.got /\ g.told = f.told
          /\ g.parked = f.parked /\ g.woken = f.woken
      BY <1>4, <3>2 DEF FetchRec
    <3>6. FetchStands(g)
      BY <1>0, <1>1, <1>5, <2>0, <3>5 DEF FetchStands, FetchRunsFor
    <3>7. FetchRunsFor(g)
      BY <1>0, <1>1, <1>5, <2>0, <2>1, <3>1, <3>5 DEF FetchRunsFor, FetchStands, FetchRec, TaskStates
    <3>8. FetchWhole(g)
      BY <1>0, <1>1, <1>5, <2>0, <3>5, WholeStill
    <3> QED
      BY <3>3, <3>4, <3>6, <3>7, <3>8 DEF FetchInv
  <2>2. CASE ~fetch.send
    <3>1. PICK g : g = AbortsOnDrop(f)
      OBVIOUS
    <3>2. fetch' = g
      BY <1>2, <1>7, <2>2, <3>1 DEF CallerDrops
    <3>3. Aborted(f, g)
      BY <1>4, <3>1, AbortsOnDropIs
    <3>4. FetchStands(g)
      BY <1>0, <1>1, <1>5, <2>0, <3>3 DEF FetchStands, FetchRunsFor, Aborted
    <3>5. FetchRunsFor(g)
      BY <1>0, <1>1, <1>5, <2>0, <2>2, <3>3 DEF FetchRunsFor, FetchStands, Aborted
    <3>6. FetchWhole(g)
      <4>1. fetch.stream = "ended" => g.stream = "ended"
        BY <1>5, <3>3 DEF Aborted
      <4> QED
        BY <1>0, <1>1, <1>5, <2>0, <3>3, <4>1, WholeStill DEF Aborted
    <3> QED
      BY <3>2, <3>3, <3>4, <3>5, <3>6 DEF FetchInv, Aborted
  <2> QED
    BY <2>1, <2>2
<1> QED
  BY <1>6, <1>7

\* The chunk the pump holds: an error is the last of the body.
LEMMA ErrorIsLast ==
  ASSUME fetch \in FetchRec, FetchWhole(fetch), fetch.holder # "gone",
         fetch.chan = <<>>, Len(fetch.item) = 1, Head(fetch.item) = 0
  PROVE  fetch.source = <<>> /\ fetch.stream = "ended"
<1>1. PICK a, c, d : a = fetch.got /\ c = fetch.item /\ d = fetch.source
  OBVIOUS
<1>2. /\ a \in Seq(0 .. MaxParts) /\ c \in Seq(0 .. MaxParts) /\ d \in Seq(0 .. MaxParts)
      /\ Len(c) = 1 /\ Head(c) = 0 /\ fetch.made \in Nat
  BY <1>1, FetchAssumption DEF FetchRec, Chunks, ChunkCounts
<1>3. c[1] = 0
  BY <1>2, PiecesTake
<1>4. PICK x : x = a \o c
  OBVIOUS
<1>5. x \in Seq(0 .. MaxParts) /\ Len(x) = Len(a) + 1 /\ x[Len(a) + 1] = 0 /\ Len(a) \in Nat
  BY <1>2, <1>3, <1>4, NextOf, LenProperties
<1>6. PICK y : y = x \o d
  OBVIOUS
<1>7. /\ y \in Seq(0 .. MaxParts) /\ Len(y) = Len(a) + 1 + Len(d) /\ y[Len(a) + 1] = 0
      /\ Len(d) \in Nat
  BY <1>2, <1>5, <1>6, ConcatProperties, LenProperties
<1>8. a \o <<>> = a
  BY <1>2, ConcatEmptySeq
<1>9. Pieces(fetch) = y
  BY <1>1, <1>4, <1>6, <1>8 DEF Pieces
<1>10. \/ y = Count(fetch.made)
       \/ (fetch.stream = "ended" /\ y = Append(Count(fetch.made), 0))
  BY <1>9 DEF FetchWhole
<1>11. Len(a) + 1 \in 1 .. Len(y) /\ y[Len(a) + 1] # Len(a) + 1
  BY <1>5, <1>7
<1>12. Len(a) + 1 = Len(y) /\ y = Append(Count(fetch.made), 0)
  BY ZenonT(60), <1>2, <1>7, <1>10, <1>11, PieceIs
<1>13. Len(d) = 0
  BY <1>5, <1>7, <1>12
<1>14. d = <<>>
  BY <1>2, <1>13, EmptySeq
<1>15. y # Count(fetch.made)
  BY <1>7, <1>11, <1>2 DEF Count
<1> QED
  BY <1>1, <1>10, <1>14, <1>15

\* A pump that ends takes nothing but a chunk nobody will read.
LEMMA PumpEndsKeeps ==
  ASSUME FetchInv, fetch.pump \in {"pulls", "sends"}, NEW g, g = PumpEnds(fetch),
         fetch.holder = "gone" \/ (fetch.pump = "pulls" /\ fetch.source = <<>> /\ fetch.stream = "ended")
  PROVE  /\ g \in FetchRec
         /\ FetchWhole(g)
         /\ FetchStands(g)
         /\ FetchRunsFor(g)
<1>0. fetch \in FetchRec /\ FetchWhole(fetch) /\ FetchStands(fetch) /\ FetchRunsFor(fetch)
  BY DEF FetchInv
<1>1. PumpEnded(fetch, g)
  BY <1>0, PumpEndsIs
<1>2. FetchStands(g)
  BY <1>0, <1>1, ShortEmpty DEF FetchStands, FetchRunsFor, PumpEnded
<1>3. FetchRunsFor(g)
  BY <1>0, <1>1 DEF FetchRunsFor, FetchStands, PumpEnded
<1>4. g.holder # "gone" => fetch.holder # "gone" /\ fetch.item = <<>> /\ fetch.stream = "ended"
  BY <1>0, <1>1 DEF FetchStands, PumpEnded
<1>5. FetchWhole(g)
  BY <1>0, <1>1, <1>4, WholeStill DEF PumpEnded
<1> QED
  BY <1>1, <1>2, <1>3, <1>5 DEF PumpEnded

LEMMA PumpWaitsKeeps ==
  ASSUME FetchInv, fetch.holder # "gone", NEW g, g = [fetch EXCEPT !.pumpDue = FALSE]
  PROVE  /\ g \in FetchRec
         /\ FetchWhole(g)
         /\ FetchStands(g)
         /\ FetchRunsFor(g)
<1>0. fetch \in FetchRec /\ FetchWhole(fetch) /\ FetchStands(fetch) /\ FetchRunsFor(fetch)
  BY DEF FetchInv
<1>1. g \in FetchRec
  BY <1>0, Zenon DEF FetchRec
<1>2. /\ g.pumpDue = FALSE
      /\ g.send = fetch.send /\ g.caller = fetch.caller /\ g.task = fetch.task
      /\ g.taskDue = fetch.taskDue /\ g.guard = fetch.guard /\ g.browser = fetch.browser
      /\ g.promise = fetch.promise /\ g.holder = fetch.holder /\ g.stream = fetch.stream
      /\ g.source = fetch.source /\ g.made = fetch.made /\ g.pump = fetch.pump
      /\ g.item = fetch.item /\ g.chan = fetch.chan /\ g.senderParked = fetch.senderParked
      /\ g.got = fetch.got /\ g.told = fetch.told /\ g.parked = fetch.parked
      /\ g.woken = fetch.woken
  BY <1>0 DEF FetchRec
<1>3. FetchStands(g)
  BY <1>0, <1>2 DEF FetchStands
<1>4. FetchRunsFor(g)
  BY <1>0, <1>2 DEF FetchRunsFor
<1>5. FetchWhole(g)
  BY <1>0, <1>2, WholeStill
<1> QED
  BY <1>1, <1>3, <1>4, <1>5

LEMMA FetchPumpPullsKeeps == FetchInv /\ FetchPumpPulls => FetchInv'
<1> SUFFICES ASSUME FetchInv, FetchPumpPulls PROVE FetchInv'
  OBVIOUS
<1>0. fetch \in FetchRec /\ FetchWhole(fetch) /\ FetchStands(fetch) /\ FetchRunsFor(fetch)
  BY DEF FetchInv
<1>1. fetch.pump = "pulls" /\ fetch.pumpDue
  BY DEF FetchPumpPulls
<1>2. CASE /\ fetch.source # <<>>
           /\ fetch' = [fetch EXCEPT !.item = <<Head(fetch.source)>>, !.source = Tail(@),
                                     !.pump = "sends"]
  <2>1. PICK i, s : i = <<Head(fetch.source)>> /\ s = Tail(fetch.source)
    OBVIOUS
  <2>2. fetch.source \in Seq(0 .. MaxParts)
    BY <1>0 DEF FetchRec, Chunks
  <2>3. i \in Seq(0 .. MaxParts) /\ s \in Seq(0 .. MaxParts)
    BY <1>2, <2>1, <2>2, HeadLeaves
  <2>4. i \in Chunks /\ s \in Chunks /\ "sends" \in PumpStates /\ i # <<>> /\ Len(i) = 1
    BY <2>1, <2>3 DEF Chunks, PumpStates
  <2>5. PICK g : g = [fetch EXCEPT !.item = i, !.source = s, !.pump = "sends"]
    OBVIOUS
  <2>6. fetch' = g
    BY <1>0, <1>2, <2>1, <2>5 DEF FetchRec
  <2>7. g \in FetchRec
    BY <1>0, <2>4, <2>5, Zenon DEF FetchRec
  <2>8. /\ g.item = i /\ g.source = s /\ g.pump = "sends"
        /\ g.send = fetch.send /\ g.caller = fetch.caller /\ g.task = fetch.task
        /\ g.taskDue = fetch.taskDue /\ g.guard = fetch.guard /\ g.browser = fetch.browser
        /\ g.promise = fetch.promise /\ g.holder = fetch.holder /\ g.stream = fetch.stream
        /\ g.made = fetch.made /\ g.pumpDue = fetch.pumpDue /\ g.chan = fetch.chan
        /\ g.senderParked = fetch.senderParked /\ g.got = fetch.got /\ g.told = fetch.told
        /\ g.parked = fetch.parked /\ g.woken = fetch.woken
    BY <1>0, <2>5 DEF FetchRec
  <2>9. fetch.item = <<>>
    BY <1>0, <1>1 DEF FetchStands
  <2>10. FetchStands(g)
    <3>1. Short(g.item) /\ g.item # <<>>
      BY <2>4, <2>8, Zenon DEF Short
    <3>2. g.chan = fetch.chan /\ fetch.pump = "pulls" /\ g.pump = "sends"
      BY <1>1, <2>8
    <3> QED
      BY <1>0, <2>8, <3>1, <3>2 DEF FetchStands
  <2>11. FetchRunsFor(g)
    BY <1>0, <1>1, <2>8 DEF FetchRunsFor
  <2>12. FetchWhole(g)
    BY <1>0, <1>2, <2>1, <2>8, <2>9, WholePulls
  <2> QED
    BY <2>6, <2>7, <2>10, <2>11, <2>12 DEF FetchInv
<1>3. CASE fetch.source = <<>> /\ fetch.stream = "ended" /\ fetch' = PumpEnds(fetch)
  BY <1>1, <1>3, PumpEndsKeeps DEF FetchInv
<1>4. CASE /\ fetch.source = <<>> /\ fetch.stream = "open" /\ fetch.holder = "gone"
           /\ fetch' = PumpEnds(fetch)
  BY <1>1, <1>4, PumpEndsKeeps DEF FetchInv
<1>5. CASE /\ fetch.source = <<>> /\ fetch.stream = "open" /\ fetch.holder # "gone"
           /\ fetch' = [fetch EXCEPT !.pumpDue = FALSE]
  BY <1>5, PumpWaitsKeeps DEF FetchInv
<1> QED
  BY <1>2, <1>3, <1>4, <1>5 DEF FetchPumpPulls

LEMMA FetchPumpSendsKeeps == FetchInv /\ FetchPumpSends => FetchInv'
<1> SUFFICES ASSUME FetchInv, FetchPumpSends PROVE FetchInv'
  OBVIOUS
<1>0. fetch \in FetchRec /\ FetchWhole(fetch) /\ FetchStands(fetch) /\ FetchRunsFor(fetch)
  BY DEF FetchInv
<1>1. fetch.pump = "sends" /\ fetch.pumpDue
  BY DEF FetchPumpSends
<1>2. CASE fetch.holder = "gone" /\ fetch' = PumpEnds(fetch)
  BY <1>1, <1>2, PumpEndsKeeps DEF FetchInv
<1>3. CASE fetch.holder # "gone" /\ fetch.senderParked /\ fetch' = [fetch EXCEPT !.pumpDue = FALSE]
  BY <1>3, PumpWaitsKeeps DEF FetchInv
<1>4. CASE /\ fetch.holder # "gone" /\ ~fetch.senderParked
           /\ LET f == [fetch EXCEPT !.chan = @ \o fetch.item, !.item = <<>>,
                                     !.senderParked = TRUE, !.woken = @ \/ fetch.parked]
              IN  fetch' = IF Head(fetch.item) = 0 THEN PumpEnds(f) ELSE [f EXCEPT !.pump = "pulls"]
  <2>0. fetch.chan = <<>> /\ fetch.item # <<>> /\ Len(fetch.item) = 1
        /\ fetch.item \in Seq(0 .. MaxParts)
    <3>1. fetch.item \in Seq(0 .. MaxParts) /\ fetch.item # <<>> /\ Short(fetch.item)
      BY <1>0, <1>1 DEF FetchStands, FetchRec, Chunks
    <3>2. fetch.chan = <<>>
      BY <1>0, <1>4 DEF FetchStands
    <3>3. Len(fetch.item) = 1
      BY <3>1 DEF Short
    <3> QED
      BY <3>1, <3>2, <3>3
  <2>1. PICK c, w : c = fetch.chan \o fetch.item /\ w = (fetch.woken \/ fetch.parked)
    OBVIOUS
  <2>2. c = fetch.item /\ c \in Chunks /\ w \in BOOLEAN /\ <<>> \in Chunks /\ Short(<<>>)
    BY <2>0, <2>1, ConcatEmptySeq, EmptySeq DEF Chunks, Short
  <2>3. PICK f : f = [fetch EXCEPT !.chan = c, !.item = <<>>, !.senderParked = TRUE, !.woken = w]
    OBVIOUS
  <2>4. fetch' = IF Head(fetch.item) = 0 THEN PumpEnds(f) ELSE [f EXCEPT !.pump = "pulls"]
    BY <1>0, <1>4, <2>1, <2>3 DEF FetchRec
  <2>5. f \in FetchRec
    BY <1>0, <2>2, <2>3, Zenon DEF FetchRec
  <2>6. /\ f.chan = c /\ f.item = <<>> /\ f.senderParked = TRUE /\ f.woken = w
        /\ f.send = fetch.send /\ f.caller = fetch.caller /\ f.task = fetch.task
        /\ f.taskDue = fetch.taskDue /\ f.guard = fetch.guard /\ f.browser = fetch.browser
        /\ f.promise = fetch.promise /\ f.holder = fetch.holder /\ f.stream = fetch.stream
        /\ f.source = fetch.source /\ f.made = fetch.made /\ f.pump = fetch.pump
        /\ f.pumpDue = fetch.pumpDue /\ f.got = fetch.got /\ f.told = fetch.told
        /\ f.parked = fetch.parked
    BY <1>0, <2>3 DEF FetchRec
  <2>7. FetchWhole(f)
    BY <1>0, <2>0, <2>1, <2>6, WholeSends
  <2>8. CASE Head(fetch.item) = 0
    <3>1. PICK g : g = PumpEnds(f)
      OBVIOUS
    <3>2. fetch' = g
      BY <2>4, <2>8, <3>1
    <3>3. PumpEnded(f, g)
      BY <2>5, <3>1, PumpEndsIs
    <3>4. fetch.source = <<>> /\ fetch.stream = "ended"
      BY <1>0, <1>4, <2>0, <2>8, ErrorIsLast
    <3>5. FetchStands(g)
      BY <1>0, <1>1, <1>4, <2>0, <2>1, <2>2, <2>6, <3>3, <3>4 DEF FetchStands, PumpEnded
    <3>6. FetchRunsFor(g)
      BY <1>0, <1>1, <1>4, <2>6, <3>3, <3>4 DEF FetchRunsFor, PumpEnded
    <3>7. FetchWhole(g)
      <4>1. f.stream = "ended" => g.stream = "ended"
        BY <3>3 DEF PumpEnded
      <4> QED
        BY <2>6, <2>7, <3>3, <4>1, WholeStill DEF PumpEnded
    <3> QED
      BY <3>2, <3>3, <3>5, <3>6, <3>7 DEF FetchInv, PumpEnded
  <2>9. CASE Head(fetch.item) # 0
    <3>1. PICK g : g = [f EXCEPT !.pump = "pulls"]
      OBVIOUS
    <3>2. fetch' = g
      BY <2>4, <2>9, <3>1
    <3>3. "pulls" \in PumpStates
      BY DEF PumpStates
    <3>4. g \in FetchRec
      BY <2>5, <3>1, <3>3, Zenon DEF FetchRec
    <3>5. /\ g.pump = "pulls"
          /\ g.send = f.send /\ g.caller = f.caller /\ g.task = f.task
          /\ g.taskDue = f.taskDue /\ g.guard = f.guard /\ g.browser = f.browser
          /\ g.promise = f.promise /\ g.holder = f.holder /\ g.stream = f.stream
          /\ g.source = f.source /\ g.made = f.made /\ g.pumpDue = f.pumpDue
          /\ g.item = f.item /\ g.chan = f.chan /\ g.senderParked = f.senderParked
          /\ g.got = f.got /\ g.told = f.told /\ g.parked = f.parked /\ g.woken = f.woken
      BY <2>5, <3>1 DEF FetchRec
    <3>6. FetchStands(g)
      <4>1. /\ g.item = <<>> /\ g.pump = "pulls" /\ g.chan = fetch.item /\ g.senderParked
            /\ g.woken <=> fetch.woken \/ fetch.parked
        BY <2>1, <2>2, <2>6, <3>5
      <4> QED
        BY <1>0, <1>1, <1>4, <2>6, <3>5, <4>1, ShortEmpty DEF FetchStands
    <3>7. FetchRunsFor(g)
      BY <1>0, <1>1, <1>4, <2>6, <3>5 DEF FetchRunsFor
    <3>8. FetchWhole(g)
      BY <2>7, <3>5, WholeStill
    <3> QED
      BY <3>2, <3>4, <3>6, <3>7, <3>8 DEF FetchInv
  <2> QED
    BY <2>8, <2>9
<1> QED
  BY <1>2, <1>3, <1>4 DEF FetchPumpSends

\* The caller takes the chunk of the channel, which is the next it has to see.
LEMMA WholeTakes ==
  ASSUME NEW f \in FetchRec, FetchWhole(f), f.holder # "gone", f.told # "end",
         Len(f.chan) = 1, Head(f.chan) # 0, NEW g,
         g.got = Append(f.got, Head(f.chan)), g.chan = Tail(f.chan), g.item = f.item,
         g.source = f.source, g.made = f.made, g.told = f.told, g.holder = f.holder,
         g.stream = f.stream
  PROVE  FetchWhole(g)
<1>1. PICK a, c, i, d : a = f.got /\ c = f.chan /\ i = f.item /\ d = f.source
  OBVIOUS
<1>2. /\ a \in Seq(0 .. MaxParts) /\ c \in Seq(0 .. MaxParts) /\ i \in Seq(0 .. MaxParts)
      /\ d \in Seq(0 .. MaxParts) /\ Len(c) = 1 /\ Head(c) # 0 /\ f.made \in Nat
  BY <1>1, FetchAssumption DEF FetchRec, Chunks, ChunkCounts
<1>3. PICK z : z = Append(a, Head(c))
  OBVIOUS
<1>4. z \o Tail(c) = a \o c /\ Head(c) = c[1]
  BY <1>2, <1>3, PiecesTake
<1>5. Pieces(g) = Pieces(f)
  BY <1>1, <1>3, <1>4 DEF Pieces
<1>6. Len(a) \in Nat
  BY <1>2, LenProperties
<1>7. PICK x, y : x = a \o c /\ y = x \o i
  OBVIOUS
<1>8. x \in Seq(0 .. MaxParts) /\ Len(x) = Len(a) + 1 /\ x[Len(a) + 1] = c[1]
  BY <1>2, <1>7, NextOf
<1>9. y \in Seq(0 .. MaxParts) /\ Len(y) >= Len(a) + 1 /\ Len(y) \in Nat /\ y[Len(a) + 1] = c[1]
  <2>1. Len(i) \in Nat
    BY <1>2, LenProperties
  <2> QED
    BY <1>2, <1>6, <1>7, <1>8, <2>1, ConcatProperties
<1>10. PICK p : p = y \o d
  OBVIOUS
<1>11. Len(p) >= Len(a) + 1 /\ Len(p) \in Nat /\ p[Len(a) + 1] = c[1]
  <2>1. Len(d) \in Nat
    BY <1>2, LenProperties
  <2> QED
    BY SMTT(30), <1>2, <1>6, <1>9, <1>10, <2>1, ConcatProperties
<1>12. Pieces(f) = p
  BY <1>1, <1>7, <1>10 DEF Pieces
<1>13. p = Count(f.made) \/ p = Append(Count(f.made), 0)
  BY <1>12 DEF FetchWhole
<1>14. Head(c) = Len(a) + 1
  <2>1. Len(a) + 1 \in 1 .. Len(p)
    BY <1>6, <1>11
  <2>2. p[Len(a) + 1] = Len(a) + 1 \/ p[Len(a) + 1] = 0
    BY <1>2, <1>13, <2>1, PieceIs
  <2> QED
    BY <1>2, <1>4, <1>11, <2>2
<1>15. a = Count(Len(a))
  BY <1>1 DEF FetchWhole
<1>16. z = Count(Len(a) + 1) /\ Len(z) = Len(a) + 1
  BY <1>2, <1>3, <1>6, <1>14, <1>15, CountGrows, PiecesTake
<1>17. g.got = Count(Len(g.got))
  BY <1>1, <1>3, <1>16
<1> QED
  BY <1>5, <1>17 DEF FetchWhole

\* A body that ends cleanly has handed over every chunk.
LEMMA WholeEnds ==
  ASSUME NEW f \in FetchRec, FetchWhole(f), f.holder # "gone",
         f.chan = <<>>, f.item = <<>>, f.source = <<>>
  PROVE  Len(f.got) = f.made
<1>1. PICK a : a = f.got
  OBVIOUS
<1>2. a \in Seq(0 .. MaxParts) /\ Len(a) \in Nat /\ f.made \in Nat
  BY <1>1, FetchAssumption, LenProperties DEF FetchRec, Chunks, ChunkCounts
<1>3. a \o <<>> = a
  BY <1>2, ConcatEmptySeq
<1>4. Pieces(f) = a
  BY <1>1, <1>3 DEF Pieces
<1>5. a = Count(f.made) \/ a = Append(Count(f.made), 0)
  BY <1>4 DEF FetchWhole
<1>6. a = Count(Len(a))
  BY <1>1 DEF FetchWhole
<1>7. Count(f.made) \in Seq(Nat) /\ Len(Count(f.made)) = f.made
  BY <1>2, IsASeq DEF Count
<1>8. a # Append(Count(f.made), 0)
  <2> SUFFICES ASSUME a = Append(Count(f.made), 0) PROVE FALSE
    OBVIOUS
  <2>1. Len(a) = f.made + 1 /\ a[f.made + 1] = 0
    BY <1>7, AppendProperties
  <2>2. Count(Len(a))[f.made + 1] = f.made + 1
    BY <1>2, <2>1 DEF Count
  <2> QED
    BY <1>2, <1>6, <2>1, <2>2
<1> QED
  BY <1>1, <1>5, <1>7, <1>8

LEMMA FetchFrameKeeps == FetchInv /\ FetchFrame => FetchInv'
<1> SUFFICES ASSUME FetchInv, FetchFrame PROVE FetchInv'
  OBVIOUS
<1>0. fetch \in FetchRec /\ FetchWhole(fetch) /\ FetchStands(fetch) /\ FetchRunsFor(fetch)
  BY DEF FetchInv
<1>1. fetch.caller = "reads" /\ fetch.told = "no" /\ fetch.holder = "caller"
      /\ fetch.pump # "none"
  BY <1>0 DEF FetchFrame, FetchStands, FetchRunsFor
<1>2. PICK f : f = [fetch EXCEPT !.parked = FALSE, !.woken = FALSE]
  OBVIOUS
<1>3. f \in FetchRec
  BY <1>0, <1>2, Zenon DEF FetchRec
<1>4. /\ f.parked = FALSE /\ f.woken = FALSE
      /\ f.send = fetch.send /\ f.caller = fetch.caller /\ f.task = fetch.task
      /\ f.taskDue = fetch.taskDue /\ f.guard = fetch.guard /\ f.browser = fetch.browser
      /\ f.promise = fetch.promise /\ f.holder = fetch.holder /\ f.stream = fetch.stream
      /\ f.source = fetch.source /\ f.made = fetch.made /\ f.pump = fetch.pump
      /\ f.pumpDue = fetch.pumpDue /\ f.item = fetch.item /\ f.chan = fetch.chan
      /\ f.senderParked = fetch.senderParked /\ f.got = fetch.got /\ f.told = fetch.told
  BY <1>0, <1>2 DEF FetchRec
<1>5. FetchWhole(f)
  BY <1>0, <1>4, WholeStill
<1>6. CASE /\ fetch.chan # <<>>
           /\ LET r == [f EXCEPT !.chan = Tail(@), !.senderParked = FALSE,
                                 !.pumpDue = @ \/ f.pump = "sends"]
              IN  fetch' = IF Head(fetch.chan) = 0 THEN [DropBody(r) EXCEPT !.told = "error"]
                           ELSE [r EXCEPT !.got = Append(@, Head(fetch.chan))]
  <2>1. /\ Len(fetch.chan) = 1 /\ fetch.chan \in Seq(0 .. MaxParts)
        /\ fetch.got \in Seq(0 .. MaxParts)
    BY <1>0, <1>6 DEF FetchStands, Short, FetchRec, Chunks
  <2>2. PICK h, t, d : h = Head(fetch.chan) /\ t = Tail(fetch.chan) /\ d = (f.pumpDue \/ f.pump = "sends")
    OBVIOUS
  <2>3. t = <<>> /\ t \in Seq(0 .. MaxParts)
    BY ZenonT(60), <2>1, <2>2, PiecesTake, EmptySeq
  <2>4. t \in Chunks /\ d \in BOOLEAN
    BY <1>3, <2>2, <2>3 DEF Chunks, FetchRec
  <2>5. PICK r : r = [f EXCEPT !.chan = t, !.senderParked = FALSE, !.pumpDue = d]
    OBVIOUS
  <2>6. r \in FetchRec
    BY <1>3, <2>4, <2>5, Zenon DEF FetchRec
  <2>7. /\ r.chan = t /\ r.senderParked = FALSE /\ r.pumpDue = d
        /\ r.send = f.send /\ r.caller = f.caller /\ r.task = f.task
        /\ r.taskDue = f.taskDue /\ r.guard = f.guard /\ r.browser = f.browser
        /\ r.promise = f.promise /\ r.holder = f.holder /\ r.stream = f.stream
        /\ r.source = f.source /\ r.made = f.made /\ r.pump = f.pump /\ r.item = f.item
        /\ r.got = f.got /\ r.told = f.told /\ r.parked = f.parked /\ r.woken = f.woken
    BY <1>3, <2>5 DEF FetchRec
  <2>8. r = [f EXCEPT !.chan = Tail(@), !.senderParked = FALSE, !.pumpDue = @ \/ f.pump = "sends"]
    BY <1>3, <1>4, <2>2, <2>5 DEF FetchRec
  <2>9. fetch' = IF h = 0 THEN [DropBody(r) EXCEPT !.told = "error"]
                 ELSE [r EXCEPT !.got = Append(@, h)]
    BY <1>6, <2>2, <2>8
  <2>10. CASE h = 0
    <3>1. PICK b, g : b = DropBody(r) /\ g = [b EXCEPT !.told = "error"]
      OBVIOUS
    <3>2. fetch' = g
      BY <2>9, <2>10, <3>1
    <3>3. BodyDropped(r, b)
      BY <2>6, <3>1, DropBodyIs
    <3>4. "error" \in Tellings
      BY DEF Tellings
    <3>5. g \in FetchRec
      BY <3>1, <3>3, <3>4, ZenonT(60) DEF FetchRec, BodyDropped
    <3>6. /\ g.told = "error"
          /\ g.send = b.send /\ g.caller = b.caller /\ g.task = b.task
          /\ g.taskDue = b.taskDue /\ g.guard = b.guard /\ g.browser = b.browser
          /\ g.promise = b.promise /\ g.holder = b.holder /\ g.stream = b.stream
          /\ g.source = b.source /\ g.made = b.made /\ g.pump = b.pump
          /\ g.pumpDue = b.pumpDue /\ g.item = b.item /\ g.chan = b.chan
          /\ g.senderParked = b.senderParked /\ g.got = b.got /\ g.parked = b.parked
          /\ g.woken = b.woken
      BY <3>1, <3>3 DEF FetchRec, BodyDropped
    <3>7. FetchStands(g)
      BY <1>0, <1>1, <1>4, <2>7, <3>3, <3>6, ShortEmpty DEF FetchStands, BodyDropped
    <3>8. FetchRunsFor(g)
      BY <1>0, <1>1, <1>4, <2>7, <3>3, <3>6 DEF FetchRunsFor, BodyDropped
    <3>9. FetchWhole(g)
      BY <1>5, <2>7, <3>3, <3>6 DEF FetchWhole, BodyDropped
    <3> QED
      BY <3>2, <3>5, <3>7, <3>8, <3>9 DEF FetchInv
  <2>11. CASE h # 0
    <3>1. PICK z : z = Append(fetch.got, h)
      OBVIOUS
    <3>2. z \in Chunks
      BY <2>1, <2>2, <3>1, PiecesTake DEF Chunks
    <3>3. PICK g : g = [r EXCEPT !.got = z]
      OBVIOUS
    <3>4. fetch' = g
      BY <1>4, <2>6, <2>7, <2>9, <2>11, <3>1, <3>3 DEF FetchRec
    <3>5. g \in FetchRec
      BY <2>6, <3>2, <3>3, Zenon DEF FetchRec
    <3>6. /\ g.got = z
          /\ g.send = r.send /\ g.caller = r.caller /\ g.task = r.task
          /\ g.taskDue = r.taskDue /\ g.guard = r.guard /\ g.browser = r.browser
          /\ g.promise = r.promise /\ g.holder = r.holder /\ g.stream = r.stream
          /\ g.source = r.source /\ g.made = r.made /\ g.pump = r.pump
          /\ g.pumpDue = r.pumpDue /\ g.item = r.item /\ g.chan = r.chan
          /\ g.senderParked = r.senderParked /\ g.told = r.told /\ g.parked = r.parked
          /\ g.woken = r.woken
      BY <2>6, <3>3 DEF FetchRec
    <3>7. FetchStands(g)
      <4>1. g.chan = <<>> /\ ~g.parked
        BY <1>4, <2>3, <2>7, <3>6
      <4> QED
        BY <1>0, <1>1, <1>4, <2>7, <3>6, <4>1, ShortEmpty DEF FetchStands
    <3>8. FetchRunsFor(g)
      BY <1>0, <1>1, <1>4, <2>2, <2>7, <3>6 DEF FetchRunsFor
    <3>9. FetchWhole(g)
      <4>1. f.got = fetch.got /\ f.chan = fetch.chan /\ f.told # "end" /\ f.holder # "gone"
        BY <1>1, <1>4
      <4>2. /\ g.got = Append(f.got, Head(f.chan)) /\ g.chan = Tail(f.chan) /\ g.item = f.item
            /\ g.source = f.source /\ g.made = f.made /\ g.told = f.told /\ g.holder = f.holder
            /\ g.stream = f.stream
        BY <2>2, <2>7, <3>1, <3>6, <4>1
      <4>3. Len(f.chan) = 1 /\ Head(f.chan) # 0
        BY <2>1, <2>2, <2>11, <4>1
      <4> QED
        BY <1>3, <1>5, <4>1, <4>2, <4>3, WholeTakes
    <3> QED
      BY <3>4, <3>5, <3>7, <3>8, <3>9 DEF FetchInv
  <2> QED
    BY <2>10, <2>11
<1>7. CASE fetch.chan = <<>> /\ fetch.pump = "done" /\ fetch' = [DropBody(f) EXCEPT !.told = "end"]
  <2>1. PICK b, g : b = DropBody(f) /\ g = [b EXCEPT !.told = "end"]
    OBVIOUS
  <2>2. fetch' = g
    BY <1>7, <2>1
  <2>3. BodyDropped(f, b)
    BY <1>3, <2>1, DropBodyIs
  <2>4. "end" \in Tellings
    BY DEF Tellings
  <2>5. g \in FetchRec
    BY <2>1, <2>3, <2>4, ZenonT(60) DEF FetchRec, BodyDropped
  <2>6. /\ g.told = "end"
        /\ g.send = b.send /\ g.caller = b.caller /\ g.task = b.task
        /\ g.taskDue = b.taskDue /\ g.guard = b.guard /\ g.browser = b.browser
        /\ g.promise = b.promise /\ g.holder = b.holder /\ g.stream = b.stream
        /\ g.source = b.source /\ g.made = b.made /\ g.pump = b.pump
        /\ g.pumpDue = b.pumpDue /\ g.item = b.item /\ g.chan = b.chan
        /\ g.senderParked = b.senderParked /\ g.got = b.got /\ g.parked = b.parked
        /\ g.woken = b.woken
    BY <2>1, <2>3 DEF FetchRec, BodyDropped
  <2>7. fetch.item = <<>> /\ fetch.source = <<>> /\ fetch.stream \in {"ended", "none"}
    BY <1>0, <1>1, <1>7 DEF FetchStands
  <2>8. Len(fetch.got) = fetch.made
    BY <1>0, <1>1, <1>7, <2>7, WholeEnds
  <2>9. FetchStands(g)
    BY <1>0, <1>1, <1>4, <1>7, <2>3, <2>6, <2>7, ShortEmpty DEF FetchStands, BodyDropped
  <2>10. FetchRunsFor(g)
    BY <1>0, <1>1, <1>4, <1>7, <2>3, <2>6 DEF FetchRunsFor, BodyDropped
  <2>11. FetchWhole(g)
    BY <1>4, <1>5, <2>3, <2>6, <2>7, <2>8 DEF FetchWhole, BodyDropped
  <2> QED
    BY <2>2, <2>5, <2>9, <2>10, <2>11 DEF FetchInv
<1>8. CASE fetch.chan = <<>> /\ fetch.pump # "done" /\ fetch' = [f EXCEPT !.parked = TRUE]
  <2>1. PICK g : g = [f EXCEPT !.parked = TRUE]
    OBVIOUS
  <2>2. g \in FetchRec
    BY <1>3, <2>1, Zenon DEF FetchRec
  <2>3. /\ g.parked = TRUE
        /\ g.send = f.send /\ g.caller = f.caller /\ g.task = f.task
        /\ g.taskDue = f.taskDue /\ g.guard = f.guard /\ g.browser = f.browser
        /\ g.promise = f.promise /\ g.holder = f.holder /\ g.stream = f.stream
        /\ g.source = f.source /\ g.made = f.made /\ g.pump = f.pump
        /\ g.pumpDue = f.pumpDue /\ g.item = f.item /\ g.chan = f.chan
        /\ g.senderParked = f.senderParked /\ g.got = f.got /\ g.told = f.told
        /\ g.woken = f.woken
    BY <1>3, <2>1 DEF FetchRec
  <2>4. FetchStands(g)
    BY <1>0, <1>1, <1>4, <1>8, <2>3 DEF FetchStands
  <2>5. FetchRunsFor(g)
    BY <1>0, <1>1, <1>4, <2>3 DEF FetchRunsFor
  <2>6. FetchWhole(g)
    BY <1>5, <2>3, WholeStill
  <2> QED
    BY <1>8, <2>1, <2>2, <2>4, <2>5, <2>6 DEF FetchInv
<1> QED
  BY <1>2, <1>6, <1>7, <1>8 DEF FetchFrame

LEMMA StreamMovesKeeps == FetchInv /\ StreamMoves => FetchInv'
<1> SUFFICES ASSUME FetchInv, StreamMoves PROVE FetchInv'
  OBVIOUS
<1>0. fetch \in FetchRec /\ FetchWhole(fetch) /\ FetchStands(fetch) /\ FetchRunsFor(fetch)
  BY DEF FetchInv
<1>1. /\ fetch.stream = "open" /\ fetch.pump # "none" /\ fetch.pump # "done"
      /\ fetch.told # "end" /\ fetch.promise = "ok"
  BY <1>0 DEF StreamMoves, FetchStands, FetchRunsFor, FetchRec, PromiseStates
<1>2. PICK d, f : d = (fetch.pumpDue \/ fetch.pump = "pulls") /\ f = [fetch EXCEPT !.pumpDue = d]
  OBVIOUS
<1>3. d \in BOOLEAN /\ (fetch.pumpDue => d)
  BY <1>0, <1>2 DEF FetchRec
<1>4. f \in FetchRec
  BY <1>0, <1>2, <1>3, Zenon DEF FetchRec
<1>5. /\ f.pumpDue = d
      /\ f.send = fetch.send /\ f.caller = fetch.caller /\ f.task = fetch.task
      /\ f.taskDue = fetch.taskDue /\ f.guard = fetch.guard /\ f.browser = fetch.browser
      /\ f.promise = fetch.promise /\ f.holder = fetch.holder /\ f.stream = fetch.stream
      /\ f.source = fetch.source /\ f.made = fetch.made /\ f.pump = fetch.pump
      /\ f.item = fetch.item /\ f.chan = fetch.chan /\ f.senderParked = fetch.senderParked
      /\ f.got = fetch.got /\ f.told = fetch.told /\ f.parked = fetch.parked
      /\ f.woken = fetch.woken
  BY <1>0, <1>2 DEF FetchRec
<1>6. FetchWhole(f)
  BY <1>0, <1>5, WholeStill
<1>7. f = [fetch EXCEPT !.pumpDue = @ \/ fetch.pump = "pulls"]
  BY <1>0, <1>2 DEF FetchRec
<1>8. CASE /\ fetch.made < MaxParts
           /\ fetch' = [f EXCEPT !.source = Append(@, fetch.made + 1), !.made = @ + 1]
  <2>1. PICK s, m : s = Append(fetch.source, fetch.made + 1) /\ m = fetch.made + 1
    OBVIOUS
  <2>2. fetch.source \in Seq(0 .. MaxParts) /\ m \in 0 .. MaxParts
    BY <1>0, <1>8, <2>1, FetchAssumption DEF FetchRec, Chunks, ChunkCounts
  <2>3. s \in Chunks /\ m \in ChunkCounts
    BY <2>1, <2>2, AppendProperties DEF Chunks, ChunkCounts
  <2>4. PICK g : g = [f EXCEPT !.source = s, !.made = m]
    OBVIOUS
  <2>5. fetch' = g
    BY <1>4, <1>5, <1>8, <2>1, <2>4 DEF FetchRec
  <2>6. g \in FetchRec
    BY <1>4, <2>3, <2>4, Zenon DEF FetchRec
  <2>7. /\ g.source = s /\ g.made = m
        /\ g.send = f.send /\ g.caller = f.caller /\ g.task = f.task
        /\ g.taskDue = f.taskDue /\ g.guard = f.guard /\ g.browser = f.browser
        /\ g.promise = f.promise /\ g.holder = f.holder /\ g.stream = f.stream
        /\ g.pump = f.pump /\ g.pumpDue = f.pumpDue /\ g.item = f.item /\ g.chan = f.chan
        /\ g.senderParked = f.senderParked /\ g.got = f.got /\ g.told = f.told
        /\ g.parked = f.parked /\ g.woken = f.woken
    BY <1>4, <2>4 DEF FetchRec
  <2>8. FetchStands(g)
    BY <1>0, <1>1, <1>5, <2>7 DEF FetchStands
  <2>9. FetchRunsFor(g)
    BY <1>0, <1>1, <1>3, <1>5, <2>7 DEF FetchRunsFor
  <2>10. FetchWhole(g)
    BY <1>1, <1>4, <1>5, <1>6, <1>8, <2>1, <2>7, WholeGrows
  <2> QED
    BY <2>5, <2>6, <2>8, <2>9, <2>10 DEF FetchInv
<1>9. CASE fetch' = [f EXCEPT !.source = Append(@, 0), !.stream = "ended"]
  <2>1. PICK s : s = Append(fetch.source, 0)
    OBVIOUS
  <2>2. fetch.source \in Seq(0 .. MaxParts) /\ 0 \in 0 .. MaxParts
    BY <1>0, FetchAssumption DEF FetchRec, Chunks
  <2>3. s \in Chunks /\ "ended" \in StreamStates
    BY <2>1, <2>2, AppendProperties DEF Chunks, StreamStates
  <2>4. PICK g : g = [f EXCEPT !.source = s, !.stream = "ended"]
    OBVIOUS
  <2>5. fetch' = g
    BY <1>4, <1>5, <1>9, <2>1, <2>4 DEF FetchRec
  <2>6. g \in FetchRec
    BY <1>4, <2>3, <2>4, Zenon DEF FetchRec
  <2>7. /\ g.source = s /\ g.stream = "ended"
        /\ g.send = f.send /\ g.caller = f.caller /\ g.task = f.task
        /\ g.taskDue = f.taskDue /\ g.guard = f.guard /\ g.browser = f.browser
        /\ g.promise = f.promise /\ g.holder = f.holder /\ g.made = f.made
        /\ g.pump = f.pump /\ g.pumpDue = f.pumpDue /\ g.item = f.item /\ g.chan = f.chan
        /\ g.senderParked = f.senderParked /\ g.got = f.got /\ g.told = f.told
        /\ g.parked = f.parked /\ g.woken = f.woken
    BY <1>4, <2>4 DEF FetchRec
  <2>8. FetchStands(g)
    BY <1>0, <1>1, <1>5, <2>7 DEF FetchStands
  <2>9. FetchRunsFor(g)
    BY <1>0, <1>1, <1>3, <1>5, <2>7 DEF FetchRunsFor
  <2>10. FetchWhole(g)
    BY <1>1, <1>4, <1>5, <1>6, <2>1, <2>7, WholeFails
  <2> QED
    BY <2>5, <2>6, <2>8, <2>9, <2>10 DEF FetchInv
<1>10. CASE fetch' = [f EXCEPT !.stream = "ended"]
  <2>1. PICK g : g = [f EXCEPT !.stream = "ended"]
    OBVIOUS
  <2>2. "ended" \in StreamStates
    BY DEF StreamStates
  <2>3. g \in FetchRec
    BY <1>4, <2>1, <2>2, Zenon DEF FetchRec
  <2>4. /\ g.stream = "ended"
        /\ g.send = f.send /\ g.caller = f.caller /\ g.task = f.task
        /\ g.taskDue = f.taskDue /\ g.guard = f.guard /\ g.browser = f.browser
        /\ g.promise = f.promise /\ g.holder = f.holder /\ g.source = f.source
        /\ g.made = f.made /\ g.pump = f.pump /\ g.pumpDue = f.pumpDue /\ g.item = f.item
        /\ g.chan = f.chan /\ g.senderParked = f.senderParked /\ g.got = f.got
        /\ g.told = f.told /\ g.parked = f.parked /\ g.woken = f.woken
    BY <1>4, <2>1 DEF FetchRec
  <2>5. FetchStands(g)
    BY <1>0, <1>1, <1>5, <2>4 DEF FetchStands
  <2>6. FetchRunsFor(g)
    BY <1>0, <1>1, <1>3, <1>5, <2>4 DEF FetchRunsFor
  <2>7. FetchWhole(g)
    BY <1>6, <2>4, WholeStill
  <2> QED
    BY <1>10, <2>1, <2>3, <2>5, <2>6, <2>7 DEF FetchInv
<1> QED
  BY <1>7, <1>8, <1>9, <1>10 DEF StreamMoves

LEMMA FetchKeeps == FetchInv /\ FetchNext => FetchInv'
  BY StartFetchKeeps, SettlesKeeps, ExecutePolledKeeps, TaskPolledKeeps, SendPolledKeeps,
     CallerDropsKeeps, FetchPumpPullsKeeps, FetchPumpSendsKeeps, FetchFrameKeeps, StreamMovesKeeps
     DEF FetchNext

LEMMA FetchStays == FetchInv /\ UNCHANGED fetch => FetchInv'
  BY DEF FetchInv

LEMMA FetchBegins == FetchInit => FetchInv
<1> SUFFICES ASSUME FetchInit PROVE FetchInv
  OBVIOUS
<1>1. /\ "new" \in CallerStates /\ "none" \in TaskStates /\ "none" \in BrowserStates
      /\ "pending" \in PromiseStates /\ "none" \in HolderStates /\ "none" \in StreamStates
      /\ "none" \in PumpStates /\ "no" \in Tellings
  BY DEF CallerStates, TaskStates, BrowserStates, PromiseStates, HolderStates, StreamStates,
         PumpStates, Tellings
<1>2. <<>> \in Chunks /\ 0 \in ChunkCounts
  BY FetchAssumption DEF Chunks, ChunkCounts
<1>3. fetch \in [send: BOOLEAN, caller: {"new"}, task: {"none"}, taskDue: {FALSE}, guard: {FALSE},
                 browser: {"none"}, promise: {"pending"}, holder: {"none"},
                 stream: {"none"}, source: {<<>>}, made: {0}, pump: {"none"}, pumpDue: {FALSE},
                 item: {<<>>}, chan: {<<>>}, senderParked: {FALSE},
                 got: {<<>>}, told: {"no"}, parked: {FALSE}, woken: {FALSE}]
  BY DEF FetchInit
<1>4. fetch \in FetchRec
  BY ZenonT(60), <1>1, <1>2, <1>3 DEF FetchRec
<1>5. /\ fetch.caller = "new" /\ fetch.task = "none" /\ fetch.taskDue = FALSE /\ fetch.guard = FALSE
      /\ fetch.browser = "none" /\ fetch.promise = "pending" /\ fetch.holder = "none"
      /\ fetch.stream = "none" /\ fetch.source = <<>> /\ fetch.made = 0 /\ fetch.pump = "none"
      /\ fetch.pumpDue = FALSE /\ fetch.item = <<>> /\ fetch.chan = <<>>
      /\ fetch.senderParked = FALSE /\ fetch.got = <<>> /\ fetch.told = "no"
      /\ fetch.parked = FALSE /\ fetch.woken = FALSE
  BY <1>3
<1>6. FetchStands(fetch)
  BY <1>5, ShortEmpty DEF FetchStands
<1>7. FetchRunsFor(fetch)
  BY <1>5 DEF FetchRunsFor
<1>8. FetchWhole(fetch)
  <2>1. Count(0) = <<>> /\ Len(<<>>) = 0
    BY DEF Count
  <2>2. <<>> \o <<>> \o <<>> \o <<>> = <<>>
    OBVIOUS
  <2> QED
    BY <1>5, <2>1, <2>2 DEF FetchWhole, Pieces
<1> QED
  BY <1>4, <1>6, <1>7, <1>8 DEF FetchInv

LEMMA FetchPromise == FetchInv => FetchTypeOK /\ GoneIsStopped /\ BodyIsWhole
<1> SUFFICES ASSUME FetchInv PROVE FetchTypeOK /\ GoneIsStopped /\ BodyIsWhole
  OBVIOUS
<1>0. fetch \in FetchRec /\ FetchWhole(fetch) /\ FetchStands(fetch) /\ FetchRunsFor(fetch)
  BY DEF FetchInv
<1>1. FetchTypeOK
  BY <1>0 DEF FetchTypeOK, FetchRec, CallerStates, TaskStates, BrowserStates, HolderStates,
              StreamStates, PumpStates, Chunks
<1>2. GoneIsStopped
  BY <1>0 DEF GoneIsStopped, FetchStands, FetchRunsFor, FetchRec, PumpStates, HolderStates
<1>3. fetch.got = [i \in 1 .. Len(fetch.got) |-> i]
  BY <1>0 DEF FetchWhole, Count
<1>4. fetch.told = "end" => Len(fetch.got) = fetch.made
                            /\ fetch.source = <<>> /\ fetch.stream \in {"ended", "none"}
  BY <1>0 DEF FetchWhole, FetchStands
<1>5. Len(fetch.chan) \in {0, 1} /\ Len(fetch.item) \in {0, 1}
  <2>1. Short(fetch.chan) /\ Short(fetch.item)
    BY <1>0 DEF FetchStands
  <2>2. \A s : Short(s) => Len(s) \in {0, 1}
    BY DEF Short
  <2> QED
    BY <2>1, <2>2
<1>6. Len(fetch.chan) + Len(fetch.item) <= 2
  <2>1. \A x, y \in {0, 1} : x + y <= 2
    OBVIOUS
  <2> QED
    BY <1>5, <2>1
<1>7. fetch.parked /\ ~fetch.woken => fetch.chan = <<>> /\ fetch.pump # "done"
  BY <1>0 DEF FetchStands
<1>8. BodyIsWhole
  BY <1>3, <1>4, <1>6, <1>7 DEF BodyIsWhole
<1> QED
  BY <1>1, <1>2, <1>8

------------------------------------------------------------------------------
(* The WebSocket of the browser transport.                                 *)

PageMarks == {PageClean, PageLost}

FetchCloses(s) == \E k \in Nat, how \in PageMarks : s = Append(Count(k), how)

PageAll(p) == p.seen \o p.queue

PagePlaces == {"opens", "reads", "over", "gone"}
SocketStates == {"connecting", "open", "closing", "closed"}
Verdicts == {"none", "ok", "taken", "refused"}
Items == Seq(Nat)

PageRec ==
  [at : PagePlaces, socket : SocketStates, queue : Items, verdict : Verdicts, opened : BOOLEAN,
   ended : BOOLEAN, waker : BOOLEAN, woken : BOOLEAN, attached : BOOLEAN, sent : Nat,
   seen : Items, late : BOOLEAN]

\* What came is queued as it came, until the close or the drop of the socket.
PageTold(p) ==
  /\ p.attached /\ ~p.ended => PageAll(p) = Count(p.sent)
  /\ FetchCloses(PageAll(p)) \/ \E k \in Nat : PageAll(p) = Count(k)
  /\ p.opened /\ p.ended => FetchCloses(PageAll(p))
  /\ p.at = "over" => p.queue = <<>>

PageStands(p) ==
  /\ p.at = "gone" <=> ~p.attached
  /\ p.ended => p.socket = "closed"
  /\ p.socket = "connecting" => ~p.opened
  /\ p.at \in {"reads", "over"} => p.opened
  /\ p.at = "over" => p.ended
  /\ p.verdict = "ok" => p.opened
  /\ p.at = "opens" => p.verdict # "taken"
  /\ p.waker /\ p.at = "reads" => p.queue = <<>> /\ ~p.ended
  /\ p.waker /\ p.at = "opens" => p.verdict = "none"
  /\ ~p.late

PageInv == page \in PageRec /\ PageTold(page) /\ PageStands(page)

LEMMA ItemMoves ==
  ASSUME NEW S, NEW a \in Seq(S), NEW x \in S, NEW z \in Seq(S)
  PROVE  Append(a, x) \o z = a \o (<<x>> \o z)
<1>1. Append(a, x) = a \o <<x>> /\ <<x>> \in Seq(S)
  BY AppendIsConcat
<1> QED
  BY <1>1, ConcatAssociative

\* The caller takes the next item of a queue.
LEMMA NextTaken ==
  ASSUME NEW S, NEW a \in Seq(S), NEW q \in Seq(S), q # <<>>
  PROVE  /\ Append(a, Head(q)) \o Tail(q) = a \o q
         /\ Append(a, Head(q)) \in Seq(S) /\ Tail(q) \in Seq(S)
<1>1. Head(q) \in S /\ Tail(q) \in Seq(S) /\ <<Head(q)>> \o Tail(q) = q
  BY HeadLeaves
<1>2. Append(a, Head(q)) \o Tail(q) = a \o (<<Head(q)>> \o Tail(q))
  BY <1>1, ItemMoves
<1>3. Append(a, Head(q)) \in Seq(S)
  BY <1>1, AppendProperties
<1> QED
  BY <1>1, <1>2, <1>3

LEMMA PageAdds ==
  ASSUME page \in PageRec, NEW e \in Nat, NEW g,
         g.seen = page.seen, g.queue = Append(page.queue, e)
  PROVE  PageAll(g) = Append(PageAll(page), e)
<1>1. PICK a, b : a = page.seen /\ b = page.queue
  OBVIOUS
<1>2. a \in Seq(Nat) /\ b \in Seq(Nat)
  BY <1>1 DEF PageRec, Items
<1>3. a \o Append(b, e) = Append(a \o b, e)
  BY SMTT(30), <1>2, PiecesGrow
<1> QED
  BY <1>1, <1>3 DEF PageAll

LEMMA OnOpenKeeps == PageInv /\ OnOpen => PageInv'
<1> SUFFICES ASSUME PageInv, OnOpen PROVE PageInv'
  OBVIOUS
<1>0. page \in PageRec /\ PageTold(page) /\ PageStands(page)
  BY DEF PageInv
<1>1. "ok" \in Verdicts /\ "open" \in SocketStates
  BY DEF Verdicts, SocketStates
<1>2. page.socket = "connecting" /\ ~page.ended /\ ~page.opened
  BY <1>0 DEF OnOpen, PageStands
<1>3. CASE page.attached
  <2>1. PICK w, g : /\ w = (page.woken \/ page.waker)
                    /\ g = [page EXCEPT !.opened = TRUE, !.verdict = "ok", !.woken = w,
                                        !.waker = FALSE, !.socket = "open"]
    OBVIOUS
  <2>2. w \in BOOLEAN
    BY <2>1
  <2>3. page' = g
    BY <1>0, <1>3, <2>1 DEF OnOpen, WakePage, PageRec
  <2>4. g \in PageRec
    BY <1>0, <1>1, <2>1, <2>2, Zenon DEF PageRec
  <2>5. /\ g.opened = TRUE /\ g.verdict = "ok" /\ g.woken = w /\ g.waker = FALSE
        /\ g.socket = "open"
        /\ g.at = page.at /\ g.queue = page.queue /\ g.ended = page.ended
        /\ g.attached = page.attached /\ g.sent = page.sent /\ g.seen = page.seen
        /\ g.late = page.late
    BY <1>0, <2>1 DEF PageRec
  <2>6. PageTold(g)
    BY <1>0, <1>2, <2>5 DEF PageTold, PageAll
  <2>7. PageStands(g)
    BY <1>0, <1>2, <2>5 DEF PageStands
  <2> QED
    BY <2>3, <2>4, <2>6, <2>7 DEF PageInv
<1>4. CASE ~page.attached
  <2>1. PICK g : g = [page EXCEPT !.socket = "open"]
    OBVIOUS
  <2>2. page' = g
    BY <1>4, <2>1 DEF OnOpen
  <2>3. g \in PageRec
    BY <1>0, <1>1, <2>1, Zenon DEF PageRec
  <2>4. /\ g.socket = "open"
        /\ g.at = page.at /\ g.queue = page.queue /\ g.verdict = page.verdict
        /\ g.opened = page.opened /\ g.ended = page.ended /\ g.waker = page.waker
        /\ g.woken = page.woken /\ g.attached = page.attached /\ g.sent = page.sent
        /\ g.seen = page.seen /\ g.late = page.late
    BY <1>0, <2>1 DEF PageRec
  <2>5. PageTold(g)
    BY <1>0, <2>4 DEF PageTold, PageAll
  <2>6. PageStands(g)
    BY <1>0, <1>2, <2>4 DEF PageStands
  <2> QED
    BY <2>2, <2>3, <2>5, <2>6 DEF PageInv
<1> QED
  BY <1>3, <1>4

LEMMA OnMessageKeeps == PageInv /\ OnMessage => PageInv'
<1> SUFFICES ASSUME PageInv, OnMessage PROVE PageInv'
  OBVIOUS
<1>0. page \in PageRec /\ PageTold(page) /\ PageStands(page)
  BY DEF PageInv
<1>1. page.socket \in {"open", "closing"} /\ ~page.ended /\ page.sent \in Nat
      /\ page.queue \in Seq(Nat) /\ page.seen \in Seq(Nat)
  BY <1>0 DEF OnMessage, PageStands, PageRec, Items
<1>2. PICK n : n = page.sent + 1
  OBVIOUS
<1>3. n \in Nat
  BY <1>1, <1>2
<1>4. CASE ~page.attached
  <2>1. PICK g : g = [page EXCEPT !.sent = n]
    OBVIOUS
  <2>2. page' = g
    BY <1>0, <1>2, <1>4, <2>1 DEF OnMessage, PageRec
  <2>3. g \in PageRec
    BY <1>0, <1>3, <2>1, Zenon DEF PageRec
  <2>4. /\ g.sent = n
        /\ g.at = page.at /\ g.socket = page.socket /\ g.queue = page.queue
        /\ g.verdict = page.verdict /\ g.opened = page.opened /\ g.ended = page.ended
        /\ g.waker = page.waker /\ g.woken = page.woken /\ g.attached = page.attached
        /\ g.seen = page.seen /\ g.late = page.late
    BY <1>0, <2>1 DEF PageRec
  <2>5. PageTold(g)
    BY <1>0, <1>4, <2>4 DEF PageTold, PageAll
  <2>6. PageStands(g)
    BY <1>0, <2>4 DEF PageStands
  <2> QED
    BY <2>2, <2>3, <2>5, <2>6 DEF PageInv
<1>5. CASE page.attached
  <2>0. page.at # "gone"
    BY SMTT(30), <1>0, <1>5 DEF PageStands
  <2>1. PICK w, q, g : /\ w = (page.woken \/ page.waker) /\ q = Append(page.queue, page.sent + 1)
                       /\ g = [page EXCEPT !.sent = n, !.queue = q, !.woken = w, !.waker = FALSE]
    OBVIOUS
  <2>2. w \in BOOLEAN /\ q \in Items
    BY <1>1, <2>1, AppendProperties DEF Items
  <2>3. page.late = FALSE
    BY <1>0 DEF PageStands, PageRec
  <2>4. PICK l : l = (page.late \/ page.at = "gone")
    OBVIOUS
  <2>5. PICK h : h = [g EXCEPT !.late = l]
    OBVIOUS
  <2>6. page' = h
    BY <1>0, <1>1, <1>2, <1>5, <2>1, <2>4, <2>5 DEF OnMessage, WakePage, PageRec
  <2>7. g \in PageRec
    BY <1>0, <1>3, <2>1, <2>2, Zenon DEF PageRec
  <2>8. h \in PageRec
    BY <2>4, <2>5, <2>7, Zenon DEF PageRec
  <2>9. /\ g.sent = n /\ g.queue = q /\ g.woken = w /\ g.waker = FALSE
        /\ g.at = page.at /\ g.socket = page.socket /\ g.verdict = page.verdict
        /\ g.opened = page.opened /\ g.ended = page.ended /\ g.attached = page.attached
        /\ g.seen = page.seen /\ g.late = page.late
    BY <1>0, <2>1 DEF PageRec
  <2>10. /\ h.late = l
         /\ h.at = g.at /\ h.socket = g.socket /\ h.queue = g.queue /\ h.verdict = g.verdict
         /\ h.opened = g.opened /\ h.ended = g.ended /\ h.waker = g.waker
         /\ h.woken = g.woken /\ h.attached = g.attached /\ h.sent = g.sent
         /\ h.seen = g.seen
    BY <2>5, <2>7 DEF PageRec
  <2>11. ~l
    BY <2>0, <2>3, <2>4
  <2>12. PageAll(page) = Count(page.sent)
    BY <1>0, <1>1, <1>5 DEF PageTold
  <2>13. PageAll(h) = Append(PageAll(page), page.sent + 1)
    <3>1. page.sent + 1 \in Nat /\ h.seen = page.seen /\ h.queue = Append(page.queue, page.sent + 1)
      BY <1>1, <2>1, <2>9, <2>10
    <3> QED
      BY <1>0, <3>1, PageAdds
  <2>14. PageAll(h) = Count(n)
    BY <1>1, <1>2, <2>12, <2>13, CountGrows
  <2>15. PageTold(h)
    BY <1>0, <1>1, <1>3, <2>9, <2>10, <2>14 DEF PageTold, PageStands
  <2>16. PageStands(h)
    BY <1>0, <1>1, <2>9, <2>10, <2>11 DEF PageStands
  <2> QED
    BY <2>6, <2>8, <2>15, <2>16 DEF PageInv
<1> QED
  BY <1>4, <1>5

LEMMA OnCloseKeeps == PageInv /\ OnClose => PageInv'
<1> SUFFICES ASSUME PageInv, OnClose PROVE PageInv'
  OBVIOUS
<1>0. page \in PageRec /\ PageTold(page) /\ PageStands(page)
  BY DEF PageInv
<1>1. PICK how \in {PageClean, PageLost} :
        LET p == [page EXCEPT !.socket = "closed"]
        IN  page' = IF ~page.attached \/ page.ended THEN p
                    ELSE WakePage(
                      IF page.opened
                      THEN [p EXCEPT !.ended = TRUE, !.queue = Append(@, how)]
                      ELSE [p EXCEPT !.ended = TRUE, !.verdict = "refused"])
  BY DEF OnClose
<1>2. /\ ~page.ended /\ page.queue \in Seq(Nat) /\ page.seen \in Seq(Nat) /\ page.sent \in Nat
      /\ how \in Nat /\ how \in PageMarks
  BY <1>0, FetchAssumption DEF OnClose, PageStands, PageRec, Items, PageClean, PageLost, PageMarks
<1>3. "closed" \in SocketStates /\ "refused" \in Verdicts
  BY DEF SocketStates, Verdicts
<1>4. CASE ~page.attached
  <2>1. PICK g : g = [page EXCEPT !.socket = "closed"]
    OBVIOUS
  <2>2. page' = g
    BY <1>1, <1>4, <2>1
  <2>3. g \in PageRec
    BY <1>0, <1>3, <2>1, Zenon DEF PageRec
  <2>4. /\ g.socket = "closed"
        /\ g.at = page.at /\ g.queue = page.queue /\ g.verdict = page.verdict
        /\ g.opened = page.opened /\ g.ended = page.ended /\ g.waker = page.waker
        /\ g.woken = page.woken /\ g.attached = page.attached /\ g.sent = page.sent
        /\ g.seen = page.seen /\ g.late = page.late
    BY <1>0, <2>1 DEF PageRec
  <2>5. PageTold(g)
    BY <1>0, <2>4 DEF PageTold, PageAll
  <2>6. PageStands(g)
    BY <1>0, <2>4 DEF PageStands
  <2> QED
    BY <2>2, <2>3, <2>5, <2>6 DEF PageInv
<1>5. CASE page.attached /\ page.opened
  <2>1. PICK w, q, g : /\ w = (page.woken \/ page.waker) /\ q = Append(page.queue, how)
                       /\ g = [page EXCEPT !.socket = "closed", !.ended = TRUE, !.queue = q,
                                           !.woken = w, !.waker = FALSE]
    OBVIOUS
  <2>2. w \in BOOLEAN /\ q \in Items
    BY <1>2, <2>1, AppendProperties DEF Items
  <2>3. page' = g
    BY <1>0, <1>1, <1>2, <1>5, <2>1 DEF WakePage, PageRec
  <2>4. g \in PageRec
    BY <1>0, <1>3, <2>1, <2>2, Zenon DEF PageRec
  <2>5. /\ g.socket = "closed" /\ g.ended = TRUE /\ g.queue = q /\ g.woken = w /\ g.waker = FALSE
        /\ g.at = page.at /\ g.verdict = page.verdict /\ g.opened = page.opened
        /\ g.attached = page.attached /\ g.sent = page.sent /\ g.seen = page.seen
        /\ g.late = page.late
    BY <1>0, <2>1 DEF PageRec
  <2>6. PageAll(page) = Count(page.sent)
    BY <1>0, <1>2, <1>5 DEF PageTold
  <2>7. PageAll(g) = Append(Count(page.sent), how)
    <3>1. g.seen = page.seen /\ g.queue = Append(page.queue, how)
      BY <2>1, <2>5
    <3>2. PageAll(g) = Append(PageAll(page), how)
      BY <1>0, <1>2, <3>1, PageAdds
    <3> QED
      BY <2>6, <3>2
  <2>8. FetchCloses(PageAll(g))
    BY <1>2, <2>7 DEF FetchCloses
  <2>9. PageTold(g)
    BY <1>0, <1>2, <2>5, <2>8 DEF PageTold, PageStands
  <2>10. PageStands(g)
    BY <1>0, <2>5 DEF PageStands
  <2> QED
    BY <2>3, <2>4, <2>9, <2>10 DEF PageInv
<1>6. CASE page.attached /\ ~page.opened
  <2>1. PICK w, g : /\ w = (page.woken \/ page.waker)
                    /\ g = [page EXCEPT !.socket = "closed", !.ended = TRUE, !.verdict = "refused",
                                        !.woken = w, !.waker = FALSE]
    OBVIOUS
  <2>2. w \in BOOLEAN
    BY <2>1
  <2>3. page' = g
    BY <1>0, <1>1, <1>2, <1>6, <2>1 DEF WakePage, PageRec
  <2>4. g \in PageRec
    BY <1>0, <1>3, <2>1, <2>2, Zenon DEF PageRec
  <2>5. /\ g.socket = "closed" /\ g.ended = TRUE /\ g.verdict = "refused" /\ g.woken = w
        /\ g.waker = FALSE
        /\ g.at = page.at /\ g.queue = page.queue /\ g.opened = page.opened
        /\ g.attached = page.attached /\ g.sent = page.sent /\ g.seen = page.seen
        /\ g.late = page.late
    BY <1>0, <2>1 DEF PageRec
  <2>6. PageTold(g)
    BY <1>0, <1>6, <2>5 DEF PageTold, PageStands, PageAll
  <2>7. PageStands(g)
    BY <1>0, <1>6, <2>5 DEF PageStands
  <2> QED
    BY <2>3, <2>4, <2>6, <2>7 DEF PageInv
<1> QED
  BY <1>4, <1>5, <1>6

LEMMA DropSocketKeeps ==
  ASSUME PageInv, NEW g, g = DropSocket(page)
  PROVE  g \in PageRec /\ PageTold(g) /\ PageStands(g)
<1>0. page \in PageRec /\ PageTold(page) /\ PageStands(page)
  BY DEF PageInv
<1>1. PICK s : s = (IF page.socket = "closed" THEN page.socket ELSE "closing")
  OBVIOUS
<1>2. s \in SocketStates /\ "gone" \in PagePlaces
  BY <1>1 DEF SocketStates, PagePlaces
<1>3. g = [page EXCEPT !.at = "gone", !.attached = FALSE, !.socket = s]
  BY <1>0, <1>1 DEF DropSocket, PageRec
<1>4. g \in PageRec
  BY <1>0, <1>2, <1>3, Zenon DEF PageRec
<1>5. /\ g.at = "gone" /\ g.attached = FALSE /\ g.socket = s
      /\ g.queue = page.queue /\ g.verdict = page.verdict /\ g.opened = page.opened
      /\ g.ended = page.ended /\ g.waker = page.waker /\ g.woken = page.woken
      /\ g.sent = page.sent /\ g.seen = page.seen /\ g.late = page.late
  BY <1>0, <1>3 DEF PageRec
<1>6. PageTold(g)
  BY <1>0, <1>5 DEF PageTold, PageAll
<1>7. PageStands(g)
  BY <1>0, <1>1, <1>5 DEF PageStands
<1> QED
  BY <1>4, <1>6, <1>7

\* A caller with nothing to take leaves its waker.
LEMMA PageWaits ==
  ASSUME PageInv, NEW g, g = [page EXCEPT !.waker = TRUE, !.woken = FALSE],
         page.at = "reads" => page.queue = <<>> /\ ~page.ended,
         page.at = "opens" => page.verdict = "none"
  PROVE  g \in PageRec /\ PageTold(g) /\ PageStands(g)
<1>0. page \in PageRec /\ PageTold(page) /\ PageStands(page)
  BY DEF PageInv
<1>1. g \in PageRec
  BY <1>0, Zenon DEF PageRec
<1>2. /\ g.waker = TRUE /\ g.woken = FALSE
      /\ g.at = page.at /\ g.socket = page.socket /\ g.queue = page.queue
      /\ g.verdict = page.verdict /\ g.opened = page.opened /\ g.ended = page.ended
      /\ g.attached = page.attached /\ g.sent = page.sent /\ g.seen = page.seen
      /\ g.late = page.late
  BY <1>0 DEF PageRec
<1>3. PageTold(g)
  BY <1>0, <1>2 DEF PageTold, PageAll
<1>4. PageStands(g)
  BY <1>0, <1>2 DEF PageStands
<1> QED
  BY <1>1, <1>3, <1>4

LEMMA OpeningPolledKeeps == PageInv /\ OpeningPolled => PageInv'
<1> SUFFICES ASSUME PageInv, OpeningPolled PROVE PageInv'
  OBVIOUS
<1>0. page \in PageRec /\ PageTold(page) /\ PageStands(page) /\ page.at = "opens"
  BY DEF PageInv, OpeningPolled
<1>1. CASE page.verdict = "ok"
  <2>1. "reads" \in PagePlaces /\ "taken" \in Verdicts
    BY DEF PagePlaces, Verdicts
  <2>2. PICK g : g = [page EXCEPT !.at = "reads", !.verdict = "taken"]
    OBVIOUS
  <2>3. page' = g
    BY <1>1, <2>2 DEF OpeningPolled
  <2>4. g \in PageRec
    BY <1>0, <2>1, <2>2, Zenon DEF PageRec
  <2>5. /\ g.at = "reads" /\ g.verdict = "taken"
        /\ g.socket = page.socket /\ g.queue = page.queue /\ g.opened = page.opened
        /\ g.ended = page.ended /\ g.waker = page.waker /\ g.woken = page.woken
        /\ g.attached = page.attached /\ g.sent = page.sent /\ g.seen = page.seen
        /\ g.late = page.late
    BY <1>0, <2>2 DEF PageRec
  <2>6. PageTold(g)
    BY <1>0, <2>5 DEF PageTold, PageAll
  <2>7. PageStands(g)
    BY <1>0, <1>1, <2>5 DEF PageStands
  <2> QED
    BY <2>3, <2>4, <2>6, <2>7 DEF PageInv
<1>2. CASE page.verdict = "refused"
  <2>1. page' = DropSocket(page)
    BY <1>2 DEF OpeningPolled
  <2> QED
    BY <2>1, DropSocketKeeps DEF PageInv
<1>3. CASE page.verdict \notin {"ok", "refused"}
  <2>1. page' = [page EXCEPT !.waker = TRUE, !.woken = FALSE]
    BY <1>3 DEF OpeningPolled
  <2>2. page.verdict = "none"
    BY <1>0, <1>3 DEF PageRec, Verdicts, PageStands
  <2> QED
    BY <1>0, <2>1, <2>2, PageWaits DEF PageInv
<1> QED
  BY <1>1, <1>2, <1>3

LEMMA PagePolledKeeps == PageInv /\ PagePolled => PageInv'
<1> SUFFICES ASSUME PageInv, PagePolled PROVE PageInv'
  OBVIOUS
<1>0. page \in PageRec /\ PageTold(page) /\ PageStands(page) /\ page.at = "reads"
  BY DEF PageInv, PagePolled
<1>1. CASE page.queue # <<>>
  <2>1. PICK a, q : a = page.seen /\ q = page.queue
    OBVIOUS
  <2>2. a \in Seq(Nat) /\ q \in Seq(Nat) /\ q # <<>>
    BY <1>0, <1>1, <2>1 DEF PageRec, Items
  <2>3. PICK s, r : s = Append(a, Head(q)) /\ r = Tail(q)
    OBVIOUS
  <2>4. s \o r = a \o q /\ s \in Items /\ r \in Items
    BY SMTT(30), <2>2, <2>3, NextTaken DEF Items
  <2>5. PICK g : g = [page EXCEPT !.seen = s, !.queue = r]
    OBVIOUS
  <2>6. page' = g
    BY <1>0, <1>1, <2>1, <2>3, <2>5 DEF PagePolled, PageRec
  <2>7. g \in PageRec
    BY <1>0, <2>4, <2>5, Zenon DEF PageRec
  <2>8. /\ g.seen = s /\ g.queue = r
        /\ g.at = page.at /\ g.socket = page.socket /\ g.verdict = page.verdict
        /\ g.opened = page.opened /\ g.ended = page.ended /\ g.waker = page.waker
        /\ g.woken = page.woken /\ g.attached = page.attached /\ g.sent = page.sent
        /\ g.late = page.late
    BY <1>0, <2>5 DEF PageRec
  <2>9. PageAll(g) = PageAll(page)
    BY <2>1, <2>4, <2>8 DEF PageAll
  <2>10. PageTold(g)
    BY <1>0, <2>8, <2>9 DEF PageTold
  <2>11. ~page.waker
    BY <1>0, <1>1 DEF PageStands
  <2>12. PageStands(g)
    BY <1>0, <2>8, <2>11 DEF PageStands
  <2> QED
    BY <2>6, <2>7, <2>10, <2>12 DEF PageInv
<1>2. CASE page.queue = <<>> /\ page.ended
  <2>1. "over" \in PagePlaces
    BY DEF PagePlaces
  <2>2. PICK g : g = [page EXCEPT !.at = "over"]
    OBVIOUS
  <2>3. page' = g
    BY <1>2, <2>2 DEF PagePolled
  <2>4. g \in PageRec
    BY <1>0, <2>1, <2>2, Zenon DEF PageRec
  <2>5. /\ g.at = "over"
        /\ g.socket = page.socket /\ g.queue = page.queue /\ g.verdict = page.verdict
        /\ g.opened = page.opened /\ g.ended = page.ended /\ g.waker = page.waker
        /\ g.woken = page.woken /\ g.attached = page.attached /\ g.sent = page.sent
        /\ g.seen = page.seen /\ g.late = page.late
    BY <1>0, <2>2 DEF PageRec
  <2>6. PageTold(g)
    BY <1>0, <1>2, <2>5 DEF PageTold, PageAll
  <2>7. PageStands(g)
    BY <1>0, <1>2, <2>5 DEF PageStands
  <2> QED
    BY <2>3, <2>4, <2>6, <2>7 DEF PageInv
<1>3. CASE page.queue = <<>> /\ ~page.ended
  <2>1. page' = [page EXCEPT !.waker = TRUE, !.woken = FALSE]
    BY <1>3 DEF PagePolled
  <2> QED
    BY <1>0, <1>3, <2>1, PageWaits DEF PageInv
<1> QED
  BY <1>1, <1>2, <1>3

LEMMA PageClosesKeeps == PageInv /\ PageCloses => PageInv'
<1> SUFFICES ASSUME PageInv, PageCloses PROVE PageInv'
  OBVIOUS
<1>0. page \in PageRec /\ PageTold(page) /\ PageStands(page) /\ page.socket = "open"
  BY DEF PageInv, PageCloses
<1>1. "closing" \in SocketStates
  BY DEF SocketStates
<1>2. PICK g : g = [page EXCEPT !.socket = "closing"]
  OBVIOUS
<1>3. page' = g
  BY <1>2 DEF PageCloses
<1>4. g \in PageRec
  BY <1>0, <1>1, <1>2, Zenon DEF PageRec
<1>5. /\ g.socket = "closing"
      /\ g.at = page.at /\ g.queue = page.queue /\ g.verdict = page.verdict
      /\ g.opened = page.opened /\ g.ended = page.ended /\ g.waker = page.waker
      /\ g.woken = page.woken /\ g.attached = page.attached /\ g.sent = page.sent
      /\ g.seen = page.seen /\ g.late = page.late
  BY <1>0, <1>2 DEF PageRec
<1>6. PageTold(g)
  BY <1>0, <1>5 DEF PageTold, PageAll
<1>7. PageStands(g)
  BY <1>0, <1>5 DEF PageStands
<1> QED
  BY <1>3, <1>4, <1>6, <1>7 DEF PageInv

LEMMA PageKeeps == PageInv /\ PageNext => PageInv'
<1>1. PageInv /\ PageDropped => PageInv'
  BY DropSocketKeeps DEF PageDropped, PageInv
<1> QED
  BY <1>1, OnOpenKeeps, OnMessageKeeps, OnCloseKeeps, OpeningPolledKeeps, PagePolledKeeps,
     PageClosesKeeps DEF PageNext

LEMMA PageStays == PageInv /\ UNCHANGED page => PageInv'
  BY DEF PageInv

LEMMA PageBegins == PageInit => PageInv
<1> SUFFICES ASSUME PageInit PROVE PageInv
  OBVIOUS
<1>1. "opens" \in PagePlaces /\ "connecting" \in SocketStates /\ "none" \in Verdicts /\ <<>> \in Items
  BY DEF PagePlaces, SocketStates, Verdicts, Items
<1>2. page = [at |-> "opens", socket |-> "connecting", queue |-> <<>>, verdict |-> "none",
              opened |-> FALSE, ended |-> FALSE, waker |-> FALSE, woken |-> FALSE,
              attached |-> TRUE, sent |-> 0, seen |-> <<>>, late |-> FALSE]
  BY DEF PageInit
<1>3. page \in PageRec
  BY <1>1, <1>2 DEF PageRec
<1>4. Count(0) = <<>> /\ <<>> \o <<>> = <<>>
  BY DEF Count
<1>5. /\ page.at = "opens" /\ page.socket = "connecting" /\ page.queue = <<>>
      /\ page.verdict = "none" /\ page.opened = FALSE /\ page.ended = FALSE
      /\ page.waker = FALSE /\ page.attached = TRUE /\ page.sent = 0 /\ page.seen = <<>>
      /\ page.late = FALSE
  BY <1>2
<1>6. PageAll(page) = Count(0)
  BY <1>4, <1>5 DEF PageAll
<1>7. PageTold(page)
  BY <1>5, <1>6 DEF PageTold
<1>8. PageStands(page)
  BY <1>5 DEF PageStands
<1> QED
  BY <1>3, <1>7, <1>8 DEF PageInv

LEMMA PagePromise == PageInv => PageIsHeard
<1> SUFFICES ASSUME PageInv PROVE PageIsHeard
  OBVIOUS
<1>0. page \in PageRec /\ PageTold(page) /\ PageStands(page)
  BY DEF PageInv
<1>1. PICK all : all = page.seen \o page.queue
  OBVIOUS
<1>2. PICK a, q : a = page.seen /\ q = page.queue
  OBVIOUS
<1>3. a \in Seq(Nat) /\ q \in Seq(Nat)
  BY <1>0, <1>2 DEF PageRec, Items
<1>4. all \in Seq(Nat)
  BY <1>1, <1>2, <1>3, ConcatProperties
<1>5. FetchCloses(all) \/ \E k \in Nat : all = Count(k)
  BY <1>0, <1>1 DEF PageTold, PageAll
<1>6. ASSUME NEW s, FetchCloses(s)
      PROVE  /\ s # <<>> /\ Len(s) \in Nat /\ s[Len(s)] >= PageClean
             /\ \A i \in DOMAIN s : s[i] = i \/ (i = Len(s) /\ s[i] >= PageClean)
  <2>1. PICK k \in Nat, how \in PageMarks : s = Append(Count(k), how)
    BY <1>6 DEF FetchCloses
  <2>2. Count(k) \in Seq(Nat) /\ Len(Count(k)) = k /\ \A i \in 1 .. k : Count(k)[i] = i
    BY IsASeq DEF Count
  <2>3. how \in Nat /\ how >= PageClean
    BY FetchAssumption DEF PageMarks, PageClean, PageLost
  <2>4. PICK c : c = Count(k)
    OBVIOUS
  <2>5. s \in Seq(Nat) /\ Len(s) = k + 1 /\ s[k + 1] = how /\ \A i \in 1 .. k : s[i] = i
    BY <2>1, <2>2, <2>3, <2>4, AppendProperties
  <2>6. DOMAIN s = 1 .. (k + 1)
    BY <2>5, LenProperties
  <2>7. s # <<>>
    BY <2>5, EmptySeq
  <2> QED
    BY <2>3, <2>5, <2>6, <2>7
<1>7. \A i \in DOMAIN all : all[i] = i \/ (i = Len(all) /\ all[i] >= PageClean)
  <2>1. CASE FetchCloses(all)
    BY <1>6, <2>1
  <2>2. CASE \E k \in Nat : all = Count(k)
    BY <2>2 DEF Count
  <2> QED
    BY <1>5, <2>1, <2>2
<1>8. page.at = "over" => page.seen # <<>> /\ Last(page.seen) >= PageClean
  <2> SUFFICES ASSUME page.at = "over" PROVE page.seen # <<>> /\ Last(page.seen) >= PageClean
    OBVIOUS
  <2>1. page.queue = <<>> /\ FetchCloses(PageAll(page))
    BY <1>0 DEF PageTold, PageStands
  <2>2. a \o <<>> = a
    BY <1>3, ConcatEmptySeq
  <2>3. FetchCloses(a)
    BY <1>2, <2>1, <2>2 DEF PageAll
  <2> QED
    BY <1>2, <1>6, <2>3 DEF Last
<1>9. /\ page.waker /\ page.at = "reads" => page.queue = <<>> /\ ~page.ended
      /\ page.waker /\ page.at = "opens" => page.verdict = "none"
      /\ ~page.late
  BY <1>0 DEF PageStands
<1> QED
  BY <1>1, <1>7, <1>8, <1>9 DEF PageIsHeard

------------------------------------------------------------------------------
(* The data task of the URLSession transport.                              *)

DataPlaces == {"new", "waits", "reads", "failed", "gone"}
DataTasks == {"none", "runs", "cancelled", "done"}
DataHeads == {"none", "http", "other"}
DataTellings == {"no", "end", "error"}
PieceCounts == 0 .. MaxChunksIn

DataRec ==
  [at : DataPlaces, task : DataTasks, head : DataHeads, made : PieceCounts, chan : Items,
   parked : BOOLEAN, woken : BOOLEAN, got : Items, told : DataTellings]

Ended(s, n) == s = Append(Count(n), CleanEnd) \/ s = Append(Count(n), Broken)

\* What the delegate has pushed after the head.
Pushed(d, s) == IF d.task = "done" THEN Ended(s, d.made) ELSE s = Count(d.made)

DataOrder(d) ==
  /\ d.got = Count(Len(d.got)) /\ Len(d.got) <= d.made
  /\ d.at = "waits" /\ d.head = "http" => \E s \in Items : Pushed(d, s) /\ d.chan = <<0>> \o s
  /\ d.at = "waits" /\ d.head # "http" => Pushed(d, d.chan)
  /\ d.at = "reads" /\ d.told = "no" => Pushed(d, d.got \o d.chan)
  /\ d.told = "end" => Len(d.got) = d.made

DataStands(d) ==
  /\ d.at = "new" => /\ d.task = "none" /\ d.head = "none" /\ d.made = 0 /\ d.chan = <<>>
                     /\ d.got = <<>> /\ d.told = "no" /\ ~d.parked
  /\ d.at = "waits" => d.got = <<>> /\ d.told = "no"
  /\ d.at \in {"waits", "reads"} => d.task \in {"runs", "done"}
  /\ d.at \in {"failed", "gone"} => d.task # "runs" /\ ~d.parked
  /\ d.head = "none" => d.made = 0
  /\ d.told # "no" => d.task = "done"
  /\ d.told = "error" => d.task = "done" /\ d.at \in {"reads", "gone"}
  /\ d.at = "reads" => d.head = "http"
  /\ d.parked /\ ~d.woken => d.chan = <<>> /\ d.task # "done"

DataInv == data \in DataRec /\ DataOrder(data) /\ DataStands(data)

\* What stands at a place of a count that something may end.
CountedTo(y, m, x) == y = Count(m) \/ y = Append(Count(m), x)

\* What stands at a place of it.
StandsAt(y, m, x, j) ==
  \/ j <= m /\ y[j] = j
  \/ j = m + 1 /\ j = Len(y) /\ y[j] = x /\ y = Append(Count(m), x)

LEMMA CountedAt ==
  ASSUME NEW m \in Nat, NEW x, NEW y, CountedTo(y, m, x), NEW j \in 1 .. Len(y)
  PROVE  StandsAt(y, m, x, j)
<1> USE DEF StandsAt
<1>0. y = Count(m) \/ y = Append(Count(m), x)
  BY DEF CountedTo
<1>1. Count(m) \in Seq(Nat) /\ Len(Count(m)) = m /\ \A k \in 1 .. m : Count(m)[k] = k
  BY IsASeq DEF Count
<1>2. CASE y = Count(m)
  BY <1>1, <1>2
<1>3. CASE y = Append(Count(m), x)
  <2>1. PICK c : c = Count(m)
    OBVIOUS
  <2>2. c \in Seq(Nat \cup {x}) /\ x \in Nat \cup {x}
    BY <1>1, <2>1, SeqMonotonic
  <2>3. Len(y) = m + 1 /\ y[m + 1] = x /\ \A k \in 1 .. m : y[k] = c[k]
    BY <1>1, <1>3, <2>1, <2>2, AppendProperties
  <2> QED
    BY <1>1, <1>3, <2>1, <2>3
<1> QED
  BY <1>0, <1>2, <1>3

\* The head of a queue stands behind what was taken of it.
LEMMA HeadStands ==
  ASSUME NEW S, NEW a \in Seq(S), NEW q \in Seq(S), q # <<>>
  PROVE  /\ Len(a) \in Nat /\ Len(a) + 1 \in 1 .. Len(a \o q)
         /\ (a \o q)[Len(a) + 1] = Head(q) /\ Head(q) \in S
<1>1. PICK x : x = a \o q
  OBVIOUS
<1>2. Len(a) \in Nat /\ Len(q) \in Nat /\ Len(q) # 0 /\ Head(q) = q[1] /\ Head(q) \in S
  BY LenProperties, EmptySeq, HeadTailProperties
<1>3. /\ x \in Seq(S) /\ Len(x) = Len(a) + Len(q)
      /\ \A i \in 1 .. Len(a) + Len(q) : x[i] = IF i <= Len(a) THEN a[i] ELSE q[i - Len(a)]
  BY <1>1, ConcatProperties
<1>4. Len(a) + 1 \in 1 .. Len(x) /\ x[Len(a) + 1] = q[1]
  BY SMTT(30), <1>2, <1>3
<1> QED
  BY <1>1, <1>2, <1>4

\* A sequence with something in front of it.
LEMMA FrontOf ==
  ASSUME NEW S, NEW x \in S, NEW s \in Seq(S)
  PROVE  /\ <<x>> \o s \in Seq(S) /\ <<x>> \o s # <<>>
         /\ Head(<<x>> \o s) = x /\ Tail(<<x>> \o s) = s
<1>1. PICK h, y : h = <<x>> /\ y = h \o s
  OBVIOUS
<1>2. h \in Seq(S) /\ Len(h) = 1 /\ h[1] = x /\ Len(s) \in Nat
  BY <1>1, LenProperties
<1>3. /\ y \in Seq(S) /\ Len(y) = 1 + Len(s)
      /\ \A i \in 1 .. 1 + Len(s) : y[i] = IF i <= 1 THEN h[i] ELSE s[i - 1]
  BY <1>1, <1>2, ConcatProperties
<1>4. y # <<>>
  BY <1>2, <1>3, EmptySeq
<1>5. /\ Head(y) = y[1] /\ Tail(y) \in Seq(S) /\ Len(Tail(y)) = Len(y) - 1
      /\ \A i \in 1 .. Len(Tail(y)) : Tail(y)[i] = y[i + 1]
  BY <1>3, <1>4, HeadTailProperties
<1>6. \A i \in 1 .. Len(s) : y[i + 1] = s[i]
  BY <1>2, <1>3
<1>7. Len(Tail(y)) = Len(s) /\ \A i \in 1 .. Len(s) : Tail(y)[i] = s[i]
  BY <1>2, <1>3, <1>5, <1>6
<1>8. Tail(y) = s
  BY <1>5, <1>7, SeqEqual
<1> QED
  BY <1>1, <1>2, <1>3, <1>4, <1>5, <1>8

\* The delegate adds a piece, or the end.
LEMMA PushedGrows ==
  ASSUME NEW d, d \in DataRec, d.task # "done", NEW s, Pushed(d, s), s \in Items, NEW g, NEW c,
         \/ g.task # "done" /\ c = d.made + 1 /\ g.made = d.made + 1
         \/ g.task = "done" /\ c \in {CleanEnd, Broken} /\ g.made = d.made
  PROVE  Pushed(g, Append(s, c))
<1>1. d.made \in Nat
  BY UrlAssumption DEF DataRec, PieceCounts
<1>2. s = Count(d.made)
  BY DEF Pushed
<1>3. CASE g.task # "done" /\ c = d.made + 1 /\ g.made = d.made + 1
  BY <1>1, <1>2, <1>3, CountGrows DEF Pushed
<1>4. CASE g.task = "done" /\ c \in {CleanEnd, Broken} /\ g.made = d.made
  BY <1>2, <1>4 DEF Pushed, Ended
<1> QED
  BY <1>3, <1>4

LEMMA OrderGrows ==
  ASSUME NEW d, d \in DataRec, DataOrder(d), d.task # "done", d.told = "no", NEW g, NEW c \in Nat,
         \/ g.task # "done" /\ c = d.made + 1 /\ g.made = d.made + 1
         \/ g.task = "done" /\ c \in {CleanEnd, Broken} /\ g.made = d.made,
         g.at = d.at, g.head = d.head, g.got = d.got, g.told = d.told,
         g.chan = Append(d.chan, c)
  PROVE  DataOrder(g)
<1>1. d.chan \in Seq(Nat) /\ d.got \in Seq(Nat) /\ d.made \in Nat
  BY UrlAssumption DEF DataRec, Items, PieceCounts
<1>2. g.got = Count(Len(g.got)) /\ Len(g.got) <= g.made
  BY <1>1, LenProperties DEF DataOrder
<1>3. ASSUME g.at = "waits", g.head = "http"
      PROVE  \E s \in Items : Pushed(g, s) /\ g.chan = <<0>> \o s
  <2>1. PICK s \in Items : Pushed(d, s) /\ d.chan = <<0>> \o s
    BY <1>3 DEF DataOrder
  <2>2. PICK h, z : h = <<0>> /\ z = Append(s, c)
    OBVIOUS
  <2>3. h \in Seq(Nat) /\ s \in Seq(Nat)
    BY <2>2 DEF Items
  <2>4. h \o Append(s, c) = Append(h \o s, c)
    BY SMTT(30), <2>3, PiecesGrow
  <2>5. z \in Items
    BY <2>2, <2>3, AppendProperties DEF Items
  <2>6. Pushed(g, z)
    BY <2>1, <2>2, PushedGrows
  <2>7. g.chan = <<0>> \o z
    BY <2>1, <2>2, <2>4
  <2> QED
    BY <2>5, <2>6, <2>7
<1>4. ASSUME g.at = "waits", g.head # "http"
      PROVE  Pushed(g, g.chan)
  <2>1. Pushed(d, d.chan) /\ d.chan \in Items
    BY <1>1, <1>4 DEF DataOrder, Items
  <2> QED
    BY <2>1, PushedGrows
<1>5. ASSUME g.at = "reads"
      PROVE  Pushed(g, g.got \o g.chan)
  <2>1. PICK a, q, s : a = d.got /\ q = d.chan /\ s = a \o q
    OBVIOUS
  <2>2. Pushed(d, s) /\ s \in Items
    BY <1>1, <1>5, <2>1, ConcatProperties DEF DataOrder, Items
  <2>3. a \o Append(q, c) = Append(a \o q, c)
    <3>1. a \in Seq(Nat) /\ q \in Seq(Nat)
      BY <1>1, <2>1
    <3> QED
      BY <3>1, PiecesGrow
  <2>4. Pushed(g, Append(s, c))
    BY <2>2, PushedGrows
  <2> QED
    BY <2>1, <2>3, <2>4
<1> QED
  BY <1>2, <1>3, <1>4, <1>5 DEF DataOrder

LEMMA StartTaskKeeps == DataInv /\ StartTask => DataInv'
<1> SUFFICES ASSUME DataInv, StartTask PROVE DataInv'
  OBVIOUS
<1>0. data \in DataRec /\ DataOrder(data) /\ DataStands(data) /\ data.at = "new"
  BY DEF DataInv, StartTask
<1>1. /\ "failed" \in DataPlaces /\ "waits" \in DataPlaces /\ "runs" \in DataTasks
      /\ Count(0) = <<>>
  BY DEF DataPlaces, DataTasks, Count
<1>2. CASE data' = [data EXCEPT !.at = "failed"]
  <2>1. PICK g : g = [data EXCEPT !.at = "failed"]
    OBVIOUS
  <2>2. g \in DataRec
    BY <1>0, <1>1, <2>1, Zenon DEF DataRec
  <2>3. /\ g.at = "failed"
        /\ g.task = data.task /\ g.head = data.head /\ g.made = data.made
        /\ g.chan = data.chan /\ g.parked = data.parked /\ g.woken = data.woken
        /\ g.got = data.got /\ g.told = data.told
    BY <1>0, <2>1 DEF DataRec
  <2>4. DataOrder(g)
    BY <1>0, <2>3 DEF DataOrder
  <2>5. DataStands(g)
    BY <1>0, <2>3 DEF DataStands
  <2> QED
    BY <1>2, <2>1, <2>2, <2>4, <2>5 DEF DataInv
<1>3. CASE data' = [data EXCEPT !.at = "waits", !.task = "runs"]
  <2>1. PICK g : g = [data EXCEPT !.at = "waits", !.task = "runs"]
    OBVIOUS
  <2>2. g \in DataRec
    BY <1>0, <1>1, <2>1, Zenon DEF DataRec
  <2>3. /\ g.at = "waits" /\ g.task = "runs"
        /\ g.head = data.head /\ g.made = data.made /\ g.chan = data.chan
        /\ g.parked = data.parked /\ g.woken = data.woken /\ g.got = data.got
        /\ g.told = data.told
    BY <1>0, <2>1 DEF DataRec
  <2>4. DataOrder(g)
    BY <1>0, <1>1, <2>3 DEF DataOrder, DataStands, Pushed
  <2>5. DataStands(g)
    BY <1>0, <2>3 DEF DataStands
  <2> QED
    BY <1>3, <2>1, <2>2, <2>4, <2>5 DEF DataInv
<1> QED
  BY <1>2, <1>3 DEF StartTask

\* A step of the delegate.
LEMMA PushKeeps ==
  ASSUME DataInv, data.task = "runs", NEW t \in {"runs", "done"}, NEW c \in Nat, NEW n \in PieceCounts,
         data.head # "none" \/ n = 0,
         \/ t = "runs" /\ c = data.made + 1 /\ n = data.made + 1
         \/ t = "done" /\ c \in {CleanEnd, Broken} /\ n = data.made,
         data' = PushChunk([data EXCEPT !.made = n, !.task = t], c)
  PROVE  DataInv'
<1>0. data \in DataRec /\ DataOrder(data) /\ DataStands(data)
  BY DEF DataInv
<1>1. data.at \in {"waits", "reads"} /\ data.told = "no" /\ data.chan \in Seq(Nat)
  BY <1>0 DEF DataStands, DataRec, DataPlaces, Items
<1>2. PICK w, q : w = (data.woken \/ data.parked) /\ q = Append(data.chan, c)
  OBVIOUS
<1>3. w \in BOOLEAN /\ q \in Items /\ t \in DataTasks
  BY <1>1, <1>2, AppendProperties DEF Items, DataTasks
<1>4. PICK g : g = [data EXCEPT !.made = n, !.task = t, !.chan = q, !.woken = w]
  OBVIOUS
<1>5. data' = g
  BY <1>0, <1>2, <1>4 DEF PushChunk, DataRec
<1>6. g \in DataRec
  BY <1>0, <1>3, <1>4, Zenon DEF DataRec
<1>7. /\ g.made = n /\ g.task = t /\ g.chan = q /\ g.woken = w
      /\ g.at = data.at /\ g.head = data.head /\ g.parked = data.parked /\ g.got = data.got
      /\ g.told = data.told
  BY <1>0, <1>4 DEF DataRec
<1>8. DataOrder(g)
  BY <1>0, <1>1, <1>2, <1>7, OrderGrows
<1>9. DataStands(g)
  BY <1>0, <1>1, <1>2, <1>7 DEF DataStands
<1> QED
  BY <1>5, <1>6, <1>8, <1>9 DEF DataInv

LEMMA DidReceiveResponseKeeps == DataInv /\ DidReceiveResponse => DataInv'
<1> SUFFICES ASSUME DataInv, DidReceiveResponse PROVE DataInv'
  OBVIOUS
<1>0. /\ data \in DataRec /\ DataOrder(data) /\ DataStands(data)
      /\ data.task = "runs" /\ data.head = "none"
  BY DEF DataInv, DidReceiveResponse
<1>1. data.at = "waits" /\ data.told = "no" /\ data.got = <<>> /\ data.made = 0 /\ Count(0) = <<>>
  BY <1>0 DEF DataStands, DataRec, DataPlaces, Count
<1>2. data.chan = <<>>
  BY <1>0, <1>1 DEF DataOrder, Pushed
<1>3. "http" \in DataHeads /\ "other" \in DataHeads
  BY SMTT(30) DEF DataHeads
<1>4. CASE data' = PushChunk([data EXCEPT !.head = "http"], 0)
  <2>1. PICK w, q, g : /\ w = (data.woken \/ data.parked) /\ q = Append(data.chan, 0)
                       /\ g = [data EXCEPT !.head = "http", !.chan = q, !.woken = w]
    OBVIOUS
  <2>2. w \in BOOLEAN /\ q \in Items /\ q = <<0>> \o <<>> /\ <<>> \in Items
    BY <1>2, <2>1 DEF Items
  <2>3. data' = g
    BY <1>0, <1>4, <2>1 DEF PushChunk, DataRec
  <2>4. g \in DataRec
    BY <1>0, <1>3, <2>1, <2>2, Zenon DEF DataRec
  <2>5. /\ g.head = "http" /\ g.chan = q /\ g.woken = w
        /\ g.at = data.at /\ g.task = data.task /\ g.made = data.made
        /\ g.parked = data.parked /\ g.got = data.got /\ g.told = data.told
    BY <1>0, <2>1 DEF DataRec
  <2>6. Pushed(g, <<>>)
    BY <1>0, <1>1, <2>5 DEF Pushed
  <2>7. DataOrder(g)
    BY <1>0, <1>1, <2>2, <2>5, <2>6 DEF DataOrder
  <2>8. DataStands(g)
    BY <1>0, <1>1, <2>1, <2>5 DEF DataStands
  <2> QED
    BY <2>3, <2>4, <2>7, <2>8 DEF DataInv
<1>5. CASE data' = [data EXCEPT !.head = "other"]
  <2>1. PICK g : g = [data EXCEPT !.head = "other"]
    OBVIOUS
  <2>2. g \in DataRec
    BY <1>0, <1>3, <2>1, Zenon DEF DataRec
  <2>3. /\ g.head = "other"
        /\ g.at = data.at /\ g.task = data.task /\ g.made = data.made /\ g.chan = data.chan
        /\ g.parked = data.parked /\ g.woken = data.woken /\ g.got = data.got
        /\ g.told = data.told
    BY <1>0, <2>1 DEF DataRec
  <2>4. DataOrder(g)
    BY <1>0, <1>1, <2>3 DEF DataOrder, Pushed
  <2>5. DataStands(g)
    BY <1>0, <1>1, <2>3 DEF DataStands
  <2> QED
    BY <1>5, <2>1, <2>2, <2>4, <2>5 DEF DataInv
<1> QED
  BY <1>4, <1>5 DEF DidReceiveResponse

LEMMA DidReceiveDataKeeps == DataInv /\ DidReceiveData => DataInv'
<1> SUFFICES ASSUME DataInv, DidReceiveData PROVE DataInv'
  OBVIOUS
<1>0. /\ data \in DataRec /\ data.task = "runs" /\ data.head # "none" /\ data.made < MaxChunksIn
      /\ data' = PushChunk([data EXCEPT !.made = @ + 1], data.made + 1)
  BY DEF DataInv, DidReceiveData
<1>1. data.made + 1 \in Nat /\ data.made + 1 \in PieceCounts
  BY <1>0, UrlAssumption DEF DataRec, PieceCounts
<1>2. PushChunk([data EXCEPT !.made = @ + 1], data.made + 1)
        = PushChunk([data EXCEPT !.made = data.made + 1, !.task = "runs"], data.made + 1)
  <2>1. [data EXCEPT !.made = @ + 1] = [data EXCEPT !.made = data.made + 1, !.task = "runs"]
    BY <1>0 DEF DataRec
  <2> QED
    BY <2>1
<1> QED
  BY <1>0, <1>1, <1>2, PushKeeps

LEMMA DidCompleteKeeps == DataInv /\ DidComplete => DataInv'
<1> SUFFICES ASSUME DataInv, DidComplete PROVE DataInv'
  OBVIOUS
<1>0. data \in DataRec /\ DataOrder(data) /\ DataStands(data)
  BY DEF DataInv
<1>1. /\ CleanEnd \in Nat /\ Broken \in Nat /\ data.made \in PieceCounts
      /\ (data.head = "none" => data.made = 0)
  BY <1>0, UrlAssumption DEF DataRec, DataStands, CleanEnd, Broken
<1>2. PICK c \in {CleanEnd, Broken} : /\ data' = PushChunk([data EXCEPT !.task = "done"], c)
                                      /\ data.task \in {"runs", "cancelled"}
  BY DEF DidComplete
<1>3. CASE data.task = "runs"
  <2>1. [data EXCEPT !.task = "done"] = [data EXCEPT !.made = data.made, !.task = "done"]
    BY <1>0 DEF DataRec
  <2>2. data' = PushChunk([data EXCEPT !.made = data.made, !.task = "done"], c)
    BY <1>2, <2>1
  <2>3. c \in Nat
    BY <1>1
  <2> QED
    BY <1>1, <1>3, <2>2, <2>3, PushKeeps
<1>4. CASE data.task = "cancelled"
  <2>1. data.at \in {"failed", "gone"} /\ data.chan \in Seq(Nat) /\ c \in Nat
    BY SMTT(30), <1>0, <1>1, <1>4 DEF DataStands, DataRec, DataPlaces, Items
  <2>2. PICK w, q, g : /\ w = (data.woken \/ data.parked) /\ q = Append(data.chan, c)
                       /\ g = [data EXCEPT !.task = "done", !.chan = q, !.woken = w]
    OBVIOUS
  <2>3. w \in BOOLEAN /\ q \in Items /\ "done" \in DataTasks
    BY <2>1, <2>2, AppendProperties DEF Items, DataTasks
  <2>4. data' = g
    BY <1>0, <1>2, <2>2 DEF PushChunk, DataRec
  <2>5. g \in DataRec
    BY <1>0, <2>2, <2>3, Zenon DEF DataRec
  <2>6. /\ g.task = "done" /\ g.chan = q /\ g.woken = w
        /\ g.at = data.at /\ g.head = data.head /\ g.made = data.made
        /\ g.parked = data.parked /\ g.got = data.got /\ g.told = data.told
    BY <1>0, <2>2 DEF DataRec
  <2>7. DataOrder(g)
    BY <1>0, <2>1, <2>6 DEF DataOrder
  <2>8. DataStands(g)
    BY <1>0, <2>1, <2>6 DEF DataStands
  <2> QED
    BY <2>4, <2>5, <2>7, <2>8 DEF DataInv
<1> QED
  BY <1>2, <1>3, <1>4

\* A transfer that is given up does not run on.
LEMMA CancelKeeps ==
  ASSUME NEW d \in DataRec, d.got = Count(Len(d.got)), Len(d.got) <= d.made,
         d.told = "end" => Len(d.got) = d.made, d.head = "none" => d.made = 0,
         d.told # "no" => d.task = "done", d.told = "error" => d.at = "gone",
         d.at \in {"failed", "gone"}, NEW g, g = CancelTask(d)
  PROVE  g \in DataRec /\ DataOrder(g) /\ DataStands(g)
<1>1. PICK t : t = (IF d.task = "runs" THEN "cancelled" ELSE d.task)
  OBVIOUS
<1>2. t \in DataTasks
  BY <1>1 DEF DataRec, DataTasks
<1>3. g = [d EXCEPT !.task = t, !.parked = FALSE, !.woken = FALSE]
  BY <1>1 DEF CancelTask
<1>4. g \in DataRec
  BY <1>2, <1>3, Zenon DEF DataRec
<1>5. /\ g.task = t /\ g.parked = FALSE /\ g.woken = FALSE
      /\ g.at = d.at /\ g.head = d.head /\ g.made = d.made /\ g.chan = d.chan
      /\ g.got = d.got /\ g.told = d.told
  BY <1>3 DEF DataRec
<1>6. DataOrder(g)
  BY <1>5 DEF DataOrder
<1>7. DataStands(g)
  BY <1>1, <1>5 DEF DataStands
<1> QED
  BY <1>4, <1>6, <1>7

LEMMA TransferDroppedKeeps == DataInv /\ TransferDropped => DataInv'
<1> SUFFICES ASSUME DataInv, TransferDropped PROVE DataInv'
  OBVIOUS
<1>0. data \in DataRec /\ DataOrder(data) /\ DataStands(data) /\ data.at \in {"waits", "reads"}
  BY DEF DataInv, TransferDropped
<1>1. "gone" \in DataPlaces
  BY DEF DataPlaces
<1>2. PICK d, g : d = [data EXCEPT !.at = "gone"] /\ g = CancelTask(d)
  OBVIOUS
<1>3. data' = g
  BY <1>2 DEF TransferDropped
<1>4. d \in DataRec
  BY <1>0, <1>1, <1>2, Zenon DEF DataRec
<1>5. /\ d.at = "gone"
      /\ d.task = data.task /\ d.head = data.head /\ d.made = data.made
      /\ d.chan = data.chan /\ d.parked = data.parked /\ d.woken = data.woken
      /\ d.got = data.got /\ d.told = data.told
  BY <1>0, <1>2 DEF DataRec
<1>6. /\ d.got = Count(Len(d.got)) /\ Len(d.got) <= d.made
      /\ (d.told = "end" => Len(d.got) = d.made) /\ (d.head = "none" => d.made = 0)
      /\ (d.told # "no" => d.task = "done") /\ (d.told = "error" => d.at = "gone")
      /\ d.at \in {"failed", "gone"}
  BY <1>0, <1>5 DEF DataOrder, DataStands
<1> QED
  BY <1>2, <1>3, <1>4, <1>6, CancelKeeps DEF DataInv

LEMMA WaitsForChunkKeeps ==
  ASSUME DataInv, data.at \in {"waits", "reads"}, data.told = "no", data.chan = <<>>,
         data' = WaitsForChunk
  PROVE  DataInv'
<1>0. data \in DataRec /\ DataOrder(data) /\ DataStands(data)
  BY DEF DataInv
<1>1. data.got \in Seq(Nat) /\ data.made \in Nat /\ data.made <= MaxChunksIn
  BY <1>0, UrlAssumption DEF DataRec, Items, PieceCounts
<1>2. data.task # "done"
  <2> SUFFICES ASSUME data.task = "done" PROVE FALSE
    OBVIOUS
  <2>1. ~(data.at = "waits" /\ data.head = "http")
    <3> SUFFICES ASSUME data.at = "waits", data.head = "http" PROVE FALSE
      OBVIOUS
    <3>1. PICK s \in Items : data.chan = <<0>> \o s
      BY <1>0 DEF DataOrder
    <3> QED
      BY <3>1, FrontOf DEF Items
  <2>2. PICK a : a = data.got
    OBVIOUS
  <2>3. a \o <<>> = a /\ (data.at = "waits" => a = <<>>)
    BY <1>0, <1>1, <2>2, ConcatEmptySeq DEF DataStands
  <2>4. Ended(a, data.made)
    BY <1>0, <2>1, <2>2, <2>3 DEF DataOrder, Pushed
  <2>5. PICK e \in {CleanEnd, Broken} : a = Append(Count(data.made), e)
    BY <2>4 DEF Ended
  <2>6. Count(data.made) \in Seq(Nat) /\ Len(Count(data.made)) = data.made /\ e \in Nat
    BY <1>1, IsASeq, UrlAssumption DEF Count, CleanEnd, Broken
  <2>7. Len(a) = data.made + 1
    BY <2>5, <2>6, AppendProperties
  <2> QED
    BY <1>0, <1>1, <2>2, <2>7 DEF DataOrder
<1>3. PICK g : g = [data EXCEPT !.parked = TRUE, !.woken = FALSE]
  OBVIOUS
<1>4. data' = g
  BY <1>3 DEF WaitsForChunk
<1>5. g \in DataRec
  BY <1>0, <1>3, Zenon DEF DataRec
<1>6. /\ g.parked = TRUE /\ g.woken = FALSE
      /\ g.at = data.at /\ g.task = data.task /\ g.head = data.head /\ g.made = data.made
      /\ g.chan = data.chan /\ g.got = data.got /\ g.told = data.told
  BY <1>0, <1>3 DEF DataRec
<1>7. DataOrder(g)
  BY <1>0, <1>6 DEF DataOrder, Pushed
<1>8. DataStands(g)
  BY <1>0, <1>2, <1>6 DEF DataStands
<1> QED
  BY <1>4, <1>5, <1>7, <1>8 DEF DataInv

\* What the channel's next item is to a caller that reads.
LEMMA NextPiece ==
  ASSUME DataInv, data.at = "reads", data.told = "no", data.chan # <<>>,
         NEW c, c = Head(data.chan)
  PROVE  /\ c \in Nat /\ c # 0
         /\ c = CleanEnd => data.task = "done" /\ Len(data.got) = data.made
         /\ c = Broken => data.task = "done"
         /\ c \notin {CleanEnd, Broken} => c = Len(data.got) + 1 /\ c <= data.made
<1>0. data \in DataRec /\ DataOrder(data)
  BY DEF DataInv
<1>1. PICK a, q, s : a = data.got /\ q = data.chan /\ s = a \o q
  OBVIOUS
<1>2. a \in Seq(Nat) /\ q \in Seq(Nat) /\ q # <<>> /\ data.made \in Nat /\ data.made <= MaxChunksIn
  BY <1>0, <1>1, UrlAssumption DEF DataRec, Items, PieceCounts
<1>3. Len(a) \in Nat /\ Len(a) + 1 \in 1 .. Len(s) /\ s[Len(a) + 1] = c /\ c \in Nat
  BY ZenonT(60), <1>1, <1>2, HeadStands
<1>4. Pushed(data, s)
  BY <1>0, <1>1 DEF DataOrder
<1>5. PICK e \in {CleanEnd, Broken} :
        \/ s = Count(data.made)
        \/ s = Append(Count(data.made), e) /\ data.task = "done"
  BY <1>4 DEF Pushed, Ended
<1>6. PICK n, i : n = data.made /\ i = Len(a) + 1
  OBVIOUS
<1>7. \/ i <= n /\ s[i] = i
      \/ i = n + 1 /\ i = Len(s) /\ s[i] = e /\ s = Append(Count(n), e)
  <2>1. n \in Nat /\ i \in 1 .. Len(s) /\ CountedTo(s, n, e)
    BY <1>2, <1>3, <1>5, <1>6 DEF CountedTo
  <2>2. StandsAt(s, n, e, i)
    BY <2>1, CountedAt
  <2> QED
    BY <2>2 DEF StandsAt
<1>8. s = Append(Count(n), e) => data.task = "done"
  <2> SUFFICES ASSUME s = Append(Count(n), e), s = Count(n) PROVE FALSE
    BY <1>5, <1>6
  <2>1. PICK k : k = Count(n)
    OBVIOUS
  <2>2. k \in Seq(Nat) /\ e \in Nat
    BY <1>2, <1>6, <2>1, IsASeq, UrlAssumption DEF Count, CleanEnd, Broken
  <2>3. s = Append(k, e)
    BY <2>1
  <2>4. Len(Append(k, e)) = Len(k) + 1 /\ Len(k) \in Nat
    BY <2>2, AppendProperties, LenProperties
  <2> QED
    BY <2>1, <2>3, <2>4
<1>9. CleanEnd > n /\ Broken > n /\ CleanEnd # 0 /\ Broken # 0 /\ n \in Nat
  BY SMTT(30), <1>2, <1>6, UrlAssumption DEF CleanEnd, Broken
<1>10. c = s[i] /\ i \in Nat /\ i # 0 /\ i = Len(data.got) + 1 /\ Len(data.got) \in Nat
  BY <1>1, <1>3, <1>6
<1>11. CASE i <= n /\ s[i] = i
  BY <1>3, <1>6, <1>9, <1>10, <1>11
<1>12. CASE i = n + 1 /\ s[i] = e /\ s = Append(Count(n), e)
  BY <1>3, <1>6, <1>8, <1>9, <1>10, <1>12
<1> QED
  BY <1>7, <1>11, <1>12

LEMMA AwaitsResponseKeeps == DataInv /\ AwaitsResponse => DataInv'
<1> SUFFICES ASSUME DataInv, AwaitsResponse PROVE DataInv'
  OBVIOUS
<1>0. data \in DataRec /\ DataOrder(data) /\ DataStands(data) /\ data.at = "waits"
  BY DEF DataInv, AwaitsResponse
<1>1. /\ data.got = <<>> /\ data.told = "no" /\ data.task \in {"runs", "done"}
      /\ data.chan \in Seq(Nat) /\ data.made \in Nat
  BY <1>0, UrlAssumption DEF DataStands, DataRec, Items, PieceCounts
<1>2. CASE data.chan = <<>>
  <2>1. data' = WaitsForChunk
    BY <1>2 DEF AwaitsResponse
  <2> QED
    BY <1>0, <1>1, <1>2, <2>1, WaitsForChunkKeeps
<1>3. CASE data.chan # <<>>
  <2>1. PICK q, d : /\ q = Tail(data.chan)
                    /\ d = [data EXCEPT !.parked = FALSE, !.woken = FALSE, !.chan = q]
    OBVIOUS
  <2>2. q \in Items
    BY <1>1, <1>3, <2>1, HeadLeaves DEF Items
  <2>3. d = TakesChunk
    BY <1>0, <2>1 DEF TakesChunk, DataRec
  <2>4. d \in DataRec
    BY <1>0, <2>1, <2>2, Zenon DEF DataRec
  <2>5. /\ d.parked = FALSE /\ d.woken = FALSE /\ d.chan = q
        /\ d.at = data.at /\ d.task = data.task /\ d.head = data.head /\ d.made = data.made
        /\ d.got = data.got /\ d.told = data.told
    BY <1>0, <2>1 DEF DataRec
  <2>6. CASE Head(data.chan) = 0
    <3>1. data.head = "http"
      <4> SUFFICES ASSUME data.head # "http" PROVE FALSE
        OBVIOUS
      <4>1. PICK s, n : s = data.chan /\ n = data.made
        OBVIOUS
      <4>2. Pushed(data, s)
        BY <1>0, <4>1 DEF DataOrder
      <4>3. PICK e \in {CleanEnd, Broken} : CountedTo(s, n, e)
        BY <4>1, <4>2 DEF Pushed, Ended, CountedTo
      <4>4. Len(s) \in Nat /\ Len(s) # 0 /\ s[1] = 0
        BY <1>1, <1>3, <2>6, <4>1, EmptySeq, LenProperties, HeadTailProperties
      <4>5. 1 \in 1 .. Len(s) /\ n \in Nat
        BY <1>1, <4>1, <4>4
      <4>6. s[1] = 1 \/ s[1] = e
        <5>1. StandsAt(s, n, e, 1)
          BY <4>3, <4>5, CountedAt
        <5> QED
          BY <4>4, <4>5, <5>1 DEF StandsAt
      <4>7. e # 0
        BY UrlAssumption DEF CleanEnd, Broken
      <4> QED
        BY <4>4, <4>6, <4>7
    <3>2. PICK s \in Items : Pushed(data, s) /\ data.chan = <<0>> \o s
      BY <1>0, <3>1 DEF DataOrder
    <3>3. q = s /\ <<>> \o s = s
      BY <2>1, <3>2, FrontOf, ConcatEmptySeq DEF Items
    <3>4. "reads" \in DataPlaces
      BY DEF DataPlaces
    <3>5. PICK g : g = [d EXCEPT !.at = "reads"]
      OBVIOUS
    <3>6. data' = g
      BY <1>3, <2>3, <2>6, <3>5 DEF AwaitsResponse
    <3>7. g \in DataRec
      BY <2>4, <3>4, <3>5, Zenon DEF DataRec
    <3>8. /\ g.at = "reads"
          /\ g.task = d.task /\ g.head = d.head /\ g.made = d.made /\ g.chan = d.chan
          /\ g.parked = d.parked /\ g.woken = d.woken /\ g.got = d.got /\ g.told = d.told
      BY <2>4, <3>5 DEF DataRec
    <3>9. Pushed(g, s)
      BY <2>5, <3>2, <3>8 DEF Pushed
    <3>10. g.got \o g.chan = s
      BY <1>1, <2>5, <3>3, <3>8
    <3>11. DataOrder(g)
      BY <1>0, <1>1, <2>5, <3>8, <3>9, <3>10 DEF DataOrder
    <3>12. DataStands(g)
      BY <1>0, <1>1, <2>5, <3>1, <3>8 DEF DataStands
    <3> QED
      BY <3>6, <3>7, <3>11, <3>12 DEF DataInv
  <2>7. CASE Head(data.chan) # 0
    <3>1. "failed" \in DataPlaces
      BY DEF DataPlaces
    <3>2. PICK f, g : f = [d EXCEPT !.at = "failed"] /\ g = CancelTask(f)
      OBVIOUS
    <3>3. data' = g
      BY <1>3, <2>3, <2>7, <3>2 DEF AwaitsResponse
    <3>4. f \in DataRec
      BY <2>4, <3>1, <3>2, Zenon DEF DataRec
    <3>5. /\ f.at = "failed"
          /\ f.task = d.task /\ f.head = d.head /\ f.made = d.made /\ f.chan = d.chan
          /\ f.parked = d.parked /\ f.woken = d.woken /\ f.got = d.got /\ f.told = d.told
      BY <2>4, <3>2 DEF DataRec
    <3>6. /\ f.got = Count(Len(f.got)) /\ Len(f.got) <= f.made
          /\ (f.told = "end" => Len(f.got) = f.made) /\ (f.head = "none" => f.made = 0)
          /\ (f.told # "no" => f.task = "done") /\ (f.told = "error" => f.at = "gone")
          /\ f.at \in {"failed", "gone"}
      BY <1>0, <1>1, <2>5, <3>5 DEF DataOrder, DataStands
    <3> QED
      BY <3>2, <3>3, <3>4, <3>6, CancelKeeps DEF DataInv
  <2> QED
    BY <2>6, <2>7
<1> QED
  BY <1>2, <1>3

LEMMA FramePolledKeeps == DataInv /\ FramePolled => DataInv'
<1> SUFFICES ASSUME DataInv, FramePolled PROVE DataInv'
  OBVIOUS
<1>0. /\ data \in DataRec /\ DataOrder(data) /\ DataStands(data)
      /\ data.at = "reads" /\ data.told = "no"
  BY DEF DataInv, FramePolled
<1>1. /\ data.task \in {"runs", "done"} /\ data.head = "http"
      /\ data.chan \in Seq(Nat) /\ data.got \in Seq(Nat)
  BY <1>0 DEF DataStands, DataRec, Items
<1>2. CASE data.chan = <<>>
  <2>1. data' = WaitsForChunk
    BY <1>2 DEF FramePolled
  <2> QED
    BY <1>0, <1>2, <2>1, WaitsForChunkKeeps
<1>3. CASE data.chan # <<>>
  <2>1. PICK c, q, d : /\ c = Head(data.chan) /\ q = Tail(data.chan)
                       /\ d = [data EXCEPT !.parked = FALSE, !.woken = FALSE, !.chan = q]
    OBVIOUS
  <2>2. q \in Items
    BY <1>1, <1>3, <2>1, HeadLeaves DEF Items
  <2>3. d = TakesChunk
    BY <1>0, <2>1 DEF TakesChunk, DataRec
  <2>4. d \in DataRec
    BY <1>0, <2>1, <2>2, Zenon DEF DataRec
  <2>5. /\ d.parked = FALSE /\ d.woken = FALSE /\ d.chan = q
        /\ d.at = data.at /\ d.task = data.task /\ d.head = data.head /\ d.made = data.made
        /\ d.got = data.got /\ d.told = data.told
    BY <1>0, <2>1 DEF DataRec
  <2>6. /\ c \in Nat /\ c # 0
        /\ c = CleanEnd => data.task = "done" /\ Len(data.got) = data.made
        /\ c = Broken => data.task = "done"
        /\ c \notin {CleanEnd, Broken} => c = Len(data.got) + 1 /\ c <= data.made
    BY <1>0, <1>3, <2>1, NextPiece
  <2>7. CASE c \in {CleanEnd, Broken}
    <3>1. PICK t : t = (IF c = CleanEnd THEN "end" ELSE "error")
      OBVIOUS
    <3>2. t \in DataTellings /\ t # "no" /\ (t = "end" => c = CleanEnd)
      BY <3>1 DEF DataTellings
    <3>3. PICK g : g = [d EXCEPT !.told = t]
      OBVIOUS
    <3>4. data' = g
      BY <1>3, <2>1, <2>3, <2>7, <3>1, <3>3 DEF FramePolled
    <3>5. g \in DataRec
      BY <2>4, <3>2, <3>3, Zenon DEF DataRec
    <3>6. /\ g.told = t
          /\ g.at = d.at /\ g.task = d.task /\ g.head = d.head /\ g.made = d.made
          /\ g.chan = d.chan /\ g.parked = d.parked /\ g.woken = d.woken /\ g.got = d.got
      BY <2>4, <3>3 DEF DataRec
    <3>7. data.task = "done"
      BY <2>6, <2>7
    <3>8. DataOrder(g)
      BY <1>0, <2>5, <2>6, <3>2, <3>6 DEF DataOrder
    <3>9. DataStands(g)
      BY <1>0, <1>1, <2>5, <3>6, <3>7 DEF DataStands
    <3> QED
      BY <3>4, <3>5, <3>8, <3>9 DEF DataInv
  <2>8. CASE c \notin {CleanEnd, Broken}
    <3>1. PICK a, z : a = data.got /\ z = Append(a, c)
      OBVIOUS
    <3>2. a \in Seq(Nat) /\ a = Count(Len(a)) /\ Len(a) \in Nat /\ c = Len(a) + 1
          /\ c <= data.made
      BY <1>0, <1>1, <2>6, <2>8, <3>1, LenProperties DEF DataOrder
    <3>3. z = Count(Len(a) + 1) /\ Len(z) = Len(a) + 1 /\ z \in Seq(Nat)
      <4>1. Append(a, Len(a) + 1) = Count(Len(a) + 1)
        BY <3>2, CountGrows
      <4>2. Len(Append(a, c)) = Len(a) + 1 /\ Append(a, c) \in Seq(Nat)
        BY <2>6, <3>2, AppendProperties
      <4> QED
        BY <3>1, <3>2, <4>1, <4>2
    <3>4. z \in Items
      BY <3>3 DEF Items
    <3>5. PICK g : g = [d EXCEPT !.got = z]
      OBVIOUS
    <3>6. c # 0 /\ c # CleanEnd /\ c # Broken
      BY <2>6, <2>8
    <3>7. data' = [d EXCEPT !.got = Append(@, c)]
      BY <1>3, <2>1, <2>3, <3>6 DEF FramePolled
    <3>8. data' = g
      BY <2>4, <2>5, <3>1, <3>5, <3>7 DEF DataRec
    <3>9. g \in DataRec
      BY <2>4, <3>4, <3>5, Zenon DEF DataRec
    <3>10. /\ g.got = z
           /\ g.at = d.at /\ g.task = d.task /\ g.head = d.head /\ g.made = d.made
           /\ g.chan = d.chan /\ g.parked = d.parked /\ g.woken = d.woken /\ g.told = d.told
      BY <2>4, <3>5 DEF DataRec
    <3>11. g.got \o g.chan = data.got \o data.chan
      <4>1. PICK p : p = data.chan
        OBVIOUS
      <4>2. p \in Seq(Nat) /\ p # <<>> /\ c = Head(p) /\ q = Tail(p)
        BY <1>1, <1>3, <2>1, <4>1
      <4>3. z \o q = a \o p
        <5>1. Append(a, Head(p)) \o Tail(p) = a \o p
          BY ZenonT(60), <3>2, <4>2, NextTaken
        <5> QED
          BY <3>1, <4>2, <5>1
      <4> QED
        BY <2>5, <3>1, <3>10, <4>1, <4>3
    <3>12. Pushed(g, g.got \o g.chan)
      BY <1>0, <2>5, <3>10, <3>11 DEF DataOrder, Pushed
    <3>13. g.got = Count(Len(g.got)) /\ Len(g.got) <= g.made
      BY <2>5, <3>2, <3>3, <3>10
    <3>14. DataOrder(g)
      BY <1>0, <2>5, <3>10, <3>12, <3>13 DEF DataOrder
    <3>15. DataStands(g)
      BY <1>0, <1>1, <2>5, <3>10 DEF DataStands
    <3> QED
      BY <3>8, <3>9, <3>14, <3>15 DEF DataInv
  <2> QED
    BY <2>7, <2>8
<1> QED
  BY <1>2, <1>3

LEMMA DataKeeps == DataInv /\ DataNext => DataInv'
  BY StartTaskKeeps, DidReceiveResponseKeeps, DidReceiveDataKeeps, DidCompleteKeeps,
     AwaitsResponseKeeps, FramePolledKeeps, TransferDroppedKeeps DEF DataNext

LEMMA DataStays == DataInv /\ UNCHANGED data => DataInv'
  BY DEF DataInv

LEMMA DataBegins == DataInit => DataInv
<1> SUFFICES ASSUME DataInit PROVE DataInv
  OBVIOUS
<1>1. /\ "new" \in DataPlaces /\ "none" \in DataTasks /\ "none" \in DataHeads
      /\ "no" \in DataTellings /\ 0 \in PieceCounts /\ <<>> \in Items
  BY UrlAssumption DEF DataPlaces, DataTasks, DataHeads, DataTellings, PieceCounts, Items
<1>2. data = [at |-> "new", task |-> "none", head |-> "none", made |-> 0, chan |-> <<>>,
              parked |-> FALSE, woken |-> FALSE, got |-> <<>>, told |-> "no"]
  BY DEF DataInit
<1>3. data \in DataRec
  BY <1>1, <1>2 DEF DataRec
<1>4. Count(0) = <<>> /\ Len(<<>>) = 0
  BY DEF Count
<1>5. DataOrder(data)
  BY <1>2, <1>4 DEF DataOrder
<1>6. DataStands(data)
  BY <1>2 DEF DataStands
<1> QED
  BY <1>3, <1>5, <1>6 DEF DataInv

LEMMA DataPromise ==
  DataInv => /\ TransferIsWhole
             /\ data.at \in {"new", "waits", "reads", "failed", "gone"}
             /\ data.task \in {"none", "runs", "cancelled", "done"}
<1> SUFFICES ASSUME DataInv
             PROVE  /\ TransferIsWhole /\ data.at \in DataPlaces /\ data.task \in DataTasks
  BY DEF DataPlaces, DataTasks
<1>1. data \in DataRec /\ DataOrder(data) /\ DataStands(data)
  BY DEF DataInv
<1>2. TransferIsWhole
  BY <1>1 DEF TransferIsWhole, DataOrder, DataStands, Count
<1> QED
  BY <1>1, <1>2 DEF DataRec

------------------------------------------------------------------------------
(* The WebSocket task: the messages the caller saw are the first the peer  *)
(* sent, a further one waits in the oneshot, and a side that sleeps has    *)
(* asked.                                                                  *)

OneShots == {"none", "asked", "ok", "failed", "dropped"}
UrlTasks == {"runs", "cancelled"}
SomeHalves == SUBSET {"receiving", "sending"}

SockRec ==
  [receiving : OneShots, message : Nat, sending : OneShots, ended : BOOLEAN,
   closed : BOOLEAN, task : UrlTasks, closeCode : BOOLEAN, sent : Nat, seen : Items,
   parked : SomeHalves, woken : SomeHalves]

SockOrder(s) ==
  /\ s.receiving # "ok" => s.message = 0 /\ (s.seen = Count(s.sent)
                             \/ (s.ended /\ s.seen = Append(Count(s.sent), PeerClose)))
  /\ s.receiving = "ok" => s.message = s.sent /\ s.sent # 0 /\ s.seen = Count(s.sent - 1)
  /\ s.ended => s.receiving = "none"

SockSleeps(s) ==
  /\ s.woken \subseteq s.parked
  /\ "receiving" \in s.parked \ s.woken => s.receiving = "asked"
  /\ "sending" \in s.parked \ s.woken => s.sending = "asked"

SockInv == socket \in SockRec /\ SockOrder(socket) /\ SockSleeps(socket)

\* A oneshot is answered, and its side woken.
LEMMA ReceiveDelivered ==
  ASSUME NEW s \in SockRec, SockSleeps(s), NEW answer \in OneShots,
         NEW g, g = DeliverAnswer(s, "receiving", answer)
  PROVE  /\ g \in SockRec /\ SockSleeps(g) /\ g.receiving = answer
         /\ g.message = s.message /\ g.sending = s.sending /\ g.ended = s.ended
         /\ g.closed = s.closed /\ g.task = s.task /\ g.closeCode = s.closeCode
         /\ g.sent = s.sent /\ g.seen = s.seen /\ g.parked = s.parked
<1>1. PICK w : w = s.woken \cup (s.parked \cap {"receiving"})
  OBVIOUS
<1>2. PICK f, d : f = [s EXCEPT !.receiving = answer] /\ d = [f EXCEPT !.woken = w]
  OBVIOUS
<1>3. w \in SomeHalves
  BY <1>1 DEF SockRec, SomeHalves
<1>4. f \in SockRec
  BY <1>2, Zenon DEF SockRec
<1>5. d \in SockRec
  BY <1>2, <1>3, <1>4, Zenon DEF SockRec
<1>6. /\ f.receiving = answer
      /\ f.message = s.message /\ f.sending = s.sending /\ f.ended = s.ended
      /\ f.closed = s.closed /\ f.task = s.task /\ f.closeCode = s.closeCode
      /\ f.sent = s.sent /\ f.seen = s.seen /\ f.parked = s.parked /\ f.woken = s.woken
  BY <1>2 DEF SockRec
<1>7. /\ d.woken = w
      /\ d.receiving = f.receiving /\ d.message = f.message /\ d.sending = f.sending
      /\ d.ended = f.ended /\ d.closed = f.closed /\ d.task = f.task
      /\ d.closeCode = f.closeCode /\ d.sent = f.sent /\ d.seen = f.seen
      /\ d.parked = f.parked
  BY <1>2, <1>4 DEF SockRec
<1>8. g = d
  BY <1>1, <1>2 DEF SockRec, DeliverAnswer
<1>9. SockSleeps(d)
  BY <1>1, <1>6, <1>7 DEF SockSleeps
<1> QED
  BY <1>5, <1>6, <1>7, <1>8, <1>9

LEMMA SendDelivered ==
  ASSUME NEW s \in SockRec, SockSleeps(s), NEW answer \in OneShots,
         NEW g, g = DeliverAnswer(s, "sending", answer)
  PROVE  /\ g \in SockRec /\ SockSleeps(g)
         /\ g.receiving = s.receiving /\ g.message = s.message /\ g.ended = s.ended
         /\ g.closed = s.closed /\ g.task = s.task /\ g.closeCode = s.closeCode
         /\ g.sent = s.sent /\ g.seen = s.seen /\ g.parked = s.parked
<1>1. PICK w : w = s.woken \cup (s.parked \cap {"sending"})
  OBVIOUS
<1>2. PICK f, d : f = [s EXCEPT !.sending = answer] /\ d = [f EXCEPT !.woken = w]
  OBVIOUS
<1>3. w \in SomeHalves
  BY <1>1 DEF SockRec, SomeHalves
<1>4. f \in SockRec
  BY <1>2, Zenon DEF SockRec
<1>5. d \in SockRec
  BY <1>2, <1>3, <1>4, Zenon DEF SockRec
<1>6. /\ f.sending = answer
      /\ f.receiving = s.receiving /\ f.message = s.message /\ f.ended = s.ended
      /\ f.closed = s.closed /\ f.task = s.task /\ f.closeCode = s.closeCode
      /\ f.sent = s.sent /\ f.seen = s.seen /\ f.parked = s.parked /\ f.woken = s.woken
  BY <1>2 DEF SockRec
<1>7. /\ d.woken = w
      /\ d.receiving = f.receiving /\ d.message = f.message /\ d.sending = f.sending
      /\ d.ended = f.ended /\ d.closed = f.closed /\ d.task = f.task
      /\ d.closeCode = f.closeCode /\ d.sent = f.sent /\ d.seen = f.seen
      /\ d.parked = f.parked
  BY <1>2, <1>4 DEF SockRec
<1>8. g = d
  BY <1>1, <1>2 DEF SockRec, DeliverAnswer
<1>9. SockSleeps(d)
  BY <1>1, <1>6, <1>7 DEF SockSleeps
<1> QED
  BY <1>5, <1>6, <1>7, <1>8, <1>9

LEMMA ReceiveAnsweredKeeps == SockInv /\ ReceiveAnswered => SockInv'
<1> SUFFICES ASSUME SockInv, ReceiveAnswered PROVE SockInv'
  OBVIOUS
<1>0. /\ socket \in SockRec /\ SockOrder(socket) /\ SockSleeps(socket)
      /\ socket.receiving = "asked" /\ socket.sent \in Nat
  BY DEF SockInv, ReceiveAnswered, SockRec
<1>1. "ok" \in OneShots /\ "failed" \in OneShots /\ "dropped" \in OneShots
  BY DEF OneShots
<1>2. CASE socket' = [DeliverAnswer(socket, "receiving", "ok") EXCEPT !.sent = @ + 1,
                                                         !.message = socket.sent + 1]
  <2>1. PICK d, n : d = DeliverAnswer(socket, "receiving", "ok") /\ n = socket.sent + 1
    OBVIOUS
  <2>2. /\ d \in SockRec /\ SockSleeps(d) /\ d.receiving = "ok"
        /\ d.message = socket.message /\ d.sending = socket.sending
        /\ d.ended = socket.ended /\ d.closed = socket.closed /\ d.task = socket.task
        /\ d.closeCode = socket.closeCode /\ d.sent = socket.sent /\ d.seen = socket.seen
        /\ d.parked = socket.parked
    BY SMTT(30), <1>0, <1>1, <2>1, ReceiveDelivered
  <2>3. PICK f, g : f = [d EXCEPT !.sent = n] /\ g = [f EXCEPT !.message = n]
    OBVIOUS
  <2>4. socket' = g
    BY <1>2, <2>1, <2>2, <2>3 DEF SockRec
  <2>5. n \in Nat /\ n # 0 /\ n - 1 = socket.sent
    BY <1>0, <2>1
  <2>6. f \in SockRec
    BY <2>2, <2>3, <2>5, Zenon DEF SockRec
  <2>7. g \in SockRec
    BY <2>3, <2>5, <2>6, Zenon DEF SockRec
  <2>8. /\ f.sent = n
        /\ f.receiving = d.receiving /\ f.message = d.message /\ f.sending = d.sending
        /\ f.ended = d.ended /\ f.closed = d.closed /\ f.task = d.task
        /\ f.closeCode = d.closeCode /\ f.seen = d.seen /\ f.parked = d.parked
        /\ f.woken = d.woken
    BY <2>2, <2>3 DEF SockRec
  <2>9. /\ g.message = n
        /\ g.receiving = f.receiving /\ g.sending = f.sending /\ g.ended = f.ended
        /\ g.closed = f.closed /\ g.task = f.task /\ g.closeCode = f.closeCode
        /\ g.sent = f.sent /\ g.seen = f.seen /\ g.parked = f.parked /\ g.woken = f.woken
    BY <2>3, <2>6 DEF SockRec
  <2>10. socket.seen = Count(socket.sent) /\ ~socket.ended
    BY <1>0 DEF SockOrder
  <2>11. SockOrder(g)
    BY <1>0, <2>2, <2>5, <2>8, <2>9, <2>10 DEF SockOrder
  <2>12. SockSleeps(g)
    BY <2>2, <2>8, <2>9 DEF SockSleeps
  <2> QED
    BY <2>4, <2>7, <2>11, <2>12 DEF SockInv
<1>3. ASSUME NEW code \in {socket.closeCode, TRUE},
             socket' = [DeliverAnswer(socket, "receiving", "failed") EXCEPT !.closeCode = code]
      PROVE  SockInv'
  <2>1. PICK d : d = DeliverAnswer(socket, "receiving", "failed")
    OBVIOUS
  <2>2. /\ d \in SockRec /\ SockSleeps(d) /\ d.receiving = "failed"
        /\ d.message = socket.message /\ d.sending = socket.sending
        /\ d.ended = socket.ended /\ d.closed = socket.closed /\ d.task = socket.task
        /\ d.closeCode = socket.closeCode /\ d.sent = socket.sent /\ d.seen = socket.seen
        /\ d.parked = socket.parked
    BY SMTT(30), <1>0, <1>1, <2>1, ReceiveDelivered
  <2>3. PICK g : g = [d EXCEPT !.closeCode = code]
    OBVIOUS
  <2>4. socket' = g
    BY <1>3, <2>1, <2>3
  <2>5. code \in BOOLEAN
    BY <1>0 DEF SockRec
  <2>6. g \in SockRec
    BY <2>2, <2>3, <2>5, Zenon DEF SockRec
  <2>7. /\ g.closeCode = code
        /\ g.receiving = d.receiving /\ g.message = d.message /\ g.sending = d.sending
        /\ g.ended = d.ended /\ g.closed = d.closed /\ g.task = d.task /\ g.sent = d.sent
        /\ g.seen = d.seen /\ g.parked = d.parked /\ g.woken = d.woken
    BY <2>2, <2>3 DEF SockRec
  <2>8. SockOrder(g) /\ SockSleeps(g)
    BY <1>0, <2>2, <2>7 DEF SockOrder, SockSleeps
  <2> QED
    BY <2>4, <2>6, <2>8 DEF SockInv
<1>4. CASE socket' = DeliverAnswer(socket, "receiving", "dropped")
  <2>1. PICK d : d = DeliverAnswer(socket, "receiving", "dropped")
    OBVIOUS
  <2>2. /\ d \in SockRec /\ SockSleeps(d) /\ d.receiving = "dropped"
        /\ d.message = socket.message /\ d.sending = socket.sending
        /\ d.ended = socket.ended /\ d.closed = socket.closed /\ d.task = socket.task
        /\ d.closeCode = socket.closeCode /\ d.sent = socket.sent /\ d.seen = socket.seen
        /\ d.parked = socket.parked
    BY SMTT(30), <1>0, <1>1, <2>1, ReceiveDelivered
  <2>3. SockOrder(d)
    BY <1>0, <2>2 DEF SockOrder
  <2> QED
    BY <1>4, <2>1, <2>2, <2>3 DEF SockInv
<1> QED
  BY <1>2, <1>3, <1>4 DEF ReceiveAnswered

LEMMA SendAnsweredKeeps == SockInv /\ SendAnswered => SockInv'
<1> SUFFICES ASSUME SockInv, SendAnswered PROVE SockInv'
  OBVIOUS
<1>0. socket \in SockRec /\ SockOrder(socket) /\ SockSleeps(socket)
  BY DEF SockInv
<1>1. PICK answer \in OneShots : socket' = DeliverAnswer(socket, "sending", answer)
  BY DEF SendAnswered, OneShots
<1>2. PICK d : d = DeliverAnswer(socket, "sending", answer)
  OBVIOUS
<1>3. /\ d \in SockRec /\ SockSleeps(d)
      /\ d.receiving = socket.receiving /\ d.message = socket.message
      /\ d.ended = socket.ended /\ d.closed = socket.closed /\ d.task = socket.task
      /\ d.closeCode = socket.closeCode /\ d.sent = socket.sent /\ d.seen = socket.seen
      /\ d.parked = socket.parked
  BY <1>0, <1>2, SendDelivered
<1>4. SockOrder(d)
  BY <1>0, <1>3 DEF SockOrder
<1> QED
  BY <1>1, <1>2, <1>3, <1>4 DEF SockInv

\* A side is polled, and may go to sleep again.
LEMMA HalfAwakes ==
  ASSUME NEW side \in {"receiving", "sending"}, NEW g, g = Awake(side),
         socket \in SockRec, SockSleeps(socket)
  PROVE  /\ g \in SockRec /\ SockSleeps(g) /\ side \notin g.parked /\ side \notin g.woken
         /\ g.receiving = socket.receiving /\ g.message = socket.message
         /\ g.sending = socket.sending /\ g.ended = socket.ended /\ g.closed = socket.closed
         /\ g.task = socket.task /\ g.closeCode = socket.closeCode /\ g.sent = socket.sent
         /\ g.seen = socket.seen
<1>1. PICK p, w : p = socket.parked \ {side} /\ w = socket.woken \ {side}
  OBVIOUS
<1>2. PICK f, d : f = [socket EXCEPT !.parked = p] /\ d = [f EXCEPT !.woken = w]
  OBVIOUS
<1>3. p \in SomeHalves /\ w \in SomeHalves
  BY <1>1 DEF SockRec, SomeHalves
<1>4. f \in SockRec
  BY <1>2, <1>3, Zenon DEF SockRec
<1>5. d \in SockRec
  BY <1>2, <1>3, <1>4, Zenon DEF SockRec
<1>6. /\ f.parked = p
      /\ f.receiving = socket.receiving /\ f.message = socket.message
      /\ f.sending = socket.sending /\ f.ended = socket.ended /\ f.closed = socket.closed
      /\ f.task = socket.task /\ f.closeCode = socket.closeCode /\ f.sent = socket.sent
      /\ f.seen = socket.seen /\ f.woken = socket.woken
  BY <1>2 DEF SockRec
<1>7. /\ d.woken = w
      /\ d.receiving = f.receiving /\ d.message = f.message /\ d.sending = f.sending
      /\ d.ended = f.ended /\ d.closed = f.closed /\ d.task = f.task
      /\ d.closeCode = f.closeCode /\ d.sent = f.sent /\ d.seen = f.seen
      /\ d.parked = f.parked
  BY <1>2, <1>4 DEF SockRec
<1>8. g = d
  BY <1>1, <1>2 DEF SockRec, Awake
<1>9. SockSleeps(d) /\ side \notin d.parked /\ side \notin d.woken
  BY <1>1, <1>6, <1>7 DEF SockSleeps
<1> QED
  BY <1>5, <1>6, <1>7, <1>8, <1>9

LEMMA HalfSleeps ==
  ASSUME NEW side \in {"receiving", "sending"}, NEW s \in SockRec, NEW g, g = Sleeps(s, side)
  PROVE  /\ g \in SockRec /\ g.parked = s.parked \cup {side}
         /\ g.receiving = s.receiving /\ g.message = s.message /\ g.sending = s.sending
         /\ g.ended = s.ended /\ g.closed = s.closed /\ g.task = s.task
         /\ g.closeCode = s.closeCode /\ g.sent = s.sent /\ g.seen = s.seen
         /\ g.woken = s.woken
<1>1. PICK p : p = s.parked \cup {side}
  OBVIOUS
<1>2. PICK d : d = [s EXCEPT !.parked = p]
  OBVIOUS
<1>3. p \in SomeHalves
  BY <1>1 DEF SockRec, SomeHalves
<1>4. d \in SockRec
  BY <1>2, <1>3, Zenon DEF SockRec
<1>5. /\ d.parked = p
      /\ d.receiving = s.receiving /\ d.message = s.message /\ d.sending = s.sending
      /\ d.ended = s.ended /\ d.closed = s.closed /\ d.task = s.task
      /\ d.closeCode = s.closeCode /\ d.sent = s.sent /\ d.seen = s.seen
      /\ d.woken = s.woken
  BY <1>2 DEF SockRec
<1>6. g = d
  BY <1>1, <1>2 DEF SockRec, Sleeps
<1> QED
  BY <1>1, <1>4, <1>5, <1>6

LEMMA MessagePolledKeeps == SockInv /\ MessagePolled => SockInv'
<1> SUFFICES ASSUME SockInv, MessagePolled PROVE SockInv'
  OBVIOUS
<1>0. /\ socket \in SockRec /\ SockOrder(socket) /\ SockSleeps(socket) /\ ~socket.ended
  BY DEF SockInv, MessagePolled
<1>1. PICK a : a = Awake("receiving")
  OBVIOUS
<1>2. /\ a \in SockRec /\ SockSleeps(a)
      /\ "receiving" \notin a.parked /\ "receiving" \notin a.woken
      /\ a.receiving = socket.receiving /\ a.message = socket.message
      /\ a.sending = socket.sending /\ a.ended = socket.ended /\ a.closed = socket.closed
      /\ a.task = socket.task /\ a.closeCode = socket.closeCode /\ a.sent = socket.sent
      /\ a.seen = socket.seen
  BY <1>0, <1>1, HalfAwakes
<1>3. PICK r : r = (IF a.receiving = "none" THEN "asked" ELSE a.receiving)
  OBVIOUS
<1>4. PICK s, t : s = [a EXCEPT !.receiving = r] /\ t = [s EXCEPT !.receiving = "none"]
  OBVIOUS
<1>5. r \in OneShots /\ "none" \in OneShots /\ r # "none" /\ (r = "ok" <=> a.receiving = "ok")
  BY <1>2, <1>3 DEF SockRec, OneShots
<1>6. s \in SockRec
  BY <1>2, <1>4, <1>5, Zenon DEF SockRec
<1>7. t \in SockRec
  BY <1>4, <1>5, <1>6, Zenon DEF SockRec
<1>8. /\ s.receiving = r
      /\ s.message = a.message /\ s.sending = a.sending /\ s.ended = a.ended
      /\ s.closed = a.closed /\ s.task = a.task /\ s.closeCode = a.closeCode
      /\ s.sent = a.sent /\ s.seen = a.seen /\ s.parked = a.parked /\ s.woken = a.woken
  BY <1>2, <1>4 DEF SockRec
<1>9. /\ t.receiving = "none"
      /\ t.message = s.message /\ t.sending = s.sending /\ t.ended = s.ended
      /\ t.closed = s.closed /\ t.task = s.task /\ t.closeCode = s.closeCode
      /\ t.sent = s.sent /\ t.seen = s.seen /\ t.parked = s.parked /\ t.woken = s.woken
  BY <1>4, <1>6 DEF SockRec
<1>10. socket' = CASE s.receiving = "asked" -> Sleeps(s, "receiving")
                   [] s.receiving = "ok" -> [t EXCEPT !.seen = Append(@, s.message),
                                                      !.message = 0]
                   [] s.receiving = "failed" /\ s.closeCode ->
                        [t EXCEPT !.ended = TRUE, !.seen = Append(@, PeerClose)]
                   [] OTHER -> [t EXCEPT !.ended = TRUE]
  <2>1. s = [Awake("receiving") EXCEPT !.receiving = IF @ = "none" THEN "asked" ELSE @]
    BY <1>1, <1>2, <1>3, <1>4 DEF SockRec
  <2> QED
    BY <1>4, <2>1 DEF MessagePolled
<1>11. socket.seen \in Seq(Nat) /\ socket.sent \in Nat /\ socket.message \in Nat /\ PeerClose \in Nat
  BY <1>0, UrlAssumption DEF SockRec, Items, PeerClose
<1>12. SockSleeps(t)
  BY <1>2, <1>8, <1>9 DEF SockSleeps
<1>13. CASE r = "asked"
  <2>1. PICK g : g = Sleeps(s, "receiving")
    OBVIOUS
  <2>2. /\ g \in SockRec /\ g.parked = s.parked \cup {"receiving"}
        /\ g.receiving = s.receiving /\ g.message = s.message /\ g.sending = s.sending
        /\ g.ended = s.ended /\ g.closed = s.closed /\ g.task = s.task
        /\ g.closeCode = s.closeCode /\ g.sent = s.sent /\ g.seen = s.seen
        /\ g.woken = s.woken
    BY <1>6, <2>1, HalfSleeps
  <2>3. socket' = g
    BY <1>8, <1>10, <1>13, <2>1
  <2>4. SockOrder(g)
    BY <1>0, <1>2, <1>3, <1>8, <1>13, <2>2 DEF SockOrder
  <2>5. SockSleeps(g)
    BY <1>2, <1>8, <1>13, <2>2 DEF SockSleeps
  <2> QED
    BY <2>2, <2>3, <2>4, <2>5 DEF SockInv
<1>14. CASE r = "ok"
  <2>1. PICK q : q = Append(socket.seen, socket.message)
    OBVIOUS
  <2>2. PICK f, g : f = [t EXCEPT !.seen = q] /\ g = [f EXCEPT !.message = 0]
    OBVIOUS
  <2>3. socket' = [t EXCEPT !.seen = Append(@, s.message), !.message = 0]
    BY <1>8, <1>10, <1>14
  <2>4. socket' = g
    BY <1>2, <1>7, <1>8, <1>9, <2>1, <2>2, <2>3 DEF SockRec
  <2>5. q \in Items
    BY <1>11, <2>1, AppendProperties DEF Items
  <2>6. f \in SockRec
    BY <1>7, <2>2, <2>5, Zenon DEF SockRec
  <2>7. g \in SockRec
    BY <2>2, <2>6, Zenon DEF SockRec
  <2>8. /\ f.seen = q
        /\ f.receiving = t.receiving /\ f.message = t.message /\ f.sending = t.sending
        /\ f.ended = t.ended /\ f.closed = t.closed /\ f.task = t.task
        /\ f.closeCode = t.closeCode /\ f.sent = t.sent /\ f.parked = t.parked
        /\ f.woken = t.woken
    BY <1>7, <2>2 DEF SockRec
  <2>9. /\ g.message = 0
        /\ g.receiving = f.receiving /\ g.sending = f.sending /\ g.ended = f.ended
        /\ g.closed = f.closed /\ g.task = f.task /\ g.closeCode = f.closeCode
        /\ g.sent = f.sent /\ g.seen = f.seen /\ g.parked = f.parked /\ g.woken = f.woken
    BY <2>2, <2>6 DEF SockRec
  <2>10. /\ socket.message = socket.sent /\ socket.sent # 0
         /\ socket.seen = Count(socket.sent - 1)
    BY <1>0, <1>2, <1>5, <1>14 DEF SockOrder
  <2>11. q = Count(socket.sent)
    <3>1. PICK n : n = socket.sent - 1
      OBVIOUS
    <3>2. n \in Nat /\ n + 1 = socket.sent
      BY <1>11, <2>10, <3>1
    <3>3. Append(Count(n), n + 1) = Count(n + 1)
      BY <3>2, CountGrows
    <3> QED
      BY <2>1, <2>10, <3>1, <3>2, <3>3
  <2>12. SockOrder(g)
    BY <1>0, <1>2, <1>8, <1>9, <2>8, <2>9, <2>11 DEF SockOrder
  <2>13. SockSleeps(g)
    BY <1>12, <2>8, <2>9 DEF SockSleeps
  <2> QED
    BY <2>4, <2>7, <2>12, <2>13 DEF SockInv
<1>15. CASE r = "failed" /\ s.closeCode
  <2>1. PICK q : q = Append(socket.seen, PeerClose)
    OBVIOUS
  <2>2. PICK f, g : f = [t EXCEPT !.ended = TRUE] /\ g = [f EXCEPT !.seen = q]
    OBVIOUS
  <2>3. socket' = [t EXCEPT !.ended = TRUE, !.seen = Append(@, PeerClose)]
    BY <1>8, <1>10, <1>15
  <2>4. socket' = g
    BY <1>2, <1>7, <1>8, <1>9, <2>1, <2>2, <2>3 DEF SockRec
  <2>5. q \in Items
    BY <1>11, <2>1, AppendProperties DEF Items
  <2>6. f \in SockRec
    BY <1>7, <2>2, Zenon DEF SockRec
  <2>7. g \in SockRec
    BY <2>2, <2>5, <2>6, Zenon DEF SockRec
  <2>8. /\ f.ended = TRUE
        /\ f.receiving = t.receiving /\ f.message = t.message /\ f.sending = t.sending
        /\ f.closed = t.closed /\ f.task = t.task /\ f.closeCode = t.closeCode
        /\ f.sent = t.sent /\ f.seen = t.seen /\ f.parked = t.parked /\ f.woken = t.woken
    BY <1>7, <2>2 DEF SockRec
  <2>9. /\ g.seen = q
        /\ g.receiving = f.receiving /\ g.message = f.message /\ g.sending = f.sending
        /\ g.ended = f.ended /\ g.closed = f.closed /\ g.task = f.task
        /\ g.closeCode = f.closeCode /\ g.sent = f.sent /\ g.parked = f.parked
        /\ g.woken = f.woken
    BY <2>2, <2>6 DEF SockRec
  <2>10. socket.message = 0 /\ socket.seen = Count(socket.sent)
    BY <1>0, <1>2, <1>5, <1>15 DEF SockOrder
  <2>11. SockOrder(g)
    BY <1>2, <1>8, <1>9, <2>1, <2>8, <2>9, <2>10 DEF SockOrder
  <2>12. SockSleeps(g)
    BY <1>12, <2>8, <2>9 DEF SockSleeps
  <2> QED
    BY <2>4, <2>7, <2>11, <2>12 DEF SockInv
<1>16. CASE r # "asked" /\ r # "ok" /\ ~(r = "failed" /\ s.closeCode)
  <2>1. PICK g : g = [t EXCEPT !.ended = TRUE]
    OBVIOUS
  <2>2. socket' = g
    BY <1>8, <1>10, <1>16, <2>1
  <2>3. g \in SockRec
    BY <1>7, <2>1, Zenon DEF SockRec
  <2>4. /\ g.ended = TRUE
        /\ g.receiving = t.receiving /\ g.message = t.message /\ g.sending = t.sending
        /\ g.closed = t.closed /\ g.task = t.task /\ g.closeCode = t.closeCode
        /\ g.sent = t.sent /\ g.seen = t.seen /\ g.parked = t.parked /\ g.woken = t.woken
    BY <1>7, <2>1 DEF SockRec
  <2>5. socket.message = 0 /\ socket.seen = Count(socket.sent)
    BY <1>0, <1>2, <1>5, <1>16 DEF SockOrder
  <2>6. SockOrder(g)
    BY <1>2, <1>8, <1>9, <2>4, <2>5 DEF SockOrder
  <2>7. SockSleeps(g)
    BY <1>12, <2>4 DEF SockSleeps
  <2> QED
    BY <2>2, <2>3, <2>6, <2>7 DEF SockInv
<1> QED
  BY <1>13, <1>14, <1>15, <1>16

LEMMA SendsMessageKeeps == SockInv /\ SendsMessage => SockInv'
<1> SUFFICES ASSUME SockInv, SendsMessage PROVE SockInv'
  OBVIOUS
<1>0. socket \in SockRec /\ SockOrder(socket) /\ SockSleeps(socket)
  BY DEF SockInv
<1>1. PICK g : g = [socket EXCEPT !.sending = "asked"]
  OBVIOUS
<1>2. "asked" \in OneShots
  BY DEF OneShots
<1>3. g \in SockRec
  BY <1>0, <1>1, <1>2, Zenon DEF SockRec
<1>4. /\ g.sending = "asked"
      /\ g.receiving = socket.receiving /\ g.message = socket.message
      /\ g.ended = socket.ended /\ g.closed = socket.closed /\ g.task = socket.task
      /\ g.closeCode = socket.closeCode /\ g.sent = socket.sent /\ g.seen = socket.seen
      /\ g.parked = socket.parked /\ g.woken = socket.woken
  BY <1>0, <1>1 DEF SockRec
<1>5. SockOrder(g) /\ SockSleeps(g)
  BY <1>0, <1>4 DEF SockOrder, SockSleeps
<1> QED
  BY <1>1, <1>3, <1>5 DEF SockInv, SendsMessage

LEMMA ClosesSocketKeeps == SockInv /\ ClosesSocket => SockInv'
<1> SUFFICES ASSUME SockInv, ClosesSocket PROVE SockInv'
  OBVIOUS
<1>0. socket \in SockRec /\ SockOrder(socket) /\ SockSleeps(socket)
  BY DEF SockInv
<1>1. PICK f, g : f = [socket EXCEPT !.closed = TRUE] /\ g = [f EXCEPT !.task = "cancelled"]
  OBVIOUS
<1>2. "cancelled" \in UrlTasks
  BY DEF UrlTasks
<1>3. f \in SockRec
  BY <1>0, <1>1, Zenon DEF SockRec
<1>4. g \in SockRec
  BY <1>1, <1>2, <1>3, Zenon DEF SockRec
<1>5. /\ g.task = "cancelled"
      /\ g.receiving = socket.receiving /\ g.message = socket.message
      /\ g.sending = socket.sending /\ g.ended = socket.ended
      /\ g.closeCode = socket.closeCode /\ g.sent = socket.sent /\ g.seen = socket.seen
      /\ g.parked = socket.parked /\ g.woken = socket.woken
  BY <1>0, <1>1 DEF SockRec
<1>6. SockOrder(g) /\ SockSleeps(g)
  BY <1>0, <1>5 DEF SockOrder, SockSleeps
<1>7. socket' = g
  BY <1>0, <1>1 DEF SockRec, ClosesSocket
<1> QED
  BY <1>4, <1>6, <1>7 DEF SockInv

LEMMA SendFlushedKeeps == SockInv /\ SendFlushed => SockInv'
<1> SUFFICES ASSUME SockInv, SendFlushed PROVE SockInv'
  OBVIOUS
<1>0. socket \in SockRec /\ SockOrder(socket) /\ SockSleeps(socket)
  BY DEF SockInv
<1>1. PICK a : a = Awake("sending")
  OBVIOUS
<1>2. /\ a \in SockRec /\ SockSleeps(a)
      /\ "sending" \notin a.parked /\ "sending" \notin a.woken
      /\ a.receiving = socket.receiving /\ a.message = socket.message
      /\ a.sending = socket.sending /\ a.ended = socket.ended /\ a.closed = socket.closed
      /\ a.task = socket.task /\ a.closeCode = socket.closeCode /\ a.sent = socket.sent
      /\ a.seen = socket.seen
  BY <1>0, <1>1, HalfAwakes
<1>3. CASE socket.sending = "asked"
  <2>1. PICK g : g = Sleeps(a, "sending")
    OBVIOUS
  <2>2. /\ g \in SockRec /\ g.parked = a.parked \cup {"sending"}
        /\ g.receiving = a.receiving /\ g.message = a.message /\ g.sending = a.sending
        /\ g.ended = a.ended /\ g.closed = a.closed /\ g.task = a.task
        /\ g.closeCode = a.closeCode /\ g.sent = a.sent /\ g.seen = a.seen
        /\ g.woken = a.woken
    BY <1>2, <2>1, HalfSleeps
  <2>3. socket' = g
    BY <1>1, <1>3, <2>1 DEF SendFlushed
  <2>4. SockOrder(g) /\ SockSleeps(g)
    BY <1>0, <1>2, <1>3, <2>2 DEF SockOrder, SockSleeps
  <2> QED
    BY <2>2, <2>3, <2>4 DEF SockInv
<1>4. CASE socket.sending # "asked"
  <2>1. PICK g : g = [a EXCEPT !.sending = "none"]
    OBVIOUS
  <2>2. "none" \in OneShots
    BY DEF OneShots
  <2>3. g \in SockRec
    BY <1>2, <2>1, <2>2, Zenon DEF SockRec
  <2>4. /\ g.sending = "none"
        /\ g.receiving = a.receiving /\ g.message = a.message /\ g.ended = a.ended
        /\ g.closed = a.closed /\ g.task = a.task /\ g.closeCode = a.closeCode
        /\ g.sent = a.sent /\ g.seen = a.seen /\ g.parked = a.parked /\ g.woken = a.woken
    BY <1>2, <2>1 DEF SockRec
  <2>5. socket' = g
    BY <1>1, <1>4, <2>1 DEF SendFlushed
  <2>6. SockOrder(g) /\ SockSleeps(g)
    BY <1>0, <1>2, <2>4 DEF SockOrder, SockSleeps
  <2> QED
    BY <2>3, <2>5, <2>6 DEF SockInv
<1> QED
  BY <1>3, <1>4

LEMMA SockKeeps == SockInv /\ UrlSocketNext => SockInv'
  BY ReceiveAnsweredKeeps, SendAnsweredKeeps, MessagePolledKeeps, SendsMessageKeeps,
     ClosesSocketKeeps, SendFlushedKeeps DEF UrlSocketNext

LEMMA SockStays == SockInv /\ UNCHANGED socket => SockInv'
  BY DEF SockInv

LEMMA SockBegins == SocketInit => SockInv
<1> SUFFICES ASSUME SocketInit PROVE SockInv
  OBVIOUS
<1>1. "none" \in OneShots /\ "runs" \in UrlTasks /\ {} \in SomeHalves /\ <<>> \in Items
  BY DEF OneShots, UrlTasks, SomeHalves, Items
<1>2. socket = [receiving |-> "none", message |-> 0, sending |-> "none", ended |-> FALSE,
                closed |-> FALSE, task |-> "runs", closeCode |-> FALSE, sent |-> 0,
                seen |-> <<>>, parked |-> {}, woken |-> {}]
  BY DEF SocketInit
<1>3. socket \in SockRec
  BY <1>1, <1>2 DEF SockRec
<1>4. Count(0) = <<>>
  BY DEF Count
<1>5. SockOrder(socket) /\ SockSleeps(socket)
  BY <1>2, <1>4 DEF SockOrder, SockSleeps
<1> QED
  BY <1>3, <1>5 DEF SockInv

LEMMA SockPromise ==
  SockInv => /\ MessagesAreWhole
             /\ socket.receiving \in {"none", "asked", "ok", "failed", "dropped"}
             /\ socket.sending \in {"none", "asked", "ok", "failed", "dropped"}
             /\ socket.woken \subseteq socket.parked
<1> SUFFICES ASSUME SockInv
             PROVE  /\ MessagesAreWhole
                    /\ socket.receiving \in OneShots /\ socket.sending \in OneShots
                    /\ socket.woken \subseteq socket.parked
  BY DEF OneShots
<1>1. socket \in SockRec /\ SockOrder(socket) /\ SockSleeps(socket)
  BY DEF SockInv
<1>2. /\ socket.receiving \in OneShots /\ socket.sending \in OneShots
      /\ socket.seen \in Seq(Nat) /\ socket.message \in Nat /\ socket.sent \in Nat
      /\ socket.parked \in SUBSET {"receiving", "sending"}
  BY <1>1 DEF SockRec, Items, SomeHalves
<1>3. PICK n, q : n = socket.sent /\ q = socket.seen
  OBVIOUS
<1>4. PICK w : w = (IF socket.message = 0 THEN <<>> ELSE <<socket.message>>)
  OBVIOUS
<1>5. q \o w = Count(n) \/ (socket.ended /\ q \o w = Append(Count(n), PeerClose))
  <2>1. CASE socket.receiving # "ok"
    <3>1. w = <<>> /\ (q = Count(n) \/ (socket.ended /\ q = Append(Count(n), PeerClose)))
      BY <1>1, <1>3, <1>4, <2>1 DEF SockOrder
    <3>2. q \o <<>> = q
      BY <1>2, <1>3, ConcatEmptySeq
    <3> QED
      BY <3>1, <3>2
  <2>2. CASE socket.receiving = "ok"
    <3>1. socket.message = n /\ n # 0 /\ q = Count(n - 1) /\ n \in Nat
      BY <1>1, <1>2, <1>3, <2>2 DEF SockOrder
    <3>2. w = <<n>>
      BY <1>4, <3>1
    <3>3. PICK k : k = n - 1
      OBVIOUS
    <3>4. k \in Nat /\ k + 1 = n
      BY <3>1, <3>3
    <3>5. Append(Count(k), k + 1) = Count(k + 1)
      BY <3>4, CountGrows
    <3>6. q \in Seq(Nat) /\ q \o <<n>> = Append(q, n)
      BY <1>2, <1>3, <3>1, AppendIsConcat
    <3> QED
      BY <3>1, <3>2, <3>3, <3>4, <3>5, <3>6
  <2> QED
    BY <2>1, <2>2
<1>6. \A h \in socket.parked \ socket.woken : socket[h] = "asked"
  BY <1>1, <1>2 DEF SockSleeps
<1> QED
  BY <1>1, <1>2, <1>3, <1>4, <1>5, <1>6 DEF MessagesAreWhole, SockSleeps, Count

LEMMA UrlPromise == DataInv /\ SockInv => UrlSessionHolds
  BY SMTT(30), DataPromise, SockPromise DEF UrlSessionHolds, UrlTypeOK

------------------------------------------------------------------------------
(* The composition.                                                        *)

\* A step of the composition is a step of a part, or leaves it alone.
LEMMA PartsMove ==
  [TransportNext]_transportVars =>
    /\ [H3Next]_h3Vars
    /\ [FanNext]_fanVars
    /\ [GateNext]_gateVars
    /\ [WtMoves]_wtVars
    /\ [ExNext]_exVars
    /\ [LayersNext]_layersVars
    /\ [DialNext]_dialVars
    /\ [WriterNext]_writer
    /\ [RelayNext]_relayVars
    /\ [HsNext]_hsVars
    /\ [KaNext]_kaVars
    /\ [WsNext]_wsVars
    /\ [EmbassyNext]_embassyVars
    /\ [TlsNext]_tls
    /\ [FetchNext]_fetch
    /\ [PageNext]_page
    /\ [WinNext]_win
    /\ [DataNext]_data
    /\ [UrlSocketNext]_socket
<1> SUFFICES ASSUME [TransportNext]_transportVars
             PROVE  /\ [H3Next]_h3Vars
                    /\ [FanNext]_fanVars
                    /\ [GateNext]_gateVars
                    /\ [WtMoves]_wtVars
                    /\ [ExNext]_exVars
                    /\ [LayersNext]_layersVars
                    /\ [DialNext]_dialVars
                    /\ [WriterNext]_writer
                    /\ [RelayNext]_relayVars
                    /\ [HsNext]_hsVars
                    /\ [KaNext]_kaVars
                    /\ [WsNext]_wsVars
                    /\ [EmbassyNext]_embassyVars
                    /\ [TlsNext]_tls
                    /\ [FetchNext]_fetch
                    /\ [PageNext]_page
                    /\ [WinNext]_win
                    /\ [DataNext]_data
                    /\ [UrlSocketNext]_socket
  OBVIOUS
<1>1. CASE UNCHANGED transportVars
  BY <1>1 DEF transportVars, h3Vars, fanVars, gateVars, wtVars, exVars, layersVars, dialVars, relayVars, hsVars,
              kaVars, wsVars, embassyVars
<1>2. CASE H3Moves
  BY <1>2 DEF H3Moves, StillTunnel, StillBodies, StillWakers, StillHandshake, StillSockets, StillSeams
<1>3. CASE HandshakeMoves
  BY <1>3 DEF HandshakeMoves, StillH3, StillTunnel, StillBodies, StillWakers, StillSockets, StillSeams
<1>4. CASE BodyMoves
  <2>1. [ExNext]_exVars /\ [LayersNext]_layersVars
    BY <1>4 DEF BodyMoves
  <2> QED
    BY <1>4, <2>1 DEF BodyMoves, StillH3, StillTunnel, StillWakers, StillHandshake, StillSockets, StillSeams
<1>5. CASE WakerMoves
  <2>1. [FanNext]_fanVars /\ [GateNext]_gateVars /\ [KaNext]_kaVars
    BY <1>5 DEF WakerMoves
  <2> QED
    BY <1>5, <2>1 DEF WakerMoves, StillH3, StillTunnel, StillBodies, StillHandshake, StillSockets, StillSeams
<1>6. CASE SocketMoves
  <2>1. [WsNext]_wsVars /\ [WtMoves]_wtVars
    BY <1>6 DEF SocketMoves, WtMoves
  <2> QED
    BY <1>6, <2>1 DEF SocketMoves, StillH3, StillTunnel, StillBodies, StillWakers, StillHandshake, StillSeams
<1>7. CASE TunnelMoves
  <2>1. [DialNext]_dialVars /\ [WriterNext]_writer /\ [RelayNext]_relayVars
    BY <1>7 DEF TunnelMoves
  <2> QED
    BY <1>7, <2>1 DEF TunnelMoves, StillH3, StillBodies, StillWakers, StillHandshake, StillSockets, StillSeams
<1>8. CASE SeamMoves
  <2>1. [EmbassyNext]_embassyVars /\ [TlsNext]_tls
    BY <1>8 DEF SeamMoves
  <2> QED
    BY <1>8, <2>1 DEF SeamMoves, StillH3, StillTunnel, StillBodies, StillWakers, StillHandshake, StillSockets
<1>9. CASE PlatformMoves
  <2>1. [FetchNext]_fetch /\ [PageNext]_page /\ [WinNext]_win /\ [DataNext]_data /\ [UrlSocketNext]_socket
    BY <1>9 DEF PlatformMoves
  <2> QED
    BY <1>9, <2>1 DEF PlatformMoves, StillH3, StillTunnel, StillBodies, StillWakers, StillHandshake, StillSockets
<1> QED
  BY <1>1, <1>2, <1>3, <1>4, <1>5, <1>6, <1>7, <1>8, <1>9 DEF TransportNext

\* Requests that share HTTP/3 connections: early data only for those that
\* allow it, one Closed event per connection and none of a live one, and no
\* second arrival where early data was not rejected (http3/staged.rs, mod.rs).
THEOREM H3IsSound ==
  TransportSpec => []H3Holds
<1>1. TransportInit => H3Inv
  BY H3Initially DEF TransportInit
<1>2. H3Inv /\ [TransportNext]_transportVars => H3Inv'
  BY PartsMove, H3Inductive
<1> QED
  BY <1>1, <1>2, H3Promise, PTL DEF TransportSpec

\* Of the tasks that share one waker slot none that waits is forgotten, and the
\* body behind `Expect: 100-continue' neither goes early nor waits for ever, for
\* any number of tasks (runtime.rs WakeAll, tunnel.rs Waiters, body.rs).
THEOREM NobodyWaitsForNothing ==
  TransportSpec => []WakersHold
<1>1. TransportInit => FanInv /\ GateInv
  BY FanBegins, GateBegins DEF TransportInit
<1>2. FanInv /\ GateInv /\ [TransportNext]_transportVars => FanInv' /\ GateInv'
  BY PartsMove, FanStep, GateStep
<1>3. FanInv /\ GateInv => WakersHold
  BY DEF FanInv, GateInv, FanHolds, WakersHold
<1> QED
  BY <1>1, <1>2, <1>3, PTL DEF TransportSpec

\* WebTransport sessions keep the peer's limit however they race, no datagram
\* waits beside a sleeping listener, and the end a session is told is that of
\* its whole stream, for any number of sessions, datagrams and capsules
\* (hclient-webtransport).
THEOREM SessionsAreSound ==
  TransportSpec => []WtHolds
<1>1. TransportInit => WtInv
  BY SessionsBegin, WatchBegins DEF TransportInit, WtInv
<1>2. WtInv /\ [TransportNext]_transportVars => WtInv'
  BY PartsMove, WtStep
<1> QED
  BY <1>1, <1>2, WtInvHolds, PTL DEF TransportSpec

\* However an upload over HTTP/2 and its answer interleave, a stream that was
\* ended carried the whole body, only a clean connection goes back to the pool,
\* and no stream is left half-open, for any number and size of chunks (http2.rs).
THEOREM ExchangesAreSound ==
  TransportSpec => []ExchangeHolds
<1>1. TransportInit => ExInv
  BY ExBegins DEF TransportInit
<1>2. ExInv /\ [TransportNext]_transportVars => ExInv'
  BY PartsMove, ExStep
<1> QED
  BY <1>1, <1>2, ExInvHolds, PTL DEF TransportSpec

\* A body that ends without an error was read, decoded and delivered whole, the
\* response store is given whole bodies only, and the caller's limit is exact,
\* for bodies, limits and timeouts of any size (idle.rs, cached.rs, deadline.rs,
\* decompress.rs, limit.rs).
THEOREM BodiesAreWhole ==
  TransportSpec => []LayersHold
<1>1. TransportInit => LayersInv
  BY LayersBegin DEF TransportInit
<1>2. LayersInv /\ [TransportNext]_transportVars => LayersInv'
  BY PartsMove, LayersStep
<1> QED
  BY <1>1, <1>2, LayersPromise, PTL DEF TransportSpec

\* HTTP/2 keeps half of a tunnel's bound however HTTP/3 came to its end, and a
\* body is timed out for the silence of its peer and never for its reader's.
THEOREM DeadlinesAreKept ==
  TransportSpec => DeadlinesHold
<1>1. TransportInit => LayersInv /\ DialInv
  BY LayersBegin, DialBegins DEF TransportInit
<1>2. LayersInv /\ DialInv /\ [TransportNext]_transportVars =>
        LayersInv' /\ DialInv' /\ [BodyInTime]_layersVars /\ [ShareIsKept]_dialVars
  BY PartsMove, LayersStep, DialStep
<1> QED
  BY <1>1, <1>2, PTL
  DEF TransportSpec, DeadlinesHold, TimeoutsAreDue, H2KeepsItsShare, BodyInTime, ShareIsKept
=============================================================================
