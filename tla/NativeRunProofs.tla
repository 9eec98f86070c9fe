--------------------------- MODULE NativeRunProofs --------------------------
(***************************************************************************)
(* Native::run, for any number of requests, connections and origins: it    *)
(* uses its pool only as Pool allows, which gives it custody of its        *)
(* connections; a request is written at most once; a connection serves     *)
(* what it was opened for; the single-flight mark is held only while its   *)
(* owner connects; and an exclusive connection's end is reported once.     *)
(***************************************************************************)
EXTENDS NativeRun, TLAPS

\* The calls Pool sees, and the pool's theorems for them.  None of those that are
\* used here speaks of the background task, so any value may stand for it.
Call == [r \in Reqs |-> CallOf(r)]

PP == INSTANCE PoolProofs WITH
        Keys <- PoolKeys, H2Keys <- H2Parts \X {"H2"}, Callers <- Reqs,
        call <- Call, transport <- TRUE, reaper <- [st |-> "asleep", at |-> 0]

ReqType ==
  [pc : Running \cup {"idle", "failed", "body", "tail"},
   now : 0..MaxTime, part : Parts, pin : {"any", "H1", "H2"},
   proto : {"H1", "H2"}, conn : Conns \cup {NoConn},
   dialed : BOOLEAN, reuse : BOOLEAN, wire : 0..2]

ConnType == [kind : {"gone", "H1", "H2", "shared"}, part : Parts,
             peer : {"open", "closed"}, driver : BOOLEAN]

Looking == {"look", "probe", "dial"}

\* A request q whose connection, if it has one, is of this kind and part.
ReqFits(q, kind, part) ==
  /\ q.pc \in Using =>
       /\ q.conn \in Conns /\ kind # "gone" /\ part = q.part
       /\ Admissible(q.pin, IF kind = "H1" THEN "H1" ELSE "H2")
       /\ q.proto = "H1" <=> kind = "H1"
  /\ q.pc \notin Using => q.conn = NoConn
  /\ q.pc \in Using \ {"probe"} /\ q.reuse => kind # "shared"
  /\ q.wire = IF q.pc \in {"sent", "body"} THEN 1 ELSE 0
  /\ q.pc \in Looking \cup {"gate"} => ~q.dialed
  /\ q.proto = "H2" => q.part \in H2Parts

ReqsInv == \A r \in Reqs : ReqFits(req[r], conn[req[r].conn].kind, conn[req[r].conn].part)

\* What RightConnection says of the entry e in bucket k.
EntryFits(e, k, kind, part) ==
  /\ part = k[1] /\ kind \in (IF k[2] = "H1" THEN {"H1"} ELSE {"H2", "shared"})
  /\ e.shared <=> kind = "shared"

EntriesInv ==
  \A k \in PoolKeys : \A i \in DOMAIN idle[k] :
    EntryFits(idle[k][i], k, conn[idle[k][i].conn].kind, conn[idle[k][i].conn].part)

\* A connection of kind "gone" is Gone; drivers run shared ones, which only a
\* sharing transport has.
ConnFits(x) ==
  /\ x \in ConnType
  /\ x.kind = "gone" => x = Gone
  /\ x.driver => x.kind = "shared"
  /\ x.kind = "shared" => sharing

ConnsInv == \A c \in Conns : ConnFits(conn[c])

\* A task with the guard looks for a connection or opens one, for the key of its
\* request; a waiting one is at the gate.
FlightInv ==
  /\ \A r \in Reqs :
       /\ flight[r] \in {"guarded", "bare"} => req[r].pc \in Looking /\ want[r] = req[r].part
       /\ flight[r] \in {"begun", "parked", "woken", "resolved"} =>
            req[r].pc = "gate" /\ want[r] = req[r].part
  /\ \A p \in Parts : mark[p] => \E r \in Reqs : flight[r] = "guarded" /\ want[r] = p

Typed ==
  /\ sharing \in BOOLEAN /\ SF!SFTypeOK
  /\ conn \in [Conns -> ConnType] /\ closes \in [Conns -> 0..2]
  /\ req \in [Reqs -> ReqType]

\* The transport's part of the inductive invariant, beside the pool's.
Local == Typed /\ ReqsInv /\ EntriesInv /\ ConnsInv /\ FlightInv /\ ExclusiveClosesOnce

NRInv == Local /\ PP!PoolInv

-----------------------------------------------------------------------------
(* The pool's operators, the three ways the modules reach them.            *)

LEMMA PoolAssumptions ==
  /\ NoConn \notin Conns /\ MaxTime \in Nat /\ PoolKeys # {}
  /\ H2Parts \X {"H2"} \subseteq PoolKeys
<1>1. PICK p \in Parts : TRUE
  BY NativeConstants
<1>2. <<p, "H1">> \in PoolKeys
  BY DEF PoolKeys
<1>3. H2Parts \X {"H2"} \subseteq PoolKeys
  BY NativeConstants DEF PoolKeys
<1> QED
  BY <1>2, <1>3, NativeConstants

LEMMA SameOps ==
  ASSUME NEW b, NEW now, NEW clk, NEW e, NEW c
  PROVE  /\ PP!TakeFrom(b, now, clk) = TakeFrom(b, now, clk)
         /\ PP!PutIn(b, e) = PutIn(b, e)
         /\ PP!ForgetIn(b, c) = ForgetIn(b, c)
         /\ PP!ReapIn(b, now) = ReapIn(b, now)
<1>1. PP!Live(b, now) = Live(b, now) /\ PP!PutIn(b, e) = PutIn(b, e)
  BY DEF PP!Live, Live, PP!PutIn, PutIn
<1>2. PP!TakeFrom(b, now, clk) = TakeFrom(b, now, clk)
  BY DEF PP!TakeFrom, TakeFrom, PP!Live, Live, PP!Idle, Idle
<1>3. PP!ForgetIn(b, c) = ForgetIn(b, c)
  BY DEF PP!ForgetIn, ForgetIn, PP!Retain, Retain
<1>4. PP!ReapIn(b, now) = ReapIn(b, now)
  BY DEF PP!ReapIn, ReapIn, PP!Retain, Retain, PP!Live, Live
<1> QED
  BY <1>1, <1>2, <1>3, <1>4

\* Pool in NativeRun and in the instance of its proofs are the same.
LEMMA SamePool ==
  /\ P!PoolInit <=> PP!PoolInit
  /\ P!PoolNext <=> PP!PoolNext
  /\ P!poolVars = PP!poolVars
<1> USE DEF Call
<1>1. P!poolVars = PP!poolVars
  BY DEF P!poolVars, PP!poolVars
<1>2. P!PoolInit <=> PP!PoolInit
  BY DEF P!PoolInit, PP!PoolInit, P!Empty, PP!Empty, P!NoCall, PP!NoCall, P!Without, PP!Without
<1>3. ASSUME NEW r \in Reqs PROVE P!CallerStep(r) <=> PP!CallerStep(r)
  <2>1. P!NoCall = PP!NoCall /\ P!Deadline(r) = PP!Deadline(r)
    BY DEF P!NoCall, PP!NoCall, P!Without, PP!Without, P!Deadline, PP!Deadline
  <2>2. ASSUME NEW D PROVE P!Leaving(r, D) <=> PP!Leaving(r, D)
    BY DEF P!Leaving, PP!Leaving, P!Empty, PP!Empty
  <2>3. ASSUME NEW k PROVE P!Take(r, k) <=> PP!Take(r, k)
    BY DEF P!Take, PP!Take, P!TakeFrom, PP!TakeFrom, P!Live, PP!Live, P!Idle, PP!Idle
  <2>4. ASSUME NEW c PROVE P!IsFree(c) <=> PP!IsFree(c)
    BY DEF P!IsFree, PP!IsFree, P!Holders, PP!Holders, P!Users, PP!Users, P!Slots, PP!Slots
  <2>5. P!Enter(r) <=> PP!Enter(r)
    BY DEF P!Enter, PP!Enter, P!Without, PP!Without
  <2>6. P!Skip(r) <=> PP!Skip(r)
    BY DEF P!Skip, PP!Skip
  <2>7. P!Stale(r) <=> PP!Stale(r)
    BY DEF P!Stale, PP!Stale, P!Without, PP!Without, P!ForgetIn, PP!ForgetIn, P!Retain, PP!Retain
  <2>8. P!Unsent(r) <=> PP!Unsent(r)
    BY DEF P!Unsent, PP!Unsent, P!Without, PP!Without
  <2>9. ASSUME NEW k, NEW c PROVE P!Connect(r, k, c) <=> PP!Connect(r, k, c)
    BY <2>4 DEF P!Connect, PP!Connect
  <2>10. ASSUME NEW k, NEW c PROVE P!Share(r, k, c) <=> PP!Share(r, k, c)
    BY <2>1, <2>4 DEF P!Share, PP!Share, P!PutIn, PP!PutIn, P!Idle, PP!Idle
  <2>11. P!Answer(r) <=> PP!Answer(r)
    BY DEF P!Answer, PP!Answer
  <2>12. P!CheckInPut(r) <=> PP!CheckInPut(r)
    BY <2>1, <2>2 DEF P!CheckInPut, PP!CheckInPut, P!PutIn, PP!PutIn, P!Idle, PP!Idle
  <2>13. P!Abandon(r) <=> PP!Abandon(r)
    BY <2>1, <2>2 DEF P!Abandon, PP!Abandon
  <2> QED
    BY <2>3, <2>5, <2>6, <2>7, <2>8, <2>9, <2>10, <2>11, <2>12, <2>13 DEF P!CallerStep, PP!CallerStep
<1>4. P!Reap <=> PP!Reap
  BY DEF P!Reap, PP!Reap, P!ReapAll, PP!ReapAll, P!ReapIn, PP!ReapIn, P!Retain, PP!Retain, P!Live, PP!Live
<1>5. P!DropTransport <=> PP!DropTransport
  BY DEF P!DropTransport, PP!DropTransport, P!Empty, PP!Empty
<1>6. P!Tick <=> PP!Tick
  BY DEF P!Tick, PP!Tick
<1>7. P!PoolNext <=> PP!PoolNext
  BY <1>3, <1>4, <1>5, <1>6 DEF P!PoolNext, PP!PoolNext
<1> QED
  BY <1>1, <1>2, <1>7

-----------------------------------------------------------------------------
(* Calls.                                                                  *)

\* CallOf, of a request and the kind of its connection.
CallFor(q, kind) ==
  CASE q.pc \in {"idle", "failed", "tail"} -> Without("out", 0)
    [] q.pc \in {"gate", "look"} ->
         Without(IF q.part \in H2Parts /\ q.proto = "H1" THEN "missed" ELSE "in", q.now)
    [] q.pc = "dial" -> Without("missed", q.now)
    [] OTHER ->
         [st   |-> IF kind = "shared" THEN IF q.dialed THEN "using" ELSE "borrowing"
                   ELSE IF q.pc = "body" THEN "body" ELSE "holding",
          now  |-> q.now, key |-> <<q.part, q.proto>>, conn |-> q.conn]

LEMMA CallOfIs ==
  ASSUME NEW r \in Reqs
  PROVE  CallOf(r) = CallFor(req[r], conn[req[r].conn].kind)
BY DEF CallOf, CallFor, Kind, Key

LEMMA CallForIs ==
  ASSUME NEW q \in ReqType, NEW kind
  PROVE  /\ q.pc \in {"idle", "failed", "tail"} => CallFor(q, kind) = Without("out", 0)
         /\ q.pc \in {"gate", "look"} => CallFor(q, kind) =
              Without(IF q.part \in H2Parts /\ q.proto = "H1" THEN "missed" ELSE "in", q.now)
         /\ q.pc = "dial" => CallFor(q, kind) = Without("missed", q.now)
         /\ q.pc \in Using => CallFor(q, kind) =
              [st   |-> IF kind = "shared" THEN IF q.dialed THEN "using" ELSE "borrowing"
                        ELSE IF q.pc = "body" THEN "body" ELSE "holding",
               now  |-> q.now, key |-> <<q.part, q.proto>>, conn |-> q.conn]
<1> QED
  BY DEF CallFor, Using

-----------------------------------------------------------------------------
(* What a step of one request leaves alone.                                *)

LEMMA NoReqIs ==
  /\ NoReq \in ReqType /\ NoReq.pc = "idle" /\ NoReq.conn = NoConn /\ NoReq.wire = 0
  /\ NoReq.proto = "H1" /\ NoReq.dialed = FALSE /\ NoReq.reuse = FALSE
  /\ NoReq.part \in Parts /\ NoReq.pin = "any" /\ NoReq.now = 0
<1>1. (CHOOSE p \in Parts : TRUE) \in Parts
  BY NativeConstants
<1>2. 0 \in 0..MaxTime /\ 0 \in 0..2
  BY NativeConstants
<1> QED
  BY <1>1, <1>2 DEF NoReq, ReqType

LEMMA GoneFits == ConnFits(Gone) /\ Gone.kind = "gone" /\ Gone.driver = FALSE
<1>1. (CHOOSE p \in Parts : TRUE) \in Parts
  BY NativeConstants
<1> QED
  BY <1>1 DEF ConnFits, Gone, ConnType

\* Only task r's request changes, to q.
Becomes(r, q) == q \in ReqType /\ req' = [req EXCEPT ![r] = q]

LEMMA BecomesIs ==
  ASSUME Local, NEW r \in Reqs, NEW q, Becomes(r, q)
  PROVE  /\ req' \in [Reqs -> ReqType] /\ req'[r] = q
         /\ \A s \in Reqs \ {r} : req'[s] = req[s]
BY DEF Local, Typed, Becomes

\* A connection keeps its kind and its part while anything refers to it; what
\* nothing refers to may be gone.
Sweeps ==
  /\ conn' \in [Conns -> ConnType]
  /\ \A c \in Conns : conn'[c] = conn[c] \/ conn'[c] = Gone
  /\ \A c \in Conns : KeptNext(c) => conn'[c] = conn[c]
  /\ \A c \in Conns : KeptNext(c) \/ conn[c].driver \/ conn'[c] = Gone \/ conn' = conn

LEMMA SweptSweeps ==
  ASSUME Local, conn' = Swept(conn) \/ conn' = conn
  PROVE  Sweeps
<1>1. conn \in [Conns -> ConnType] /\ Gone \in ConnType
  BY GoneFits DEF Local, Typed, ConnFits
<1>2. CASE conn' = conn
  BY <1>1, <1>2 DEF Sweeps
<1>3. CASE conn' = Swept(conn)
  BY <1>1, <1>3 DEF Sweeps, Swept
<1> QED
  BY <1>2, <1>3

LEMMA SweepsKeeps ==
  ASSUME Local, Sweeps, UNCHANGED sharing
  PROVE  ConnsInv'
<1>1. \A c \in Conns : ConnFits(conn[c]) /\ ConnFits(Gone)
  BY GoneFits DEF Local, ConnsInv
<1>2. ASSUME NEW c \in Conns PROVE ConnFits(conn[c])'
  BY <1>1 DEF Sweeps, ConnFits, Gone
<1> QED
  BY <1>2 DEF ConnsInv

\* The requests, when one of them becomes q and the connections of the others stay
\* as they were: the invariant, and what the pool sees of it.
OthersStay(r) ==
  \A s \in Reqs \ {r} : req[s].pc \in Using =>
    /\ conn'[req[s].conn].kind = conn[req[s].conn].kind
    /\ conn'[req[s].conn].part = conn[req[s].conn].part

LEMMA RequestStep ==
  ASSUME Local, NEW r \in Reqs, NEW q, Becomes(r, q), OthersStay(r),
         ReqFits(q, conn'[q.conn].kind, conn'[q.conn].part)
  PROVE  /\ ReqsInv'
         /\ Call' = [Call EXCEPT ![r] = CallFor(q, conn'[q.conn].kind)]
<1>1. /\ req \in [Reqs -> ReqType] /\ req' \in [Reqs -> ReqType] /\ req'[r] = q
      /\ \A s \in Reqs \ {r} : req'[s] = req[s]
  BY BecomesIs DEF Local, Typed
<1>2. ASSUME NEW s \in Reqs \ {r}
      PROVE  /\ ReqFits(req'[s], conn'[req'[s].conn].kind, conn'[req'[s].conn].part)
             /\ CallFor(req'[s], conn'[req'[s].conn].kind) = CallFor(req[s], conn[req[s].conn].kind)
  <2>1. req'[s] = req[s] /\ req[s] \in ReqType
    BY <1>1
  <2>2. ReqFits(req[s], conn[req[s].conn].kind, conn[req[s].conn].part)
    BY DEF Local, ReqsInv
  <2>3. CASE req[s].pc \in Using
    BY <2>1, <2>2, <2>3 DEF OthersStay
  <2>4. CASE req[s].pc \notin Using
    <3>1. req[s].pc \in {"idle", "failed", "tail"} \/ req[s].pc \in {"gate", "look"} \/ req[s].pc = "dial"
      BY <2>1, <2>4 DEF ReqType, Using, Running
    <3>2. CallFor(req[s], conn'[req[s].conn].kind) = CallFor(req[s], conn[req[s].conn].kind)
      BY <2>1, <3>1, CallForIs
    <3> QED
      BY <2>1, <2>2, <2>4, <3>2 DEF ReqFits
  <2> QED
    BY <2>3, <2>4
<1>3. ReqsInv'
  BY <1>1, <1>2 DEF ReqsInv
<1>4. \A s \in Reqs : CallOf(s)' = CallFor(req'[s], conn'[req'[s].conn].kind)
  BY DEF CallOf, CallFor, Kind, Key
<1>5. \A s \in Reqs : CallOf(s) = CallFor(req[s], conn[req[s].conn].kind)
  BY CallOfIs
<1>6. Call' = [s \in Reqs |-> CallOf(s)'] /\ Call = [s \in Reqs |-> CallOf(s)]
  BY DEF Call
<1> QED
  BY <1>1, <1>2, <1>3, <1>4, <1>5, <1>6

\* A sweep leaves the connections of the other requests as they were.
LEMMA SweepsStay ==
  ASSUME Local, NEW r \in Reqs, NEW q, Becomes(r, q), Sweeps
  PROVE  OthersStay(r)
<1> SUFFICES ASSUME NEW s \in Reqs \ {r}, req[s].pc \in Using
             PROVE  conn'[req[s].conn] = conn[req[s].conn]
  BY DEF OthersStay
<1>1. req[s].conn \in Conns
  BY DEF Local, ReqsInv, ReqFits
<1>2. KeptNext(req[s].conn)
  BY BecomesIs DEF KeptNext
<1> QED
  BY <1>1, <1>2 DEF Sweeps

\* The entries of the buckets, when each is one that was there, or fits.
LEMMA EntriesStep ==
  ASSUME Local, idle' \in [PoolKeys -> Seq(PP!Idles)],
         \A k \in PoolKeys : \A i \in DOMAIN idle'[k] :
           \/ EntryFits(idle'[k][i], k, conn'[idle'[k][i].conn].kind, conn'[idle'[k][i].conn].part)
           \/ /\ \E j \in DOMAIN idle[k] :
                   idle'[k][i].conn = idle[k][j].conn /\ idle'[k][i].shared = idle[k][j].shared
              /\ conn'[idle'[k][i].conn].kind = conn[idle'[k][i].conn].kind
              /\ conn'[idle'[k][i].conn].part = conn[idle'[k][i].conn].part
  PROVE  EntriesInv'
<1> SUFFICES ASSUME NEW k \in PoolKeys, NEW i \in DOMAIN idle'[k],
                    NEW j \in DOMAIN idle[k],
                    idle'[k][i].conn = idle[k][j].conn, idle'[k][i].shared = idle[k][j].shared,
                    conn'[idle'[k][i].conn].kind = conn[idle'[k][i].conn].kind,
                    conn'[idle'[k][i].conn].part = conn[idle'[k][i].conn].part
             PROVE  EntryFits(idle'[k][i], k, conn'[idle'[k][i].conn].kind, conn'[idle'[k][i].conn].part)
  BY DEF EntriesInv
<1>1. EntryFits(idle[k][j], k, conn[idle[k][j].conn].kind, conn[idle[k][j].conn].part)
  BY DEF Local, EntriesInv
<1> QED
  BY ZenonT(60), <1>1 DEF EntryFits

\* Entries that stay, under a sweep.
LEMMA SweptEntries ==
  ASSUME Local, Sweeps, idle' \in [PoolKeys -> Seq(PP!Idles)],
         \A k \in PoolKeys : \A i \in DOMAIN idle'[k] : \E j \in DOMAIN idle[k] :
           idle'[k][i].conn = idle[k][j].conn /\ idle'[k][i].shared = idle[k][j].shared
  PROVE  EntriesInv'
<1>1. ASSUME NEW k \in PoolKeys, NEW i \in DOMAIN idle'[k]
      PROVE  conn'[idle'[k][i].conn] = conn[idle'[k][i].conn]
  <2>1. idle'[k][i] \in PP!Idles
    OBVIOUS
  <2>2. idle'[k][i].conn \in Conns
    BY <2>1 DEF PP!Idles
  <2>3. KeptNext(idle'[k][i].conn)
    BY DEF KeptNext, Entries
  <2> QED
    BY <2>2, <2>3 DEF Sweeps
<1> QED
  BY <1>1, EntriesStep

\* Nothing was reported.
LEMMA NothingReported ==
  ASSUME Local, Sweeps, UNCHANGED <<sharing, closes>>
  PROVE  ExclusiveClosesOnce'
BY GoneFits DEF Local, Typed, Sweeps, ExclusiveClosesOnce

\* The end of c was reported: c was not reported before, unless it is shared, and
\* an exclusive c is gone.
LEMMA OneReported ==
  ASSUME Local, Sweeps, UNCHANGED sharing, NEW c \in Conns, NEW yes, Report(c, yes),
         yes => conn[c].kind # "gone" /\ (conn'[c] = Gone \/ conn[c].kind = "shared")
  PROVE  ExclusiveClosesOnce' /\ closes' \in [Conns -> 0..2]
<1>1. closes \in [Conns -> 0..2] /\ conn \in [Conns -> ConnType] /\ ConnFits(conn[c]) /\ ExclusiveClosesOnce
  BY DEF Local, Typed, ConnsInv
<1>2. CASE closes' = closes
  BY <1>1, <1>2, NothingReported
<1>3. CASE yes /\ closes[c] < 2 /\ closes' = [closes EXCEPT ![c] = @ + 1]
  <2>1. closes[c] \in 0..2 /\ closes[c] + 1 \in 0..2
    BY <1>1, <1>3
  <2>2. closes' \in [Conns -> 0..2] /\ closes'[c] = closes[c] + 1 /\ \A d \in Conns \ {c} : closes'[d] = closes[d]
    BY <1>1, <1>3, <2>1
  <2>3. ASSUME NEW d \in Conns \ {c}
        PROVE  (conn'[d].kind # "shared" /\ closes'[d] > 0 => conn'[d] = Gone) /\ (~sharing' => closes'[d] <= 1)
    BY <1>1, <2>2, GoneFits DEF Sweeps, ExclusiveClosesOnce
  <2>4. conn[c].kind # "shared" => ~(closes[c] > 0) /\ conn'[c] = Gone
    BY <1>1, <1>3, GoneFits DEF ExclusiveClosesOnce
  <2>5. conn'[c].kind # "shared" => conn'[c] = Gone
    BY <1>1, <2>4 DEF Sweeps
  <2>6. ~sharing' => closes'[c] <= 1
    BY <1>1, <2>1, <2>2, <2>4 DEF ConnFits
  <2> QED
    BY <2>2, <2>3, <2>5, <2>6 DEF ExclusiveClosesOnce
<1> QED
  BY <1>2, <1>3 DEF Report

-----------------------------------------------------------------------------
(* The mark.                                                               *)

LEMMA FlightIdle ==
  ASSUME Local, NEW r \in Reqs, req[r].pc \notin Looking \cup {"gate"}
  PROVE  flight[r] \in {"out", "waking"}
BY DEF Local, Typed, FlightInv, SF!SFTypeOK, SF!Flights

LEMMA FlightSame ==
  ASSUME Local, NEW r \in Reqs, NEW q, Becomes(r, q), UNCHANGED sfVars,
         \/ flight[r] \in {"out", "waking"}
         \/ req[r].pc \in Looking /\ q.pc \in Looking /\ q.part = req[r].part
  PROVE  FlightInv' /\ SF!SFTypeOK'
<1>1. req'[r] = q /\ \A s \in Reqs \ {r} : req'[s] = req[s]
  BY BecomesIs
<1>2. /\ flight' = flight /\ want' = want /\ mark' = mark /\ wakers' = wakers /\ waking' = waking
      /\ FlightInv /\ SF!SFTypeOK
  BY DEF sfVars, Local, Typed
<1>3. ASSUME NEW s \in Reqs
      PROVE  /\ flight'[s] \in {"guarded", "bare"} => req'[s].pc \in Looking /\ want'[s] = req'[s].part
             /\ flight'[s] \in {"begun", "parked", "woken", "resolved"} =>
                  req'[s].pc = "gate" /\ want'[s] = req'[s].part
  <2>1. CASE s = r
    BY <1>1, <1>2, <2>1 DEF FlightInv, Looking
  <2>2. CASE s # r
    BY <1>1, <1>2, <2>2 DEF FlightInv
  <2> QED
    BY <2>1, <2>2
<1>4. FlightInv'
  BY <1>2, <1>3 DEF FlightInv
<1>5. SF!SFTypeOK'
  BY <1>2 DEF SF!SFTypeOK
<1> QED
  BY <1>4, <1>5

\* The guard goes, or the wait.
LEMMA FlightLetGo ==
  ASSUME Local, NEW r \in Reqs, NEW q, Becomes(r, q), LetGo(r) \/ SF!Leave(r)
  PROVE  FlightInv' /\ SF!SFTypeOK'
<1>1. /\ req'[r] = q /\ \A s \in Reqs \ {r} : req'[s] = req[s]
      /\ FlightInv /\ SF!SFTypeOK
  BY BecomesIs DEF Local, Typed
<1>2. CASE flight[r] = "out" /\ UNCHANGED sfVars
  BY <1>2, FlightSame
<1>3. CASE SF!DropGuard(r)
  <2>1. /\ flight' = [flight EXCEPT ![r] = "waking"] /\ want' = want
        /\ mark' = [mark EXCEPT ![want[r]] = FALSE]
        /\ waking' = [waking EXCEPT ![r] = wakers[want[r]]]
        /\ wakers' = [wakers EXCEPT ![want[r]] = {}]
    BY <1>3 DEF SF!DropGuard
  <2>2. SF!SFTypeOK'
    BY <1>1, <2>1 DEF SF!SFTypeOK, SF!Flights
  <2>3. flight'[r] = "waking" /\ \A s \in Reqs \ {r} : flight'[s] = flight[s]
    BY <1>1, <2>1 DEF SF!SFTypeOK
  <2>4. ASSUME NEW p \in Parts, mark'[p]
        PROVE  \E s \in Reqs : flight'[s] = "guarded" /\ want'[s] = p
    <3>1. p # want[r] /\ mark[p]
      BY <1>1, <2>1, <2>4 DEF SF!SFTypeOK
    <3>2. PICK s \in Reqs : flight[s] = "guarded" /\ want[s] = p
      BY <1>1, <3>1 DEF FlightInv
    <3> QED
      BY <2>1, <2>3, <3>1, <3>2
  <2> QED
    BY <1>1, <2>1, <2>2, <2>3, <2>4 DEF FlightInv
<1>4. CASE SF!Leave(r)
  <2>1. /\ flight' = [flight EXCEPT ![r] = "out"] /\ flight[r] # "guarded" /\ want' = want
        /\ mark' = mark /\ waking' = waking /\ wakers' = wakers
    BY <1>4 DEF SF!Leave, SF!Waiting
  <2>2. SF!SFTypeOK'
    BY <1>1, <2>1 DEF SF!SFTypeOK, SF!Flights
  <2>3. flight'[r] = "out" /\ \A s \in Reqs \ {r} : flight'[s] = flight[s]
    BY <1>1, <2>1 DEF SF!SFTypeOK
  <2> QED
    BY <1>1, <2>1, <2>2, <2>3 DEF FlightInv
<1> QED
  BY <1>2, <1>3, <1>4 DEF LetGo

-----------------------------------------------------------------------------
(* Steps of the pool.                                                      *)

PoolStep == PP!PoolNext \/ (UNCHANGED <<clock, idle>> /\ Call' = Call)

\* What the pool's invariant says, in the transport's words.
LEMMA PoolFacts ==
  ASSUME NRInv
  PROVE  /\ clock \in 0..MaxTime
         /\ idle \in [PoolKeys -> Seq(PP!Idles)] /\ \A k \in PoolKeys : Len(idle[k]) <= MaxIdle
         /\ PP!Places(idle, Call)
         /\ \A r \in Reqs : Call[r].now <= clock
BY PP!Before, PoolAssumptions, PoolConfigIsNat DEF NRInv

\* What the pool sees of request r.
LEMMA CallIs ==
  ASSUME Local, NEW r \in Reqs
  PROVE  /\ Call[r] = CallFor(req[r], conn[req[r].conn].kind)
         /\ req[r] \in ReqType
         /\ ReqFits(req[r], conn[req[r].conn].kind, conn[req[r].conn].part)
         /\ [Call EXCEPT ![r] = Call[r]] = Call
BY CallOfIs DEF Local, Typed, ReqsInv, Call

\* A request that has an exclusive connection is all that refers to it.
LEMMA SoleHolder ==
  ASSUME NRInv, NEW r \in Reqs, req[r].pc \in Using, Kind(r) # "shared"
  PROVE  /\ req[r].conn \in Conns
         /\ \A s \in Reqs \ {r} : req[s].conn # req[r].conn
         /\ \A k \in PoolKeys : \A i \in DOMAIN idle[k] : idle[k][i].conn # req[r].conn
<1> DEFINE c == req[r].conn
<1>0. Local
  BY DEF NRInv
<1>1. PP!OneHolder(Call) /\ PP!HeldIsOut(idle, Call)
  BY PoolFacts DEF PP!Places
<1>2. c \in Conns
  BY <1>0, CallIs DEF ReqFits
<1>3. ASSUME NEW s \in Reqs, req[s].conn = c
      PROVE  PP!HoldsIn(Call, s, c)
  <2>1. req[s].pc \in Using /\ conn[req[s].conn].kind # "shared" /\ req[s] \in ReqType
    BY <1>0, <1>2, <1>3, CallIs, PoolAssumptions DEF ReqFits, Kind
  <2>2. Call[s] = [st |-> IF req[s].pc = "body" THEN "body" ELSE "holding",
                   now |-> req[s].now, key |-> <<req[s].part, req[s].proto>>, conn |-> req[s].conn]
    BY <1>0, <2>1, CallIs, CallForIs
  <2> QED
    BY <1>3, <2>2 DEF PP!HoldsIn
<1>4. PP!HoldsIn(Call, r, c)
  BY <1>3
<1> QED
  BY <1>1, <1>2, <1>3, <1>4 DEF PP!OneHolder, PP!HeldIsOut

-----------------------------------------------------------------------------
(* The parts of a step, put together.                                      *)

\* No bucket has an entry it did not have.
EntriesStay ==
  /\ idle' \in [PoolKeys -> Seq(PP!Idles)]
  /\ \A k \in PoolKeys : \A i \in DOMAIN idle'[k] : \E j \in DOMAIN idle[k] :
       idle'[k][i].conn = idle[k][j].conn /\ idle'[k][i].shared = idle[k][j].shared

LEMMA SameEntries ==
  ASSUME NRInv, UNCHANGED idle
  PROVE  EntriesStay
BY PoolFacts DEF EntriesStay

\* One request becomes q, what nothing refers to any more is swept.
LEMMA LocalStep ==
  ASSUME Local, NEW r \in Reqs, NEW q, Becomes(r, q), Sweeps, UNCHANGED sharing,
         ReqFits(q, conn'[q.conn].kind, conn'[q.conn].part),
         EntriesStay, FlightInv', SF!SFTypeOK',
         closes' \in [Conns -> 0..2], ExclusiveClosesOnce'
  PROVE  /\ Local'
         /\ Call' = [Call EXCEPT ![r] = CallFor(q, conn'[q.conn].kind)]
<1>1. OthersStay(r)
  BY SweepsStay
<1>2. ReqsInv' /\ Call' = [Call EXCEPT ![r] = CallFor(q, conn'[q.conn].kind)]
  BY <1>1, RequestStep
<1>3. EntriesInv'
  BY SweptEntries DEF EntriesStay
<1>4. ConnsInv'
  BY SweepsKeeps
<1>5. Typed'
  BY BecomesIs DEF Typed, Local, Sweeps
<1> QED
  BY <1>2, <1>3, <1>4, <1>5 DEF Local

\* A request that has no connection fits, whatever the connections are.
LEMMA FitsWithout ==
  ASSUME NEW q \in ReqType, q.pc \notin Using, q.conn = NoConn, q.wire = 0, ~q.dialed,
         q.proto = "H2" => q.part \in H2Parts, NEW kind, NEW part
  PROVE  ReqFits(q, kind, part)
BY DEF ReqFits, Using

LEMMA OutFits ==
  ASSUME NEW x \in {"idle", "failed", "tail"}, NEW kind, NEW part
  PROVE  LET q == [NoReq EXCEPT !.pc = x] IN
         q \in ReqType /\ q.pc = x /\ q.conn = NoConn /\ ReqFits(q, kind, part)
<1> DEFINE q == [NoReq EXCEPT !.pc = x]
<1>1. /\ q.pc = x /\ q.conn = NoConn /\ q.wire = 0 /\ q.dialed = FALSE /\ q.proto = "H1"
      /\ q \in ReqType
  BY NoReqIs DEF ReqType, NoReq
<1>2. q.pc \notin Using
  BY <1>1 DEF Using
<1> HIDE DEF q
<1>3. ReqFits(q, kind, part)
  BY <1>1, <1>2, FitsWithout
<1> QED
  BY <1>1, <1>3 DEF q

\* The exclusive connection of a request that goes on without it is closed.
LEMMA ExclusiveGoes ==
  ASSUME NRInv, NEW r \in Reqs, NEW q, Becomes(r, q), q.conn = NoConn, UNCHANGED idle,
         conn' = Swept(conn), req[r].pc \in Using, Kind(r) # "shared"
  PROVE  conn'[req[r].conn] = Gone
<1> DEFINE c == req[r].conn
<1>1. /\ c \in Conns
      /\ \A s \in Reqs \ {r} : req[s].conn # c
      /\ \A k \in PoolKeys : \A i \in DOMAIN idle[k] : idle[k][i].conn # c
  BY SoleHolder
<1>2. req'[r] = q /\ \A s \in Reqs \ {r} : req'[s] = req[s]
  BY BecomesIs DEF NRInv
<1>3. ~KeptNext(c)
  BY <1>1, <1>2, PoolAssumptions DEF KeptNext, Entries
<1>4. ~conn[c].driver
  BY <1>1 DEF NRInv, Local, ConnsInv, ConnFits, Kind
<1> QED
  BY <1>1, <1>3, <1>4 DEF Swept

\* What the step reported of request r's connection, if anything.
Reported(r, q) ==
  \/ closes' = closes
  \/ /\ req[r].pc \in Using /\ conn' = Swept(conn) /\ q.conn = NoConn
     /\ Report(req[r].conn, Kind(r) = "H1")

LEMMA ReportedWell ==
  ASSUME NRInv, NEW r \in Reqs, NEW q, Becomes(r, q), Sweeps, UNCHANGED <<idle, sharing>>, Reported(r, q)
  PROVE  closes' \in [Conns -> 0..2] /\ ExclusiveClosesOnce'
<1>0. Local
  BY DEF NRInv
<1>1. CASE closes' = closes
  BY <1>0, <1>1, NothingReported DEF Local, Typed
<1>2. CASE /\ req[r].pc \in Using /\ conn' = Swept(conn) /\ q.conn = NoConn
           /\ Report(req[r].conn, Kind(r) = "H1")
  <2>1. req[r].conn \in Conns
    BY <1>0, <1>2, CallIs DEF ReqFits
  <2>2. Kind(r) = "H1" => conn[req[r].conn].kind # "gone" /\ conn'[req[r].conn] = Gone
    BY <1>2, ExclusiveGoes DEF Kind
  <2> QED
    BY <1>0, <1>2, <2>1, <2>2, OneReported
<1> QED
  BY <1>1, <1>2 DEF Reported

\* The request is over: what it held is dropped.
LEMMA OutStep ==
  ASSUME NRInv, NEW r \in Reqs, NEW x \in {"idle", "failed", "tail"},
         req' = [req EXCEPT ![r] = [NoReq EXCEPT !.pc = x]],
         UNCHANGED <<clock, idle, sharing>>, conn' = Swept(conn) \/ conn' = conn,
         FlightInv', SF!SFTypeOK', Reported(r, [NoReq EXCEPT !.pc = x])
  PROVE  Local' /\ PoolStep
<1> DEFINE q == [NoReq EXCEPT !.pc = x]
<1>0. Local
  BY DEF NRInv
<1>1. /\ q \in ReqType /\ q.pc = x /\ q.conn = NoConn
      /\ ReqFits(q, conn'[q.conn].kind, conn'[q.conn].part)
  BY OutFits
<1>2. Becomes(r, q)
  BY <1>1 DEF Becomes
<1> HIDE DEF q
<1>3. Sweeps
  BY <1>0, SweptSweeps
<1>4. closes' \in [Conns -> 0..2] /\ ExclusiveClosesOnce'
  BY <1>2, <1>3, ReportedWell DEF q
<1>5. Local' /\ Call' = [Call EXCEPT ![r] = CallFor(q, conn'[q.conn].kind)]
  BY <1>0, <1>1, <1>2, <1>3, <1>4, SameEntries, LocalStep
<1>6. CallFor(q, conn'[q.conn].kind) = Without("out", 0)
  BY <1>1, CallForIs
<1>7. PP!NoCall = Without("out", 0)
  BY DEF PP!NoCall, PP!Without, Without
<1>8. CASE Call[r].st = "out"
  <2>1. req[r].pc \in {"idle", "failed", "tail"}
    <3>1. /\ Call[r] = CallFor(req[r], conn[req[r].conn].kind) /\ req[r] \in ReqType
          /\ \/ req[r].pc \in {"idle", "failed", "tail"} \/ req[r].pc \in {"gate", "look"}
             \/ req[r].pc = "dial" \/ req[r].pc \in Using
      BY <1>0, CallIs DEF ReqType, Using, Running
    <3>2. ASSUME req[r].pc \in {"gate", "look"} \/ req[r].pc = "dial" PROVE FALSE
      BY <1>8, <3>1, <3>2, CallForIs DEF Without
    <3>3. ASSUME req[r].pc \in Using PROVE FALSE
      BY <1>8, <3>1, <3>3, CallForIs
    <3> QED
      BY <3>1, <3>2, <3>3
  <2>2. Call[r] = Without("out", 0) /\ [Call EXCEPT ![r] = Call[r]] = Call
    BY <1>0, <2>1, CallIs, CallForIs
  <2>3. Call' = Call
    BY <1>5, <1>6, <2>2
  <2> QED
    BY <1>5, <2>3 DEF PoolStep
<1>9. CASE Call[r].st # "out"
  <2>1. PP!Leaving(r, idle)
    BY DEF PP!Leaving
  <2>2. PP!Abandon(r)
    BY <1>5, <1>6, <1>7, <1>9, <2>1 DEF PP!Abandon
  <2>3. PP!PoolNext
    BY <2>2 DEF PP!PoolNext, PP!CallerStep
  <2> QED
    BY <1>5, <2>3 DEF PoolStep
<1> QED
  BY <1>8, <1>9

\* The mark of a request past its connect.
LEMMA FlightPast ==
  ASSUME Local, NEW r \in Reqs, NEW q, Becomes(r, q), UNCHANGED sfVars,
         req[r].pc \notin Looking \cup {"gate"}
  PROVE  FlightInv' /\ SF!SFTypeOK'
BY FlightIdle, FlightSame

-----------------------------------------------------------------------------
(* The end of a request.                                                   *)

LEMMA OutBecomes ==
  ASSUME NEW r \in Reqs, NEW x \in {"idle", "failed", "tail"},
         req' = [req EXCEPT ![r] = [NoReq EXCEPT !.pc = x]]
  PROVE  Becomes(r, [NoReq EXCEPT !.pc = x]) /\ [NoReq EXCEPT !.pc = x].conn = NoConn
BY OutFits DEF Becomes

LEMMA NoReqIsOut == NoReq = [NoReq EXCEPT !.pc = "idle"]
BY DEF NoReq

\* It ends with a request past its connect.
LEMMA PastEnds ==
  ASSUME NRInv, NEW r \in Reqs, NEW x \in {"idle", "failed", "tail"},
         req' = [req EXCEPT ![r] = [NoReq EXCEPT !.pc = x]],
         req[r].pc \notin Looking \cup {"gate"},
         UNCHANGED <<clock, idle, sharing>>, UNCHANGED sfVars, conn' = Swept(conn),
         closes' = closes \/ (req[r].pc \in Using /\ Report(req[r].conn, Kind(r) = "H1"))
  PROVE  Local' /\ PoolStep
<1>1. Becomes(r, [NoReq EXCEPT !.pc = x]) /\ [NoReq EXCEPT !.pc = x].conn = NoConn
  BY OutBecomes
<1>2. FlightInv' /\ SF!SFTypeOK'
  BY <1>1, FlightPast DEF NRInv
<1>3. Reported(r, [NoReq EXCEPT !.pc = x])
  BY <1>1 DEF Reported
<1> QED
  BY <1>2, <1>3, OutStep

LEMMA Ends ==
  ASSUME NRInv, NEW r \in Reqs, UNCHANGED sharing,
         \/ HeadAndClose(r) \/ SentDies(r) \/ FirstByteTimeout(r)
         \/ BodyEndClose(r) \/ BodyFails(r)
  PROVE  Local' /\ PoolStep
<1>1. CASE HeadAndClose(r)
  <2>1. req[r].pc \notin Looking \cup {"gate"} /\ req[r].pc \in Using
    BY <1>1 DEF HeadAndClose, Looking, Using
  <2> QED
    BY <1>1, <2>1, PastEnds DEF HeadAndClose
<1>2. CASE SentDies(r)
  <2>1. req[r].pc \notin Looking \cup {"gate"} /\ req[r].pc \in Using
    BY <1>2 DEF SentDies, Looking, Using
  <2> QED
    BY <1>2, <2>1, PastEnds DEF SentDies, Failed
<1>3. CASE FirstByteTimeout(r)
  <2>1. req[r].pc \notin Looking \cup {"gate"} /\ req[r].pc \in Using
    BY <1>3 DEF FirstByteTimeout, Looking, Using
  <2>2. /\ req' = [req EXCEPT ![r] = [NoReq EXCEPT !.pc = "failed"]] /\ closes' = closes
        /\ UNCHANGED <<clock, idle>> /\ UNCHANGED sfVars /\ conn' = Swept(conn)
    BY <1>3 DEF FirstByteTimeout, Failed
  <2> QED
    BY <2>1, <2>2, PastEnds
<1>4. CASE BodyEndClose(r)
  <2>1. req[r].pc \notin Looking \cup {"gate"} /\ (req[r].pc = "body" => req[r].pc \in Using)
    BY <1>4 DEF BodyEndClose, Looking, Using
  <2>2. /\ req' = [req EXCEPT ![r] = [NoReq EXCEPT !.pc = "idle"]]
        /\ closes' = closes \/ (req[r].pc = "body" /\ Report(req[r].conn, Kind(r) = "H1"))
        /\ UNCHANGED <<clock, idle>> /\ UNCHANGED sfVars /\ conn' = Swept(conn)
    BY <1>4, NoReqIsOut, Zenon DEF BodyEndClose
  <2> QED
    BY <2>1, <2>2, PastEnds
<1>5. CASE BodyFails(r)
  <2>1. req[r].pc \notin Looking \cup {"gate"} /\ (req[r].pc = "body" => req[r].pc \in Using)
    BY <1>5 DEF BodyFails, Looking, Using
  <2>2. /\ req' = [req EXCEPT ![r] = [NoReq EXCEPT !.pc = "failed"]]
        /\ closes' = closes \/ (req[r].pc = "body" /\ Report(req[r].conn, Kind(r) = "H1"))
        /\ UNCHANGED <<clock, idle>> /\ UNCHANGED sfVars /\ conn' = Swept(conn)
    BY <1>5, Zenon DEF BodyFails, Failed
  <2> QED
    BY <2>1, <2>2, PastEnds
<1> QED
  BY <1>1, <1>2, <1>3, <1>4, <1>5

LEMMA GivesUp ==
  ASSUME NRInv, NEW r \in Reqs, UNCHANGED sharing,
         GateTimeout(r) \/ DialFails(r) \/ Cancel(r)
  PROVE  Local' /\ PoolStep
<1>1. PICK x \in {"idle", "failed", "tail"} :
        /\ req' = [req EXCEPT ![r] = [NoReq EXCEPT !.pc = x]]
        /\ LetGo(r) \/ SF!Leave(r)
        /\ UNCHANGED <<clock, idle, closes>> /\ (conn' = Swept(conn) \/ conn' = conn)
  BY NoReqIsOut DEF GateTimeout, DialFails, Cancel, Failed
<1>2. Becomes(r, [NoReq EXCEPT !.pc = x])
  BY <1>1, OutBecomes
<1>3. FlightInv' /\ SF!SFTypeOK'
  BY <1>1, <1>2, FlightLetGo DEF NRInv
<1> QED
  BY <1>1, <1>3, OutStep DEF Reported

-----------------------------------------------------------------------------
(* The candidates.                                                         *)

\* Where a request looks next.
LEMMA NextIs ==
  ASSUME NEW p \in ReqType, p.proto = "H2" => p.part \in H2Parts, p.wire = 0, ~p.dialed
  PROVE  LET q == NextCandidate(p) IN
         /\ q \in ReqType /\ q.pc \in {"look", "dial"} /\ q.conn = NoConn
         /\ q.part = p.part /\ q.now = p.now /\ q.pin = p.pin
         /\ \A kind, part : ReqFits(q, kind, part)
         /\ \A kind : CallFor(q, kind) = Without("missed", p.now)
<1> DEFINE q == NextCandidate(p)
<1>1. /\ q.conn = NoConn /\ q.part = p.part /\ q.now = p.now /\ q.pin = p.pin
      /\ q.wire = 0 /\ q.dialed = p.dialed /\ q.proto = "H1"
      /\ q.pc = IF p.proto = "H2" THEN "look" ELSE "dial"
  BY DEF NextCandidate, ReqType
<1>2. q \in ReqType
  <2>1. "look" \in Running /\ "dial" \in Running
    BY DEF Running
  <2> QED
    BY <2>1 DEF NextCandidate, ReqType
<1>3. q.pc \notin Using /\ q.pc \in {"look", "dial"}
  BY <1>1 DEF Using
<1>4. q.pc = "look" => q.part \in H2Parts
  BY <1>1
<1> HIDE DEF q
<1>5. \A kind, part : ReqFits(q, kind, part)
  BY <1>1, <1>2, <1>3, FitsWithout
<1>6. \A kind : CallFor(q, kind) = Without("missed", p.now)
  BY <1>1, <1>2, <1>3, <1>4, CallForIs
<1> QED
  BY <1>1, <1>2, <1>3, <1>5, <1>6 DEF q

\* The request goes on to its next candidate.
LEMMA NextStep ==
  ASSUME NRInv, NEW r \in Reqs, ~req[r].dialed, req[r].wire = 0,
         req' = [req EXCEPT ![r] = NextCandidate(req[r])],
         UNCHANGED sharing, UNCHANGED sfVars, conn' = Swept(conn) \/ conn' = conn,
         req[r].pc \in Looking \/ req[r].pc \notin Looking \cup {"gate"},
         EntriesStay, closes' \in [Conns -> 0..2], ExclusiveClosesOnce'
  PROVE  Local' /\ Call' = [Call EXCEPT ![r] = Without("missed", req[r].now)]
<1> DEFINE q == NextCandidate(req[r])
<1>0. Local
  BY DEF NRInv
<1>1. req[r] \in ReqType /\ (req[r].proto = "H2" => req[r].part \in H2Parts)
  BY <1>0, CallIs DEF ReqFits
<1>2. /\ q \in ReqType /\ q.pc \in {"look", "dial"} /\ q.conn = NoConn /\ q.part = req[r].part
      /\ ReqFits(q, conn'[q.conn].kind, conn'[q.conn].part)
      /\ CallFor(q, conn'[q.conn].kind) = Without("missed", req[r].now)
  BY <1>1, NextIs
<1>3. Becomes(r, q)
  BY <1>2 DEF Becomes
<1> HIDE DEF q
<1>4. FlightInv' /\ SF!SFTypeOK'
  <2>1. CASE req[r].pc \in Looking
    BY <1>0, <1>2, <1>3, <2>1, FlightSame DEF Looking
  <2>2. CASE req[r].pc \notin Looking \cup {"gate"}
    BY <1>0, <1>3, <2>2, FlightPast
  <2> QED
    BY <2>1, <2>2
<1>5. Sweeps
  BY <1>0, SweptSweeps
<1> QED
  BY <1>0, <1>2, <1>3, <1>4, <1>5, LocalStep

\* A pooled connection that hands the request back unsent.
LEMMA UnsentStep ==
  ASSUME NRInv, NEW r \in Reqs, req[r].pc \in {"exch", "queued"}, ~req[r].dialed,
         req' = [req EXCEPT ![r] = NextCandidate(req[r])],
         UNCHANGED <<clock, idle, sharing>>, UNCHANGED sfVars, conn' = Swept(conn),
         Report(req[r].conn, Kind(r) = "H1")
  PROVE  Local' /\ PoolStep
<1> DEFINE q == NextCandidate(req[r])
<1>0. Local
  BY DEF NRInv
<1>1. /\ req[r] \in ReqType /\ (req[r].proto = "H2" => req[r].part \in H2Parts) /\ req[r].wire = 0
      /\ Call[r] = CallFor(req[r], conn[req[r].conn].kind)
  BY <1>0, CallIs DEF ReqFits
<1>2. q \in ReqType /\ q.conn = NoConn
  BY <1>1, NextIs
<1>3. Becomes(r, q)
  BY <1>2 DEF Becomes
<1> HIDE DEF q
<1>4. req[r].pc \in Using /\ req[r].pc \notin Looking \cup {"gate"}
  BY DEF Using, Looking
<1>5. Sweeps
  BY <1>0, SweptSweeps
<1>6. Reported(r, q)
  BY <1>2, <1>4 DEF Reported
<1>7. closes' \in [Conns -> 0..2] /\ ExclusiveClosesOnce'
  BY <1>3, <1>5, <1>6, ReportedWell
<1>8. Local' /\ Call' = [Call EXCEPT ![r] = Without("missed", req[r].now)]
  BY <1>1, <1>4, <1>7, SameEntries, NextStep
<1>9. Call[r].st \in {"holding", "borrowing"} /\ Call[r].now = req[r].now
  BY <1>1, <1>4, CallForIs
<1>10. PP!Unsent(r)
  BY <1>8, <1>9 DEF PP!Unsent, PP!Without, Without
<1> QED
  BY <1>8, <1>10 DEF PoolStep, PP!PoolNext, PP!CallerStep

LEMMA Refused ==
  ASSUME NRInv, NEW r \in Reqs, UNCHANGED sharing, DispatchRefused(r) \/ QueuedDies(r)
  PROVE  Local' /\ PoolStep
<1>1. /\ req[r].pc \in {"exch", "queued"} /\ UNCHANGED <<clock, idle>> /\ UNCHANGED sfVars
      /\ conn' = Swept(conn) /\ Report(req[r].conn, Kind(r) = "H1")
  BY DEF DispatchRefused, QueuedDies
<1>2. Failed(r) \/ (~req[r].dialed /\ req' = [req EXCEPT ![r] = NextCandidate(req[r])])
  BY DEF DispatchRefused, QueuedDies, NotSent
<1>3. CASE Failed(r)
  <2>1. req[r].pc \in Using /\ req[r].pc \notin Looking \cup {"gate"}
    BY <1>1 DEF Using, Looking
  <2>2. req' = [req EXCEPT ![r] = [NoReq EXCEPT !.pc = "failed"]]
    BY <1>3 DEF Failed
  <2> QED
    BY <1>1, <2>1, <2>2, PastEnds
<1>4. CASE ~req[r].dialed /\ req' = [req EXCEPT ![r] = NextCandidate(req[r])]
  BY <1>1, <1>4, UnsentStep
<1> QED
  BY <1>2, <1>3, <1>4

\* A request about to look has found nothing yet.
LEMMA LooksIs ==
  ASSUME Local, NEW r \in Reqs, req[r].pc = "look"
  PROVE  /\ req[r] \in ReqType /\ ~req[r].dialed /\ req[r].wire = 0 /\ req[r].conn = NoConn
         /\ \E st \in {"in", "missed"} : Call[r] = Without(st, req[r].now)
         /\ Key(r) \in PoolKeys
<1>1. /\ req[r] \in ReqType /\ ReqFits(req[r], conn[req[r].conn].kind, conn[req[r].conn].part)
      /\ Call[r] = CallFor(req[r], conn[req[r].conn].kind)
  BY CallIs
<1>2. \E st \in {"in", "missed"} : Call[r] = Without(st, req[r].now)
  BY <1>1, CallForIs
<1>3. ~req[r].dialed /\ req[r].wire = 0 /\ req[r].conn = NoConn
  BY <1>1 DEF ReqFits, Looking, Using
<1>4. Key(r) \in PoolKeys
  BY <1>1 DEF Key, PoolKeys, ReqType
<1> QED
  BY <1>1, <1>2, <1>3, <1>4

\* A call without a connection, and what becomes of it.
Misses(y, now) == [y EXCEPT !.st = "missed"] = Without("missed", now)
Gets(y, now, x, k, c) ==
  [y EXCEPT !.st = x, !.key = k, !.conn = c] = [st |-> x, now |-> now, key |-> k, conn |-> c]

LEMMA WithoutChanges ==
  ASSUME NEW st, NEW now, NEW y, y = Without(st, now)
  PROVE  y.st = st /\ y.now = now /\ Misses(y, now) /\ \A x, k, c : Gets(y, now, x, k, c)
<1> SUFFICES ASSUME NEW x, NEW k, NEW c
             PROVE  y.st = st /\ y.now = now /\ Misses(y, now) /\ Gets(y, now, x, k, c)
  OBVIOUS
<1> DEFINE k0 == CHOOSE l \in PoolKeys : TRUE
<1>1. /\ y = [st |-> st, now |-> now, key |-> k0, conn |-> NoConn]
      /\ Without("missed", now) = [st |-> "missed", now |-> now, key |-> k0, conn |-> NoConn]
  BY DEF Without
<1> HIDE DEF k0
<1>2. y \in [st : {st, x}, now : {now}, key : {k0, k}, conn : {NoConn, c}]
  BY <1>1
<1> DEFINE z == [y EXCEPT !.st = x, !.key = k, !.conn = c]
<1>3. /\ z \in [st : {st, x}, now : {now}, key : {k0, k}, conn : {NoConn, c}]
      /\ z.st = x /\ z.key = k /\ z.conn = c /\ z.now = now
  BY <1>2
<1> HIDE DEF z
<1>4. z = [st |-> x, now |-> now, key |-> k, conn |-> c]
  BY <1>3
<1>5. y.st = st /\ y.now = now
  BY <1>1
<1>6. [y EXCEPT !.st = "missed"] = Without("missed", now)
  BY <1>1
<1> QED
  BY <1>4, <1>5, <1>6 DEF z, Misses, Gets

LEMMA Skips ==
  ASSUME NRInv, NEW r \in Reqs, UNCHANGED sharing, SkipCandidate(r)
  PROVE  Local' /\ PoolStep
<1>0. Local
  BY DEF NRInv
<1>1. /\ req[r].pc = "look" /\ req' = [req EXCEPT ![r] = NextCandidate(req[r])]
      /\ UNCHANGED <<clock, idle, conn, closes>> /\ UNCHANGED sfVars
  BY DEF SkipCandidate
<1>2. /\ ~req[r].dialed /\ req[r].wire = 0 /\ req[r].pc \in Looking
      /\ [Call EXCEPT ![r] = Call[r]] = Call
  BY <1>0, <1>1, LooksIs, CallIs DEF Looking
<1>3. Sweeps
  BY <1>0, <1>1, SweptSweeps
<1>4. closes' \in [Conns -> 0..2] /\ ExclusiveClosesOnce'
  BY <1>0, <1>1, <1>3, NothingReported DEF Local, Typed
<1>5. Local' /\ Call' = [Call EXCEPT ![r] = Without("missed", req[r].now)]
  BY <1>1, <1>2, <1>4, SameEntries, NextStep
<1>6. PICK st \in {"in", "missed"} : Call[r] = Without(st, req[r].now)
  BY <1>0, <1>1, LooksIs
<1>7. CASE st = "missed"
  BY <1>1, <1>2, <1>5, <1>6, <1>7 DEF PoolStep
<1>8. CASE st = "in"
  <2>0. Call[r].st = "in" /\ [Call[r] EXCEPT !.st = "missed"] = Without("missed", req[r].now)
    <3>1. Call[r].st = "in" /\ Misses(Call[r], req[r].now)
      BY <1>6, <1>8, WithoutChanges
    <3> QED
      BY <3>1 DEF Misses
  <2>1. PP!Skip(r)
    BY <1>1, <1>5, <2>0 DEF PP!Skip
  <2> QED
    BY <1>5, <2>1 DEF PoolStep, PP!PoolNext, PP!CallerStep
<1> QED
  BY <1>7, <1>8

\* What take hands out is an entry of the bucket it looked in.
LEMMA TookEntry ==
  ASSUME NRInv, NEW k \in PoolKeys, NEW now, NEW clk, NEW e \in TakeFrom(idle[k], now, clk).got
  PROVE  \E i \in DOMAIN idle[k] : e = idle[k][i]
<1> DEFINE t == TakeFrom(idle[k], now, clk)
<1>1. idle[k] \in Seq(PP!Idles) /\ t = PP!TakeFrom(idle[k], now, clk)
  BY PoolFacts, SameOps
<1>2. PP!Live(idle[k], now) # {}
  BY DEF TakeFrom, PP!Live, Live
<1>3. PICK top : PP!TookAt(top, t, PP!Idles, idle[k], now, clk)
  BY <1>1, <1>2, PP!TakeIs, PoolAssumptions, PoolConfigIsNat, Zenon
<1> QED
  BY <1>3 DEF PP!TookAt, PP!Live

\* take leaves no entry that was not there.
LEMMA TookStay ==
  ASSUME NRInv, NEW k \in PoolKeys, NEW now \in 0..MaxTime, now <= clock,
         idle' = [idle EXCEPT ![k] = TakeFrom(idle[k], now, clock).rest]
  PROVE  EntriesStay
<1> DEFINE d == TakeFrom(idle[k], now, clock).rest
<1>1. /\ idle \in [PoolKeys -> Seq(PP!Idles)] /\ clock \in 0..MaxTime /\ idle[k] \in Seq(PP!Idles)
      /\ d = PP!TakeFrom(idle[k], now, clock).rest
  BY PoolFacts, SameOps
<1>2. PP!Shrinks(d, idle[k], clock)
  BY <1>1, PP!TakeShrinks, PoolAssumptions, PoolConfigIsNat
<1> HIDE DEF d
<1>3. d \in Seq(PP!Idles) /\ \A i \in DOMAIN d : \E j \in DOMAIN idle[k] :
        d[i].conn = idle[k][j].conn /\ d[i].shared = idle[k][j].shared
  BY <1>2 DEF PP!Shrinks
<1>4. idle' = [idle EXCEPT ![k] = d]
  BY DEF d
<1>5. idle'[k] = d /\ \A l \in PoolKeys \ {k} : idle'[l] = idle[l]
  BY <1>1, <1>4
<1>6. idle' \in [PoolKeys -> Seq(PP!Idles)]
  BY <1>1, <1>3, <1>4
<1> QED
  BY <1>3, <1>5, <1>6 DEF EntriesStay

\* retain leaves no entry that was not there.
LEMMA RetainedStay ==
  ASSUME NRInv, NEW D, idle' = [k \in PoolKeys |-> D[k]],
         \A k \in PoolKeys : D[k] = idle[k] \/
           \E keep : keep \subseteq DOMAIN idle[k] /\ D[k] = PP!Retain(idle[k], keep)
  PROVE  EntriesStay
<1>1. \A k \in PoolKeys : idle[k] \in Seq(PP!Idles)
  BY PoolFacts
<1>2. ASSUME NEW k \in PoolKeys
      PROVE  D[k] \in Seq(PP!Idles) /\ \A i \in DOMAIN D[k] : \E j \in DOMAIN idle[k] :
               D[k][i].conn = idle[k][j].conn /\ D[k][i].shared = idle[k][j].shared
  <2>1. CASE D[k] = idle[k]
    BY <1>1, <2>1
  <2>2. ASSUME NEW keep, keep \subseteq DOMAIN idle[k], D[k] = PP!Retain(idle[k], keep)
        PROVE  PP!Shrinks(D[k], idle[k], clock)
    BY SMTT(30), <1>1, <2>2, PP!RetainShrinks, PoolAssumptions, PoolConfigIsNat
  <2> QED
    BY <2>1, <2>2 DEF PP!Shrinks
<1> QED
  BY <1>2 DEF EntriesStay

LEMMA LooksUp ==
  ASSUME NRInv, NEW r \in Reqs, UNCHANGED sharing, Checkout(r)
  PROVE  Local' /\ PoolStep
<1> DEFINE k == Key(r)
<1> DEFINE t == TakeFrom(idle[k], req[r].now, clock)
<1>0. Local
  BY DEF NRInv
<1>1. /\ req[r].pc = "look" /\ Admissible(req[r].pin, req[r].proto)
      /\ idle' = [idle EXCEPT ![k] = t.rest]
      /\ \/ t.got = {} /\ req' = [req EXCEPT ![r] = NextCandidate(req[r])]
         \/ \E e \in t.got : req' = [req EXCEPT ![r] = [req[r] EXCEPT !.pc = "probe", !.conn = e.conn]]
      /\ UNCHANGED <<clock, closes>> /\ UNCHANGED sfVars /\ conn' = Swept(conn)
  BY ZenonT(60) DEF Checkout
<1>2. /\ req[r] \in ReqType /\ ~req[r].dialed /\ req[r].wire = 0 /\ k \in PoolKeys
      /\ req[r].pc \in Looking
  BY ZenonT(60), <1>0, <1>1, LooksIs DEF Looking
<1>3. PICK st \in {"in", "missed"} : Call[r] = Without(st, req[r].now)
  BY <1>0, <1>1, LooksIs
<1>4. Call[r].st \in {"in", "missed"} /\ Call[r].now = req[r].now
  BY <1>3 DEF Without
<1>5. req[r].now \in 0..MaxTime /\ req[r].now <= clock
  BY SMTT(30), <1>2, <1>4, PoolFacts DEF ReqType
<1>6. EntriesStay
  BY <1>1, <1>2, <1>5, TookStay
<1>7. Sweeps
  BY <1>0, <1>1, SweptSweeps
<1>8. closes' \in [Conns -> 0..2] /\ ExclusiveClosesOnce'
  BY <1>0, <1>1, <1>7, NothingReported DEF Local, Typed
<1>9. PP!TakeFrom(idle[k], Call[r].now, clock) = t
  BY <1>4, SameOps
<1>10. ASSUME t.got = {}, req' = [req EXCEPT ![r] = NextCandidate(req[r])]
       PROVE  Local' /\ PoolStep
  <2>1. Local' /\ Call' = [Call EXCEPT ![r] = Without("missed", req[r].now)]
    BY <1>1, <1>2, <1>6, <1>8, <1>10, NextStep
  <2>2. [Call[r] EXCEPT !.st = "missed"] = Without("missed", req[r].now)
    <3>1. Misses(Call[r], req[r].now)
      BY <1>3, WithoutChanges
    <3> QED
      BY <3>1 DEF Misses
  <2> HIDE DEF t, k
  <2>3. PP!Take(r, k)
    BY <1>1, <1>4, <1>9, <1>10, <2>1, <2>2 DEF PP!Take
  <2> QED
    BY <1>2, <2>1, <2>3 DEF PoolStep, PP!PoolNext, PP!CallerStep
<1>11. ASSUME NEW e \in t.got, req' = [req EXCEPT ![r] = [req[r] EXCEPT !.pc = "probe", !.conn = e.conn]]
       PROVE  Local' /\ PoolStep
  <2> DEFINE q == [req[r] EXCEPT !.pc = "probe", !.conn = e.conn]
  <2>1. PICK i \in DOMAIN idle[k] : e = idle[k][i]
    BY <1>2, <1>11, TookEntry
  <2>2. e \in PP!Idles
    BY <1>2, <2>1, PoolFacts
  <2>3. e.conn \in Conns /\ e.shared \in BOOLEAN
    BY <2>2 DEF PP!Idles
  <2>4. EntryFits(e, k, conn[e.conn].kind, conn[e.conn].part)
    BY <1>0, <1>2, <2>1 DEF Local, EntriesInv
  <2>5. q \in ReqType
    <3>1. "probe" \in Running
      BY DEF Running
    <3> QED
      BY <1>2, <2>3, <3>1 DEF ReqType
  <2>6. /\ q.pc = "probe" /\ q.conn = e.conn /\ q.part = req[r].part /\ q.pin = req[r].pin
        /\ q.proto = req[r].proto /\ q.now = req[r].now /\ q.dialed = req[r].dialed /\ q.wire = req[r].wire
    BY <1>2 DEF ReqType
  <2>7. Becomes(r, q)
    BY <1>11, <2>5 DEF Becomes
  <2> HIDE DEF q
  <2>8. conn'[e.conn] = conn[e.conn]
    <3>1. KeptNext(e.conn)
      BY <1>0, <2>6, <2>7, BecomesIs DEF KeptNext
    <3> QED
      BY <1>7, <2>3, <3>1 DEF Sweeps
  <2>9. ReqFits(q, conn'[q.conn].kind, conn'[q.conn].part)
    <3>1. k[1] = req[r].part /\ k[2] = req[r].proto /\ req[r].proto \in {"H1", "H2"}
      BY <1>2 DEF Key, ReqType
    <3>2. /\ conn[e.conn].part = req[r].part /\ conn[e.conn].kind \in {"H1", "H2", "shared"}
          /\ req[r].proto = "H1" <=> conn[e.conn].kind = "H1"
      BY SMTT(30), <2>4, <3>1 DEF EntryFits
    <3>3. Admissible(q.pin, IF conn[e.conn].kind = "H1" THEN "H1" ELSE "H2")
      BY <1>1, <2>6, <3>1, <3>2
    <3>4. req[r].proto = "H2" => req[r].part \in H2Parts
      BY <1>0, CallIs DEF ReqFits
    <3>5. q.pc \in Using /\ ~(q.pc \in Using \ {"probe"}) /\ q.wire = 0 /\ ~q.dialed
      BY SMTT(30), <1>2, <2>6 DEF Using
    <3> QED
      BY <2>3, <2>6, <2>8, <3>2, <3>3, <3>4, <3>5 DEF ReqFits
  <2>10. FlightInv' /\ SF!SFTypeOK'
    BY <1>0, <1>1, <1>2, <2>6, <2>7, FlightSame DEF Looking
  <2>11. Local' /\ Call' = [Call EXCEPT ![r] = CallFor(q, conn'[q.conn].kind)]
    BY <1>0, <1>6, <1>7, <1>8, <2>7, <2>9, <2>10, LocalStep
  <2>12. CallFor(q, conn'[q.conn].kind) =
           [st |-> IF conn[e.conn].kind = "shared" THEN "borrowing" ELSE "holding",
            now |-> req[r].now, key |-> k, conn |-> e.conn]
    BY <1>2, <2>5, <2>6, <2>8, CallForIs DEF Using, Key
  <2>13. [Call[r] EXCEPT !.st = IF e.shared THEN "borrowing" ELSE "holding", !.key = k, !.conn = e.conn]
           = [st |-> IF e.shared THEN "borrowing" ELSE "holding", now |-> req[r].now, key |-> k, conn |-> e.conn]
    <3>1. Gets(Call[r], req[r].now, IF e.shared THEN "borrowing" ELSE "holding", k, e.conn)
      BY <1>3, WithoutChanges
    <3> QED
      BY <3>1 DEF Gets
  <2>14. e.shared <=> conn[e.conn].kind = "shared"
    BY <2>4 DEF EntryFits
  <2>15. (IF conn[e.conn].kind = "shared" THEN "borrowing" ELSE "holding")
           = IF e.shared THEN "borrowing" ELSE "holding"
    BY <2>14
  <2>16. Call' = [Call EXCEPT ![r] =
           [Call[r] EXCEPT !.st = IF e.shared THEN "borrowing" ELSE "holding", !.key = k, !.conn = e.conn]]
    BY <2>11, <2>12, <2>13, <2>15, Zenon
  <2> HIDE DEF t, k
  <2>17. PP!Take(r, k)
    BY <1>1, <1>4, <1>9, <1>11, <2>16, Zenon DEF PP!Take
  <2> QED
    BY <1>2, <2>11, <2>17 DEF PoolStep, PP!PoolNext, PP!CallerStep
<1> QED
  BY ZenonT(60), <1>1, <1>10, <1>11

\* checkout finds the candidate dead.
LEMMA IsStale ==
  ASSUME NRInv, NEW r \in Reqs, UNCHANGED sharing, ProbeStale(r)
  PROVE  Local' /\ PoolStep
<1> DEFINE q == [req[r] EXCEPT !.pc = "look", !.conn = NoConn]
<1> DEFINE c == req[r].conn
<1> DEFINE k == Key(r)
<1>0. Local
  BY DEF NRInv
<1>1. /\ req[r].pc = "probe" /\ req' = [req EXCEPT ![r] = q] /\ Report(c, TRUE)
      /\ idle' = IF Kind(r) = "shared" THEN [idle EXCEPT ![k] = ForgetIn(idle[k], c)] ELSE idle
      /\ UNCHANGED clock /\ UNCHANGED sfVars /\ conn' = Swept(conn)
  BY DEF ProbeStale
<1>2. /\ req[r] \in ReqType /\ ReqFits(req[r], conn[c].kind, conn[c].part)
      /\ Call[r] = CallFor(req[r], conn[c].kind)
  BY <1>0, CallIs
<1>3. /\ c \in Conns /\ conn[c].kind # "gone" /\ ~req[r].dialed /\ req[r].wire = 0
      /\ req[r].proto = "H2" => req[r].part \in H2Parts
  BY <1>1, <1>2 DEF ReqFits, Using, Looking
<1>4. k \in PoolKeys
  BY <1>2 DEF Key, PoolKeys, ReqType
<1>5. q \in ReqType
  <2>1. "look" \in Running
    BY DEF Running
  <2> QED
    BY <1>2, <2>1 DEF ReqType
<1>6. /\ q.pc = "look" /\ q.conn = NoConn /\ q.part = req[r].part /\ q.proto = req[r].proto
      /\ q.now = req[r].now /\ q.dialed = req[r].dialed /\ q.wire = req[r].wire
  BY <1>2 DEF ReqType
<1>7. Becomes(r, q)
  BY <1>1, <1>5 DEF Becomes
<1> HIDE DEF q
<1>8. ReqFits(q, conn'[q.conn].kind, conn'[q.conn].part)
  <2>1. q.pc \notin Using
    BY <1>6 DEF Using
  <2> QED
    BY <1>3, <1>5, <1>6, <2>1, FitsWithout
<1>9. Sweeps
  BY <1>0, <1>1, SweptSweeps
<1>10. EntriesStay
  <2> DEFINE keep == {i \in DOMAIN idle[k] : ~(idle[k][i].shared /\ idle[k][i].conn = c)}
  <2>1. ForgetIn(idle[k], c) = PP!Retain(idle[k], keep) /\ keep \subseteq DOMAIN idle[k]
    BY DEF ForgetIn, Retain, PP!Retain
  <2> HIDE DEF keep
  <2>2. idle \in [PoolKeys -> Seq(PP!Idles)]
    BY PoolFacts
  <2>3. idle' = [l \in PoolKeys |-> idle'[l]]
    BY <1>1, <2>2
  <2>4. \A l \in PoolKeys : idle'[l] = idle[l] \/
          \E x : x \subseteq DOMAIN idle[l] /\ idle'[l] = PP!Retain(idle[l], x)
    BY <1>1, <2>1, <2>2
  <2> QED
    BY <2>3, <2>4, RetainedStay
<1>11. closes' \in [Conns -> 0..2] /\ ExclusiveClosesOnce'
  <2>1. conn'[c] = Gone \/ conn[c].kind = "shared"
    <3>1. ASSUME Kind(r) # "shared" PROVE conn'[c] = Gone
      <4>1. req[r].pc \in Using /\ UNCHANGED idle
        BY <1>1, <3>1 DEF Using
      <4> QED
        BY <1>1, <1>6, <1>7, <3>1, <4>1, ExclusiveGoes
    <3> QED
      BY <3>1 DEF Kind
  <2> QED
    BY <1>0, <1>1, <1>3, <1>9, <2>1, OneReported
<1>12. FlightInv' /\ SF!SFTypeOK'
  <2>1. req[r].pc \in Looking /\ q.pc \in Looking
    BY <1>1, <1>6 DEF Looking
  <2> QED
    BY <1>0, <1>1, <1>6, <1>7, <2>1, FlightSame
<1>13. Local' /\ Call' = [Call EXCEPT ![r] = CallFor(q, conn'[q.conn].kind)]
  BY <1>0, <1>7, <1>8, <1>9, <1>10, <1>11, <1>12, LocalStep
<1>14. PICK st \in {"in", "missed"} : CallFor(q, conn'[q.conn].kind) = Without(st, req[r].now)
  BY SMTT(30), <1>5, <1>6, CallForIs
<1>15. /\ Call[r].st = IF Kind(r) = "shared" THEN "borrowing" ELSE "holding"
       /\ Call[r].key = k /\ Call[r].conn = c /\ Call[r].now = req[r].now
  BY <1>1, <1>2, <1>3, CallForIs DEF Using, Key, Kind
<1>16. PP!ForgetIn(idle[k], c) = ForgetIn(idle[k], c)
  BY SameOps
<1>17. PP!Without(st, req[r].now) = Without(st, req[r].now)
  BY DEF PP!Without, Without
<1> HIDE DEF k, c
<1>18. PP!Stale(r)
  BY <1>1, <1>13, <1>14, <1>15, <1>16, <1>17 DEF PP!Stale
<1> QED
  BY <1>13, <1>18 DEF PoolStep, PP!PoolNext, PP!CallerStep

-----------------------------------------------------------------------------
(* The exchange.                                                           *)

\* The request goes forward on the connection it has.
LEMMA Forward ==
  ASSUME NRInv, NEW r \in Reqs, NEW q, Becomes(r, q), req[r].pc \in Using \ {"body"},
         q.pc \in Using \ {"probe"}, q.conn = req[r].conn, q.part = req[r].part, q.pin = req[r].pin,
         q.proto = req[r].proto, q.now = req[r].now, q.dialed = req[r].dialed,
         q.wire = IF q.pc \in {"sent", "body"} THEN 1 ELSE 0,
         q.reuse => Kind(r) # "shared",
         UNCHANGED <<clock, idle, conn, closes, sharing>>, FlightInv', SF!SFTypeOK'
  PROVE  Local' /\ PoolStep
<1> DEFINE c == req[r].conn
<1>0. Local
  BY DEF NRInv
<1>1. /\ req[r] \in ReqType /\ q \in ReqType /\ ReqFits(req[r], conn[c].kind, conn[c].part)
      /\ Call[r] = CallFor(req[r], conn[c].kind) /\ [Call EXCEPT ![r] = Call[r]] = Call
  BY <1>0, CallIs DEF Becomes
<1>2. Sweeps
  BY <1>0, SweptSweeps
<1>3. closes' \in [Conns -> 0..2] /\ ExclusiveClosesOnce'
  BY <1>0, <1>2, NothingReported DEF Local, Typed
<1>4. ReqFits(q, conn'[q.conn].kind, conn'[q.conn].part)
  <2>1. q.pc \notin Looking \cup {"gate"} /\ q.pc \in Using
    BY DEF Using, Looking
  <2> QED
    BY <1>1, <2>1 DEF ReqFits, Kind
<1>5. Local' /\ Call' = [Call EXCEPT ![r] = CallFor(q, conn[c].kind)]
  BY <1>0, <1>2, <1>3, <1>4, SameEntries, LocalStep
<1>6. /\ CallFor(q, conn[c].kind) =
           [st  |-> IF Kind(r) = "shared" THEN IF req[r].dialed THEN "using" ELSE "borrowing"
                    ELSE IF q.pc = "body" THEN "body" ELSE "holding",
            now |-> req[r].now, key |-> <<req[r].part, req[r].proto>>, conn |-> c]
      /\ Call[r] =
           [st  |-> IF Kind(r) = "shared" THEN IF req[r].dialed THEN "using" ELSE "borrowing"
                    ELSE "holding",
            now |-> req[r].now, key |-> <<req[r].part, req[r].proto>>, conn |-> c]
  BY <1>1, CallForIs DEF Kind
<1>7. CASE Kind(r) = "shared" \/ q.pc # "body"
  <2>1. CallFor(q, conn[c].kind) = Call[r]
    BY <1>6, <1>7
  <2> QED
    BY <1>1, <1>5, <2>1 DEF PoolStep
<1>8. CASE Kind(r) # "shared" /\ q.pc = "body"
  <2>1. Call[r].st = "holding" /\ CallFor(q, conn[c].kind) = [Call[r] EXCEPT !.st = "body"]
    BY <1>6, <1>8
  <2>2. PP!Answer(r)
    BY <1>5, <2>1 DEF PP!Answer
  <2> QED
    BY <1>5, <2>2 DEF PoolStep, PP!PoolNext, PP!CallerStep
<1> QED
  BY <1>7, <1>8

LEMMA Forwards ==
  ASSUME NRInv, NEW r \in Reqs, UNCHANGED sharing,
         ProbeReusable(r) \/ Dispatch(r) \/ Write(r) \/ Head200(r)
  PROVE  Local' /\ PoolStep
<1>0. Local
  BY DEF NRInv
<1>1. req[r] \in ReqType /\ ReqFits(req[r], conn[req[r].conn].kind, conn[req[r].conn].part)
  BY <1>0, CallIs
<1>2. "exch" \in Running /\ "queued" \in Running /\ "sent" \in Running
  BY DEF Running
<1>3. CASE ProbeReusable(r)
  <2> DEFINE x == Kind(r) # "shared"
  <2> DEFINE q == [req[r] EXCEPT !.pc = "exch", !.reuse = x]
  <2>1. /\ req[r].pc = "probe" /\ LetGo(r) /\ req' = [req EXCEPT ![r] = q]
        /\ UNCHANGED <<clock, idle, conn, closes>>
    BY <1>3 DEF ProbeReusable
  <2>2. x \in BOOLEAN
    OBVIOUS
  <2> HIDE DEF x
  <2>3. /\ q \in ReqType /\ q.pc = "exch" /\ q.conn = req[r].conn /\ q.part = req[r].part
        /\ q.pin = req[r].pin /\ q.proto = req[r].proto /\ q.now = req[r].now
        /\ q.dialed = req[r].dialed /\ q.wire = req[r].wire /\ q.reuse = x
    BY <1>1, <1>2, <2>2 DEF ReqType
  <2> HIDE DEF q
  <2>4. Becomes(r, q)
    BY <2>1, <2>3 DEF Becomes
  <2>5. /\ req[r].pc \in Using \ {"body"} /\ q.pc \in Using \ {"probe"} /\ q.wire = 0
        /\ q.reuse => Kind(r) # "shared"
    BY <1>1, <2>1, <2>3 DEF Using, ReqFits, x
  <2>6. FlightInv' /\ SF!SFTypeOK'
    BY <1>0, <2>1, <2>4, FlightLetGo
  <2> QED
    BY <2>1, <2>3, <2>4, <2>5, <2>6, Forward
<1>4. CASE Dispatch(r) \/ Head200(r)
  <2>1. PICK x \in {"queued", "body"} :
          /\ req' = [req EXCEPT ![r] = [req[r] EXCEPT !.pc = x]]
          /\ (req[r].pc = "exch" /\ x = "queued") \/ (req[r].pc = "sent" /\ x = "body")
          /\ UNCHANGED <<clock, idle, conn, closes>> /\ UNCHANGED sfVars
    BY <1>4 DEF Dispatch, Head200
  <2> DEFINE q == [req[r] EXCEPT !.pc = x]
  <2>2. /\ q \in ReqType /\ q.pc = x /\ q.conn = req[r].conn /\ q.part = req[r].part
        /\ q.pin = req[r].pin /\ q.proto = req[r].proto /\ q.now = req[r].now
        /\ q.dialed = req[r].dialed /\ q.wire = req[r].wire /\ q.reuse = req[r].reuse
    BY <1>1, <1>2 DEF ReqType
  <2>3. Becomes(r, q)
    BY <2>1, <2>2 DEF Becomes
  <2> HIDE DEF q
  <2>4. /\ req[r].pc \in Using \ {"body"} /\ q.pc \in Using \ {"probe"}
        /\ req[r].pc \notin Looking \cup {"gate"} /\ req[r].pc \in Using \ {"probe"}
    BY <2>1, <2>2 DEF Using, Looking
  <2>5. q.wire = IF q.pc \in {"sent", "body"} THEN 1 ELSE 0
    BY <1>1, <2>1, <2>2 DEF ReqFits
  <2>6. q.reuse => Kind(r) # "shared"
    BY <1>1, <2>2, <2>4 DEF ReqFits, Kind
  <2>7. FlightInv' /\ SF!SFTypeOK'
    BY <1>0, <2>1, <2>3, <2>4, FlightPast
  <2> QED
    BY <2>1, <2>2, <2>3, <2>4, <2>5, <2>6, <2>7, Forward
<1>5. CASE Write(r)
  <2> DEFINE q == [req[r] EXCEPT !.pc = "sent", !.wire = req[r].wire + 1]
  <2>1. /\ req[r].pc = "queued" /\ req' = [req EXCEPT ![r] = q]
        /\ UNCHANGED <<clock, idle, conn, closes>> /\ UNCHANGED sfVars
    <3>1. /\ req' = [req EXCEPT ![r].pc = "sent", ![r].wire = req[r].wire + 1]
          /\ req \in [Reqs -> ReqType]
      BY <1>0, <1>5 DEF Write, Local, Typed
    <3>2. req' = [req EXCEPT ![r] = q]
      BY <3>1
    <3> QED
      BY <1>5, <3>2 DEF Write
  <2>2. req[r].wire = 0
    BY <1>1, <2>1 DEF ReqFits
  <2>3. req[r].wire + 1 = 1 /\ 1 \in 0..2
    BY <2>2
  <2>4. /\ q \in ReqType /\ q.pc = "sent" /\ q.conn = req[r].conn /\ q.part = req[r].part
        /\ q.pin = req[r].pin /\ q.proto = req[r].proto /\ q.now = req[r].now
        /\ q.dialed = req[r].dialed /\ q.wire = 1 /\ q.reuse = req[r].reuse
    BY <1>1, <1>2, <2>3 DEF ReqType
  <2> HIDE DEF q
  <2>5. Becomes(r, q)
    BY <2>1, <2>4 DEF Becomes
  <2>6. /\ req[r].pc \in Using \ {"body"} /\ q.pc \in Using \ {"probe"}
        /\ req[r].pc \notin Looking \cup {"gate"} /\ req[r].pc \in Using \ {"probe"}
    BY <2>1, <2>4 DEF Using, Looking
  <2>7. q.reuse => Kind(r) # "shared"
    BY <1>1, <2>4, <2>6 DEF ReqFits, Kind
  <2>8. FlightInv' /\ SF!SFTypeOK'
    BY <1>0, <2>1, <2>5, <2>6, FlightPast
  <2>9. q.wire = IF q.pc \in {"sent", "body"} THEN 1 ELSE 0
    BY <2>4
  <2> QED
    BY <2>1, <2>4, <2>5, <2>6, <2>7, <2>8, <2>9, Forward
<1> QED
  BY <1>3, <1>4, <1>5

-----------------------------------------------------------------------------
(* Steps that leave the requests alone.                                    *)

\* Nothing happens to the requests.
LEMMA RequestsStay ==
  ASSUME Local, UNCHANGED req, 
         \A s \in Reqs : req[s].pc \in Using =>
           /\ conn'[req[s].conn].kind = conn[req[s].conn].kind
           /\ conn'[req[s].conn].part = conn[req[s].conn].part
  PROVE  ReqsInv' /\ Call' = Call
<1>1. \A s \in Reqs : CallOf(s)' = CallFor(req'[s], conn'[req'[s].conn].kind)
  BY DEF CallOf, CallFor, Kind, Key
<1>2. ASSUME NEW s \in Reqs
      PROVE  /\ ReqFits(req[s], conn'[req[s].conn].kind, conn'[req[s].conn].part)
             /\ CallFor(req[s], conn'[req[s].conn].kind) = CallOf(s)
  <2>1. /\ req[s] \in ReqType /\ ReqFits(req[s], conn[req[s].conn].kind, conn[req[s].conn].part)
        /\ CallOf(s) = CallFor(req[s], conn[req[s].conn].kind)
    BY CallIs, CallOfIs
  <2>2. CASE req[s].pc \in Using
    BY <2>1, <2>2
  <2>3. CASE req[s].pc \notin Using
    <3>1. req[s].pc \in {"idle", "failed", "tail"} \/ req[s].pc \in {"gate", "look"} \/ req[s].pc = "dial"
      BY <2>1, <2>3 DEF ReqType, Using, Running
    <3>2. CallFor(req[s], conn'[req[s].conn].kind) = CallFor(req[s], conn[req[s].conn].kind)
      BY <2>1, <3>1, CallForIs
    <3> QED
      BY <2>1, <2>3, <3>2 DEF ReqFits
  <2> QED
    BY <2>2, <2>3
<1> QED
  BY <1>1, <1>2 DEF ReqsInv, Call

\* Nor to the connections, but that what nothing refers to may go.
LEMMA SweptStay ==
  ASSUME Local, UNCHANGED <<req, closes, sharing>>, Sweeps, EntriesStay, FlightInv', SF!SFTypeOK'
  PROVE  Local' /\ Call' = Call
<1>1. ASSUME NEW s \in Reqs, req[s].pc \in Using PROVE conn'[req[s].conn] = conn[req[s].conn]
  <2>1. req[s].conn \in Conns
    BY <1>1, CallIs DEF ReqFits
  <2>2. KeptNext(req[s].conn)
    BY DEF KeptNext
  <2> QED
    BY <2>1, <2>2 DEF Sweeps
<1>2. ReqsInv' /\ Call' = Call
  BY <1>1, RequestsStay
<1>3. EntriesInv'
  BY SweptEntries DEF EntriesStay
<1>4. ConnsInv' /\ ExclusiveClosesOnce'
  BY SweepsKeeps, NothingReported
<1>5. Typed'
  BY DEF Typed, Local, Sweeps
<1> QED
  BY <1>2, <1>3, <1>4, <1>5 DEF Local

LEMMA FlightStays ==
  ASSUME Local, UNCHANGED <<req, mark, flight, want, wakers, waking>>
  PROVE  FlightInv' /\ SF!SFTypeOK'
BY DEF Local, Typed, FlightInv, SF!SFTypeOK

LEMMA Reaps ==
  ASSUME NRInv, UNCHANGED sharing, Reap
  PROVE  Local' /\ PoolStep
<1>0. Local
  BY DEF NRInv
<1>1. /\ idle' = [k \in PoolKeys |-> ReapIn(idle[k], clock)] /\ UNCHANGED <<clock, closes, req>>
      /\ UNCHANGED sfVars /\ conn' = Swept(conn)
  BY DEF Reap
<1>2. EntriesStay
  <2>1. \A k \in PoolKeys : /\ ReapIn(idle[k], clock) = PP!Retain(idle[k], PP!Live(idle[k], clock))
                            /\ PP!Live(idle[k], clock) \subseteq DOMAIN idle[k]
    BY SameOps DEF PP!ReapIn, PP!Live
  <2>2. idle' = [k \in PoolKeys |-> idle'[k]]
    BY <1>1
  <2>3. \A k \in PoolKeys : idle'[k] = idle[k] \/
          \E keep : keep \subseteq DOMAIN idle[k] /\ idle'[k] = PP!Retain(idle[k], keep)
    BY <1>1, <2>1
  <2> QED
    BY <2>2, <2>3, RetainedStay
<1>3. FlightInv' /\ SF!SFTypeOK'
  BY <1>0, <1>1, FlightStays DEF sfVars
<1>4. Sweeps
  BY <1>0, <1>1, SweptSweeps
<1>5. Local' /\ Call' = Call
  BY <1>0, <1>1, <1>2, <1>3, <1>4, SweptStay
<1>6. \A k \in PoolKeys : PP!ReapIn(idle[k], clock) = ReapIn(idle[k], clock)
  BY SameOps
<1>7. PP!Reap
  BY <1>1, <1>5, <1>6 DEF PP!Reap, PP!ReapAll
<1> QED
  BY <1>5, <1>7 DEF PoolStep, PP!PoolNext

LEMMA Ticks ==
  ASSUME NRInv, UNCHANGED sharing, Tick
  PROVE  Local' /\ PoolStep
<1>0. Local
  BY DEF NRInv
<1>1. /\ clock < MaxTime /\ clock' = clock + 1 /\ UNCHANGED <<idle, conn, closes, req>> /\ UNCHANGED sfVars
  BY DEF Tick
<1>2. FlightInv' /\ SF!SFTypeOK'
  BY <1>0, <1>1, FlightStays DEF sfVars
<1>3. Sweeps /\ EntriesStay
  BY <1>0, <1>1, SweptSweeps, SameEntries
<1>4. Local' /\ Call' = Call
  BY <1>0, <1>1, <1>2, <1>3, SweptStay
<1>5. PP!Tick
  BY <1>1, <1>4 DEF PP!Tick
<1> QED
  BY <1>4, <1>5 DEF PoolStep, PP!PoolNext

-----------------------------------------------------------------------------
(* Into the transport and through the gate.                                *)

\* The guard or the wait begins, for the key of the request.
LEMMA FlightBegins ==
  ASSUME Local, NEW r \in Reqs, NEW q, Becomes(r, q), NEW p \in Parts, q.part = p,
         NEW otherwise \in {"begun", "bare"}, SF!BeginConnect(r, p, otherwise),
         flight[r] \in {"out", "resolved"},
         want' \in [Reqs -> Parts], want'[r] = p, \A s \in Reqs \ {r} : want'[s] = want[s],
         waking' = waking,
         q.pc = IF flight'[r] = "begun" THEN "gate" ELSE "look"
  PROVE  FlightInv' /\ SF!SFTypeOK'
<1>1. /\ req'[r] = q /\ \A s \in Reqs \ {r} : req'[s] = req[s]
      /\ FlightInv /\ SF!SFTypeOK
  BY BecomesIs DEF Local, Typed
<1>2. SF!SFTypeOK'
  BY ZenonT(60), <1>1 DEF SF!BeginConnect, SF!SFTypeOK, SF!Flights
<1>3. /\ \A s \in Reqs \ {r} : flight'[s] = flight[s]
      /\ flight'[r] \in {"guarded", "begun", "bare"}
      /\ mark' = mark \/ (mark' = [mark EXCEPT ![p] = TRUE] /\ flight'[r] = "guarded")
  BY <1>1 DEF SF!BeginConnect, SF!SFTypeOK
<1>4. ASSUME NEW x \in Parts, mark'[x]
      PROVE  \E s \in Reqs : flight'[s] = "guarded" /\ want'[s] = x
  <2>1. CASE mark[x]
    <3>1. PICK s \in Reqs : flight[s] = "guarded" /\ want[s] = x
      BY <1>1, <2>1 DEF FlightInv
    <3> QED
      BY <1>3, <3>1
  <2>2. CASE ~mark[x]
    <3>1. x = p /\ flight'[r] = "guarded"
      BY <1>1, <1>3, <1>4, <2>2 DEF SF!SFTypeOK
    <3> QED
      BY <3>1
  <2> QED
    BY <2>1, <2>2
<1>5. ASSUME NEW s \in Reqs
      PROVE  /\ flight'[s] \in {"guarded", "bare"} => req'[s].pc \in Looking /\ want'[s] = req'[s].part
             /\ flight'[s] \in {"begun", "parked", "woken", "resolved"} =>
                  req'[s].pc = "gate" /\ want'[s] = req'[s].part
  <2>1. CASE s = r
    BY <1>1, <1>3, <2>1 DEF Looking
  <2>2. CASE s # r
    BY <1>1, <1>3, <2>2 DEF FlightInv
  <2> QED
    BY <2>1, <2>2
<1> QED
  BY <1>2, <1>4, <1>5 DEF FlightInv

LEMMA Starts ==
  ASSUME NRInv, NEW r \in Reqs, UNCHANGED sharing, Start(r)
  PROVE  Local' /\ PoolStep
<1>0. Local
  BY DEF NRInv
<1>1. PICK ask \in Asks :
        /\ IF sharing /\ ask[1] \in H2Parts THEN SF!Arrive(r, ask[1]) ELSE UNCHANGED sfVars
        /\ req' = [req EXCEPT ![r] = [NoReq EXCEPT
             !.pc = IF flight'[r] = "begun" THEN "gate" ELSE "look",
             !.now = clock, !.part = ask[1], !.pin = ask[2],
             !.proto = IF ask[1] \in H2Parts THEN "H2" ELSE "H1"]]
  BY DEF Start
<1>2. Ready(r) /\ req[r].pc \in {"idle", "failed"} /\ UNCHANGED <<clock, idle, conn, closes>>
  BY DEF Start
<1> DEFINE p == ask[1]
<1> DEFINE pin == ask[2]
<1> DEFINE pc == IF flight'[r] = "begun" THEN "gate" ELSE "look"
<1> DEFINE proto == IF p \in H2Parts THEN "H2" ELSE "H1"
<1> DEFINE q == [NoReq EXCEPT !.pc = pc, !.now = clock, !.part = p, !.pin = pin, !.proto = proto]
<1>3. p \in Parts /\ pin \in {"any", "H1", "H2"}
  BY NativeConstants
<1>4. pc \in Running \cup {"idle", "failed", "body", "tail"} /\ pc \in {"gate", "look"} /\ proto \in {"H1", "H2"}
  BY DEF Running
<1>5. clock \in 0..MaxTime
  BY PoolFacts
<1> HIDE DEF p, pin, pc, proto
<1>6. q \in ReqType
  BY <1>3, <1>4, <1>5, NoReqIs DEF ReqType
<1>7. /\ q.pc = pc /\ q.now = clock /\ q.part = p /\ q.proto = proto /\ q.conn = NoConn
      /\ q.wire = 0 /\ q.dialed = FALSE
  BY NoReqIs DEF NoReq
<1>8. Becomes(r, q)
  BY <1>1, <1>6 DEF Becomes, p, pin, pc, proto
<1> HIDE DEF q
<1>9. flight[r] = "out"
  <2>1. req[r].pc \notin Looking \cup {"gate"}
    BY <1>2 DEF Looking
  <2> QED
    BY <1>0, <1>2, <2>1, FlightIdle DEF Ready
<1>10. FlightInv' /\ SF!SFTypeOK'
  <2>1. CASE SF!Arrive(r, p)
    <3>1. /\ want' = [want EXCEPT ![r] = p] /\ SF!BeginConnect(r, p, "begun") /\ waking' = waking
      BY <2>1 DEF SF!Arrive
    <3>2. want \in [Reqs -> Parts]
      BY <1>0 DEF Local, Typed, SF!SFTypeOK
    <3>3. want' \in [Reqs -> Parts] /\ want'[r] = p /\ \A s \in Reqs \ {r} : want'[s] = want[s]
      BY <1>3, <3>1, <3>2
    <3>4. q.pc = IF flight'[r] = "begun" THEN "gate" ELSE "look"
      BY <1>7 DEF pc
    <3> QED
      BY <1>0, <1>3, <1>7, <1>8, <1>9, <3>1, <3>3, <3>4, FlightBegins
  <2>2. CASE UNCHANGED sfVars
    BY <1>0, <1>8, <1>9, <2>2, FlightSame
  <2> QED
    BY <1>1, <2>1, <2>2 DEF p
<1>11. ReqFits(q, conn'[q.conn].kind, conn'[q.conn].part)
  <2>1. q.pc \notin Using /\ (q.proto = "H2" => q.part \in H2Parts)
    BY <1>4, <1>7 DEF Using, proto
  <2> QED
    BY <1>6, <1>7, <2>1, FitsWithout
<1>12. Sweeps
  BY <1>0, <1>2, SweptSweeps
<1>13. closes' \in [Conns -> 0..2] /\ ExclusiveClosesOnce'
  BY <1>0, <1>2, <1>12, NothingReported DEF Local, Typed
<1>14. Local' /\ Call' = [Call EXCEPT ![r] = CallFor(q, conn'[q.conn].kind)]
  BY <1>0, <1>2, <1>8, <1>10, <1>11, <1>12, <1>13, SameEntries, LocalStep
<1>15. CallFor(q, conn'[q.conn].kind) = Without("in", clock)
  <2>1. ~(q.part \in H2Parts /\ q.proto = "H1")
    BY <1>7 DEF proto
  <2> QED
    BY <1>4, <1>6, <1>7, <2>1, CallForIs
<1>16. Call[r].st = "out"
  BY <1>0, <1>2, CallIs, CallForIs DEF Without
<1>17. PP!Enter(r)
  BY <1>2, <1>14, <1>15, <1>16 DEF PP!Enter, PP!Without, Without
<1> QED
  BY <1>14, <1>17 DEF PoolStep, PP!PoolNext, PP!CallerStep

\* The second begin_connect: the request goes on, with the guard or without.
LEMMA Retakes ==
  ASSUME NRInv, NEW r \in Reqs, UNCHANGED sharing, GateRetake(r)
  PROVE  Local' /\ PoolStep
<1> DEFINE q == [req[r] EXCEPT !.pc = "look"]
<1>0. Local
  BY DEF NRInv
<1>1. /\ req[r].pc = "gate" /\ SF!Retake(r) /\ req' = [req EXCEPT ![r] = q]
      /\ UNCHANGED <<clock, idle, conn, closes>>
  BY DEF GateRetake
<1>2. /\ req[r] \in ReqType /\ ReqFits(req[r], conn[req[r].conn].kind, conn[req[r].conn].part)
      /\ Call[r] = CallFor(req[r], conn[req[r].conn].kind) /\ [Call EXCEPT ![r] = Call[r]] = Call
  BY <1>0, CallIs
<1>3. /\ req[r].conn = NoConn /\ req[r].wire = 0 /\ ~req[r].dialed
      /\ req[r].proto = "H2" => req[r].part \in H2Parts
  BY <1>1, <1>2 DEF ReqFits, Using
<1>4. /\ q \in ReqType /\ q.pc = "look" /\ q.conn = NoConn /\ q.wire = 0 /\ q.dialed = req[r].dialed
      /\ q.part = req[r].part /\ q.proto = req[r].proto /\ q.now = req[r].now
  <2>1. "look" \in Running
    BY DEF Running
  <2> QED
    BY <1>2, <1>3, <2>1 DEF ReqType
<1>5. Becomes(r, q)
  BY <1>1, <1>4 DEF Becomes
<1> HIDE DEF q
<1>6. FlightInv' /\ SF!SFTypeOK'
  <2>1. /\ flight[r] = "resolved" /\ SF!BeginConnect(r, want[r], "bare") /\ want' = want /\ waking' = waking
    BY <1>1 DEF SF!Retake
  <2>2. want \in [Reqs -> Parts] /\ flight \in [Reqs -> SF!Flights] /\ want[r] = req[r].part
    BY <1>0, <2>1 DEF Local, Typed, SF!SFTypeOK, FlightInv
  <2>3. flight'[r] # "begun"
    BY <2>1, <2>2 DEF SF!BeginConnect
  <2>4. want' \in [Reqs -> Parts] /\ want'[r] = want[r] /\ want[r] \in Parts
        /\ \A s \in Reqs \ {r} : want'[s] = want[s]
    BY <2>1, <2>2
  <2> QED
    BY <1>0, <1>4, <1>5, <2>1, <2>2, <2>3, <2>4, FlightBegins
<1>7. ReqFits(q, conn'[q.conn].kind, conn'[q.conn].part)
  <2>1. q.pc \notin Using
    BY <1>4 DEF Using
  <2> QED
    BY <1>3, <1>4, <2>1, FitsWithout
<1>8. Sweeps
  BY <1>0, <1>1, SweptSweeps
<1>9. closes' \in [Conns -> 0..2] /\ ExclusiveClosesOnce'
  BY <1>0, <1>1, <1>8, NothingReported DEF Local, Typed
<1>10. Local' /\ Call' = [Call EXCEPT ![r] = CallFor(q, conn'[q.conn].kind)]
  BY <1>0, <1>1, <1>5, <1>6, <1>7, <1>8, <1>9, SameEntries, LocalStep
<1>11. CallFor(q, conn'[q.conn].kind) = Call[r]
  BY <1>1, <1>2, <1>4, CallForIs
<1> QED
  BY <1>1, <1>2, <1>10, <1>11 DEF PoolStep

\* Polls of the wait and the wakes of finish_connect.
LEMMA Wakes ==
  ASSUME NRInv, NEW r \in Reqs, UNCHANGED sharing, GatePoll(r) \/ WakeStep(r)
  PROVE  Local' /\ PoolStep
<1>0. Local /\ FlightInv /\ SF!SFTypeOK
  BY DEF NRInv, Local, Typed
<1>1. UNCHANGED <<clock, idle, conn, closes, req>> /\ mark' = mark /\ want' = want
  BY DEF GatePoll, WakeStep, SF!PollWait, SF!WakeOne, SF!Woke
<1>2. SF!SFTypeOK'
  <2>1. CASE SF!PollWait(r)
    BY <1>0, <2>1 DEF SF!PollWait, SF!SFTypeOK, SF!Flights
  <2>2. ASSUME NEW w \in Reqs, SF!WakeOne(r, w) PROVE SF!SFTypeOK'
    BY <1>0, <2>2 DEF SF!WakeOne, SF!SFTypeOK, SF!Flights
  <2>3. CASE SF!Woke(r)
    BY <1>0, <2>3 DEF SF!Woke, SF!SFTypeOK, SF!Flights
  <2> QED
    BY <2>1, <2>2, <2>3 DEF GatePoll, WakeStep
<1>3. ASSUME NEW s \in Reqs
      PROVE  /\ flight'[s] = "guarded" <=> flight[s] = "guarded"
             /\ flight'[s] = "bare" <=> flight[s] = "bare"
             /\ flight'[s] \in {"begun", "parked", "woken", "resolved"} =>
                  flight[s] \in {"begun", "parked", "woken", "resolved"}
  <2>1. CASE SF!PollWait(r)
    BY <1>0, <2>1 DEF SF!PollWait, SF!SFTypeOK, SF!Waiting
  <2>2. ASSUME NEW w \in Reqs, SF!WakeOne(r, w)
        PROVE  flight'[s] = flight[s] \/ (flight[s] = "parked" /\ flight'[s] = "woken")
    BY <1>0, <2>2 DEF SF!WakeOne, SF!SFTypeOK
  <2>3. CASE SF!Woke(r)
    BY <1>0, <2>3 DEF SF!Woke, SF!SFTypeOK
  <2> QED
    BY <2>1, <2>2, <2>3 DEF GatePoll, WakeStep
<1>4. FlightInv'
  BY <1>0, <1>1, <1>3 DEF FlightInv
<1>5. Sweeps /\ EntriesStay
  BY <1>0, <1>1, SweptSweeps, SameEntries
<1>6. Local' /\ Call' = Call
  BY <1>0, <1>1, <1>2, <1>4, <1>5, SweptStay
<1> QED
  BY <1>1, <1>6 DEF PoolStep

-----------------------------------------------------------------------------
(* The server and the driver.                                              *)

\* A connection in use keeps its kind and its part.
KindsStay ==
  \A d \in Conns : KeptNext(d) => conn'[d].kind = conn[d].kind /\ conn'[d].part = conn[d].part

LEMMA WorldStep ==
  ASSUME NRInv, UNCHANGED <<clock, idle, req, sharing>>, UNCHANGED sfVars,
         conn' \in [Conns -> ConnType], KindsStay, ConnsInv',
         closes' \in [Conns -> 0..2], ExclusiveClosesOnce'
  PROVE  Local' /\ PoolStep
<1>0. Local /\ idle \in [PoolKeys -> Seq(PP!Idles)]
  BY PoolFacts DEF NRInv
<1>1. ASSUME NEW s \in Reqs, req[s].pc \in Using
      PROVE  /\ conn'[req[s].conn].kind = conn[req[s].conn].kind
             /\ conn'[req[s].conn].part = conn[req[s].conn].part
  <2>1. req[s].conn \in Conns /\ KeptNext(req[s].conn)
    BY <1>0, <1>1, CallIs DEF ReqFits, KeptNext
  <2> QED
    BY <2>1 DEF KindsStay
<1>2. ReqsInv' /\ Call' = Call
  BY <1>0, <1>1, RequestsStay
<1>3. ASSUME NEW k \in PoolKeys, NEW i \in DOMAIN idle[k]
      PROVE  /\ conn'[idle[k][i].conn].kind = conn[idle[k][i].conn].kind
             /\ conn'[idle[k][i].conn].part = conn[idle[k][i].conn].part
  <2>1. idle[k][i] \in PP!Idles
    BY <1>0
  <2>2. idle[k][i].conn \in Conns
    BY <2>1 DEF PP!Idles
  <2>3. KeptNext(idle[k][i].conn)
    BY DEF KeptNext, Entries
  <2> QED
    BY <2>2, <2>3 DEF KindsStay
<1>4. EntriesInv'
  BY <1>0, <1>3, EntriesStep
<1>5. FlightInv' /\ SF!SFTypeOK'
  BY <1>0, FlightStays DEF sfVars
<1>6. Typed'
  BY <1>0, <1>5 DEF Typed, Local
<1> QED
  BY <1>2, <1>4, <1>5, <1>6 DEF Local, PoolStep

LEMMA Closes ==
  ASSUME NRInv, NEW c \in Conns, UNCHANGED sharing, ServerCloses(c)
  PROVE  Local' /\ PoolStep
<1>1. /\ conn[c].kind # "gone" /\ conn' = [conn EXCEPT ![c] = [conn[c] EXCEPT !.peer = "closed"]]
      /\ UNCHANGED <<clock, idle, closes, req>> /\ UNCHANGED sfVars
  BY DEF ServerCloses
<1>2. /\ conn \in [Conns -> ConnType] /\ closes \in [Conns -> 0..2] /\ ExclusiveClosesOnce
      /\ \A d \in Conns : ConnFits(conn[d])
  BY DEF NRInv, Local, Typed, ConnsInv
<1>3. /\ conn' \in [Conns -> ConnType]
      /\ \A d \in Conns : /\ conn'[d].kind = conn[d].kind /\ conn'[d].part = conn[d].part
                          /\ conn'[d].driver = conn[d].driver
      /\ \A d \in Conns \ {c} : conn'[d] = conn[d]
  BY <1>1, <1>2 DEF ConnType
<1>4. ConnsInv'
  <2>1. ASSUME NEW d \in Conns PROVE ConnFits(conn[d])'
    BY <1>1, <1>2, <1>3 DEF ConnFits
  <2> QED
    BY <2>1 DEF ConnsInv
<1>5. ExclusiveClosesOnce'
  <2>1. conn[c].kind # "shared" => ~(closes[c] > 0)
    BY <1>1, <1>2, GoneFits DEF ExclusiveClosesOnce
  <2> QED
    BY <1>1, <1>2, <1>3, <2>1 DEF ExclusiveClosesOnce
<1> QED
  BY <1>1, <1>2, <1>3, <1>4, <1>5, WorldStep DEF KindsStay

LEMMA DriverGoes ==
  ASSUME NRInv, NEW c \in Conns, UNCHANGED sharing, DriverEnds(c)
  PROVE  Local' /\ PoolStep
<1> DEFINE x == [conn[c] EXCEPT !.driver = FALSE]
<1>1. /\ conn[c].driver /\ Report(c, TRUE) /\ conn' = Swept([conn EXCEPT ![c] = x])
      /\ UNCHANGED <<clock, idle, req>> /\ UNCHANGED sfVars
  BY DEF DriverEnds
<1>2. /\ conn \in [Conns -> ConnType] /\ closes \in [Conns -> 0..2] /\ ExclusiveClosesOnce
      /\ \A d \in Conns : ConnFits(conn[d])
  BY DEF NRInv, Local, Typed, ConnsInv
<1>3. conn[c].kind = "shared" /\ sharing
  BY <1>1, <1>2 DEF ConnFits
<1>4. x \in ConnType /\ x.kind = "shared" /\ x.part = conn[c].part /\ x.driver = FALSE
  BY <1>2, <1>3 DEF ConnType
<1> HIDE DEF x
<1>5. /\ conn'[c] = x \/ conn'[c] = Gone
      /\ \A d \in Conns \ {c} : conn'[d] = conn[d] \/ conn'[d] = Gone
      /\ KeptNext(c) => conn'[c] = x
      /\ \A d \in Conns \ {c} : KeptNext(d) => conn'[d] = conn[d]
  BY <1>1, <1>2 DEF Swept
<1>6. Gone \in ConnType /\ ConnFits(Gone)
  BY GoneFits DEF ConnFits
<1>7. conn' \in [Conns -> ConnType]
  <2>1. conn' = [d \in Conns |-> conn'[d]]
    BY <1>1 DEF Swept
  <2>2. \A d \in Conns : conn'[d] \in ConnType
    BY <1>2, <1>4, <1>5, <1>6
  <2> QED
    BY <2>1, <2>2
<1>8. KindsStay
  BY <1>3, <1>4, <1>5 DEF KindsStay
<1>9. ConnsInv'
  <2>1. ASSUME NEW d \in Conns \ {c} PROVE ConnFits(conn[d])'
    BY <1>2, <1>5, <1>6 DEF ConnFits
  <2>2. ConnFits(conn[c])'
    BY <1>3, <1>4, <1>5, <1>6 DEF ConnFits
  <2> QED
    BY <2>1, <2>2 DEF ConnsInv
<1>10. closes' \in [Conns -> 0..2] /\ \A d \in Conns \ {c} : closes'[d] = closes[d]
  <2>1. CASE closes' = closes
    BY <1>2, <2>1
  <2>2. CASE closes[c] < 2 /\ closes' = [closes EXCEPT ![c] = closes[c] + 1]
    <3>1. closes[c] + 1 \in 0..2
      BY <1>2, <2>2
    <3> QED
      BY <1>2, <2>2, <3>1
  <2> QED
    BY <1>1, <2>1, <2>2 DEF Report
<1>11. ExclusiveClosesOnce'
  <2>1. ASSUME NEW d \in Conns \ {c}
        PROVE  conn'[d].kind # "shared" /\ closes'[d] > 0 => conn'[d] = Gone
    BY <1>2, <1>5, <1>10, GoneFits DEF ExclusiveClosesOnce
  <2>2. conn'[c].kind # "shared" => conn'[c] = Gone
    BY <1>4, <1>5
  <2> QED
    BY <1>3, <2>1, <2>2 DEF ExclusiveClosesOnce
<1> QED
  BY <1>1, <1>7, <1>8, <1>9, <1>10, <1>11, WorldStep

-----------------------------------------------------------------------------
(* Steps that put a connection into the pool.                              *)

\* As LocalStep, for a step that adds an entry or a connection.
LEMMA LocalParts ==
  ASSUME Local, NEW r \in Reqs, NEW q, Becomes(r, q), OthersStay(r), UNCHANGED sharing,
         conn' \in [Conns -> ConnType],
         ReqFits(q, conn'[q.conn].kind, conn'[q.conn].part),
         EntriesInv', ConnsInv', FlightInv', SF!SFTypeOK',
         closes' \in [Conns -> 0..2], ExclusiveClosesOnce'
  PROVE  /\ Local'
         /\ Call' = [Call EXCEPT ![r] = CallFor(q, conn'[q.conn].kind)]
<1>1. ReqsInv' /\ Call' = [Call EXCEPT ![r] = CallFor(q, conn'[q.conn].kind)]
  BY RequestStep
<1>2. Typed'
  BY BecomesIs DEF Typed, Local
<1> QED
  BY <1>1, <1>2 DEF Local

\* The entries after a put.
LEMMA PutEntries ==
  ASSUME NRInv, NEW k \in PoolKeys, NEW e \in PP!Idles,
         idle' = [idle EXCEPT ![k] = PutIn(idle[k], e)]
  PROVE  /\ idle' \in [PoolKeys -> Seq(PP!Idles)]
         /\ \A l \in PoolKeys : \A i \in DOMAIN idle'[l] :
              (l = k /\ idle'[l][i] = e) \/ \E j \in DOMAIN idle[l] : idle'[l][i] = idle[l][j]
<1> DEFINE p == PutIn(idle[k], e)
<1>1. /\ idle \in [PoolKeys -> Seq(PP!Idles)] /\ idle[k] \in Seq(PP!Idles) /\ Len(idle[k]) <= MaxIdle
      /\ p = PP!PutIn(idle[k], e)
  BY PoolFacts, SameOps
<1>2. /\ p \in Seq(PP!Idles)
      /\ \A i \in DOMAIN p : p[i] = e \/ \E j \in DOMAIN idle[k] : p[i] = idle[k][j]
  BY <1>1, PP!PutFits, PoolAssumptions, PoolConfigIsNat
<1> HIDE DEF p
<1>3. idle'[k] = p /\ \A l \in PoolKeys \ {k} : idle'[l] = idle[l]
  BY <1>1 DEF p
<1>4. idle' \in [PoolKeys -> Seq(PP!Idles)]
  BY <1>1, <1>2 DEF p
<1> QED
  BY <1>2, <1>3, <1>4

\* The entry a request puts or shares.
LEMMA EntryIs ==
  ASSUME NRInv, NEW q \in ReqType, NEW c \in Conns, NEW sh \in BOOLEAN
  PROVE  LET e == Idle(c, sh, Stamp(q), clock) IN e \in PP!Idles /\ e.conn = c /\ e.shared = sh
<1>1. q.now \in 0..MaxTime /\ clock \in 0..MaxTime
  BY PoolFacts DEF ReqType
<1>2. Stamp(q) \in 0..(MaxTime + IdleTimeout)
  BY <1>1, PoolConfigIsNat, NativeConstants DEF Stamp
<1> QED
  BY <1>1, <1>2 DEF Idle, PP!Idles

LEMMA HandsBack ==
  ASSUME NRInv, NEW r \in Reqs, UNCHANGED sharing, BodyEndReuse(r)
  PROVE  Local' /\ PoolStep
<1> DEFINE c == req[r].conn
<1> DEFINE k == Key(r)
<1> DEFINE e == Idle(c, FALSE, Stamp(req[r]), clock)
<1>0. Local
  BY DEF NRInv
<1>1. /\ req[r].pc = "body" /\ req[r].reuse
      /\ idle' = [idle EXCEPT ![k] = PutIn(idle[k], e)] /\ req' = [req EXCEPT ![r] = NoReq]
      /\ UNCHANGED <<clock, closes>> /\ UNCHANGED sfVars /\ conn' = Swept(conn)
  BY DEF BodyEndReuse
<1>2. /\ req[r] \in ReqType /\ ReqFits(req[r], conn[c].kind, conn[c].part)
      /\ Call[r] = CallFor(req[r], conn[c].kind)
  BY <1>0, CallIs
<1>3. /\ c \in Conns /\ conn[c].kind # "gone" /\ conn[c].kind # "shared" /\ conn[c].part = req[r].part
      /\ req[r].proto = "H1" <=> conn[c].kind = "H1"
  BY <1>1, <1>2 DEF ReqFits, Using
<1>4. k \in PoolKeys /\ k[1] = req[r].part /\ k[2] = req[r].proto /\ req[r].proto \in {"H1", "H2"}
  BY <1>2 DEF Key, PoolKeys, ReqType
<1>5. e \in PP!Idles /\ e.conn = c /\ e.shared = FALSE
  BY <1>2, <1>3, EntryIs
<1> HIDE DEF e, k
<1>6. /\ idle' \in [PoolKeys -> Seq(PP!Idles)]
      /\ \A l \in PoolKeys : \A i \in DOMAIN idle'[l] :
           (l = k /\ idle'[l][i] = e) \/ \E j \in DOMAIN idle[l] : idle'[l][i] = idle[l][j]
  BY ZenonT(60), <1>1, <1>4, <1>5, PutEntries
<1>7. NoReq \in ReqType /\ NoReq.pc = "idle" /\ NoReq.conn = NoConn
      /\ ReqFits(NoReq, conn'[NoReq.conn].kind, conn'[NoReq.conn].part)
  BY NoReqIs, NoReqIsOut, OutFits
<1>8. Becomes(r, NoReq)
  BY <1>1, <1>7 DEF Becomes
<1>9. Sweeps
  BY <1>0, <1>1, SweptSweeps
<1>10. OthersStay(r)
  BY <1>0, <1>8, <1>9, SweepsStay
<1>11. EntriesInv'
  <2>1. EntryFits(e, k, conn[c].kind, conn[c].part)
    <3>1. conn[c].kind \in {"gone", "H1", "H2", "shared"}
      BY <1>0, <1>3 DEF Local, Typed, ConnType
    <3> QED
      BY <1>3, <1>4, <1>5, <3>1 DEF EntryFits
  <2>2. ASSUME NEW l \in PoolKeys, NEW i \in DOMAIN idle'[l]
        PROVE  conn'[idle'[l][i].conn] = conn[idle'[l][i].conn]
    <3>1. idle'[l][i] \in PP!Idles
      BY <1>6
    <3>2. idle'[l][i].conn \in Conns
      BY <3>1 DEF PP!Idles
    <3>3. KeptNext(idle'[l][i].conn)
      BY DEF KeptNext, Entries
    <3> QED
      BY <1>9, <3>2, <3>3 DEF Sweeps
  <2>3. ASSUME NEW l \in PoolKeys, NEW i \in DOMAIN idle'[l]
        PROVE  \/ EntryFits(idle'[l][i], l, conn'[idle'[l][i].conn].kind, conn'[idle'[l][i].conn].part)
               \/ /\ \E j \in DOMAIN idle[l] :
                       idle'[l][i].conn = idle[l][j].conn /\ idle'[l][i].shared = idle[l][j].shared
                  /\ conn'[idle'[l][i].conn].kind = conn[idle'[l][i].conn].kind
                  /\ conn'[idle'[l][i].conn].part = conn[idle'[l][i].conn].part
    BY ZenonT(60), <1>5, <1>6, <2>1, <2>2
  <2> QED
    BY <1>0, <1>6, <2>3, EntriesStep
<1>12. ConnsInv' /\ ExclusiveClosesOnce' /\ closes' \in [Conns -> 0..2]
  BY <1>0, <1>1, <1>9, SweepsKeeps, NothingReported DEF Local, Typed
<1>13. FlightInv' /\ SF!SFTypeOK'
  <2>1. req[r].pc \notin Looking \cup {"gate"}
    BY <1>1 DEF Looking
  <2> QED
    BY <1>0, <1>1, <1>8, <2>1, FlightPast
<1>14. Local' /\ Call' = [Call EXCEPT ![r] = CallFor(NoReq, conn'[NoReq.conn].kind)]
  BY <1>0, <1>7, <1>8, <1>9, <1>10, <1>11, <1>12, <1>13, LocalParts DEF Sweeps
<1>15. CallFor(NoReq, conn'[NoReq.conn].kind) = PP!NoCall
  BY <1>7, CallForIs DEF PP!NoCall, PP!Without, Without
<1>16. Call[r].st = "body" /\ Call[r].key = k /\ Call[r].conn = c /\ Call[r].now = req[r].now
  BY <1>1, <1>2, <1>3, CallForIs DEF Using, k, Key
<1>17. PP!PutIn(idle[k], e) = PutIn(idle[k], e) /\ PP!Idle(c, FALSE, PP!Deadline(r), clock) = e
  BY <1>16, SameOps DEF PP!Idle, Idle, e, PP!Deadline, Stamp
<1> HIDE DEF c
<1>18. PP!CheckInPut(r)
  BY <1>1, <1>14, <1>15, <1>16, <1>17 DEF PP!CheckInPut, PP!Leaving
<1> QED
  BY <1>14, <1>18 DEF PoolStep, PP!PoolNext, PP!CallerStep

\* Nothing refers to a connection that is gone.
LEMMA GoneIsFree ==
  ASSUME NRInv, NEW c \in Conns, conn[c].kind = "gone"
  PROVE  /\ \A s \in Reqs : req[s].conn # c
         /\ \A k \in PoolKeys : \A i \in DOMAIN idle[k] : idle[k][i].conn # c
         /\ PP!IsFree(c)
<1>0. Local
  BY DEF NRInv
<1>1. ASSUME NEW s \in Reqs, req[s].conn = c PROVE FALSE
  BY <1>0, <1>1, CallIs, PoolAssumptions DEF ReqFits
<1>2. ASSUME NEW k \in PoolKeys, NEW i \in DOMAIN idle[k], idle[k][i].conn = c PROVE FALSE
  <2>1. EntryFits(idle[k][i], k, conn[c].kind, conn[c].part)
    BY <1>0, <1>2 DEF Local, EntriesInv
  <2> QED
    BY <2>1 DEF EntryFits
<1>3. \A s \in Reqs : Call[s].conn # c
  <2> SUFFICES ASSUME NEW s \in Reqs PROVE Call[s].conn # c
    OBVIOUS
  <2>1. /\ Call[s] = CallFor(req[s], conn[req[s].conn].kind) /\ req[s] \in ReqType
        /\ \/ req[s].pc \in {"idle", "failed", "tail"} \/ req[s].pc \in {"gate", "look"}
           \/ req[s].pc = "dial" \/ req[s].pc \in Using
    BY <1>0, CallIs DEF ReqType, Using, Running
  <2>2. Call[s].conn = NoConn \/ Call[s].conn = req[s].conn
    BY <2>1, CallForIs DEF Without
  <2> QED
    BY <1>1, <2>2, PoolAssumptions
<1>4. PP!IsFree(c)
  BY <1>2, <1>3 DEF PP!IsFree, PP!Holders, PP!Users, PP!Slots
<1> QED
  BY <1>1, <1>2, <1>4

LEMMA Dials ==
  ASSUME NRInv, NEW r \in Reqs, NEW c \in Conns, NEW p \in {"H1", "H2", "odd"},
         UNCHANGED sharing, DialOk(r, c, p)
  PROVE  Local' /\ PoolStep
<1> DEFINE spoken == IF p = "H2" THEN "H2" ELSE "H1"
<1> DEFINE kind == IF p = "H2" /\ sharing THEN "shared" ELSE spoken
<1> DEFINE reuse == p # "odd" /\ kind # "shared"
<1> DEFINE q == [req[r] EXCEPT !.pc = "exch", !.proto = spoken, !.conn = c, !.dialed = TRUE, !.reuse = reuse]
<1> DEFINE x == [kind |-> kind, part |-> req[r].part, peer |-> "open", driver |-> kind = "shared"]
<1> DEFINE k == <<req[r].part, spoken>>
<1> DEFINE e == Idle(c, TRUE, Stamp(req[r]), clock)
<1>0. Local
  BY DEF NRInv
<1>1. /\ req[r].pc = "dial" /\ conn[c].kind = "gone" /\ Admissible(req[r].pin, spoken) /\ LetGo(r)
      /\ req' = [req EXCEPT ![r] = q]
      /\ conn' = Swept([conn EXCEPT ![c] = x])
      /\ closes' = [closes EXCEPT ![c] = 0] /\ UNCHANGED clock
  BY DEF DialOk
<1>2. /\ kind # "shared" => idle' = idle
      /\ kind = "shared" => idle' = [idle EXCEPT ![k] = PutIn(idle[k], e)]
  BY DEF DialOk, SharedKey
<1>3. /\ req[r] \in ReqType /\ ReqFits(req[r], conn[req[r].conn].kind, conn[req[r].conn].part)
      /\ Call[r] = CallFor(req[r], conn[req[r].conn].kind)
  BY <1>0, CallIs
<1>4. /\ req[r].part \in Parts /\ req[r].wire = 0
      /\ p = "H2" => req[r].part \in H2Parts
  <2>1. p \in Negotiable(r)
    BY DEF DialOk
  <2>2. p = "H2" => req[r].part \in H2Parts
    BY <2>1 DEF Negotiable
  <2>3. req[r].part \in Parts /\ req[r].wire = 0
    BY <1>1, <1>3 DEF ReqType, ReqFits
  <2> QED
    BY <2>2, <2>3
<1>5. /\ spoken \in {"H1", "H2"} /\ kind \in {"H1", "H2", "shared"} /\ reuse \in BOOLEAN
      /\ spoken = "H1" <=> kind = "H1"
      /\ kind = "shared" => sharing /\ p = "H2"
      /\ spoken = "H2" => p = "H2"
      /\ reuse => kind # "shared"
  OBVIOUS
<1>6. k \in PoolKeys /\ k[1] = req[r].part /\ k[2] = spoken
  BY <1>4, <1>5 DEF PoolKeys
<1>7. kind = "shared" => k \in H2Parts \X {"H2"} /\ k[2] = "H2"
  BY <1>4, <1>5
<1>8. e \in PP!Idles /\ e.conn = c /\ e.shared = TRUE
  BY <1>3, EntryIs
<1> HIDE DEF spoken, kind, reuse
<1>9. /\ x \in ConnType /\ x.kind = kind /\ x.part = req[r].part
      /\ x.driver = (kind = "shared")
  BY <1>4, <1>5 DEF ConnType
<1> HIDE DEF x, k, e
<1>10. q \in ReqType
  <2>1. "exch" \in Running
    BY DEF Running
  <2> QED
    BY <1>3, <1>5, <2>1 DEF ReqType
<1>11. /\ q.pc = "exch" /\ q.proto = spoken /\ q.conn = c /\ q.dialed = TRUE /\ q.reuse = reuse
       /\ q.part = req[r].part /\ q.pin = req[r].pin /\ q.now = req[r].now /\ q.wire = req[r].wire
  BY <1>3 DEF ReqType
<1> HIDE DEF q
<1>12. Becomes(r, q)
  BY <1>1, <1>10 DEF Becomes
<1>13. req'[r] = q /\ \A s \in Reqs \ {r} : req'[s] = req[s]
  BY <1>0, <1>12, BecomesIs
<1>14. /\ \A s \in Reqs : req[s].conn # c
       /\ \A l \in PoolKeys : \A i \in DOMAIN idle[l] : idle[l][i].conn # c
       /\ PP!IsFree(c)
  BY <1>1, GoneIsFree
<1>15. KeptNext(c)
  BY <1>11, <1>13 DEF KeptNext
<1>16. /\ conn \in [Conns -> ConnType] /\ closes \in [Conns -> 0..2] /\ ExclusiveClosesOnce
       /\ \A d \in Conns : ConnFits(conn[d])
  BY <1>0 DEF Local, Typed, ConnsInv
<1>17. /\ conn'[c] = x
       /\ \A d \in Conns \ {c} : conn'[d] = conn[d] \/ conn'[d] = Gone
       /\ \A d \in Conns \ {c} : KeptNext(d) => conn'[d] = conn[d]
  BY <1>1, <1>15, <1>16 DEF Swept
<1>18. conn' \in [Conns -> ConnType]
  <2>1. conn' = [d \in Conns |-> conn'[d]]
    BY <1>1 DEF Swept
  <2>2. \A d \in Conns : conn'[d] \in ConnType
    BY <1>9, <1>16, <1>17, GoneFits DEF ConnFits
  <2> QED
    BY <2>1, <2>2
<1>19. OthersStay(r)
  <2> SUFFICES ASSUME NEW s \in Reqs \ {r}, req[s].pc \in Using
               PROVE  conn'[req[s].conn] = conn[req[s].conn]
    BY DEF OthersStay
  <2>1. req[s].conn \in Conns \ {c}
    BY <1>0, <1>14, CallIs DEF ReqFits
  <2>2. KeptNext(req[s].conn)
    BY <1>13 DEF KeptNext
  <2> QED
    BY <1>17, <2>1, <2>2
<1>20. ReqFits(q, conn'[q.conn].kind, conn'[q.conn].part)
  <2>1. q.pc \in Using /\ q.pc \notin Looking \cup {"gate"} /\ q.wire = 0
    BY <1>4, <1>11 DEF Using, Looking
  <2>2. conn'[q.conn].kind = kind /\ conn'[q.conn].part = q.part /\ kind # "gone"
    BY <1>5, <1>9, <1>11, <1>17
  <2>3. Admissible(q.pin, IF kind = "H1" THEN "H1" ELSE "H2")
    BY <1>1, <1>5, <1>11
  <2>4. q.proto = "H2" => q.part \in H2Parts
    BY <1>4, <1>5, <1>11
  <2> QED
    BY <1>5, <1>11, <2>1, <2>2, <2>3, <2>4 DEF ReqFits
<1>21. /\ idle' \in [PoolKeys -> Seq(PP!Idles)]
       /\ \A l \in PoolKeys : \A i \in DOMAIN idle'[l] :
            \/ l = k /\ idle'[l][i] = e /\ kind = "shared"
            \/ \E j \in DOMAIN idle[l] : idle'[l][i] = idle[l][j]
  <2>1. CASE kind = "shared"
    BY <1>2, <1>6, <1>8, <2>1, PutEntries
  <2>2. CASE kind # "shared"
    BY <1>2, <2>2, PoolFacts
  <2> QED
    BY <2>1, <2>2
<1>22. EntriesInv'
  <2>1. kind = "shared" => EntryFits(e, k, x.kind, x.part)
    BY <1>6, <1>7, <1>8, <1>9 DEF EntryFits
  <2>2. ASSUME NEW l \in PoolKeys, NEW i \in DOMAIN idle'[l], NEW j \in DOMAIN idle[l],
               idle'[l][i] = idle[l][j]
        PROVE  conn'[idle'[l][i].conn] = conn[idle'[l][i].conn]
    <3>1. idle'[l][i] \in PP!Idles
      BY <1>21
    <3>2. idle'[l][i].conn \in Conns \ {c}
      BY <1>14, <2>2, <3>1 DEF PP!Idles
    <3>3. KeptNext(idle'[l][i].conn)
      BY DEF KeptNext, Entries
    <3> QED
      BY <1>17, <3>2, <3>3
  <2>3. ASSUME NEW l \in PoolKeys, NEW i \in DOMAIN idle'[l]
        PROVE  \/ EntryFits(idle'[l][i], l, conn'[idle'[l][i].conn].kind, conn'[idle'[l][i].conn].part)
               \/ /\ \E j \in DOMAIN idle[l] :
                       idle'[l][i].conn = idle[l][j].conn /\ idle'[l][i].shared = idle[l][j].shared
                  /\ conn'[idle'[l][i].conn].kind = conn[idle'[l][i].conn].kind
                  /\ conn'[idle'[l][i].conn].part = conn[idle'[l][i].conn].part
    <3>1. CASE l = k /\ idle'[l][i] = e /\ kind = "shared"
      BY <1>8, <1>17, <2>1, <3>1
    <3>2. CASE \E j \in DOMAIN idle[l] : idle'[l][i] = idle[l][j]
      BY <2>2, <3>2
    <3> QED
      BY <1>21, <3>1, <3>2
  <2> QED
    BY <1>0, <1>21, <2>3, EntriesStep
<1>23. ConnsInv'
  <2>1. ASSUME NEW d \in Conns \ {c} PROVE ConnFits(conn[d])'
    BY <1>16, <1>17, GoneFits DEF ConnFits
  <2>2. ConnFits(conn[c])'
    BY <1>5, <1>9, <1>17 DEF ConnFits
  <2> QED
    BY <2>1, <2>2 DEF ConnsInv
<1>24. closes' \in [Conns -> 0..2] /\ ExclusiveClosesOnce'
  <2>1. closes' \in [Conns -> 0..2] /\ closes'[c] = 0 /\ \A d \in Conns \ {c} : closes'[d] = closes[d]
    BY <1>1, <1>16
  <2>2. ASSUME NEW d \in Conns \ {c}
        PROVE  /\ conn'[d].kind # "shared" /\ closes'[d] > 0 => conn'[d] = Gone
               /\ ~sharing' => closes'[d] <= 1
    BY <1>16, <1>17, <2>1, GoneFits DEF ExclusiveClosesOnce
  <2> QED
    BY <2>1, <2>2 DEF ExclusiveClosesOnce
<1>25. FlightInv' /\ SF!SFTypeOK'
  BY <1>0, <1>1, <1>12, FlightLetGo
<1>26. Local' /\ Call' = [Call EXCEPT ![r] = CallFor(q, conn'[q.conn].kind)]
  BY <1>0, <1>12, <1>18, <1>19, <1>20, <1>22, <1>23, <1>24, <1>25, LocalParts
<1>27. CallFor(q, conn'[q.conn].kind) =
         [st |-> IF kind = "shared" THEN "using" ELSE "holding", now |-> req[r].now, key |-> k, conn |-> c]
  BY <1>9, <1>10, <1>11, <1>17, CallForIs DEF Using, k
<1>28. Call[r] = Without("missed", req[r].now)
  BY <1>1, <1>3, CallForIs
<1>29. /\ Call[r].st = "missed" /\ Call[r].now = req[r].now
       /\ Gets(Call[r], req[r].now, "using", k, c) /\ Gets(Call[r], req[r].now, "holding", k, c)
  BY <1>28, WithoutChanges
<1>30. CASE kind # "shared"
  <2>1. Call' = [Call EXCEPT ![r] = [Call[r] EXCEPT !.st = "holding", !.key = k, !.conn = c]]
    BY <1>26, <1>27, <1>29, <1>30 DEF Gets
  <2>2. PP!Connect(r, k, c)
    BY <1>1, <1>2, <1>14, <1>29, <1>30, <2>1 DEF PP!Connect
  <2> QED
    BY <1>6, <1>26, <2>2 DEF PoolStep, PP!PoolNext, PP!CallerStep
<1>31. CASE kind = "shared"
  <2>1. Call' = [Call EXCEPT ![r] = [Call[r] EXCEPT !.st = "using", !.key = k, !.conn = c]]
    BY <1>26, <1>27, <1>29, <1>31 DEF Gets
  <2>2. PP!PutIn(idle[k], e) = PutIn(idle[k], e) /\ PP!Idle(c, TRUE, PP!Deadline(r), clock) = e
    BY <1>29, SameOps DEF PP!Idle, Idle, e, PP!Deadline, Stamp
  <2>3. PP!Share(r, k, c)
    BY <1>1, <1>2, <1>7, <1>14, <1>29, <1>31, <2>1, <2>2 DEF PP!Share
  <2> QED
    BY <1>6, <1>26, <2>3 DEF PoolStep, PP!PoolNext, PP!CallerStep
<1> QED
  BY <1>30, <1>31

-----------------------------------------------------------------------------
(* The transport.                                                          *)

LEMMA NRStarts ==
  ASSUME NRInit
  PROVE  NRInv /\ PP!PoolInit
<1> DEFINE none == CHOOSE p \in Parts : TRUE
<1>1. /\ sharing \in BOOLEAN /\ clock = 0 /\ idle = [k \in PoolKeys |-> <<>>]
      /\ conn = [c \in Conns |-> Gone] /\ closes = [c \in Conns |-> 0] /\ req = [r \in Reqs |-> NoReq]
      /\ SF!SFInit
  BY DEF NRInit
<1>2. NoReq \in ReqType /\ Gone \in ConnType /\ ConnFits(Gone) /\ Gone.kind = "gone"
  BY NoReqIs, GoneFits DEF ConnFits
<1>3. SF!SFTypeOK /\ FlightInv
  BY <1>1 DEF SF!SFInit, SF!SFTypeOK, SF!Flights, FlightInv
<1>4. Typed
  BY <1>1, <1>2, <1>3 DEF Typed
<1>5. ReqsInv
  <2>1. ASSUME NEW kind, NEW part PROVE ReqFits(NoReq, kind, part)
    BY NoReqIsOut, OutFits
  <2> QED
    BY <1>1, <2>1 DEF ReqsInv
<1>6. EntriesInv /\ ConnsInv /\ ExclusiveClosesOnce
  BY <1>1, <1>2 DEF EntriesInv, ConnsInv, ExclusiveClosesOnce
<1>7. PP!PoolInit
  <2>1. ASSUME NEW r \in Reqs PROVE CallOf(r) = PP!NoCall
    <3>1. CallOf(r) = CallFor(NoReq, conn[req[r].conn].kind)
      BY <1>1, CallOfIs
    <3> QED
      BY <3>1, NoReqIs, CallForIs DEF PP!NoCall, PP!Without, Without
  <2>2. Call = [r \in Reqs |-> PP!NoCall]
    BY <2>1 DEF Call
  <2> QED
    BY <1>1, <2>2 DEF PP!PoolInit, PP!Empty
<1>8. PP!PoolInv
  BY <1>7, PP!PoolStarts, PoolAssumptions, PoolConfigIsNat
<1> QED
  BY <1>4, <1>5, <1>6, <1>3, <1>7, <1>8 DEF NRInv, Local

\* Every step keeps the transport's part and is a step of the pool's callers.
LEMMA NRSteps ==
  ASSUME NRInv, [NRNext]_nrVars
  PROVE  NRInv' /\ [PP!PoolNext]_(PP!poolVars)
<1>1. Local' /\ PoolStep
  <2>1. CASE UNCHANGED nrVars
    <3>1. UNCHANGED <<clock, idle, conn, closes, req, sharing>> /\ UNCHANGED sfVars
      BY <2>1 DEF nrVars, sfVars
    <3>2. FlightInv' /\ SF!SFTypeOK' /\ Sweeps /\ EntriesStay
      BY <3>1, FlightStays, SweptSweeps, SameEntries DEF NRInv, sfVars
    <3>3. Local' /\ Call' = Call
      BY <3>1, <3>2, SweptStay DEF NRInv
    <3> QED
      BY <3>1, <3>3 DEF PoolStep
  <2>2. CASE NRNext
    <3>0. UNCHANGED sharing
      BY <2>2 DEF NRNext
    <3>1. ASSUME NEW r \in Reqs, Connecting(r) PROVE Local' /\ PoolStep
      BY <3>0, <3>1, Starts, Wakes, Retakes, GivesUp, Skips, LooksUp, Forwards, IsStale, Dials
      DEF Connecting
    <3>2. ASSUME NEW r \in Reqs, Exchanging(r) PROVE Local' /\ PoolStep
      BY <3>0, <3>2, Refused, Forwards, Ends, HandsBack DEF Exchanging
    <3>3. ASSUME NEW r \in Reqs, Cancel(r) \/ WakeStep(r) PROVE Local' /\ PoolStep
      BY <3>0, <3>3, GivesUp, Wakes
    <3>4. ASSUME NEW c \in Conns, ServerCloses(c) \/ DriverEnds(c) PROVE Local' /\ PoolStep
      BY <3>0, <3>4, Closes, DriverGoes
    <3>5. ASSUME Reap \/ Tick PROVE Local' /\ PoolStep
      BY <3>0, <3>5, Reaps, Ticks
    <3> QED
      BY <2>2, <3>1, <3>2, <3>3, <3>4, <3>5 DEF NRNext
  <2> QED
    BY <2>1, <2>2
<1>2. [PP!PoolNext]_(PP!poolVars)
  BY <1>1 DEF PoolStep, PP!poolVars
<1>3. PP!PoolInv'
  BY <1>2, PP!PoolSteps, PoolAssumptions, PoolConfigIsNat DEF NRInv
<1> QED
  BY <1>1, <1>2, <1>3 DEF NRInv

\* Every step of Native::run, of a body or of the rest of the world is a step its
\* pool allows, or none of the pool's business (lib.rs run and checkout,
\* established.rs exchange, pool.rs): what Pool promises holds of the transport.
THEOREM TransportUsesPool == NRSpec => UsesPoolAsAllowed
<1>1. NRInit => NRInv /\ P!PoolInit
  BY NRStarts, SamePool
<1>2. NRInv /\ [NRNext]_nrVars => NRInv' /\ [P!PoolNext]_(P!poolVars)
  <2>1. UNCHANGED PP!poolVars => UNCHANGED P!poolVars
    BY DEF P!poolVars, PP!poolVars, Call
  <2> QED
    BY <2>1, NRSteps, SamePool
<1> QED
  BY <1>1, <1>2, PTL DEF NRSpec, UsesPoolAsAllowed, P!PoolSpec

\* What follows from the pool's invariant for the transport: no connection is in
\* two requests' hands, or in a request's and the pool's, whatever the servers do.
THEOREM TransportKeepsCustody == NRSpec => [](PP!Custody /\ PP!DeadlineNeverLate)
<1>1. NRInit => NRInv
  BY NRStarts
<1>2. NRInv /\ [NRNext]_nrVars => NRInv'
  BY NRSteps
<1>3. NRInv => PP!Custody /\ PP!DeadlineNeverLate
  BY PP!InvIsCustody, PoolAssumptions, PoolConfigIsNat DEF NRInv
<1> QED
  BY <1>1, <1>2, <1>3, PTL DEF NRSpec

LEMMA InvIsSafe ==
  ASSUME NRInv
  PROVE  NRSafe /\ AtMostOnce /\ ExclusiveClosesOnce
<1>0. Local
  BY DEF NRInv
<1>1. NRTypeOK
  <2>1. clock \in 0..MaxTime /\ idle \in [PoolKeys -> Seq(PP!Idles)]
    BY PoolFacts
  <2>2. idle \in [PoolKeys -> Seq([conn : Conns, shared : BOOLEAN,
                                   at : 0..(MaxTime + IdleTimeout), since : 0..MaxTime])]
    BY <2>1 DEF PP!Idles
  <2> QED
    BY <1>0, <2>1, <2>2 DEF NRTypeOK, Local, Typed, ReqType, ConnType
<1>2. AtMostOnce
  <2>1. ASSUME NEW r \in Reqs PROVE req[r].wire <= 1
    BY <1>0, CallIs DEF ReqFits
  <2> QED
    BY <2>1 DEF AtMostOnce
<1>3. RightConnection
  <2>1. ASSUME NEW r \in Reqs, req[r].pc \in {"exch", "queued", "sent", "body"}
        PROVE  /\ conn[req[r].conn].part = req[r].part
               /\ Admissible(req[r].pin, IF Kind(r) = "H1" THEN "H1" ELSE "H2")
    BY <1>0, <2>1, CallIs DEF ReqFits, Using, Kind
  <2>2. ASSUME NEW p \in Parts, NEW x \in {"H1", "H2"}, NEW e \in Entries(idle[<<p, x>>])
        PROVE  /\ conn[e.conn].part = p
               /\ conn[e.conn].kind \in (IF x = "H1" THEN {"H1"} ELSE {"H2", "shared"})
               /\ e.shared <=> conn[e.conn].kind = "shared"
    <3> DEFINE k == <<p, x>>
    <3>1. k \in PoolKeys /\ k[1] = p /\ k[2] = x
      BY DEF PoolKeys
    <3>2. PICK i \in DOMAIN idle[k] : e = idle[k][i]
      BY DEF Entries
    <3>3. EntryFits(e, k, conn[e.conn].kind, conn[e.conn].part)
      BY <1>0, <3>1, <3>2 DEF Local, EntriesInv
    <3> QED
      BY <3>1, <3>3 DEF EntryFits
  <2> QED
    BY <2>1, <2>2 DEF RightConnection
<1>4. MarkOnlyWhileConnecting
  BY <1>0 DEF MarkOnlyWhileConnecting, Local, FlightInv, Looking
<1> QED
  BY <1>0, <1>1, <1>2, <1>3, <1>4 DEF NRSafe, Local

\* A connection serves only requests of the identity, origin and version it was
\* opened for and sits in the bucket of its protocol, and a single-flight mark is
\* held only by a request that is still looking or connecting, however servers,
\* drivers, timeouts and cancellations interleave.
THEOREM TransportIsSafe == NRSpec => []NRSafe
<1>1. NRInit => NRInv
  BY NRStarts
<1>2. NRInv /\ [NRNext]_nrVars => NRInv'
  BY NRSteps
<1>3. NRInv => NRSafe
  BY InvIsSafe
<1> QED
  BY <1>1, <1>2, <1>3, PTL DEF NRSpec

\* No request is written twice, however many pooled connections die under it
\* (the NotSent arm of the pooled loop, claim_back).
THEOREM WrittenAtMostOnce == NRSpec => []AtMostOnce
<1>1. NRInit => NRInv
  BY NRStarts
<1>2. NRInv /\ [NRNext]_nrVars => NRInv'
  BY NRSteps
<1>3. NRInv => AtMostOnce
  BY InvIsSafe
<1> QED
  BY <1>1, <1>2, <1>3, PTL DEF NRSpec

\* The end of an exclusive connection is reported once, and what was reported is
\* out of use: the one that reports is all that referred to it.
THEOREM ClosedOnce == NRSpec => []ExclusiveClosesOnce
<1>1. NRInit => NRInv
  BY NRStarts
<1>2. NRInv /\ [NRNext]_nrVars => NRInv'
  BY NRSteps
<1>3. NRInv => ExclusiveClosesOnce
  BY InvIsSafe
<1> QED
  BY <1>1, <1>2, <1>3, PTL DEF NRSpec

\* What a step does to the request of another task, and of its own.
LEMMA OnlyItsOwn ==
  ASSUME NRInv, NRNext, NEW r \in Reqs, req[r].pc \in Using, req'[r].pc = "failed"
  PROVE  \/ DispatchRefused(r) \/ QueuedDies(r) \/ SentDies(r)
         \/ FirstByteTimeout(r) \/ BodyFails(r)
<1>0. req \in [Reqs -> ReqType] /\ req[r].pc # "failed" /\ req[r].pc # "gate" /\ req[r].pc # "dial"
  BY DEF NRInv, Local, Typed, Using
<1>1. ASSUME NEW s \in Reqs, NEW q, req' = [req EXCEPT ![s] = q]
      PROVE  s = r /\ q.pc = "failed"
  BY <1>0, <1>1
<1>2. req' # req
  BY <1>0
<1>3. ASSUME NEW s \in Reqs, Connecting(s) PROVE FALSE
  <2>1. CASE Start(s)
    <3>1. PICK ask \in Asks :
            req' = [req EXCEPT ![s] = [NoReq EXCEPT
              !.pc = IF flight'[s] = "begun" THEN "gate" ELSE "look",
              !.now = clock, !.part = ask[1], !.pin = ask[2],
              !.proto = IF ask[1] \in H2Parts THEN "H2" ELSE "H1"]]
      BY <2>1 DEF Start
    <3>2. s = r /\ req[s].pc \in {"idle", "failed"}
      BY <1>1, <2>1, <3>1 DEF Start
    <3> QED
      BY <3>2 DEF Using
  <2>2. CASE GateTimeout(s) \/ DialFails(s)
    BY <1>0, <1>1, <2>2 DEF GateTimeout, DialFails, Failed
  <2>3. CASE GatePoll(s)
    BY <1>2, <2>3 DEF GatePoll
  <2>4. CASE GateRetake(s)
    BY <1>0, <1>1, <2>4 DEF GateRetake
  <2>5. CASE SkipCandidate(s)
    BY <1>0, <1>1, <2>5 DEF SkipCandidate, NextCandidate, Using
  <2>6. CASE Checkout(s)
    <3>1. req[s].pc = "look" /\ \E q : req' = [req EXCEPT ![s] = q]
      BY <2>6 DEF Checkout
    <3> QED
      BY SMTT(30), <1>1, <3>1 DEF Using
  <2>7. CASE ProbeReusable(s)
    <3>1. \E x : req' = [req EXCEPT ![s] = [req[s] EXCEPT !.pc = "exch", !.reuse = x]]
      BY <2>7 DEF ProbeReusable
    <3> QED
      BY <1>0, <1>1, <3>1 DEF ReqType
  <2>8. CASE ProbeStale(s)
    <3>1. req' = [req EXCEPT ![s] = [req[s] EXCEPT !.pc = "look", !.conn = NoConn]]
      BY <2>8 DEF ProbeStale
    <3> QED
      BY <1>0, <1>1, <3>1 DEF ReqType
  <2>9. ASSUME NEW c \in Conns, NEW p \in {"H1", "H2", "odd"}, DialOk(s, c, p) PROVE FALSE
    <3>1. req[s].pc = "dial" /\ \E q : req' = [req EXCEPT ![s] = q]
      BY <2>9 DEF DialOk
    <3> QED
      BY <1>0, <1>1, <3>1
  <2> QED
    BY <1>3, <2>1, <2>2, <2>3, <2>4, <2>5, <2>6, <2>7, <2>8, <2>9 DEF Connecting
<1>4. ASSUME NEW s \in Reqs, Exchanging(s)
      PROVE  s = r /\ (\/ DispatchRefused(s) \/ QueuedDies(s) \/ SentDies(s)
                       \/ FirstByteTimeout(s) \/ BodyFails(s))
  <2>1. \E q : req' = [req EXCEPT ![s] = q]
    BY <1>4 DEF Exchanging, DispatchRefused, Dispatch, Write, QueuedDies, Head200, HeadAndClose,
                SentDies, FirstByteTimeout, BodyEndReuse, BodyEndClose, BodyFails, NotSent, Failed
  <2>2. s = r
    BY <1>1, <2>1
  <2>3. ASSUME Dispatch(s) \/ Head200(s) PROVE FALSE
    <3>1. \E x \in {"queued", "body"} : req' = [req EXCEPT ![s] = [req[s] EXCEPT !.pc = x]]
      BY <2>3 DEF Dispatch, Head200
    <3> QED
      BY <1>0, <1>1, <3>1 DEF ReqType
  <2>4. ASSUME Write(s) PROVE FALSE
    BY <1>0, <2>2, <2>4 DEF Write, ReqType
  <2>5. ASSUME HeadAndClose(s) \/ BodyEndReuse(s) \/ BodyEndClose(s) PROVE FALSE
    <3>1. \E x \in {"idle", "tail"} : req' = [req EXCEPT ![s] = [NoReq EXCEPT !.pc = x]]
      BY <2>5, NoReqIsOut DEF HeadAndClose, BodyEndReuse, BodyEndClose
    <3> QED
      BY <1>1, <3>1, OutFits
  <2> QED
    BY <1>4, <2>2, <2>3, <2>4, <2>5 DEF Exchanging
<1>5. ASSUME NEW s \in Reqs, Cancel(s) \/ WakeStep(s) PROVE FALSE
  <2>1. CASE Cancel(s)
    BY <1>1, <2>1, NoReqIs DEF Cancel
  <2>2. CASE WakeStep(s)
    BY <1>2, <2>2 DEF WakeStep
  <2> QED
    BY <1>5, <2>1, <2>2
<1>6. ASSUME NEW c \in Conns, ServerCloses(c) \/ DriverEnds(c) PROVE FALSE
  BY <1>2, <1>6 DEF ServerCloses, DriverEnds
<1>7. ASSUME Reap \/ Tick PROVE FALSE
  BY <1>2, <1>7 DEF Reap, Tick
<1> QED
  BY <1>3, <1>4, <1>5, <1>6, <1>7 DEF NRNext

\* A server that closes an HTTP/1 connection under a request none of which was
\* written never makes the request fail, unless the connection was the request's
\* own or its first-byte bound ran out.
THEOREM UnsentGoesOn == NRSpec => UnsentIsRetried
<1>1. NRInit => NRInv
  BY NRStarts
<1>2. NRInv /\ [NRNext]_nrVars => NRInv'
  BY NRSteps
<1>3. NRInv /\ [NRNext]_nrVars =>
        \A r \in Reqs :
          (req[r].pc \in Using /\ req[r].wire = 0 /\ Kind(r) = "H1" /\ req'[r].pc = "failed")
            => req[r].dialed \/ FirstByteTimeout(r)
  <2> SUFFICES ASSUME NRInv, [NRNext]_nrVars, NEW r \in Reqs, req[r].pc \in Using, req[r].wire = 0,
                      Kind(r) = "H1", req'[r].pc = "failed", ~req[r].dialed
               PROVE  FirstByteTimeout(r)
    OBVIOUS
  <2>1. Local /\ req[r] \in ReqType /\ ReqFits(req[r], conn[req[r].conn].kind, conn[req[r].conn].part)
    BY CallIs DEF NRInv
  <2>2. req[r].pc \notin {"sent", "body"}
    BY <2>1 DEF ReqFits
  <2>3. NRNext
    BY DEF nrVars, Using
  <2>4. \/ DispatchRefused(r) \/ QueuedDies(r) \/ SentDies(r) \/ FirstByteTimeout(r) \/ BodyFails(r)
    BY <2>3, OnlyItsOwn
  <2>5. ~SentDies(r) /\ ~BodyFails(r)
    BY <2>2 DEF SentDies, BodyFails, Using
  <2>6. ~DispatchRefused(r) /\ ~QueuedDies(r)
    <3> SUFFICES ASSUME req' = [req EXCEPT ![r] = NextCandidate(req[r])] PROVE FALSE
      BY DEF DispatchRefused, QueuedDies, NotSent
    <3>1. NextCandidate(req[r]).pc \in {"look", "dial"}
      BY <2>1 DEF NextCandidate, ReqType
    <3>2. req \in [Reqs -> ReqType]
      BY <2>1 DEF Local, Typed
    <3> HIDE DEF NextCandidate
    <3> QED
      BY <3>1, <3>2
  <2> QED
    BY <2>4, <2>5, <2>6
<1> QED
  BY <1>1, <1>2, <1>3, PTL DEF NRSpec, UnsentIsRetried
=============================================================================
