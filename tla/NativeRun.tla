----------------------------- MODULE NativeRun ------------------------------
(***************************************************************************)
(* One request after another through Native::run of hclient-native: the    *)
(* wait for somebody else's connect, the pooled candidates, the connect of *)
(* its own, the exchange and the response body, over a pool whose          *)
(* connections the server may close at any moment.  The single-flight mark *)
(* is SingleFlight, the buckets are PoolBucket.                            *)
(***************************************************************************)
EXTENDS PoolBucket

CONSTANTS
  Reqs,     \* tasks, each making one request at a time
  Conns,    \* connection identities, free again once nothing refers to them
  NoConn,
  Parts,    \* KeyParts: security with its identity, host, port, proxy
  H2Parts,  \* those for which may_speak_h2 holds
  Asks,     \* what requests ask for: <<part, version>>, the version being the
            \* one RequireVersion demands ("H1", "H2") or "any"
  MaxTime   \* bound on the clock

ASSUME NativeConstants ==
  /\ NoConn \notin Conns /\ H2Parts \subseteq Parts /\ Parts # {}
  /\ Asks \subseteq Parts \X {"any", "H1", "H2"}
  /\ MaxTime \in Nat

VARIABLES
  sharing,                             \* shares_connections: Native::multiplexed
  clock, idle,                         \* as in Pool
  mark, wakers, flight, want, waking,  \* as in SingleFlight
  conn,    \* conn[c]: what is known of connection c
  closes,  \* closes[c]: Closed events reported for c, counted to 2
  req      \* req[r]: the request task r is making

nrVars == <<sharing, clock, idle, mark, wakers, flight, want, waking, conn, closes, req>>
sfVars == <<mark, wakers, flight, want, waking>>

SF == INSTANCE SingleFlight WITH Tasks <- Reqs, Keys <- Parts

PoolKeys == Parts \X {"H1", "H2"}

(***************************************************************************)
(* A connection: `peer' is "closed" once the server's close (or GOAWAY, or *)
(* a lapsed keep-alive) can be seen by whoever polls it; `driver' says     *)
(* that a spawned H2Driver still runs it, which only shared ones have.     *)
(***************************************************************************)
Gone == [kind |-> "gone", part |-> CHOOSE p \in Parts : TRUE, peer |-> "open", driver |-> FALSE]

(***************************************************************************)
(* A request:                                                              *)
(*   gate    waits for somebody else's connect                             *)
(*   look    about to look in the bucket of `proto'                        *)
(*   probe   has an entry, about to poll whether it is reusable            *)
(*   dial    is connecting                                                 *)
(*   exch    has a connection, the request not handed to it yet            *)
(*   queued  handed over, no byte written                                  *)
(*   sent    written, no response head                                     *)
(*   body    the response body drives or borrows the connection            *)
(*   tail    the response body is all that is left of a closed connection  *)
(* dialed: it has connected itself; reuse: it carries a CheckIn; wire: how *)
(* often it was written.                                                   *)
(***************************************************************************)
NoReq == [pc |-> "idle", now |-> 0, part |-> CHOOSE p \in Parts : TRUE,
          pin |-> "any", proto |-> "H1", conn |-> NoConn, dialed |-> FALSE,
          reuse |-> FALSE, wire |-> 0]

Using   == {"probe", "exch", "queued", "sent", "body"}
Running == {"gate", "look", "probe", "dial", "exch", "queued", "sent"}

NRTypeOK ==
  /\ sharing \in BOOLEAN
  /\ clock \in 0..MaxTime
  /\ idle \in [PoolKeys -> Seq([conn : Conns, shared : BOOLEAN,
                                at : 0..(MaxTime + IdleTimeout), since : 0..MaxTime])]
  /\ SF!SFTypeOK
  /\ conn \in [Conns -> [kind : {"gone", "H1", "H2", "shared"}, part : Parts,
                         peer : {"open", "closed"}, driver : BOOLEAN]]
  /\ closes \in [Conns -> 0..2]
  /\ req \in [Reqs -> [pc : Running \cup {"idle", "failed", "body", "tail"},
                       now : 0..MaxTime, part : Parts, pin : {"any", "H1", "H2"},
                       proto : {"H1", "H2"}, conn : Conns \cup {NoConn},
                       dialed : BOOLEAN, reuse : BOOLEAN, wire : 0..2]]

NRInit ==
  /\ sharing \in BOOLEAN
  /\ clock = 0
  /\ idle = [k \in PoolKeys |-> <<>>]
  /\ SF!SFInit /\ want = [r \in Reqs |-> NoReq.part]
  /\ conn = [c \in Conns |-> Gone]
  /\ closes = [c \in Conns |-> 0]
  /\ req = [r \in Reqs |-> NoReq]

-----------------------------------------------------------------------------
(* What the steps are made of.                                             *)

\* Mutant: the deadline counts from the check-in.
StampAtCheckIn(q) == clock + IdleTimeout

\* PoolKey of the candidate or of the connection in use, and the one a shared
\* handle goes under.
Key(r) == <<req[r].part, req[r].proto>>
SharedKey(q) == <<q.part, "H2">>

\* checkin_for and share_if_multiplexing: the deadline counts from Start.
Stamp(q) == q.now + IdleTimeout

Kind(r) == conn[req[r].conn].kind

\* The task is not inside finish_connect's wake loop.
Ready(r) == flight[r] # "waking"

\* The connection cannot take or finish an exchange any more, as far as the
\* one who polls it can see.
Dead(c) == IF conn[c].kind = "shared" THEN ~conn[c].driver ELSE conn[c].peer = "closed"

\* The pool or a request refers to c, in the next state.
KeptNext(c) ==
  \/ \E k \in PoolKeys : \E e \in Entries(idle'[k]) : e.conn = c
  \/ \E r \in Reqs : req'[r].conn = c

\* An exclusive connection nothing refers to is closed by its drop; a shared
\* one lives in its driver.
Swept(cs) == [c \in Conns |-> IF KeptNext(c) \/ cs[c].driver THEN cs[c] ELSE Gone]

\* connect_guard, wherever it goes out of scope; a task without the guard just
\* stops waiting or connecting.
LetGo(r) ==
  \/ flight[r] = "guarded" /\ SF!DropGuard(r)
  \/ flight[r] \in SF!Waiting \cup {"resolved", "bare"} /\ SF!Leave(r)
  \/ flight[r] = "out" /\ UNCHANGED sfVars

\* Event::Closed for c, where the code reports it.
Report(c, yes) == closes' = IF yes /\ closes[c] < 2 THEN [closes EXCEPT ![c] = @ + 1] ELSE closes

\* The request ends with an error.
Failed(r) == req' = [req EXCEPT ![r] = [NoReq EXCEPT !.pc = "failed"]]

Admissible(pin, proto) == pin = "any" \/ pin = proto

\* The next pooled candidate, or the connect after the last.
NextCandidate(q) ==
  IF q.proto = "H2" THEN [q EXCEPT !.pc = "look", !.proto = "H1", !.conn = NoConn, !.reuse = FALSE]
                    ELSE [q EXCEPT !.pc = "dial", !.conn = NoConn, !.reuse = FALSE]

\* Failed::NotSent: the pooled loop goes on with the request it got back; a
\* fresh connection's failure is the caller's.
NotSent(r) ==
  IF req[r].dialed THEN Failed(r)
                   ELSE req' = [req EXCEPT ![r] = NextCandidate(@)]

-----------------------------------------------------------------------------
(* Native::run up to the connection.                                       *)

\* Everything before the first await: the clock, the first begin_connect, the
\* first candidate.
Start(r) ==
  /\ Ready(r) /\ req[r].pc \in {"idle", "failed"}
  /\ \E ask \in Asks : LET p == ask[1] IN
       /\ IF sharing /\ p \in H2Parts
            THEN SF!Arrive(r, p)
            ELSE UNCHANGED sfVars
       /\ req' = [req EXCEPT ![r] = [NoReq EXCEPT
            !.pc = IF flight'[r] = "begun" THEN "gate" ELSE "look",
            !.now = clock, !.part = p, !.pin = ask[2],
            !.proto = IF p \in H2Parts THEN "H2" ELSE "H1"]]
  /\ UNCHANGED <<clock, idle, conn, closes>>

\* wait_for_a_shared_connect, polled.
GatePoll(r) ==
  /\ req[r].pc = "gate" /\ SF!PollWait(r)
  /\ UNCHANGED <<clock, idle, conn, closes, req>>

\* The wait is over: the second begin_connect.
GateRetake(r) ==
  /\ req[r].pc = "gate" /\ SF!Retake(r)
  /\ req' = [req EXCEPT ![r].pc = "look"]
  /\ UNCHANGED <<clock, idle, conn, closes>>

\* The wait uses the connect budget up.
GateTimeout(r) ==
  /\ req[r].pc = "gate" /\ flight[r] \in SF!Waiting
  /\ SF!Leave(r) /\ Failed(r)
  /\ UNCHANGED <<clock, idle, conn, closes>>

\* A candidate the demanded version rules out.
SkipCandidate(r) ==
  /\ req[r].pc = "look" /\ ~Admissible(req[r].pin, req[r].proto)
  /\ req' = [req EXCEPT ![r] = NextCandidate(@)]
  /\ UNCHANGED <<clock, idle, conn, closes>> /\ UNCHANGED sfVars

\* Pool::take in checkout, with the clock reading of Start.
Checkout(r) ==
  LET t == TakeFrom(idle[Key(r)], req[r].now, clock) IN
  /\ req[r].pc = "look" /\ Admissible(req[r].pin, req[r].proto)
  /\ idle' = [idle EXCEPT ![Key(r)] = t.rest]
  /\ \/ t.got = {} /\ req' = [req EXCEPT ![r] = NextCandidate(@)]
     \/ \E e \in t.got : req' = [req EXCEPT ![r] = [@ EXCEPT !.pc = "probe", !.conn = e.conn]]
  /\ UNCHANGED <<clock, closes>> /\ UNCHANGED sfVars
  /\ conn' = Swept(conn)

\* Mutant: the guard is kept through the exchange.
ProbeReusableKeepsGuard(r) ==
  /\ req[r].pc = "probe" /\ ~Dead(req[r].conn)
  /\ req' = [req EXCEPT ![r] = [@ EXCEPT !.pc = "exch", !.reuse = Kind(r) # "shared"]]
  /\ UNCHANGED <<clock, idle, conn, closes>> /\ UNCHANGED sfVars

\* is_reusable says yes: Reused is reported, the guard goes, the CheckIn is
\* made for an exclusive connection.
ProbeReusable(r) ==
  /\ req[r].pc = "probe" /\ ~Dead(req[r].conn)
  /\ LetGo(r)
  /\ req' = [req EXCEPT ![r] = [@ EXCEPT !.pc = "exch", !.reuse = Kind(r) # "shared"]]
  /\ UNCHANGED <<clock, idle, conn, closes>>

\* is_reusable says no, and may say so of a live connection that is busy or
\* going away: the handle is forgotten, Closed(Stale) reported, and checkout
\* loops.
ProbeStale(r) ==
  LET c == req[r].conn IN
  /\ req[r].pc = "probe"
  /\ idle' = IF Kind(r) = "shared" THEN [idle EXCEPT ![Key(r)] = ForgetIn(@, c)] ELSE idle
  /\ Report(c, TRUE)
  /\ req' = [req EXCEPT ![r] = [@ EXCEPT !.pc = "look", !.conn = NoConn]]
  /\ UNCHANGED clock /\ UNCHANGED sfVars
  /\ conn' = Swept(conn)

\* What ALPN may settle on: h2 if offered, http/1.1 or silence, or a protocol
\* nobody offered, which is spoken to as HTTP/1 and never pooled ("odd").
Negotiable(r) ==
  {"H1", "odd"} \cup
  (IF req[r].part \in H2Parts /\ Admissible(req[r].pin, "H2") THEN {"H2"} ELSE {})

\* connect, check_version, the handshake and share_if_multiplexing; the guard
\* goes once a shared connection is in the pool.
DialOk(r, c, p) ==
  LET q == req[r]
      spoken == IF p = "H2" THEN "H2" ELSE "H1"
      kind == IF p = "H2" /\ sharing THEN "shared" ELSE spoken
  IN
  /\ req[r].pc = "dial" /\ Ready(r) /\ conn[c].kind = "gone" /\ p \in Negotiable(r)
  /\ Admissible(q.pin, spoken)
  /\ LetGo(r)
  /\ req' = [req EXCEPT ![r] = [q EXCEPT !.pc = "exch", !.proto = spoken, !.conn = c,
               !.dialed = TRUE, !.reuse = p # "odd" /\ kind # "shared"]]
  /\ idle' = IF kind # "shared" THEN idle
             ELSE [idle EXCEPT ![SharedKey(q)] =
                     PutIn(@, Idle(c, TRUE, Stamp(q), clock))]
  /\ conn' = Swept([conn EXCEPT ![c] = [kind |-> kind, part |-> q.part, peer |-> "open",
                                        driver |-> kind = "shared"]])
  /\ closes' = [closes EXCEPT ![c] = 0]
  /\ UNCHANGED clock

\* The connect fails or runs out of its budget, or what was negotiated is not
\* the demanded version.
DialFails(r) ==
  /\ req[r].pc = "dial" /\ Ready(r)
  /\ LetGo(r)
  /\ Failed(r)
  /\ UNCHANGED <<clock, idle, conn, closes>>

-----------------------------------------------------------------------------
(* established::exchange and the body.                                     *)

\* The connection is polled once more before the request is given to it.
\* HTTP/1 reports the close it finds, HTTP/2 does not.  A shared connection
\* on its way out may refuse while its driver still runs.
DispatchRefused(r) ==
  LET c == req[r].conn IN
  /\ Ready(r) /\ req[r].pc = "exch"
  /\ Dead(c) \/ conn[c].peer = "closed"
  /\ NotSent(r)
  /\ Report(c, Kind(r) = "H1")
  /\ UNCHANGED <<clock, idle>> /\ UNCHANGED sfVars
  /\ conn' = Swept(conn)

Dispatch(r) ==
  /\ Ready(r) /\ req[r].pc = "exch" /\ ~Dead(req[r].conn)
  /\ req' = [req EXCEPT ![r].pc = "queued"]
  /\ UNCHANGED <<clock, idle, conn, closes>> /\ UNCHANGED sfVars

\* The request's first bytes go out: by its own poll, or by the driver's.
Write(r) ==
  /\ req[r].pc = "queued"
  /\ Kind(r) = "shared" => ~Dead(req[r].conn)
  /\ req' = [req EXCEPT ![r].pc = "sent", ![r].wire = @ + 1]
  /\ UNCHANGED <<clock, idle, conn, closes>> /\ UNCHANGED sfVars

\* Mutant: a request that was only queued is not claimed back.
QueuedDiesUnclaimed(r) ==
  LET c == req[r].conn IN
  /\ req[r].pc = "queued" /\ Dead(c)
  /\ Failed(r)
  /\ Report(c, Kind(r) = "H1")
  /\ UNCHANGED <<clock, idle>> /\ UNCHANGED sfVars
  /\ conn' = Swept(conn)

\* The connection ends under a queued request: HTTP/1 claims it back
\* (claim_back), HTTP/2 has given it to h2 and cannot tell.
QueuedDies(r) ==
  LET c == req[r].conn IN
  /\ req[r].pc = "queued" /\ Dead(c)
  /\ IF Kind(r) = "H1" THEN NotSent(r) ELSE Failed(r)
  /\ Report(c, Kind(r) = "H1")
  /\ UNCHANGED <<clock, idle>> /\ UNCHANGED sfVars
  /\ conn' = Swept(conn)

\* The response head arrives on a connection that goes on.
Head200(r) ==
  /\ req[r].pc = "sent"
  /\ req' = [req EXCEPT ![r].pc = "body"]
  /\ UNCHANGED <<clock, idle, conn, closes>> /\ UNCHANGED sfVars

\* Mutant: the body keeps the connection whose end was reported.
HeadAndCloseKeeps(r) ==
  LET c == req[r].conn IN
  /\ req[r].pc = "sent" /\ Kind(r) # "shared" /\ Dead(c)
  /\ req' = [req EXCEPT ![r].pc = "body"]
  /\ Report(c, Kind(r) = "H1")
  /\ UNCHANGED <<clock, idle>> /\ UNCHANGED sfVars
  /\ conn' = Swept(conn)

\* The response head arrives with the end of an exclusive connection
\* (conn_done): the body keeps neither it nor the CheckIn.
HeadAndClose(r) ==
  LET c == req[r].conn IN
  /\ req[r].pc = "sent" /\ Kind(r) # "shared" /\ Dead(c)
  /\ req' = [req EXCEPT ![r] = [NoReq EXCEPT !.pc = "tail"]]
  /\ Report(c, Kind(r) = "H1")
  /\ UNCHANGED <<clock, idle>> /\ UNCHANGED sfVars
  /\ conn' = Swept(conn)

\* Mutant: a request lost on its way is taken for one that never left.
SentDiesRetried(r) ==
  LET c == req[r].conn IN
  /\ req[r].pc = "sent" /\ Dead(c)
  /\ NotSent(r)
  /\ Report(c, Kind(r) = "H1")
  /\ UNCHANGED <<clock, idle>> /\ UNCHANGED sfVars
  /\ conn' = Swept(conn)

\* The connection ends before the head: Failed::Sent.
SentDies(r) ==
  LET c == req[r].conn IN
  /\ req[r].pc = "sent" /\ Dead(c)
  /\ Failed(r)
  /\ Report(c, Kind(r) = "H1")
  /\ UNCHANGED <<clock, idle>> /\ UNCHANGED sfVars
  /\ conn' = Swept(conn)

\* within_first_byte_gated gives up, written or not: Failed::Sent.
FirstByteTimeout(r) ==
  /\ Ready(r) /\ req[r].pc \in {"exch", "queued", "sent"}
  /\ Failed(r)
  /\ UNCHANGED <<clock, idle, closes>> /\ UNCHANGED sfVars
  /\ conn' = Swept(conn)

\* The end of the body hands an exclusive connection back to the pool.
BodyEndReuse(r) ==
  LET q == req[r] IN
  /\ q.pc = "body" /\ q.reuse
  /\ idle' = [idle EXCEPT ![Key(r)] =
                PutIn(@, Idle(q.conn, FALSE, Stamp(q), clock))]
  /\ req' = [req EXCEPT ![r] = NoReq]
  /\ UNCHANGED <<clock, closes>> /\ UNCHANGED sfVars
  /\ conn' = Swept(conn)

\* The end of the body with nothing to hand back: no CheckIn, a connection
\* seen to end, an HTTP/2 upload still running, or a borrowed handle.
BodyEndClose(r) ==
  LET c == req[r].conn IN
  /\ \/ req[r].pc = "tail"
     \/ req[r].pc = "body" /\ (~req[r].reuse \/ Dead(c) \/ Kind(r) = "H2")
  /\ req' = [req EXCEPT ![r] = NoReq]
  /\ IF req[r].pc = "body" THEN Report(c, Kind(r) = "H1") ELSE UNCHANGED closes
  /\ UNCHANGED <<clock, idle>> /\ UNCHANGED sfVars
  /\ conn' = Swept(conn)

\* The body fails: the connection's end is reported once.
BodyFails(r) ==
  LET c == req[r].conn IN
  /\ \/ req[r].pc = "tail"
     \/ req[r].pc = "body" /\ Dead(c)
  /\ Failed(r)
  /\ IF req[r].pc = "body" THEN Report(c, Kind(r) = "H1") ELSE UNCHANGED closes
  /\ UNCHANGED <<clock, idle>> /\ UNCHANGED sfVars
  /\ conn' = Swept(conn)

\* The request's future or its body is dropped, wherever it stands.
Cancel(r) ==
  /\ Ready(r) /\ req[r].pc \in Running \cup {"body", "tail"}
  /\ LetGo(r)
  /\ req' = [req EXCEPT ![r] = NoReq]
  /\ UNCHANGED <<clock, idle, closes>>
  /\ conn' = Swept(conn)

\* The wakes of finish_connect.
WakeStep(r) ==
  /\ (\E w \in Reqs : SF!WakeOne(r, w)) \/ SF!Woke(r)
  /\ UNCHANGED <<clock, idle, conn, closes, req>>

-----------------------------------------------------------------------------
(* The rest of the world.                                                  *)

ServerCloses(c) ==
  /\ conn[c].kind # "gone" /\ conn[c].peer = "open"
  /\ conn' = [conn EXCEPT ![c].peer = "closed"]
  /\ UNCHANGED <<clock, idle, closes, req>> /\ UNCHANGED sfVars

\* H2Driver::poll ends and reports: the peer went away, or the last handle
\* did.
DriverEnds(c) ==
  /\ conn[c].driver
  /\ \/ conn[c].peer = "closed"
     \/ /\ \A k \in PoolKeys : \A e \in Entries(idle[k]) : e.conn # c
        /\ \A r \in Reqs : req[r].conn # c
  /\ UNCHANGED <<clock, idle, req>>
  /\ Report(c, TRUE)
  /\ UNCHANGED sfVars
  /\ conn' = Swept([conn EXCEPT ![c].driver = FALSE])

\* Pool::reap, whenever the reaper runs (Reaper says when).
Reap ==
  /\ idle' = [k \in PoolKeys |-> ReapIn(idle[k], clock)]
  /\ UNCHANGED <<clock, closes, req>> /\ UNCHANGED sfVars
  /\ conn' = Swept(conn)

Tick ==
  /\ clock < MaxTime
  /\ clock' = clock + 1
  /\ UNCHANGED <<idle, conn, closes, req>> /\ UNCHANGED sfVars

Connecting(r) ==
  \/ Start(r) \/ GatePoll(r) \/ GateRetake(r) \/ GateTimeout(r)
  \/ SkipCandidate(r) \/ Checkout(r) \/ ProbeReusable(r) \/ ProbeStale(r)
  \/ \E c \in Conns, p \in {"H1", "H2", "odd"} : DialOk(r, c, p)
  \/ DialFails(r)

Exchanging(r) ==
  \/ DispatchRefused(r) \/ Dispatch(r) \/ Write(r) \/ QueuedDies(r)
  \/ Head200(r) \/ HeadAndClose(r) \/ SentDies(r) \/ FirstByteTimeout(r)
  \/ BodyEndReuse(r) \/ BodyEndClose(r) \/ BodyFails(r)

NRNext ==
  /\ \/ \E r \in Reqs : Connecting(r) \/ Exchanging(r) \/ Cancel(r) \/ WakeStep(r)
     \/ \E c \in Conns : ServerCloses(c) \/ DriverEnds(c)
     \/ Reap \/ Tick
  /\ UNCHANGED sharing

NRSpec == NRInit /\ [][NRNext]_nrVars

-----------------------------------------------------------------------------
(* Properties                                                              *)

\* A request goes out at most once, whatever pooled connections die under it:
\* only Failed::NotSent is tried again, and claim_back returns a request only
\* if none of it was written.
AtMostOnce == \A r \in Reqs : req[r].wire <= 1

\* A server closing an idle HTTP/1 connection is never the caller's error: a
\* request that never left fails only by a connect of its own or a bound of
\* the caller's (the NotSent arm of the pooled loop).  HTTP/2 may fail it
\* once h2 has taken it.
UnsentIsRetried ==
  [][\A r \in Reqs :
       (req[r].pc \in Using /\ req[r].wire = 0 /\ Kind(r) = "H1" /\ req'[r].pc = "failed")
         => req[r].dialed \/ FirstByteTimeout(r)]_nrVars

\* A connection serves only requests of the identity, origin and route it was
\* opened for, speaks the version they demand, and sits in the bucket of the
\* protocol it speaks (PoolKey, protocol_admissible, check_version).
RightConnection ==
  /\ \A r \in Reqs : req[r].pc \in {"exch", "queued", "sent", "body"} =>
       /\ conn[req[r].conn].part = req[r].part
       /\ Admissible(req[r].pin, IF Kind(r) = "H1" THEN "H1" ELSE "H2")
  /\ \A p \in Parts, x \in {"H1", "H2"} : \A e \in Entries(idle[<<p, x>>]) :
       /\ conn[e.conn].part = p
       /\ conn[e.conn].kind \in (IF x = "H1" THEN {"H1"} ELSE {"H2", "shared"})
       /\ e.shared <=> conn[e.conn].kind = "shared"

\* The mark is held while its owner looks and connects and not a step longer:
\* never through an exchange, a body, or after the request is gone.
MarkOnlyWhileConnecting ==
  \A p \in Parts : mark[p] =>
    \E r \in Reqs : /\ flight[r] = "guarded" /\ req[r].part = p
                    /\ req[r].pc \in {"look", "probe", "dial"}

\* Checkout, the exchange and the body report the end of an exclusive
\* connection at most once between them, and what they reported is out of use:
\* neither pooled nor in a request's hands (report_closed, hand_back_to_pool).
ExclusiveClosesOnce ==
  \A c \in Conns :
    /\ conn[c].kind # "shared" /\ closes[c] > 0 => conn[c] = Gone
    /\ ~sharing => closes[c] <= 1

\* A request as a whole: it uses a connection made for what it asks, and holds
\* its origin's mark only while it connects.
NRSafe == NRTypeOK /\ RightConnection /\ MarkOnlyWhileConnecting

(***************************************************************************)
(* The transport uses its pool the way Pool allows, so what Pool promises  *)
(* (custody, bounds, deadlines) holds of it.                               *)
(***************************************************************************)
Without(st, now) ==
  [st |-> st, now |-> now, key |-> CHOOSE k \in PoolKeys : TRUE, conn |-> NoConn]

CallOf(r) ==
  LET q == req[r] IN
  CASE q.pc \in {"idle", "failed", "tail"} -> Without("out", 0)
    [] q.pc \in {"gate", "look"} ->
         Without(IF q.part \in H2Parts /\ q.proto = "H1" THEN "missed" ELSE "in", q.now)
    [] q.pc = "dial" -> Without("missed", q.now)
    [] OTHER ->
         [st   |-> IF Kind(r) = "shared" THEN IF q.dialed THEN "using" ELSE "borrowing"
                   ELSE IF q.pc = "body" THEN "body" ELSE "holding",
          now  |-> q.now, key |-> Key(r), conn |-> q.conn]

P == INSTANCE Pool WITH
       Keys <- PoolKeys, H2Keys <- H2Parts \X {"H2"}, Callers <- Reqs,
       call <- [r \in Reqs |-> CallOf(r)], transport <- TRUE

UsesPoolAsAllowed == P!PoolSpec
=============================================================================
