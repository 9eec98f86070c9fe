------------------------------- MODULE Route -------------------------------
(***************************************************************************)
(* How the native transport chooses between QUIC and TCP for a request     *)
(* (hclient-native/src/route.rs), the race of the two connects (race.rs)   *)
(* and the memory of failed QUIC connects (failures.rs).  Requests to one  *)
(* origin share the memory and the advertisement of HTTP/3.  A request is  *)
(* never sent twice: what is tried again is only the connect.              *)
(***************************************************************************)
EXTENDS Naturals

CONSTANTS
  RouteReqs,     \* concurrent requests to one origin
  HeadStart,     \* the hedge's head start, H
  RouteBounds,   \* the values of Timeouts::connect a request may carry
  FailureTtl,    \* H3_FAILURE_TTL
  RouteMaxTime,  \* bound on the monotonic clock
  Unbounded      \* no Timeouts::connect

ASSUME RouteConstants ==
  /\ {HeadStart, FailureTtl, RouteMaxTime} \subseteq Nat
  /\ RouteBounds \subseteq Nat /\ Unbounded \notin Nat

VARIABLES
  clock,       \* Native::now
  setup,       \* [arm, hedge, egress]: HTTP/3 is built and wanted, hedging is on, where requests go
  heldUntil,   \* H3Failures: HTTP/3 is held off until then, 0 for no entry
  advertised,  \* AltSvcCache::advertises_h3 of the origin
  rq           \* the requests

routeVars == <<clock, setup, heldUntil, advertised, rq>>

(***************************************************************************)
(* pc       idle; dns and advert, routing's two awaits; race; quic;        *)
(*          via, path and viaConnect, QUIC through a filter; tcp; done     *)
(* demand   RequireVersion                                                 *)
(* bound    the caller's Timeouts::connect; budget: what it is now         *)
(* began    when the phase began; start: when the first connect began      *)
(* hedge    the race's second arm: asleep, connecting or failed            *)
(* wonRace  QUIC won the race, whose time is not charged                   *)
(* used     what answered: h3, tcp, or error                               *)
(***************************************************************************)
NoRequest == [pc |-> "idle", demand |-> "none", bound |-> Unbounded, budget |-> Unbounded,
              began |-> 0, start |-> 0, fallback |-> FALSE, hedge |-> "asleep",
              wonRace |-> FALSE, used |-> "none"]

RouteInit ==
  /\ clock = 0 /\ heldUntil = 0 /\ advertised \in BOOLEAN
  /\ setup \in [arm : BOOLEAN, hedge : BOOLEAN, egress : {"direct", "stream", "datagrams"}]
  /\ rq = [r \in RouteReqs |-> NoRequest]

\* What is left of a bound once `spent' is charged to it.
Left(bound, spent) ==
  IF bound = Unbounded THEN Unbounded ELSE IF spent >= bound THEN 0 ELSE bound - spent

\* When the connect of this phase is timed out.
GivesUp(q) == IF q.budget = Unbounded THEN Unbounded ELSE q.began + q.budget

Move(r, q) == rq' = [rq EXCEPT ![r] = q]

To(q, pc) == [q EXCEPT !.pc = pc, !.began = clock]

Answer(q, with) == [q EXCEPT !.pc = "done", !.used = with]

\* H3Failures::note, and the entry that has run out.
NoteFailure == heldUntil' = clock + FailureTtl
HeldOff == clock < heldUntil

\* room: the race is run only where H leaves the hedge something.
RaceHasRoom(q) == q.budget = Unbounded \/ q.budget > HeadStart

\* serve_quic: the race where it may fall back and hedging is on, else over_quic.
ServeQuic(q, fallback) ==
  LET to == IF setup.hedge /\ fallback /\ RaceHasRoom(q) THEN "race" ELSE "quic"
  IN  [To(q, to) EXCEPT !.fallback = fallback, !.start = clock]

\* A connect of the request is under way.
Connects(q) == q.pc \in {"race", "quic", "via", "path", "viaConnect", "tcp"}

Tcp(q) == [To(q, "tcp") EXCEPT !.start = IF Connects(q) THEN @ ELSE clock]

QuicVia(q, fallback) == [To(q, "via") EXCEPT !.fallback = fallback, !.start = clock]

\* egress_of: only what the filter takes goes anywhere else.
Filtered == setup.egress # "direct"

\* The routes that need no await.
Demanded(q) ==
  LET refused == Answer(q, "error") IN
  CASE q.demand = "other"                                              -> Tcp(q)
    [] q.demand = "h3" /\ Filtered /\ (setup.egress # "datagrams" \/ ~setup.arm) -> refused
    [] q.demand = "h3" /\ Filtered /\ setup.egress = "datagrams" /\ setup.arm -> QuicVia(q, FALSE)
    [] q.demand = "h3" /\ ~Filtered /\ ~setup.arm                      -> refused
    [] OTHER                                                           -> ServeQuic(q, FALSE)

\* route, up to its first await.  A plain-text request is never advertised for.
Routed(r, demand, bound, https) ==
  LET q == [NoRequest EXCEPT !.demand = demand, !.bound = bound, !.budget = bound] IN
  /\ rq[r].pc = "idle"
  /\ \/ demand # "none" /\ Move(r, Demanded(q))
     \/ demand = "none" /\ Filtered
        /\ Move(r, IF setup.egress = "datagrams" /\ setup.arm /\ https THEN To(q, "advert") ELSE Tcp(q))
     \/ demand = "none" /\ ~Filtered
        /\ \E to \in {"dns", "advert"} : Move(r, IF https THEN To(q, to) ELSE Tcp(q))
  /\ UNCHANGED <<clock, setup, heldUntil, advertised>>

\* H3Failures::suppressed forgets the entry whose window has closed.
Asks == heldUntil' = IF HeldOff THEN heldUntil ELSE 0

\* quic_unless_it_failed.
QuicUnlessItFailed(r) ==
  /\ Move(r, IF setup.arm /\ ~HeldOff THEN ServeQuic(rq[r], TRUE) ELSE Tcp(rq[r]))
  /\ IF setup.arm THEN Asks ELSE UNCHANGED heldUntil

\* The HTTPS record offers HTTP/3, or does not, or there is none.
RecordAnswers(r, offers) ==
  /\ rq[r].pc = "dns"
  /\ \/ offers = "h3" /\ QuicUnlessItFailed(r)
     \/ offers = "other" /\ Move(r, Tcp(rq[r])) /\ UNCHANGED heldUntil
     \/ offers = "none" /\ Move(r, To(rq[r], "advert")) /\ UNCHANGED heldUntil
  /\ UNCHANGED <<clock, setup, advertised>>

\* by_advertisement and via_by_advertisement, once the cache has answered.
ByAdvertisement(r) ==
  /\ rq[r].pc = "advert"
  /\ \/ ~advertised /\ Move(r, Tcp(rq[r])) /\ UNCHANGED heldUntil
     \/ advertised /\ ~Filtered /\ QuicUnlessItFailed(r)
     \/ advertised /\ Filtered /\ Asks
        /\ Move(r, IF HeldOff THEN Tcp(rq[r]) ELSE QuicVia(rq[r], TRUE))
  /\ UNCHANGED <<clock, setup, advertised>>

\* Mutant: TCP is given the caller's whole bound.
AfterQuicFailedWhole(q, spent) ==
  IF Left(q.budget, spent) = 0 THEN Answer(q, "error") ELSE Tcp(q)

\* after_quic_failed, and spend_connect_budget.
AfterQuicFailed(q, spent) ==
  LET left == Left(q.budget, spent) IN
  IF left = 0 THEN Answer(q, "error") ELSE [Tcp(q) EXCEPT !.budget = left]

\* A QUIC connect that failed: the error, or TCP with what is left.
ConnectFailed(q) ==
  IF q.fallback THEN AfterQuicFailed(q, clock - q.began) ELSE Answer(q, "error")

OverQuic(r, connects) ==
  /\ rq[r].pc = "quic"
  /\ IF connects THEN Move(r, Answer(rq[r], "h3")) /\ UNCHANGED heldUntil
                 ELSE Move(r, ConnectFailed(rq[r])) /\ NoteFailure
  /\ UNCHANGED <<clock, setup, advertised>>

-----------------------------------------------------------------------------
\* race_connects: the hedge wakes up after the head start.
HedgeStarts(r) ==
  /\ rq[r].pc = "race" /\ rq[r].hedge = "asleep" /\ clock = rq[r].began + HeadStart
  /\ rq' = [rq EXCEPT ![r].hedge = "connecting"]
  /\ UNCHANGED <<clock, setup, heldUntil, advertised>>

\* Raced::Quic: the request takes the connection up from the pool, with the
\* budget it came with.
RaceQuicWins(r) ==
  /\ rq[r].pc = "race"
  /\ Move(r, [To(rq[r], "quic") EXCEPT !.wonRace = TRUE])
  /\ UNCHANGED <<clock, setup, heldUntil, advertised>>

\* Mutant: with both arms failed the race answers for the request.
RaceFailsForGood(r) ==
  /\ rq[r].pc = "race"
  /\ NoteFailure
  /\ Move(r, IF rq[r].hedge = "failed" THEN Answer(rq[r], "error")
             ELSE AfterQuicFailed(rq[r], clock - rq[r].began))
  /\ UNCHANGED <<clock, setup, advertised>>

\* The QUIC arm fails, before or after the hedge has: Raced::Tcp, or
\* Raced::Failed where the race took the whole bound.
RaceQuicFails(r) ==
  /\ rq[r].pc = "race"
  /\ NoteFailure
  /\ Move(r, AfterQuicFailed(rq[r], clock - rq[r].began))
  /\ UNCHANGED <<clock, setup, advertised>>

\* The hedge connects first.  The request goes to TCP whatever is left.
HedgeWins(r) ==
  /\ rq[r].pc = "race" /\ rq[r].hedge = "connecting"
  /\ NoteFailure
  /\ Move(r, [Tcp(rq[r]) EXCEPT !.budget = Left(@, clock - rq[r].began)])
  /\ UNCHANGED <<clock, setup, advertised>>

HedgeFails(r) ==
  /\ rq[r].pc = "race" /\ rq[r].hedge = "connecting"
  /\ rq' = [rq EXCEPT ![r].hedge = "failed"]
  /\ UNCHANGED <<clock, setup, heldUntil, advertised>>

-----------------------------------------------------------------------------
\* ViaFailed::Switch: the caller's timeouts are back on the request.
Switch(q) == ConnectFailed([q EXCEPT !.budget = q.bound, !.began = q.start])

\* stage_via without a path: a pooled connection, a refusal, or a path is needed.
ViaAsks(r, says) ==
  /\ rq[r].pc = "via"
  /\ \/ says = "pooled" /\ Move(r, Answer(rq[r], "h3")) /\ UNCHANGED heldUntil
     \/ says = "refused" /\ Move(r, Switch(rq[r])) /\ NoteFailure
     \/ /\ says = "needsPath" /\ UNCHANGED heldUntil
        /\ Move(r, [To(rq[r], "path") EXCEPT !.budget = Left(@, clock - rq[r].began)])
  /\ UNCHANGED <<clock, setup, advertised>>

\* open_path: Attempt::Failed is final and is not remembered, Unsupported and
\* the timeout switch.
PathFails(r, final) ==
  /\ rq[r].pc = "path"
  /\ IF final THEN Move(r, Answer(rq[r], "error")) /\ UNCHANGED heldUntil
              ELSE Move(r, Switch(rq[r])) /\ NoteFailure
  /\ UNCHANGED <<clock, setup, advertised>>

PathOpens(r) ==
  LET left == Left(rq[r].bound, clock - rq[r].start) IN
  /\ rq[r].pc = "path"
  /\ IF left = 0 THEN Move(r, Switch(rq[r])) /\ NoteFailure
                 ELSE Move(r, [To(rq[r], "viaConnect") EXCEPT !.budget = left]) /\ UNCHANGED heldUntil
  /\ UNCHANGED <<clock, setup, advertised>>

ViaConnects(r, connects) ==
  /\ rq[r].pc = "viaConnect"
  /\ IF connects THEN Move(r, Answer(rq[r], "h3")) /\ UNCHANGED heldUntil
                 ELSE Move(r, Switch(rq[r])) /\ NoteFailure
  /\ UNCHANGED <<clock, setup, advertised>>

\* run answers over TCP, or fails.
TcpAnswers(r, with) ==
  /\ rq[r].pc = "tcp"
  /\ Move(r, Answer(rq[r], with))
  /\ UNCHANGED <<clock, setup, heldUntil, advertised>>

\* note_alt_svc: the response of either arm says what the origin advertises.
\* Then the caller may send another request.
NoteAltSvc(r) ==
  /\ rq[r].pc = "done"
  /\ advertised' \in IF rq[r].used = "error" THEN {advertised} ELSE BOOLEAN
  /\ Move(r, NoRequest)
  /\ UNCHANGED <<clock, setup, heldUntil>>

\* Native::network_changed; what the cache keeps is AltSvc's business.
NetworkChanged ==
  /\ heldUntil' = 0 /\ advertised' \in {advertised, FALSE}
  /\ UNCHANGED <<clock, setup, rq>>

\* Time does not pass a timeout that is due, nor a step that awaits nothing.
RouteTick ==
  /\ clock < RouteMaxTime
  /\ \A r \in RouteReqs :
       /\ rq[r].pc # "via"
       /\ rq[r].pc \in {"race", "quic", "path", "viaConnect", "tcp"} => clock # GivesUp(rq[r])
       /\ rq[r].pc = "race" /\ rq[r].hedge = "asleep" => clock # rq[r].began + HeadStart
  /\ clock' = clock + 1
  /\ UNCHANGED <<setup, heldUntil, advertised, rq>>

RouteStep(r) ==
  \/ \E demand \in {"none", "h3", "other"}, bound \in RouteBounds \cup {Unbounded}, https \in BOOLEAN :
       Routed(r, demand, bound, https)
  \/ \E offers \in {"h3", "other", "none"} : RecordAnswers(r, offers)
  \/ ByAdvertisement(r)
  \/ \E ok \in BOOLEAN : OverQuic(r, ok) \/ ViaConnects(r, ok) \/ PathFails(r, ok)
  \/ HedgeStarts(r) \/ RaceQuicWins(r) \/ RaceQuicFails(r) \/ HedgeWins(r) \/ HedgeFails(r)
  \/ \E says \in {"pooled", "refused", "needsPath"} : ViaAsks(r, says)
  \/ PathOpens(r)
  \/ \E with \in {"tcp", "error"} : TcpAnswers(r, with)
  \/ NoteAltSvc(r)

RouteNext == (\E r \in RouteReqs : RouteStep(r)) \/ NetworkChanged \/ RouteTick

RouteSpec == RouteInit /\ [][RouteNext]_routeVars

-----------------------------------------------------------------------------
RouteTypeOK ==
  /\ clock \in 0..RouteMaxTime /\ heldUntil \in 0..(RouteMaxTime + FailureTtl)
  /\ \A r \in RouteReqs : rq[r].began <= clock /\ rq[r].start <= clock

\* How long the connects of a request may take altogether: its bound, and the
\* bound once more where it takes up the connection QUIC won in the race, for
\* which it is charged nothing.
Granted(q) == IF q.wonRace THEN q.bound + q.bound ELSE q.bound

\* Timeouts::connect is spent once: whatever the request has been through (the
\* race, a filter's path, a refused QUIC connect, the fall-back to TCP), the
\* connect under way is timed out no later than the caller's bound after the
\* first one began.  A race that QUIC won may double it, and nothing that
\* follows, a lost connection and the fall-back included, adds to that.
BudgetIsSpentOnce ==
  \A r \in RouteReqs :
    (Connects(rq[r]) /\ rq[r].bound # Unbounded)
      => GivesUp(rq[r]) <= rq[r].start + Granted(rq[r])

\* A demanded version is the one that answers, and HTTP/3 is never answered
\* without an arm, or through a filter that carries no datagrams.
DemandIsKept ==
  \A r \in RouteReqs : LET q == rq[r] IN
    /\ q.demand = "h3" => q.used # "tcp" /\ q.pc # "tcp"
    /\ q.demand = "other" => q.used # "h3" /\ q.pc \notin {"race", "quic", "via"}
    /\ q.used = "h3" => setup.arm /\ setup.egress # "stream"

\* A request that was free to use TCP fails for QUIC's sake only when nothing
\* is left of its bound, or a filter failed for good.
QuicAloneDoesNotFail ==
  [][\A r \in RouteReqs : LET q == rq[r] IN
       (q.pc \in {"race", "quic", "via", "viaConnect"} /\ rq'[r].used = "error" /\ q.fallback)
         => q.bound # Unbounded /\ clock - q.start >= q.bound]_routeVars

\* Routing as a whole: its types, one bound for all the connects of a request,
\* and the version a caller demanded.
RouteHolds == RouteTypeOK /\ BudgetIsSpentOnce /\ DemandIsKept
=============================================================================
