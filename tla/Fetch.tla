------------------------------- MODULE Fetch -------------------------------
(***************************************************************************)
(* The browser transport (hclient-fetch): an exchange whose browser side   *)
(* cannot be dropped, only aborted or cancelled; the task that pumps the   *)
(* response stream into a channel; and the WebSocket whose events are      *)
(* callbacks that fill a queue.  Everything runs on one thread: an action  *)
(* is what runs between two turns of the event loop.                       *)
(***************************************************************************)
EXTENDS Naturals, Sequences, SequencesExt, FiniteSets

CONSTANTS
  MaxParts,  \* chunks of a response
  MaxEvents  \* messages a WebSocket's peer sends

ASSUME FetchAssumption == MaxParts \in Nat /\ MaxEvents \in Nat

VARIABLES
  fetch,  \* one exchange, its task, its pump and its reader
  page    \* one WebSocket and the state its callbacks share

\* caller: the future of execute or execute_send, then the body it was handed.
\* task: the spawned half of execute_send.  browser: the request the browser
\* runs; stream: its response body.  holder: who has the Body value.  taskDue,
\* pumpDue: the event loop will poll the task, the pump.
FetchInit ==
  fetch \in [send: BOOLEAN, caller: {"new"}, task: {"none"}, taskDue: {FALSE}, guard: {FALSE},
             browser: {"none"}, promise: {"pending"}, holder: {"none"},
             stream: {"none"}, source: {<<>>}, made: {0}, pump: {"none"}, pumpDue: {FALSE},
             item: {<<>>}, chan: {<<>>}, senderParked: {FALSE},
             got: {<<>>}, told: {"no"}, parked: {FALSE}, woken: {FALSE}]

\* start: the request is given to the browser and AbortOnDrop armed; execute_send
\* spawns the task that will finish it and waits for its answer.
StartFetch ==
  /\ fetch.caller = "new"
  /\ fetch' = [fetch EXCEPT !.caller = "waits", !.browser = "runs", !.guard = TRUE,
                            !.task = IF fetch.send THEN "works" ELSE "none",
                            !.taskDue = fetch.send]

\* The browser settles the promise: finish of SendJsFuture keeps the result and
\* wakes who polls it.  A response may come without a body.
Settles ==
  /\ fetch.browser = "runs" /\ fetch.promise = "pending"
  /\ \E r \in {"ok", "failed"}, b \in {"open", "none"} :
       fetch' = [fetch EXCEPT !.promise = r, !.browser = "settled",
                              !.taskDue = @ \/ fetch.task = "works",
                              !.stream = IF r = "ok" THEN b ELSE "none"]

\* Fetch::finish once the promise has settled: the guard is defused, and a
\* response with a body spawns the pump that owns its stream; one without is
\* Done.
Finishes(f) ==
  IF f.promise = "failed" THEN [f EXCEPT !.guard = FALSE, !.holder = "none"]
  ELSE [f EXCEPT !.guard = FALSE, !.pump = IF f.stream = "none" THEN "done" ELSE "pulls",
                 !.pumpDue = f.stream # "none"]

\* Dropping a Body: its receiver closes, which wakes a sender parked in
\* poll_ready to an error, and its cancel half goes, which wakes the pump's
\* select.
DropBody(f) ==
  [f EXCEPT !.holder = "gone", !.chan = <<>>, !.pumpDue = f.pump \in {"pulls", "sends"}]

\* Dropping the promise future with its guard: the browser is told to stop.
AbortsOnDrop(f) ==
  [f EXCEPT !.guard = FALSE,
            !.browser = IF f.guard /\ f.browser = "runs" THEN "aborted" ELSE @,
            !.stream = IF f.guard /\ f.stream = "open" THEN "cancelled" ELSE @]

\* execute: the caller itself polls the promise.
ExecutePolled ==
  /\ ~fetch.send /\ fetch.caller = "waits" /\ fetch.promise # "pending"
  /\ fetch' = [Finishes(fetch) EXCEPT
                 !.caller = IF fetch.promise = "ok" THEN "reads" ELSE "failed",
                 !.holder = IF fetch.promise = "ok" THEN "caller" ELSE "none"]

\* The work of the task is done, for better or worse: a response is made even
\* for a caller that has gone, and dropped by the send that fails.
Answers ==
  LET f == [Finishes(fetch) EXCEPT !.task = "done", !.taskDue = FALSE]
  IN  fetch' = IF fetch.promise = "failed" THEN f
               ELSE IF fetch.caller = "gone" THEN DropBody(f)
               ELSE [f EXCEPT !.holder = "oneshot"]

\* A mutation: the task ignores the cancellation and works on.
TaskPolledDeaf ==
  /\ fetch.task = "works" /\ fetch.taskDue
  /\ IF fetch.promise # "pending" THEN Answers ELSE fetch' = [fetch EXCEPT !.taskDue = FALSE]

\* deliver: the work is polled before the cancellation.  A cancelled one drops the
\* work with its guard; one that has neither leaves its waker with both.
TaskPolled ==
  /\ fetch.task = "works" /\ fetch.taskDue
  /\ \/ fetch.promise # "pending" /\ Answers
     \/ /\ fetch.promise = "pending" /\ fetch.caller = "gone"
        /\ fetch' = [AbortsOnDrop(fetch) EXCEPT !.task = "done", !.taskDue = FALSE]
     \/ /\ fetch.promise = "pending" /\ fetch.caller # "gone"
        /\ fetch' = [fetch EXCEPT !.taskDue = FALSE]

\* execute_send is polled with the task's answer.
SendPolled ==
  /\ fetch.send /\ fetch.caller = "waits" /\ fetch.task = "done"
  /\ fetch' = [fetch EXCEPT !.caller = IF fetch.holder = "oneshot" THEN "reads" ELSE "failed",
                            !.holder = IF @ = "oneshot" THEN "caller" ELSE @]

\* The caller drops what it has: execute's future with its promise and guard,
\* the receiver of execute_send with an answer that may be in it, which wakes the
\* task that works for it, or the body.
CallerDrops ==
  /\ fetch.caller \in {"waits", "reads"}
  /\ LET f == [fetch EXCEPT !.caller = "gone", !.parked = FALSE]
     IN  fetch' = IF fetch.holder \in {"oneshot", "caller"} THEN DropBody(f)
                  ELSE IF fetch.send THEN [f EXCEPT !.taskDue = fetch.task = "works"]
                  ELSE AbortsOnDrop(f)

\* The pump ends: its stream, if it has not ended, is cancelled; its sender is
\* dropped, which wakes a parked reader.
PumpEnds(f) ==
  [f EXCEPT !.pump = "done", !.pumpDue = FALSE, !.item = <<>>, !.woken = @ \/ f.parked,
            !.stream = IF @ = "open" THEN "cancelled" ELSE @]

\* pump's select: the stream is polled first, the cancellation only when the
\* stream has nothing; with neither the pump leaves its waker with both.
FetchPumpPulls ==
  /\ fetch.pump = "pulls" /\ fetch.pumpDue
  /\ \/ /\ fetch.source # <<>>
        /\ fetch' = [fetch EXCEPT !.item = <<Head(fetch.source)>>, !.source = Tail(@),
                                  !.pump = "sends"]
     \/ /\ fetch.source = <<>> /\ fetch.stream = "ended"
        /\ fetch' = PumpEnds(fetch)
     \/ /\ fetch.source = <<>> /\ fetch.stream = "open" /\ fetch.holder = "gone"
        /\ fetch' = PumpEnds(fetch)
     \/ /\ fetch.source = <<>> /\ fetch.stream = "open" /\ fetch.holder # "gone"
        /\ fetch' = [fetch EXCEPT !.pumpDue = FALSE]

\* poll_ready and start_send on a channel of no buffer: a send that makes the
\* channel hold a message parks the sender until it is taken.  A closed receiver
\* ends the pump, and so does an error item once it is sent.
FetchPumpSends ==
  /\ fetch.pump = "sends" /\ fetch.pumpDue
  /\ \/ /\ fetch.holder = "gone" /\ fetch' = PumpEnds(fetch)
     \/ /\ fetch.holder # "gone" /\ ~fetch.senderParked
        /\ LET f == [fetch EXCEPT !.chan = @ \o fetch.item, !.item = <<>>,
                                  !.senderParked = TRUE, !.woken = @ \/ fetch.parked]
           IN  fetch' = IF Head(fetch.item) = 0 THEN PumpEnds(f) ELSE [f EXCEPT !.pump = "pulls"]
     \/ /\ fetch.holder # "gone" /\ fetch.senderParked
        /\ fetch' = [fetch EXCEPT !.pumpDue = FALSE]

\* Body::poll_frame: a message, which unparks the sender and wakes a pump that
\* waits to send; an error or the end,
\* after which the body is Done and has dropped its halves; or Pending.
FetchFrame ==
  /\ fetch.caller = "reads" /\ fetch.told = "no"
  /\ LET f == [fetch EXCEPT !.parked = FALSE, !.woken = FALSE]
     IN  \/ /\ fetch.chan # <<>>
            /\ LET r == [f EXCEPT !.chan = Tail(@), !.senderParked = FALSE,
                                  !.pumpDue = @ \/ f.pump = "sends"]
               IN  fetch' = IF Head(fetch.chan) = 0 THEN [DropBody(r) EXCEPT !.told = "error"]
                            ELSE [r EXCEPT !.got = Append(@, Head(fetch.chan))]
         \/ /\ fetch.chan = <<>> /\ fetch.pump = "done"
            /\ fetch' = [DropBody(f) EXCEPT !.told = "end"]
         \/ /\ fetch.chan = <<>> /\ fetch.pump # "done"
            /\ fetch' = [f EXCEPT !.parked = TRUE]

\* The browser's stream: a chunk, an error (0), or the end.  It settles the read
\* that a pulling pump has in flight.
StreamMoves ==
  /\ fetch.stream = "open" /\ fetch.pump # "none"
  /\ LET f == [fetch EXCEPT !.pumpDue = @ \/ fetch.pump = "pulls"]
     IN  \/ /\ fetch.made < MaxParts
            /\ fetch' = [f EXCEPT !.source = Append(@, fetch.made + 1), !.made = @ + 1]
         \/ fetch' = [f EXCEPT !.source = Append(@, 0), !.stream = "ended"]
         \/ fetch' = [f EXCEPT !.stream = "ended"]

FetchNext ==
  \/ StartFetch \/ Settles \/ ExecutePolled \/ TaskPolled \/ SendPolled \/ CallerDrops
  \/ FetchPumpPulls \/ FetchPumpSends \/ FetchFrame \/ StreamMoves

-----------------------------------------------------------------------------

\* Shared, and what the browser's socket still has to fire.  Ghosts: seen is
\* what the caller was handed, sent what the peer sent.
PageInit ==
  page = [at |-> "opens", socket |-> "connecting", queue |-> <<>>, verdict |-> "none",
          opened |-> FALSE, ended |-> FALSE, waker |-> FALSE, woken |-> FALSE,
          attached |-> TRUE, sent |-> 0, seen |-> <<>>, late |-> FALSE]

\* A close is one of these items in the queue; messages are numbered from 1.
PageClean == MaxEvents + 1
PageLost == MaxEvents + 2

WakePage(p) == [p EXCEPT !.woken = @ \/ p.waker, !.waker = FALSE]

\* The three handlers of install.  late records one that ran for a socket that
\* was dropped.
OnOpen ==
  /\ page.socket = "connecting"
  /\ page' = [IF page.attached
              THEN WakePage([page EXCEPT !.opened = TRUE, !.verdict = "ok"]) ELSE page
              EXCEPT !.socket = "open"]

OnMessage ==
  /\ page.socket \in {"open", "closing"} /\ page.sent < MaxEvents
  /\ LET p == [page EXCEPT !.sent = @ + 1]
     IN  page' = IF ~page.attached THEN p
                 ELSE IF page.ended THEN p
                 ELSE WakePage([p EXCEPT !.queue = Append(@, page.sent + 1),
                                         !.late = @ \/ page.at = "gone"])

\* The browser fires close once, after every message.
OnClose ==
  /\ page.socket # "closed"
  /\ \E how \in {PageClean, PageLost} :
       LET p == [page EXCEPT !.socket = "closed"]
       IN  page' = IF ~page.attached \/ page.ended THEN p
                   ELSE WakePage(
                     IF page.opened
                     THEN [p EXCEPT !.ended = TRUE, !.queue = Append(@, how)]
                     ELSE [p EXCEPT !.ended = TRUE, !.verdict = "refused"])

\* Dropping Socket: the handlers are taken off before the socket is closed.
DropSocket(p) ==
  [p EXCEPT !.at = "gone", !.attached = FALSE,
            !.socket = IF @ = "closed" THEN @ ELSE "closing"]

\* Opening::poll: the verdict, or the waker is left.
OpeningPolled ==
  /\ page.at = "opens"
  /\ page' = CASE page.verdict = "ok" -> [page EXCEPT !.at = "reads", !.verdict = "taken"]
               [] page.verdict = "refused" -> DropSocket(page)
               [] OTHER -> [page EXCEPT !.waker = TRUE, !.woken = FALSE]

\* FetchWebSocket::poll_next: the queue first, then the end.
PagePolled ==
  /\ page.at = "reads"
  /\ page' = IF page.queue # <<>>
             THEN [page EXCEPT !.seen = Append(@, Head(page.queue)), !.queue = Tail(@)]
             ELSE IF page.ended THEN [page EXCEPT !.at = "over"]
             ELSE [page EXCEPT !.waker = TRUE, !.woken = FALSE]

\* start_send of a Close and poll_close: the browser begins the closing
\* handshake; nothing of the shared state changes.
PageCloses ==
  /\ page.at = "reads" /\ page.socket = "open"
  /\ page' = [page EXCEPT !.socket = "closing"]

PageDropped ==
  /\ page.at \in {"opens", "reads", "over"}
  /\ page' = DropSocket(page)

PageNext ==
  \/ OnOpen \/ OnMessage \/ OnClose \/ OpeningPolled \/ PagePolled \/ PageCloses
  \/ PageDropped

-----------------------------------------------------------------------------

FetchTypeOK ==
  /\ fetch.caller \in {"new", "waits", "reads", "failed", "gone"}
  /\ fetch.task \in {"none", "works", "done"}
  /\ fetch.browser \in {"none", "runs", "settled", "aborted"}
  /\ fetch.stream \in {"none", "open", "ended", "cancelled"}
  /\ fetch.pump \in {"none", "pulls", "sends", "done"}
  /\ fetch.holder \in {"none", "oneshot", "caller", "gone"}
  /\ fetch.got \in Seq(0..MaxParts) /\ fetch.chan \in Seq(0..MaxParts)

\* A caller that has gone leaves nothing running in the browser, but for a task
\* that the event loop is about to poll (AbortOnDrop, deliver, pump's
\* cancellation).
GoneIsStopped ==
  fetch.caller = "gone" /\ ~fetch.taskDue /\ ~fetch.pumpDue =>
    fetch.browser # "runs" /\ fetch.stream # "open"

\* The body: chunks in order and none missing before a clean end, at most two
\* read ahead of the caller, and no reader parked while the channel has
\* something for it or will have nothing more.
BodyIsWhole ==
  LET ahead == Len(fetch.chan) + Len(fetch.item)
  IN  /\ fetch.got = [i \in 1..Len(fetch.got) |-> i]
      /\ fetch.told = "end" => Len(fetch.got) = fetch.made
                               /\ fetch.source = <<>> /\ fetch.stream \in {"ended", "none"}
      /\ ahead <= 2
      /\ fetch.parked /\ ~fetch.woken => fetch.chan = <<>> /\ fetch.pump # "done"

\* The WebSocket: what the caller sees is what came, in order, and the close is
\* the last of it, once; a parked caller misses nothing; and no event reaches a
\* socket that was dropped.
PageIsHeard ==
  LET all == page.seen \o page.queue
  IN  /\ \A i \in DOMAIN all : all[i] = i \/ (i = Len(all) /\ all[i] >= PageClean)
      /\ page.at = "over" => page.seen # <<>> /\ Last(page.seen) >= PageClean
      /\ page.waker /\ page.at = "reads" => page.queue = <<>> /\ ~page.ended
      /\ page.waker /\ page.at = "opens" => page.verdict = "none"
      /\ ~page.late

\* The exchange and the WebSocket of the browser transport.
FetchHolds == FetchTypeOK /\ GoneIsStopped /\ BodyIsWhole /\ PageIsHeard
=============================================================================
