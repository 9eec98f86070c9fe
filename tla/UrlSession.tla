----------------------------- MODULE UrlSession -----------------------------
(***************************************************************************)
(* Apple's URLSession as a transport (hclient-urlsession): a data task     *)
(* whose delegate fills a channel from the session's serial queue, and a   *)
(* WebSocket task that is asked for one message at a time.                 *)
(***************************************************************************)
EXTENDS Naturals, Sequences, SequencesExt

CONSTANTS
  MaxChunksIn,  \* pieces of a response
  MaxIncoming   \* messages a WebSocket's peer sends

ASSUME UrlAssumption == MaxChunksIn \in Nat /\ MaxIncoming \in Nat

VARIABLES
  data,    \* one data task, its delegate's channel and its caller
  socket   \* one WebSocket task and its two oneshots

\* The channel holds 0 for the head, 1.. for the pieces, and one of these ends.
CleanEnd == MaxChunksIn + 1
Broken == MaxChunksIn + 2

\* Ghosts: got, the pieces the caller was handed; told, how its body ended.
DataInit ==
  data = [at |-> "new", task |-> "none", head |-> "none", made |-> 0, chan |-> <<>>,
          parked |-> FALSE, woken |-> FALSE, got |-> <<>>, told |-> "no"]

\* Shared::push.
PushChunk(d, c) == [d EXCEPT !.chan = Append(@, c), !.woken = @ \/ d.parked]

\* start: a URL or a body that URLSession cannot take is refused before a task.
StartTask ==
  /\ data.at = "new"
  /\ data' \in {[data EXCEPT !.at = "failed"], [data EXCEPT !.at = "waits", !.task = "runs"]}

\* didReceiveResponse: only an HTTP response makes a head.
DidReceiveResponse ==
  /\ data.task = "runs" /\ data.head = "none"
  /\ data' \in {PushChunk([data EXCEPT !.head = "http"], 0), [data EXCEPT !.head = "other"]}

DidReceiveData ==
  /\ data.task = "runs" /\ data.head # "none" /\ data.made < MaxChunksIn
  /\ data' = PushChunk([data EXCEPT !.made = @ + 1], data.made + 1)

\* didCompleteWithError, once per task; a cancelled one completes with an error.
DidComplete ==
  \/ /\ data.task = "runs" /\ data.head # "none"
     /\ data' = PushChunk([data EXCEPT !.task = "done"], CleanEnd)
  \/ /\ data.task \in {"runs", "cancelled"}
     /\ data' = PushChunk([data EXCEPT !.task = "done"], Broken)

\* Cancelling::drop.
CancelTask(d) ==
  [d EXCEPT !.task = IF @ = "runs" THEN "cancelled" ELSE @, !.parked = FALSE, !.woken = FALSE]

\* Shared::poll_next with nothing in the channel.
WaitsForChunk == [data EXCEPT !.parked = TRUE, !.woken = FALSE]
TakesChunk == [data EXCEPT !.parked = FALSE, !.woken = FALSE, !.chan = Tail(@)]

\* execute waits for the head; an end or a piece before it is an error.
AwaitsResponse ==
  /\ data.at = "waits"
  /\ data' = IF data.chan = <<>> THEN WaitsForChunk
             ELSE IF Head(data.chan) = 0 THEN [TakesChunk EXCEPT !.at = "reads"]
             ELSE CancelTask([TakesChunk EXCEPT !.at = "failed"])

\* UrlSessionBody::poll_frame; a body that has ended answers None for good.
FramePolled ==
  /\ data.at = "reads" /\ data.told = "no"
  /\ LET c == Head(data.chan)
     IN  data' = IF data.chan = <<>> THEN WaitsForChunk
                 ELSE IF c = CleanEnd THEN [TakesChunk EXCEPT !.told = "end"]
                 ELSE IF c \in {0, Broken} THEN [TakesChunk EXCEPT !.told = "error"]
                 ELSE [TakesChunk EXCEPT !.got = Append(@, c)]

TransferDropped ==
  /\ data.at \in {"waits", "reads"}
  /\ data' = CancelTask([data EXCEPT !.at = "gone"])

DataNext ==
  \/ StartTask \/ DidReceiveResponse \/ DidReceiveData \/ DidComplete
  \/ AwaitsResponse \/ FramePolled \/ TransferDropped

-----------------------------------------------------------------------------

\* receiving and sending: the state of the oneshot, "none" where there is none.
\* A handler runs, or is dropped unrun.  closeCode: the task has one.
SocketInit ==
  socket = [receiving |-> "none", message |-> 0, sending |-> "none", ended |-> FALSE,
            closed |-> FALSE, task |-> "runs", closeCode |-> FALSE, sent |-> 0,
            seen |-> <<>>, parked |-> {}, woken |-> {}]

\* The close of a socket, as the caller sees it.
PeerClose == MaxIncoming + 1

\* deliver: the sender is taken out of its slot, so that a second call of the
\* handler finds none.
DeliverAnswer(s, half, answer) ==
  [s EXCEPT ![half] = answer, !.woken = @ \cup (s.parked \cap {half})]

\* The completion handler of a receive, and of a send.
ReceiveAnswered ==
  /\ socket.receiving = "asked"
  /\ \/ /\ socket.task = "runs" /\ ~socket.closeCode /\ socket.sent < MaxIncoming
        /\ socket' = [DeliverAnswer(socket, "receiving", "ok") EXCEPT !.sent = @ + 1,
                                                               !.message = socket.sent + 1]
     \/ \E code \in {socket.closeCode, TRUE} :
          socket' = [DeliverAnswer(socket, "receiving", "failed") EXCEPT !.closeCode = code]
     \/ socket' = DeliverAnswer(socket, "receiving", "dropped")

SendAnswered ==
  /\ socket.sending = "asked"
  /\ \E answer \in {"ok", "failed", "dropped"} : socket' = DeliverAnswer(socket, "sending", answer)

\* A oneshot is polled.
Awake(half) == [socket EXCEPT !.parked = @ \ {half}, !.woken = @ \ {half}]
Sleeps(s, half) == [s EXCEPT !.parked = @ \cup {half}]

\* poll_next: start_receive asks if nothing is asked yet.  A close is a failed
\* receive with a code on the task.
MessagePolled ==
  /\ ~socket.ended
  /\ LET s == [Awake("receiving") EXCEPT !.receiving = IF @ = "none" THEN "asked" ELSE @]
         t == [s EXCEPT !.receiving = "none"]
     IN  socket' = CASE s.receiving = "asked" -> Sleeps(s, "receiving")
                     [] s.receiving = "ok" -> [t EXCEPT !.seen = Append(@, s.message),
                                                        !.message = 0]
                     [] s.receiving = "failed" /\ s.closeCode ->
                          [t EXCEPT !.ended = TRUE, !.seen = Append(@, PeerClose)]
                     [] OTHER -> [t EXCEPT !.ended = TRUE]

\* start_send, after a poll_ready that found nothing in flight.
SendsMessage ==
  /\ socket.sending = "none" /\ ~socket.closed
  /\ socket' = [socket EXCEPT !.sending = "asked"]

\* A Message::Close, or poll_close after its flush.
ClosesSocket ==
  /\ socket.sending = "none" /\ ~socket.closed
  /\ socket' = [socket EXCEPT !.closed = TRUE, !.task = "cancelled"]

SendFlushed ==
  /\ socket.sending # "none"
  /\ socket' = IF socket.sending = "asked" THEN Sleeps(Awake("sending"), "sending")
               ELSE [Awake("sending") EXCEPT !.sending = "none"]

UrlSocketNext ==
  \/ ReceiveAnswered \/ SendAnswered \/ MessagePolled \/ SendsMessage \/ ClosesSocket \/ SendFlushed

-----------------------------------------------------------------------------

UrlTypeOK ==
  /\ data.at \in {"new", "waits", "reads", "failed", "gone"}
  /\ data.task \in {"none", "runs", "cancelled", "done"}
  /\ socket.receiving \in {"none", "asked", "ok", "failed", "dropped"}
  /\ socket.sending \in {"none", "asked", "ok", "failed", "dropped"}
  /\ socket.woken \subseteq socket.parked

\* A data task: nobody is left with a transfer that runs, a clean end comes after
\* every piece in order, and no caller sleeps on a chunk.
TransferIsWhole ==
  /\ data.at \in {"failed", "gone"} => data.task # "runs"
  /\ data.got = [i \in 1..Len(data.got) |-> i]
  /\ data.told = "end" => Len(data.got) = data.made
  /\ data.parked /\ ~data.woken => data.chan = <<>> /\ data.task # "done"

\* A WebSocket: every message once and in order, whether or not a poll was
\* dropped in between, a close the last of them, and no half that sleeps on an
\* answer.
MessagesAreWhole ==
  LET waiting == IF socket.message = 0 THEN <<>> ELSE <<socket.message>>
      all == socket.seen \o waiting
      messages == [i \in 1..socket.sent |-> i]
  IN  /\ all = messages \/ (socket.ended /\ all = Append(messages, PeerClose))
      /\ \A h \in socket.parked \ socket.woken : socket[h] = "asked"

\* The two kinds of task of the URLSession transport.
UrlSessionHolds == UrlTypeOK /\ TransferIsWhole /\ MessagesAreWhole
=============================================================================
