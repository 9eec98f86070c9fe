------------------------------ MODULE WinHttp ------------------------------
(***************************************************************************)
(* The WinHTTP transport (hclient-winhttp): one exchange, as a request     *)
(* with a body or as a WebSocket.  The library works on threads of its own *)
(* and reports every completion to one callback; the state the callback    *)
(* and the caller share is kept alive by a reference per handle.  The two  *)
(* halves of a WebSocket are polled by one task.                           *)
(***************************************************************************)
EXTENDS Naturals, Sequences, SequencesExt, FiniteSets

CONSTANTS
  WinFrames,  \* chunks or messages the server sends
  WinSends    \* messages the caller sends on a socket

VARIABLE win

Halves == {"rx", "tx"}
Failures == {"failed", "tls"}
WsReads == {"fragment", "message", "close"}
NoEvent == "none"

\* ws: a WebSocket was asked for; upgraded: Inner::ws.  req, sock: the handles;
\* ctx: the handles whose reference to the Exchange WinHTTP has.  ops: what
\* WinHTTP is doing; recv is a read of the body or a receive of the socket.  buf:
\* which arm of Buf; lent: the bytes of a receive are to be, or still are, in it.
\* body and payload: Inner::sending and ws_sending.  parked, due: halves that
\* wait, and those their task polls again.  Ghosts: told, one of the halves was
\* handed a failure; crossed, the callback of another operation reclaimed a
\* buffer that was lent or not yet read; panic, an unreachable! was reached; odd,
\* a completion nobody asked for; dropped, a completion was lost in a stash;
\* garbage, bytes were taken that WinHTTP did not write.
WinInit ==
  win \in [ws: BOOLEAN, at: {"new"}, upgraded: {FALSE}, req: {"none"}, sock: {"none"},
           ctx: {{}}, ops: {{}}, secure: {FALSE}, buf: {"home"}, lent: {FALSE},
           body: {FALSE}, payload: {FALSE}, events: {<<>>}, waker: {FALSE}, parked: {{}},
           due: {{}}, rx: {"idle"}, tx: {"idle"}, stash: {[h \in Halves |-> NoEvent]},
           frames: {0}, sends: {0}, told: {FALSE}, crossed: {FALSE}, panic: {FALSE},
           odd: {FALSE}, dropped: {FALSE}, garbage: {FALSE}]

\* The handle an operation runs on, and the operations of a handle.
HandleOf(op) == IF op \in {"send", "head"} \/ ~win.upgraded THEN "req" ELSE "sock"

-----------------------------------------------------------------------------
\* The callback.

\* Exchange::push: the channel wakes the task that polled it last, and that task
\* polls every half that waits.
PushEvent(w, e) ==
  [w EXCEPT !.events = Append(@, e), !.waker = FALSE,
            !.due = IF w.waker THEN w.parked ELSE @]

\* reclaim: a loan ends, and a buffer that is at home is replaced by a new one.
\* It does not ask whose callback this is.
Reclaim(w, op) ==
  [w EXCEPT !.buf = "home", !.lent = @ /\ w.buf = "loaned",
            !.crossed = @ \/ (op # "recv" /\ w.lent)]

\* An operation that WinHTTP reports as done.
OpOver(op) == [win EXCEPT !.ops = @ \ {op}]

SendRequestComplete ==
  /\ "send" \in win.ops /\ ~win.secure
  /\ win' = PushEvent([OpOver("send") EXCEPT !.body = FALSE], "sent")

HeadersAvailable ==
  /\ "head" \in win.ops
  /\ win' = PushEvent(OpOver("head"), "headers")

\* READ_COMPLETE: the same status for a body and a socket, told apart by
\* Inner::ws.  The server's last frame may be a close.
ReadComplete ==
  /\ "recv" \in win.ops
  /\ LET w == Reclaim(OpOver("recv"), "recv")
     IN  \/ /\ win.frames < WinFrames
            /\ \E e \in IF win.upgraded THEN {"fragment", "message"} ELSE {"read"} :
                 win' = PushEvent([w EXCEPT !.frames = @ + 1], e)
         \/ win' = PushEvent(w, IF win.upgraded THEN "close" ELSE "end")

WriteComplete ==
  /\ "write" \in win.ops
  /\ win' = PushEvent([OpOver("write") EXCEPT !.payload = FALSE], "wrote")

CloseComplete ==
  /\ "close" \in win.ops
  /\ win' = PushEvent(OpOver("close"), "closed")

\* SECURE_FAILURE, which a REQUEST_ERROR follows.
SecureFailure ==
  /\ "send" \in win.ops /\ ~win.secure
  /\ win' = PushEvent([Reclaim(win, "send") EXCEPT !.secure = TRUE], "tls")

\* REQUEST_ERROR of an operation that failed or was cancelled by a close.
RequestError ==
  \E op \in win.ops :
    LET w == Reclaim(OpOver(op), op)
    IN  win' = PushEvent([w EXCEPT !.lent = @ /\ op # "recv"], "failed")

\* HANDLE_CLOSING is the last callback of a handle: release drops its reference.
HandleClosing ==
  \E h \in {"req", "sock"} :
    /\ win[h] = "closing"
    /\ \A op \in win.ops : HandleOf(op) # h
    /\ win' = [IF h \in win.ctx THEN Reclaim(win, "closing") ELSE win
               EXCEPT ![h] = "closed", !.ctx = @ \ {h}]

-----------------------------------------------------------------------------
\* The request.

\* Dropping the handles: WinHttpCloseHandle, socket first.
CloseHandles(w) ==
  [w EXCEPT !.req = IF @ = "open" THEN "closing" ELSE @,
            !.sock = IF @ = "open" THEN "closing" ELSE @,
            !.waker = FALSE, !.parked = {}, !.due = {}]

ExchangeFails(w) == [CloseHandles(w) EXCEPT !.at = "failed"]

\* Request::set_context: taken back when WinHTTP refuses the option.
SetContext(w) == {w, [w EXCEPT !.ctx = {"req"}]}

\* Request::send: the body is put by before the call, and stays when it fails.  A
\* handshake has none.
SendRequest(w) ==
  LET b == [w EXCEPT !.body = ~w.ws]
  IN  {[b EXCEPT !.ops = {"send"}, !.at = "sent"], ExchangeFails(b)}

\* What an exchange begins with, up to the first await.  Options and headers may
\* be refused in between.
Launched ==
  UNION {IF w.ctx = {} THEN {ExchangeFails(w)} ELSE {ExchangeFails(w)} \cup SendRequest(w) :
         w \in SetContext([win EXCEPT !.req = "open"])}

Execute ==
  /\ win.at = "new" /\ ~win.ws
  /\ win' \in Launched

OpenWebSocket ==
  /\ win.at = "new" /\ win.ws
  /\ win' \in Launched

\* Exchange::poll_next with nothing to take: the half waits.
HalfWaits(w, h) == [w EXCEPT !.waker = TRUE, !.parked = @ \cup {h}]

\* A half is polled.
Polls(h) == [win EXCEPT !.parked = @ \ {h}, !.due = @ \ {h}]

\* The next completion is taken off the queue.
TakesEvent(h) == [Polls(h) EXCEPT !.events = Tail(@)]

\* expect: the next completion is the one asked for, and the call goes on in one
\* of the given ways; or the request has failed.
Expect(e, onward) ==
  IF win.events = <<>> THEN win' = HalfWaits(Polls("rx"), "rx")
  ELSE IF Head(win.events) = e THEN win' \in onward
  ELSE win' = ExchangeFails([TakesEvent("rx") EXCEPT !.told = TRUE,
                                                     !.odd = Head(win.events) \notin Failures])

\* Request::receive_response.
ReceiveResponse(w) ==
  {ExchangeFails(w), [w EXCEPT !.at = "asked", !.ops = @ \cup {"head"}]}

AwaitsSend == win.at = "sent" /\ Expect("sent", ReceiveResponse(TakesEvent("rx")))

\* The rest of execute: the head is read and parsed, the version checked.
Responds(w) == {ExchangeFails(w), [w EXCEPT !.at = "open"]}

AwaitsHead == win.at = "asked" /\ ~win.ws /\ Expect("headers", Responds(TakesEvent("rx")))

\* Request::complete_upgrade: a second reference, and the mode before the first
\* receive.
CompleteUpgrade(w) ==
  {ExchangeFails(w), [w EXCEPT !.at = "open", !.sock = "open", !.ctx = @ \cup {"sock"},
                       !.upgraded = TRUE]}

AwaitsUpgrade ==
  win.at = "asked" /\ win.ws /\ Expect("headers", CompleteUpgrade(TakesEvent("rx")))

\* The caller drops the future, the body or the socket.
WinDropped ==
  /\ win.at \in {"sent", "asked", "open"}
  /\ win' = [CloseHandles(win) EXCEPT !.at = "gone"]

-----------------------------------------------------------------------------
\* The body and the receiving half of a socket.

\* Request::read and WebSocket::receive: the buffer is lent before the call, and
\* taken back when the call fails.
ReadBody(w) ==
  LET p == [w EXCEPT !.panic = @ \/ w.buf = "loaned"]
  IN  {[p EXCEPT !.buf = "loaned", !.lent = TRUE, !.ops = @ \cup {"recv"}, !.rx = "reading"],
       [p EXCEPT !.buf = "home", !.rx = "ended", !.told = TRUE]}
Receive(w) == ReadBody(w)

\* Exchange::take_read.
TakeRead(w) ==
  [w EXCEPT !.panic = @ \/ w.buf = "loaned", !.garbage = @ \/ ~w.lent, !.lent = FALSE]

\* WinHttpBody::poll_frame, Idle and then Reading.  Anything but a read or a
\* failure is a completion out of order, and ends the body with an error.
BodyAsks ==
  /\ win.at = "open" /\ ~win.ws /\ win.rx = "idle"
  /\ win' \in ReadBody(win)

BodyPolled ==
  /\ win.at = "open" /\ ~win.ws /\ win.rx = "reading"
  /\ LET e == Head(win.events)
         p == TakesEvent("rx")
     IN  win' = IF win.events = <<>> THEN HalfWaits(Polls("rx"), "rx")
                ELSE CASE e = "read" -> TakeRead([p EXCEPT !.rx = "idle"])
                       [] e = "end" -> [p EXCEPT !.rx = "ended"]
                       [] OTHER -> [p EXCEPT !.rx = "ended", !.told = TRUE,
                                             !.odd = e \notin Failures]

\* poll_event: the half's own stash, then the queue up to the first completion
\* that is its own or a failure; what it passes goes to the other's stash.
PollEvent(h) ==
  LET w == Polls(h)
      other == CHOOSE o \in Halves : o # h
      mine == SelectInSeq(w.events, LAMBDA e : e \in Failures \/ (e \in WsReads) = (h = "rx"))
      past == IF mine = 0 THEN w.events ELSE SubSeq(w.events, 1, mine - 1)
      q == [w EXCEPT !.events = IF mine = 0 THEN <<>> ELSE SubSeq(@, mine + 1, Len(@)),
                     !.stash[other] = IF past = <<>> THEN @ ELSE Last(past),
                     !.dropped = @ \/ Len(past) > 1
                                   \/ (past # <<>> /\ w.stash[other] # NoEvent)]
  IN  IF w.stash[h] # NoEvent
      THEN [event |-> w.stash[h], state |-> [w EXCEPT !.stash[h] = NoEvent]]
      ELSE IF mine = 0 THEN [event |-> NoEvent, state |-> HalfWaits(q, h)]
      ELSE [event |-> w.events[mine], state |-> q]

\* WinHttpWebSocket::poll_next.  A fragment is kept and the loop asks for the
\* rest; text that is not UTF-8 ends the stream.
SocketAsks ==
  /\ win.at = "open" /\ win.ws /\ win.rx = "idle"
  /\ win' \in Receive(win)

SocketPolled ==
  /\ win.at = "open" /\ win.ws /\ win.rx = "reading"
  /\ LET r == PollEvent("rx")
         t == TakeRead(r.state)
     IN  CASE r.event = NoEvent -> win' = r.state
           [] r.event = "fragment" -> win' = [t EXCEPT !.rx = "idle"]
           [] r.event = "message" ->
                win' \in {[t EXCEPT !.rx = "idle"], [t EXCEPT !.rx = "ended", !.told = TRUE]}
           [] r.event = "close" -> win' = [t EXCEPT !.rx = "ended"]
           [] OTHER -> win' = [r.state EXCEPT !.rx = "ended", !.told = TRUE,
                                              !.odd = r.event \notin Failures]

-----------------------------------------------------------------------------
\* The sending half.

\* WebSocket::send: the payload is put by first, and dropped when the call fails.
WsSend(w) ==
  {[w EXCEPT !.payload = TRUE, !.ops = @ \cup {"write"}, !.tx = "sending"],
   [w EXCEPT !.payload = FALSE]}

\* WebSocket::close.
WsClose(w) ==
  {[w EXCEPT !.tx = "closed", !.ops = @ \cup {"close"}], [w EXCEPT !.tx = "closed"]}

\* start_send, after a poll_ready that found nothing to flush.
StartSendWin ==
  /\ win.at = "open" /\ win.ws /\ win.tx = "idle"
  /\ \/ win.sends < WinSends /\ win' \in WsSend([win EXCEPT !.sends = @ + 1])
     \/ win' \in WsClose(win)

\* poll_flush; poll_close is a flush and then start_send's close.
FlushPolled ==
  /\ win.at = "open" /\ win.ws /\ win.tx = "sending"
  /\ LET r == PollEvent("tx")
     IN  win' = CASE r.event = NoEvent -> r.state
                  [] r.event = "wrote" -> [r.state EXCEPT !.tx = "idle"]
                  [] OTHER -> [r.state EXCEPT !.tx = "closed", !.told = TRUE,
                                              !.odd = r.event \notin Failures]

WinNext ==
  \/ SendRequestComplete \/ HeadersAvailable \/ ReadComplete \/ WriteComplete
  \/ CloseComplete \/ SecureFailure \/ RequestError \/ HandleClosing
  \/ Execute \/ OpenWebSocket \/ AwaitsSend \/ AwaitsHead \/ AwaitsUpgrade \/ WinDropped
  \/ BodyAsks \/ BodyPolled \/ SocketAsks \/ SocketPolled \/ StartSendWin \/ FlushPolled

-----------------------------------------------------------------------------

WinTypeOK ==
  /\ win.at \in {"new", "sent", "asked", "open", "failed", "gone"}
  /\ win.req \in {"none", "open", "closing", "closed"}
  /\ win.sock \in {"none", "open", "closing", "closed"}
  /\ win.ops \subseteq {"send", "head", "recv", "write", "close"}
  /\ win.buf \in {"home", "loaned"}
  /\ win.rx \in {"idle", "reading", "ended"} /\ win.tx \in {"idle", "sending", "closed"}
  /\ win.due \subseteq win.parked

\* A callback finds the Exchange: every operation runs on a handle that holds a
\* reference, and a handle that is closed has given its own back.
ContextOutlivesCallbacks ==
  /\ \A op \in win.ops : HandleOf(op) \in win.ctx
  /\ \A h \in {"req", "sock"} : win[h] \in {"none", "closed"} => h \notin win.ctx

\* What WinHTTP reads or writes stays where it is while it does (obligation 1 of
\* sys.rs), no unreachable! is reached, and what is read is what it wrote, except
\* after the callback of another operation has reclaimed the buffer.
LoansHold ==
  /\ "send" \in win.ops /\ ~win.ws => win.body
  /\ "write" \in win.ops => win.payload
  /\ ~win.panic
  /\ ~win.crossed => ("recv" \in win.ops <=> win.buf = "loaned") /\ ~win.garbage

\* Every completion is the answer to a call, and reaches a half that wants it.
CompletionsAreUsed == ~win.odd /\ ~win.dropped

\* No half sleeps on a completion, in the queue or in its stash.
NoHalfIsForgotten ==
  \A h \in win.parked \ win.due : win.events = <<>> /\ win.stash[h] = NoEvent

\* A half waits for an operation under way, for a completion it can still take,
\* or a failure was handed to one of the two.
WaitsForSomething ==
  LET coming(es) == win.told \/ \E i \in DOMAIN win.events : win.events[i] \in es \cup Failures
  IN  win.at = "open" =>
        /\ win.rx = "reading" => "recv" \in win.ops \/ win.stash["rx"] # NoEvent
                                 \/ coming(WsReads \cup {"read", "end"})
        /\ win.tx = "sending" => "write" \in win.ops \/ win.stash["tx"] # NoEvent
                                 \/ coming({"wrote"})

\* The exchange of the WinHTTP transport.
WinHttpHolds ==
  /\ WinTypeOK /\ ContextOutlivesCallbacks /\ LoansHold /\ CompletionsAreUsed
  /\ NoHalfIsForgotten /\ WaitsForSomething
=============================================================================
