------------------------------ MODULE Exchange ------------------------------
(***************************************************************************)
(* One request over an exclusive HTTP/2 connection, nothing of it running  *)
(* in the background: `exchange' and then the response body poll the       *)
(* connection, pump the request body and read the response, in that order, *)
(* every time they are polled.  The h2 crate (its send queue, its stream   *)
(* states) is modelled by how this code uses it.                           *)
(***************************************************************************)
EXTENDS Naturals

CONSTANTS
    MaxChunks,   \* chunks of a request body
    ChunkSize,   \* bytes of a chunk: sent in as many frames as the window asks
    MaxFrames    \* data frames of a response

ASSUME ExchangeConstants == {MaxChunks, MaxFrames} \subseteq Nat /\ ChunkSize \in Nat \ {0}

VARIABLES
    req,    \* the request body: chunks not yet read, how it ends, the pump's chunk
    h2s,    \* the h2 stream: our half, the window, what no Connection::poll has seen
    peer,   \* the server: its reset, its response, the connection
    body    \* the caller's future, then the H2Body

exVars == <<req, h2s, peer, body>>

RequestTails == {"end", "trailers", "error", "unknown"}

ExInit ==
    /\ \E n \in 0 .. MaxChunks, t \in RequestTails :
          req = [chunks |-> n, tail |-> t, pending |-> 0, given |-> 0, sent |-> 0]
    /\ h2s = [half |-> "none", window |-> 0, undriven |-> FALSE]
    /\ peer = [reset |-> "none", head |-> FALSE, frames |-> 0, ended |-> FALSE, conn |-> "up"]
    /\ body = [at |-> "drive", phase |-> "ready", pump |-> FALSE, conn |-> TRUE,
               reuse |-> TRUE, told |-> "nothing", pooled |-> FALSE]

\* A request body known to be empty ends our half with the head.
Eos == req.chunks = 0 /\ req.tail = "end"

-----------------------------------------------------------------------------
(* The server and the network, seen when the connection is polled. *)

PeerMoves(p) == body.at = "drive" /\ body.phase # "over" /\ peer' = p /\ UNCHANGED <<req, body>>

PeerAnswers ==
    /\ peer.conn = "up" /\ peer.reset = "none" /\ ~peer.ended /\ body.phase # "ready"
    /\ \/ ~peer.head /\ PeerMoves([peer EXCEPT !.head = TRUE])
       \/ peer.head /\ peer.frames < MaxFrames /\ PeerMoves([peer EXCEPT !.frames = @ + 1])
       \/ peer.head /\ PeerMoves([peer EXCEPT !.ended = TRUE])
    /\ UNCHANGED h2s

\* A reset overwrites an end of stream h2 had recorded, unless our half is
\* ended too: the stream is then closed, and h2 ignores the reset.
PeerResets ==
    /\ peer.conn = "up" /\ peer.reset = "none"
    /\ body.phase # "ready" /\ ~(peer.ended /\ h2s.half # "open")
    /\ \E code \in {"no_error", "cancel"} :
          /\ code = "no_error" => peer.ended      \* RFC 9113 8.1: the response was complete
          /\ PeerMoves([peer EXCEPT !.reset = code])
    /\ UNCHANGED h2s

PeerOpensWindow ==
    /\ peer.conn = "up" /\ body.phase # "ready" /\ h2s.window = 0
    /\ \E n \in 1 .. ChunkSize : h2s' = [h2s EXCEPT !.window = n]
    /\ PeerMoves(peer)

\* GOAWAY and EOF ("closed": Connection::poll is Ready(Ok)), or an error.
ConnectionEnds ==
    /\ peer.conn = "up"
    /\ \E how \in {"closed", "broken"} : PeerMoves([peer EXCEPT !.conn = how])
    /\ UNCHANGED h2s

-----------------------------------------------------------------------------
(* Ends.  Dropping a pump that has not settled resets the stream. *)

ResetIfOpen(half, pumping) == IF pumping /\ half = "open" THEN "reset" ELSE half

ExDropPump == h2s' = [h2s EXCEPT !.half = ResetIfOpen(h2s.half, body.pump)]

\* `end': nothing polls a body that has answered; an upload still in flight
\* goes, and reuse with it.
End(b, told) == [b EXCEPT !.at = "drive", !.phase = "over", !.told = told, !.pump = FALSE,
                          !.reuse = b.reuse /\ ~b.pump]

\* The exchange, or the body, fails: the connection is not reused.
ExFails ==
    /\ body' = End([body EXCEPT !.reuse = FALSE], "error")
    /\ ExDropPump /\ UNCHANGED <<req, peer>>

\* `hand_back_to_pool'.
HandBack(b) == [b EXCEPT !.pooled = b.conn /\ b.reuse, !.conn = FALSE, !.reuse = FALSE]

-----------------------------------------------------------------------------
(* One poll: the connection first, since it is what sends queued frames and *)
(* decodes incoming ones.                                                  *)

DriveConn ==
    /\ body.at = "drive" /\ body.phase \in {"head", "body"}
    /\ \/ body.conn /\ peer.conn = "broken" /\ ExFails
       \/ /\ ~(body.conn /\ peer.conn = "broken")
          /\ LET gone == peer.conn = "closed"
             IN /\ body' = [body EXCEPT !.conn = @ /\ ~gone, !.reuse = @ /\ ~gone,
                                        !.at = IF body.pump THEN "pump" ELSE "recv"]
                /\ h2s' = [h2s EXCEPT !.undriven = @ /\ ~body.conn]
          /\ UNCHANGED <<req, peer>>

\* Up to `send_request': a connection found finished hands the request back
\* unsent; otherwise h2 has room for the stream now, or in a later poll.
HandsOver ==
    /\ body.at = "drive" /\ body.phase = "ready"
    /\ IF peer.conn = "up"
       THEN /\ h2s' = [h2s EXCEPT !.half = IF Eos THEN "ended" ELSE "open", !.undriven = TRUE]
            /\ body' = [body EXCEPT !.phase = "head", !.pump = ~Eos]
       ELSE body' = End([body EXCEPT !.reuse = FALSE], "not_sent") /\ UNCHANGED h2s
    /\ UNCHANGED <<req, peer>>

\* Mutant: the response is read without another turn of the connection.
RoundsNot == "recv"

\* Where the loop goes when the pump is done: round again, so that the frames
\* it queued reach the socket.
Rounds == "drive"

PumpSettles(half) ==
    /\ h2s' = [h2s EXCEPT !.half = half, !.undriven = @ \/ half = "ended"]
    /\ body' = [body EXCEPT !.pump = FALSE, !.at = Rounds]

\* `Pump::poll', one turn of its loop.  The reset is asked about first.
PumpSeesReset ==
    /\ body.at = "pump" /\ peer.reset # "none"
    /\ PumpSettles("peer_stopped") /\ UNCHANGED <<req, peer>>

PumpFails ==
    /\ body.at = "pump" /\ peer.reset = "none" /\ peer.conn # "up" /\ ExFails

Pumping == body.at = "pump" /\ peer.reset = "none" /\ peer.conn = "up"

PumpWaits == body' = [body EXCEPT !.at = "recv"] /\ UNCHANGED <<req, h2s, peer>>

Sendable == IF h2s.window < req.pending THEN h2s.window ELSE req.pending

PumpSends ==
    /\ Pumping /\ req.pending > 0
    /\ \/ h2s.window = 0 /\ PumpWaits
       \/ /\ h2s.window > 0
          /\ req' = [req EXCEPT !.pending = @ - Sendable, !.sent = @ + Sendable]
          /\ h2s' = [h2s EXCEPT !.window = @ - Sendable, !.undriven = TRUE]
          /\ UNCHANGED <<peer, body>>

\* The request body is asked for its next frame.
PumpReads ==
    /\ Pumping /\ req.pending = 0
    /\ \/ PumpWaits
       \/ /\ req.chunks > 0
          /\ \E size \in {0, ChunkSize} :      \* an empty data frame is skipped
                req' = [req EXCEPT !.chunks = @ - 1, !.pending = size, !.given = @ + size]
          /\ UNCHANGED <<h2s, peer, body>>
       \/ req.chunks = 0 /\ req.tail \in {"end", "trailers"} /\ PumpSettles("ended") /\ UNCHANGED <<req, peer>>
       \/ req.chunks = 0 /\ req.tail \in {"error", "unknown"} /\ ExFails

\* The response: its head in `exchange', then data and the end in the body.
RecvHead ==
    /\ body.at = "recv" /\ body.phase = "head"
    /\ \/ /\ peer.head /\ peer.reset = "none"
          /\ body' = [body EXCEPT !.phase = "body", !.at = "drive"]
          /\ UNCHANGED <<req, h2s, peer>>
       \/ peer.reset # "none" /\ ExFails
       \/ ~peer.head /\ peer.reset = "none" /\ ~body.conn /\ ExFails
       \/ /\ ~peer.head /\ peer.reset = "none" /\ body.conn
          /\ body' = [body EXCEPT !.at = "drive"]
          /\ UNCHANGED <<req, h2s, peer>>

Complete == peer.ended /\ peer.reset = "none"

\* `stopped_after_a_complete_response'.
StoppedAfterAComplete == peer.reset = "no_error"

RecvBody ==
    /\ body.at = "recv" /\ body.phase = "body"
    /\ \/ /\ peer.frames > 0
          /\ peer' = [peer EXCEPT !.frames = @ - 1]
          /\ body' = [body EXCEPT !.at = "drive"]
          /\ UNCHANGED <<req, h2s>>
       \/ /\ peer.frames = 0 /\ Complete
          /\ body' = HandBack(End(body, "end"))
          /\ ExDropPump /\ UNCHANGED <<req, peer>>
       \/ /\ peer.frames = 0 /\ StoppedAfterAComplete
          /\ body' = End([body EXCEPT !.reuse = FALSE], "end")
          /\ ExDropPump /\ UNCHANGED <<req, peer>>
       \/ peer.frames = 0 /\ (peer.reset = "cancel" \/ (~body.conn /\ ~peer.ended)) /\ ExFails
       \/ /\ peer.frames = 0 /\ ~peer.ended /\ peer.reset = "none" /\ body.conn
          /\ body' = [body EXCEPT !.at = "drive"]
          /\ UNCHANGED <<req, h2s, peer>>

\* The caller drops the future, or the body, between polls.
Abandon ==
    /\ body.at = "drive" /\ body.phase # "over"
    /\ body' = End([body EXCEPT !.reuse = FALSE], "dropped")
    /\ ExDropPump /\ UNCHANGED <<req, peer>>

ExNext ==
    \/ PeerAnswers \/ PeerResets \/ PeerOpensWindow \/ ConnectionEnds
    \/ HandsOver \/ DriveConn \/ PumpSeesReset \/ PumpFails \/ PumpSends \/ PumpReads
    \/ RecvHead \/ RecvBody \/ Abandon

ExSpec == ExInit /\ [][ExNext]_exVars

-----------------------------------------------------------------------------
ExTypeOK ==
    /\ h2s.half \in {"none", "open", "ended", "reset", "peer_stopped"}
    /\ req.pending \in 0 .. ChunkSize /\ req.sent <= ChunkSize * MaxChunks
    /\ body.at \in {"drive", "pump", "recv"} /\ body.phase \in {"ready", "head", "body", "over"}

\* A stream whose sending half was ended carried the whole request body: the
\* server is never handed a truncated upload as a finished one.
EndedMeansWhole ==
    h2s.half = "ended" => /\ req.chunks = 0 /\ req.pending = 0
                          /\ req.tail \in {"end", "trailers"}
                          /\ req.sent = req.given

\* A connection goes back to the pool only with both halves ended, no reset
\* on either side, and nothing queued that no Connection::poll has seen: no
\* task is left that would be woken to send it.
PooledIsClean ==
    body.pooled => /\ h2s.half = "ended" /\ peer.reset = "none" /\ peer.ended
                   /\ ~h2s.undriven

\* Whatever ended the exchange, its stream is not left half-open.
NothingLeftOpen == body.phase = "over" => h2s.half # "open"

\* An exchange as a whole: no truncated upload passes for a finished one, only
\* clean connections are pooled, and no stream is left open.
ExchangeHolds == ExTypeOK /\ EndedMeansWhole /\ PooledIsClean /\ NothingLeftOpen
=============================================================================
