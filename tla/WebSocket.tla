----------------------------- MODULE WebSocket -----------------------------
(***************************************************************************)
(* An open WebSocket over tungstenite (hclient-tungstenite): the Stream    *)
(* half, which reads, answers pings and runs the keep-alive, and the Sink  *)
(* half, split over two tasks that share one socket.  A socket remembers   *)
(* one task for its writable side: the last to be turned away.  The frame  *)
(* codec is modelled by how this code uses it: what is queued leaves with  *)
(* the next flush, and a read flushes the answers it queued before.        *)
(***************************************************************************)
EXTENDS Naturals, Sequences

CONSTANTS
    WsEvery,      \* WebSocketKeepAlive::every
    WsWithin,     \* WebSocketKeepAlive::within
    WsMaxTime,    \* bound on the clock
    MaxFromPeer,  \* bound on the frames the peer sends
    MaxSends      \* bound on the messages the caller sends

ASSUME WsConstants ==
    /\ {WsMaxTime, MaxFromPeer, MaxSends} \subseteq Nat
    /\ {WsEvery, WsWithin} \subseteq Nat \ {0}

VARIABLES
    wsNow,   \* the clock
    ws,      \* the socket's protocol state and its keep-alive
    sock,    \* the wire: what has arrived, whether it takes bytes, its end
    half     \* the two tasks: polling again, or parked

wsVars == <<wsNow, ws, sock, half>>

None == 0                \* no ping is outstanding
Asleep == WsMaxTime + WsEvery + WsWithin + 1       \* no sleep is set

Frame(kind, n) == [kind |-> kind, n |-> n]

WsInit ==
    /\ wsNow = 0
    /\ \E live \in BOOLEAN :
          ws = [live |-> live, ended |-> "no", sleep |-> Asleep, outstanding |-> None, next |-> 1,
                active |-> TRUE, out |-> <<>>, atPeer |-> {}, writer |-> "nobody", pinged |-> 0, sends |-> 0]
    /\ sock = [inbox |-> <<>>, room |-> TRUE, over |-> FALSE, sent |-> 0, heard |-> 0]
    /\ half = [reader |-> "awake", sender |-> "idle"]

-----------------------------------------------------------------------------
(* The codec. *)

Kinds(w) == {w.out[i].kind : i \in 1 .. Len(w.out)}

\* `flush': everything queued leaves, or stays and the task that asked is the
\* one the socket will wake.
Flush(w, who) ==
    IF w.out = <<>> THEN w
    ELSE IF sock.room
    THEN [w EXCEPT !.out = <<>>,
                   !.atPeer = @ \cup {w.out[i].n : i \in {j \in 1 .. Len(w.out) : w.out[j].kind = "ping"}}]
    ELSE [w EXCEPT !.writer = who]

\* The flush before a read: of a probe's ping (`poll_next'), and of answers
\* queued by the reads before it (`read').
FlushOwed(w) ==
    IF w.outstanding # None \/ {"pong", "answer"} \cap Kinds(w) # {} THEN Flush(w, "reader") ELSE w

\* `Liveness::saw': any frame ends a silence, only its pong ends a probe.
Saw(w, f) ==
    LET answered == f.kind = "pong" /\ f.n = w.outstanding
        left == IF answered THEN None ELSE w.outstanding
    IN [w EXCEPT !.outstanding = left, !.sleep = IF left = None THEN Asleep ELSE @]

\* One `read' that finds a frame: the answers queued before it go out first;
\* a ping or a close queues one.
ReadOne(w, f) ==
    LET r == Saw(FlushOwed(w), f)
    IN CASE f.kind = "ping" -> [r EXCEPT !.out = Append(@, Frame("pong", f.n))]
         [] f.kind = "close" -> [r EXCEPT !.active = FALSE,
                                          !.out = IF w.active THEN Append(@, Frame("answer", 0)) ELSE @]
         [] OTHER -> r

-----------------------------------------------------------------------------
(* The Stream half. *)

\* Frames up to the first the caller is handed, or all of them.
Handed == {i \in 1 .. Len(sock.inbox) : sock.inbox[i].kind \in {"text", "close"}}
Reads == IF Handed = {} THEN Len(sock.inbox) ELSE CHOOSE i \in Handed : \A j \in Handed : i <= j

\* What the first n of them make of the socket, one `read' after the other.
ReadUpTo[n \in 0 .. Len(sock.inbox)] ==
    IF n = 0 THEN ws ELSE ReadOne(ReadUpTo[n - 1], sock.inbox[n])

\* A read that would block: the keep-alive's turn.  At most one ping is out.
KeepAliveTurn(w) ==
    LET due == IF w.sleep # Asleep THEN w.sleep
               ELSE wsNow + (IF w.outstanding # None THEN WsWithin ELSE WsEvery)
    IN IF ~w.live THEN w
       ELSE IF w.outstanding = None /\ ~w.active THEN [w EXCEPT !.sleep = Asleep]
       ELSE IF wsNow < due THEN [w EXCEPT !.sleep = due]
       ELSE IF w.outstanding # None THEN [w EXCEPT !.ended = "no_pong", !.sleep = Asleep]
       ELSE [w EXCEPT !.outstanding = w.next, !.next = @ + 1, !.pinged = wsNow,
                      !.sleep = wsNow + WsWithin, !.out = Append(@, Frame("ping", w.next))]

\* Mutant: the ping is left to the next flush.
FlushPingLater(before, w) == w

\* `write' only queues a ping: it is flushed at once.
FlushPing(before, w) == IF w.outstanding = before.outstanding THEN w ELSE Flush(w, "reader")

\* `poll_next'.  Read to the first frame that is the caller's; with none, the
\* end of the wire, or the keep-alive and a flush of the ping it made.
PollNext ==
    LET w == ReadUpTo[Reads]
        asked == KeepAliveTurn(FlushOwed(w))
        empty == Handed = {}
    IN /\ half.reader = "awake" /\ ws.ended = "no"
       /\ sock' = [sock EXCEPT !.inbox = SubSeq(@, Reads + 1, Len(@))]
       /\ \/ ~empty /\ ws' = w /\ UNCHANGED half
          \/ empty /\ sock.over /\ ws' = [FlushOwed(w) EXCEPT !.ended = "closed"] /\ UNCHANGED half
          \/ /\ empty /\ ~sock.over
             /\ ws' = FlushPing(w, asked)
             /\ half' = [half EXCEPT !.reader = IF asked.ended = "no" THEN "parked" ELSE "awake"]
       /\ UNCHANGED wsNow

SleepDue == ws.live /\ half.reader = "parked" /\ wsNow >= ws.sleep

SleepEnds ==
    /\ SleepDue
    /\ half' = [half EXCEPT !.reader = "awake"]
    /\ UNCHANGED <<wsNow, ws, sock>>

-----------------------------------------------------------------------------
(* The Sink half. *)

\* `start_send' after `poll_ready': the write buffer is empty.  A close ends
\* what the socket takes.
StartSend(kind) ==
    /\ half.sender = "idle" /\ ws.out = <<>> /\ ws.active /\ ws.sends < MaxSends
    /\ ws' = [ws EXCEPT !.out = <<Frame(kind, 0)>>, !.active = kind = "text", !.sends = @ + 1]
    /\ half' = [half EXCEPT !.sender = "flushing"]
    /\ UNCHANGED <<wsNow, sock>>

\* `poll_ready', `poll_flush', and the flush of `poll_close'.
SinkFlush ==
    /\ half.sender = "flushing"
    /\ ws' = Flush(ws, "sender")
    /\ half' = [half EXCEPT !.sender = IF ws'.out = <<>> THEN "idle" ELSE "parked"]
    /\ UNCHANGED <<wsNow, sock>>

-----------------------------------------------------------------------------
(* The peer and the wire. *)

WakeReader == IF half.reader = "parked" THEN [half EXCEPT !.reader = "awake"] ELSE half

\* The peer answers pings it has had, in any order or never.
PeerSends ==
    /\ sock.sent < MaxFromPeer /\ ~sock.over /\ ws.ended = "no"
    /\ \E f \in {Frame("text", 0), Frame("ping", 0), Frame("close", 0)}
                  \cup {Frame("pong", n) : n \in ws.atPeer \cup {None}} :
          /\ sock' = [sock EXCEPT !.inbox = Append(@, f), !.sent = @ + 1, !.heard = wsNow]
          /\ ws' = [ws EXCEPT !.atPeer = IF f.kind = "pong" THEN @ \ {f.n} ELSE @]
    /\ half' = WakeReader
    /\ UNCHANGED wsNow

WireEnds ==
    /\ ~sock.over
    /\ sock' = [sock EXCEPT !.over = TRUE]
    /\ half' = WakeReader
    /\ UNCHANGED <<wsNow, ws>>

WireFills ==
    /\ sock.room /\ ws.ended = "no"
    /\ sock' = [sock EXCEPT !.room = FALSE]
    /\ UNCHANGED <<wsNow, ws, half>>

WireDrains ==
    /\ ~sock.room
    /\ sock' = [sock EXCEPT !.room = TRUE]
    /\ ws' = [ws EXCEPT !.writer = "nobody"]
    /\ half' = [reader |-> IF ws.writer = "reader" THEN "awake" ELSE half.reader,
                sender |-> IF ws.writer = "sender" THEN "flushing" ELSE half.sender]
    /\ UNCHANGED wsNow

\* A due sleep and a woken reader are seen to before time goes on.
WsTick ==
    /\ wsNow < WsMaxTime
    /\ ~SleepDue /\ (ws.ended = "no" => half.reader = "parked")
    /\ wsNow' = wsNow + 1
    /\ UNCHANGED <<ws, sock, half>>

WsNext ==
    \/ PollNext \/ SleepEnds \/ SinkFlush \/ PeerSends \/ WireEnds \/ WireFills \/ WireDrains \/ WsTick
    \/ \E kind \in {"text", "close"} : StartSend(kind)

WsSpec == WsInit /\ [][WsNext]_wsVars

-----------------------------------------------------------------------------
WsTypeOK ==
    /\ ws.outstanding \in 0 .. ws.next - 1 /\ ws.ended \in {"no", "no_pong", "closed"}
    /\ half.reader \in {"awake", "parked"} /\ half.sender \in {"idle", "flushing", "parked"}
    /\ Len(ws.out) <= MaxFromPeer + MaxSends + 2

\* A socket is given up for want of a pong only if the pong of the ping that
\* was waited for came neither before nor with what was there to read, for the
\* whole of `within'.
NoPongIsJust ==
    ws.ended = "no_pong" =>
        /\ wsNow >= ws.pinged + WsWithin
        /\ \A i \in 1 .. Len(sock.inbox) : sock.inbox[i] # Frame("pong", ws.outstanding)

\* A peer that fell silent is found out: one silence of `every' and one wait
\* of `within' after the last frame, unless our own close has stopped the
\* keep-alive.
SilenceIsFound ==
    ws.live /\ ws.ended = "no" /\ ws.active => wsNow <= sock.heard + WsEvery + WsWithin

\* Answers and pings that are queued while the wire takes bytes have a task
\* that is about to flush them: none waits for a peer that waits for it.
OwedFramesLeave ==
    (sock.room /\ ws.ended = "no" /\ \E i \in 1 .. Len(ws.out) : ws.out[i].kind \in {"ping", "pong"})
        => half.reader = "awake" \/ half.sender = "flushing"

\* The sender is woken by whoever empties the buffer it waits for.
SenderIsNotStranded == half.sender = "parked" => ws.out # <<>>

\* The socket as a whole: its keep-alive is just and vigilant, and no answer
\* stays behind.
WsHolds == WsTypeOK /\ NoPongIsJust /\ SilenceIsFound /\ OwedFramesLeave
=============================================================================
