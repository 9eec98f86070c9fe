----------------------------- MODULE BodyLayers -----------------------------
(***************************************************************************)
(* The response body a caller reads: Limited<Decompressed<Deadline<Cached< *)
(* IdleTimeout<transport>>>>>.  A poll goes down to the transport and its  *)
(* outcome comes back up, each layer changing its own state on the way;    *)
(* time passes and frames arrive whether or not anybody polls.             *)
(*                                                                         *)
(* A layer is an operator that takes the chain `c' and returns it with     *)
(* `c.out' set to what the layer answered.                                 *)
(***************************************************************************)
EXTENDS Naturals, Sequences

CONSTANTS
    Every,       \* between-bytes timeout
    Total,       \* total timeout, counted from the start of the operation
    SizeLimits,  \* limits on the body's size ...
    NoLimit,     \* ... or none
    CacheMax,    \* largest body the response store takes
    MaxData,     \* bound on the data frames of a body
    LayersMaxTime

ASSUME LayersConstants ==
    /\ {Every, Total, CacheMax, MaxData, LayersMaxTime} \subseteq Nat
    /\ SizeLimits \subseteq Nat /\ NoLimit \notin Nat

VARIABLES
    at,      \* the clock
    net,     \* the transport: frames not yet read, what it has given and when
    chain    \* the layers

layersVars == <<at, net, chain>>

Never == LayersMaxTime + Every + 1       \* no sleep is set

\* A "bad" frame is data the coding rejects.
Frames == {"data", "bad", "trailers"}
Endings == {"none", "error"}
Pending == "pending"

LayersInit ==
    /\ at = 0
    /\ net = [inbox |-> <<>>, given |-> 0, over |-> "open", last |-> 0, trailers |-> FALSE]
    /\ \E limit \in SizeLimits \cup {NoLimit}, coded \in BOOLEAN, rec \in {"off", "on"} :
          chain = [out |-> Pending, told |-> "nothing", delivered |-> 0,
                   idle |-> TRUE, sleep |-> Never,
                   rec |-> rec, buffered |-> 0, writing |-> FALSE, stored |-> FALSE,
                   live |-> TRUE,
                   coding |-> IF coded THEN "decoding" ELSE "through", half |-> FALSE, fed |-> FALSE,
                   limit |-> limit, seen |-> 0, open |-> TRUE]

-----------------------------------------------------------------------------
(* The layers, innermost first. *)

\* The transport's body.
NetPoll(c) ==
    [c EXCEPT !.out = IF net.inbox # <<>> THEN Head(net.inbox)
                      ELSE IF net.over = "none" THEN "none" ELSE Pending]

\* Mutant: the timer is asked before the body.
IdlePollTimerFirst(c) ==
    LET p == NetPoll(c)
        due == IF c.sleep = Never THEN at + Every ELSE c.sleep
    IN IF ~c.idle THEN [c EXCEPT !.out = "idle_error"]
       ELSE IF at >= due THEN [p EXCEPT !.idle = FALSE, !.sleep = Never, !.out = "idle_error"]
       ELSE IF p.out # Pending THEN [p EXCEPT !.sleep = Never]
       ELSE [p EXCEPT !.sleep = due]

\* `IdleTimeout::poll_frame': the body is polled first, and its timer runs
\* from the first Pending after a frame.  An expired body is dropped.
IdlePoll(c) ==
    LET p == NetPoll(c)
        due == IF c.sleep = Never THEN at + Every ELSE c.sleep
    IN IF ~c.idle THEN [c EXCEPT !.out = "idle_error"]
       ELSE IF p.out # Pending THEN [p EXCEPT !.sleep = Never]
       ELSE IF at >= due THEN [p EXCEPT !.idle = FALSE, !.sleep = Never, !.out = "idle_error"]
       ELSE [p EXCEPT !.sleep = due]

\* `Recorder::push' refuses what would pass the store's bound.
Recorded(c) ==
    IF c.rec # "on" THEN c
    ELSE IF c.buffered + 1 > CacheMax THEN [c EXCEPT !.rec = "off", !.buffered = 0]
    ELSE [c EXCEPT !.buffered = @ + 1]

\* Mutant: an error ends a recording as the end does.
CachedOutcomeAnyEnd(p) ==
    CASE p.out \in {"data", "bad"} -> Recorded(p)
      [] p.out \in {"none", "error", "idle_error"} /\ p.rec = "on" ->
            [p EXCEPT !.rec = "committing", !.writing = TRUE]
      [] OTHER -> p

\* `Cached::poll_frame': a body is recorded as it is read and written to the
\* store once it has ended; while that write is pending so is the body.
CachedOutcome(p) ==
    CASE p.out \in {"data", "bad"} -> Recorded(p)
      [] p.out \in {"trailers", "error", "idle_error"} -> [p EXCEPT !.rec = "off"]
      [] p.out = "none" /\ p.rec = "on" -> [p EXCEPT !.rec = "committing", !.writing = TRUE]
      [] OTHER -> p

Committed(c) == IF c.writing THEN [c EXCEPT !.out = Pending]
                ELSE [c EXCEPT !.out = "none", !.rec = "off"]

CachedPoll(c) ==
    IF c.rec = "committing" THEN Committed(c)
    ELSE LET q == CachedOutcome(IdlePoll(c)) IN IF q.rec = "committing" THEN Committed(q) ELSE q

\* `Deadline::poll_frame': the clock is asked before the body, and the timer
\* again when the body is Pending; a deadline that fired drops the body.
Overrun == at >= Total
Fire(c) == [c EXCEPT !.live = FALSE, !.out = "deadline_error"]

DeadlinePoll(c) ==
    IF Overrun \/ ~c.live THEN Fire(c) ELSE CachedPoll(c)

\* The coding takes two frames for one of its own: the first decodes to
\* nothing, and the next poll is the next turn of the loop.
Push(c) == IF c.half THEN [c EXCEPT !.half = FALSE, !.fed = TRUE]
           ELSE [c EXCEPT !.half = TRUE, !.fed = TRUE, !.out = Pending]

\* `decoder.finish', once something was fed to it.
Finish(c) == IF c.fed /\ c.half THEN "decode_error" ELSE "none"

Decoded(p) ==
    CASE p.out = Pending -> p
      [] p.out = "data" -> Push(p)
      [] p.out = "bad" -> [p EXCEPT !.coding = "ended", !.fed = TRUE, !.out = "decode_error"]
      [] p.out = "trailers" -> p
      [] p.out = "none" -> [p EXCEPT !.coding = "ended", !.out = Finish(p)]
      [] OTHER -> [p EXCEPT !.coding = "ended"]

DecompressedPoll(c) ==
    CASE c.coding = "through" -> DeadlinePoll(c)
      [] c.coding = "ended" -> [c EXCEPT !.out = "none"]
      [] c.coding = "decoding" -> Decoded(DeadlinePoll(c))

\* `Limited::poll_frame'.
Counted(p) ==
    LET seen == p.seen + 1
    IN IF p.limit # NoLimit /\ seen > p.limit
       THEN [p EXCEPT !.seen = seen, !.open = FALSE, !.out = "too_large"]
       ELSE [p EXCEPT !.seen = seen]

LimitedPoll(c) ==
    IF ~c.open THEN [c EXCEPT !.out = "none"]
    ELSE LET p == DecompressedPoll(c) IN IF p.out = "data" THEN Counted(p) ELSE p

\* What the caller sees; the first ending is the one it acts on.
Told(c) ==
    CASE c.out = "data" -> [c EXCEPT !.delivered = @ + 1]
      [] c.out \notin {Pending, "data", "trailers"} /\ c.told = "nothing" -> [c EXCEPT !.told = c.out]
      [] OTHER -> c

\* A frame is gone from the transport once a layer polled it and saw one.
PollReaches == chain.idle /\ chain.rec # "committing" /\ chain.live /\ ~Overrun
                /\ chain.coding # "ended" /\ chain.open

PollFrame ==
    /\ chain' = Told(LimitedPoll(chain))
    /\ net' = IF PollReaches /\ net.inbox # <<>> THEN [net EXCEPT !.inbox = Tail(@)] ELSE net
    /\ UNCHANGED at

-----------------------------------------------------------------------------
FrameArrives(f) ==
    /\ net.over = "open" /\ ~net.trailers
    /\ \/ /\ f = "data" \/ (f = "bad" /\ chain.coding # "through")
          /\ net.given < MaxData
          /\ net' = [net EXCEPT !.inbox = Append(@, f), !.given = @ + 1, !.last = at]
       \/ /\ f = "trailers"
          /\ net' = [net EXCEPT !.inbox = Append(@, f), !.trailers = TRUE, !.last = at]
    /\ UNCHANGED <<at, chain>>

BodyEnds(how) ==
    /\ net.over = "open"
    /\ net' = [net EXCEPT !.over = how, !.last = at,
                          !.inbox = IF how = "error" THEN Append(@, how) ELSE @]
    /\ UNCHANGED <<at, chain>>

StoreWrites ==
    /\ chain.writing /\ chain.live /\ chain.open
    /\ chain' = [chain EXCEPT !.writing = FALSE, !.stored = TRUE]
    /\ UNCHANGED <<at, net>>

LayersTick == at < LayersMaxTime /\ at' = at + 1 /\ UNCHANGED <<net, chain>>

LayersNext ==
    \/ PollFrame \/ StoreWrites \/ LayersTick
    \/ \E f \in Frames : FrameArrives(f)
    \/ \E how \in Endings : BodyEnds(how)

LayersSpec == LayersInit /\ [][LayersNext]_layersVars

-----------------------------------------------------------------------------
LayersTypeOK ==
    /\ chain.delivered \in 0 .. MaxData /\ chain.buffered \in 0 .. CacheMax
    /\ chain.coding \in {"through", "decoding", "ended"}
    /\ chain.rec \in {"off", "on", "committing"}

\* What the caller was given: the frames the transport gave, decoded.
Delivers(n) == IF chain.coding = "through" THEN n ELSE n \div 2

\* A body that ends without an error is whole: the transport's ended, no
\* frame is left behind in it, the coding was not cut short, and everything
\* was delivered.
CleanEndIsWhole ==
    chain.told = "none" => /\ net.over = "none" /\ net.inbox = <<>> /\ ~chain.half
                           /\ chain.delivered = Delivers(net.given)

\* The response store holds whole bodies only, whatever cut the reading
\* short: an error, a timeout, the limit, or a caller that stopped reading.
StoredIsWhole ==
    chain.stored => net.over = "none" /\ net.inbox = <<>> /\ ~net.trailers
                    /\ chain.buffered = net.given

\* No more than the limit is delivered, and a body is called too large only
\* if it is.
LimitIsExact ==
    chain.limit # NoLimit => /\ chain.delivered <= chain.limit
                             /\ chain.told = "too_large" => chain.seen > chain.limit

\* Silence, and not a slow reader, is what the between-bytes timeout punishes;
\* and the total timeout lets nothing through once it has passed.
TimeoutsAreDue ==
    [][/\ (chain.told = "nothing" /\ chain'.told = "idle_error") =>
             net.inbox = <<>> /\ at >= net.last + Every
       /\ chain'.delivered > chain.delivered => at < Total]_layersVars

\* The layers as a whole: a clean end is a whole body, a stored body is a whole
\* one, and the limit is the caller's.
LayersHold == LayersTypeOK /\ CleanEndIsWhole /\ StoredIsWhole /\ LimitIsExact
=============================================================================
