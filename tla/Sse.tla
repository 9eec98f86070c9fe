--------------------------------- MODULE Sse ---------------------------------
(***************************************************************************)
(* Server-sent events.  First the decoder: bytes come in chunks broken     *)
(* anywhere, are split into lines, counted against the event's size limit  *)
(* and gathered into events.  Then the reconnecting stream above it: the   *)
(* connection may end anywhere in an event, and the caller may drop `next' *)
(* while it waits.                                                         *)
(***************************************************************************)
EXTENDS Integers, Sequences, SequencesExt

CONSTANTS
    MaxBytes,      \* length of a stream
    MaxEventSize,  \* the decoder's limit
    LastId,        \* the server's events are numbered 1 .. LastId
    MaxAttempts,   \* Backoff::max_attempts
    MaxBreaks      \* bound on the times a connection, or an attempt, is cut short

ASSUME SseConstants == {MaxBytes, MaxEventSize, LastId, MaxAttempts, MaxBreaks} \subseteq Nat

VARIABLES
    wire,      \* the bytes still to come, and the whole stream
    splitter,  \* LineSplitter
    decoder,   \* SseDecoder: lines and events so far, the event's bytes
    source,    \* the reconnecting stream
    server     \* what the live connection has sent of which event

splitVars == <<wire, splitter, decoder>>
reconnectVars == <<source, server>>

-----------------------------------------------------------------------------
(* The line splitter. *)

\* A byte order mark of three bytes, the two terminators, and anything else.
BOM == <<"ef", "bb", "bf">>
Bytes == {"x", "cr", "lf", "ef", "bb", "bf"}

NewSplitter == [buf |-> <<>>, bomSeen |-> 0, bomDone |-> FALSE, pendingCr |-> FALSE, carried |-> 0]

\* The bytes of the mark are held until it is whole, or is none.
PushBom(s, b) ==
    IF b = BOM[s.bomSeen + 1]
    THEN [s EXCEPT !.bomSeen = @ + 1, !.bomDone = (s.bomSeen = 2)]
    ELSE [s EXCEPT !.buf = @ \o SubSeq(BOM, 1, s.bomSeen) \o <<b>>, !.bomDone = TRUE]

\* An LF that catches up with the CR of an earlier chunk ends no line, and is
\* charged to the next one.
PushByte(s, b) ==
    IF ~s.bomDone THEN PushBom(s, b)
    ELSE IF s.pendingCr /\ b = "lf" THEN [s EXCEPT !.pendingCr = FALSE, !.carried = @ + 1]
    ELSE [s EXCEPT !.pendingCr = FALSE, !.buf = Append(@, b)]

Terminators(buf) == {i \in 1 .. Len(buf) : buf[i] \in {"cr", "lf"}}
First(S) == CHOOSE i \in S : \A j \in S : i <= j

\* `next_line': the line, the bytes it took and the splitter after it.
NextLine(s) ==
    LET pos == First(Terminators(s.buf))
        crlf == s.buf[pos] = "cr" /\ pos < Len(s.buf) /\ s.buf[pos + 1] = "lf"
        end == IF crlf THEN pos + 1 ELSE pos
    IN [line |-> SubSeq(s.buf, 1, pos - 1),
        consumed |-> end + s.carried,
        rest |-> [s EXCEPT !.buf = SubSeq(@, end + 1, Len(@)), !.carried = 0,
                           !.pendingCr = (s.buf[pos] = "cr" /\ pos = Len(s.buf))]]

BufferedLen(s) == Len(s.buf) + (IF s.bomDone THEN 0 ELSE s.bomSeen) + s.carried

\* `take_unterminated', which a line stream asks for at the end.
TakeUnterminated(s) == IF s.bomDone THEN s.buf ELSE s.buf \o SubSeq(BOM, 1, s.bomSeen)

-----------------------------------------------------------------------------
(* The decoder.  Every line that is not blank is a data field. *)

NewDecoder == [lines |-> <<>>, events |-> <<>>, gathered |-> 0, bytes |-> 0,
               pushing |-> FALSE, refused |-> FALSE]

SplitInit ==
    /\ \E n \in 0 .. MaxBytes : \E s \in [1 .. n -> Bytes] : wire = [whole |-> s, next |-> 1]
    /\ splitter = NewSplitter
    /\ decoder = NewDecoder

\* A chunk: the bytes up to some point.  `push' appends it to the splitter.
Chunk(to) ==
    /\ ~decoder.pushing /\ ~decoder.refused
    /\ splitter' = FoldLeft(PushByte, splitter, SubSeq(wire.whole, wire.next, to))
    /\ wire' = [wire EXCEPT !.next = to + 1]
    /\ decoder' = [decoder EXCEPT !.pushing = TRUE]

\* The loop of `SseDecoder::push': a blank line dispatches what was gathered,
\* any other is charged and handled.
TakeLine ==
    /\ decoder.pushing /\ Terminators(splitter.buf) # {}
    /\ LET n == NextLine(splitter)
           bytes == decoder.bytes + n.consumed
           seen == [decoder EXCEPT !.lines = Append(@, n.line)]
       IN /\ splitter' = n.rest
          /\ decoder' =
                IF n.line = <<>>
                THEN [seen EXCEPT !.bytes = 0, !.gathered = 0,
                                  !.events = IF decoder.gathered = 0 THEN @ ELSE Append(@, decoder.gathered)]
                ELSE [seen EXCEPT !.bytes = bytes, !.gathered = @ + 1,
                                  !.refused = bytes > MaxEventSize, !.pushing = bytes <= MaxEventSize]
    /\ UNCHANGED wire

\* Out of lines: what is buffered counts against the limit too.
PushEnds ==
    /\ decoder.pushing /\ Terminators(splitter.buf) = {}
    /\ decoder' = [decoder EXCEPT !.pushing = FALSE,
                                  !.refused = decoder.bytes + BufferedLen(splitter) > MaxEventSize]
    /\ UNCHANGED <<wire, splitter>>

SplitNext ==
    \/ \E to \in wire.next .. Len(wire.whole) : Chunk(to)
    \/ TakeLine \/ PushEnds

-----------------------------------------------------------------------------
(* The reconnecting stream.  An event n is sent as an `id: n' line, a data  *)
(* line and a blank line; the server resumes after the id it is told.      *)

NoConnection == [at |-> "closed", event |-> 0]
LiveAt(id) == [at |-> "between", event |-> id + 1]

SourceInit ==
    /\ source = [state |-> "live", decoderId |-> 0, cachedId |-> 0, attempt |-> 0, ready |-> <<>>,
                 got |-> <<>>, errors |-> 0, failed |-> 0, abandoned |-> 0, breaks |-> 0, cut |-> {}]
    /\ server = LiveAt(0)

\* The id takes effect when its line is read, before its event is dispatched.
IdLine ==
    /\ source.state = "live" /\ server.at = "between" /\ server.event <= LastId
    /\ source' = [source EXCEPT !.decoderId = server.event]
    /\ server' = [server EXCEPT !.at = "within"]

\* The blank line dispatches it, to the caller's next `next'.
BlankLine ==
    /\ source.state = "live" /\ server.at = "within"
    /\ source' = [source EXCEPT !.ready = Append(@, server.event)]
    /\ server' = LiveAt(server.event)

NextEvent ==
    /\ source.ready # <<>>
    /\ source' = [source EXCEPT !.got = Append(@, Head(source.ready)), !.ready = Tail(@)]
    /\ UNCHANGED server

\* Breaks, of a connection and of a wait, are bounded together.
MayBreak == source.breaks < MaxBreaks

\* Mutant: the id is kept of the last reconnect only.
KeptLate(s) == s.cachedId

\* An error or the end of the body.  What was ready is handed out first; the
\* id is then kept outside the decoder.  An error of a kind that is not
\* retried is the caller's, and the last thing it hears.
Kept(s) == s.decoderId
ConnectionLost ==
    /\ source.state = "live" /\ source.ready = <<>> /\ MayBreak
    /\ \E terminal \in BOOLEAN :
          source' = [source EXCEPT !.cachedId = Kept(source),
                                   !.state = IF terminal THEN "terminated" ELSE "disconnected",
                                   !.errors = IF terminal THEN @ + 1 ELSE @,
                                   !.breaks = @ + 1,
                                   !.cut = IF server.at = "within" THEN @ \cup {server.event} ELSE @]
    /\ server' = NoConnection

\* `delay' answers None once the attempts are used up.
Exhausted(s) == s.attempt >= MaxAttempts

GiveUp ==
    /\ source.state = "disconnected" /\ Exhausted(source)
    /\ source' = [source EXCEPT !.state = "terminated", !.errors = @ + 1]
    /\ UNCHANGED server

\* The attempt is counted, then waited for ...
Waits ==
    /\ source.state = "disconnected" /\ ~Exhausted(source)
    /\ source' = [source EXCEPT !.attempt = @ + 1, !.state = "waiting"]
    /\ UNCHANGED server

\* ... unless the caller drops `next' meanwhile: the state is still that of a
\* stream with no connection.
NextDropped ==
    /\ source.state = "waiting" /\ MayBreak
    /\ source' = [source EXCEPT !.state = "disconnected", !.abandoned = @ + 1, !.breaks = @ + 1]
    /\ UNCHANGED server

\* `open', told the id it kept: the new decoder starts from it.
Opens ==
    /\ source.state = "waiting"
    /\ \/ /\ source' = [source EXCEPT !.state = "live", !.attempt = 0, !.failed = 0, !.abandoned = 0,
                                   !.decoderId = source.cachedId]
          /\ server' = LiveAt(source.cachedId)
       \/ /\ MayBreak
          /\ \E terminal \in BOOLEAN :
                source' = [source EXCEPT !.state = IF terminal THEN "terminated" ELSE "disconnected",
                                         !.errors = IF terminal THEN @ + 1 ELSE @,
                                         !.failed = @ + 1, !.breaks = @ + 1]
          /\ UNCHANGED server

SourceNext ==
    \/ IdLine \/ BlankLine \/ NextEvent \/ ConnectionLost
    \/ GiveUp \/ Waits \/ NextDropped \/ Opens

-----------------------------------------------------------------------------
SseTypeOK ==
    /\ splitter.bomSeen \in 0 .. 3 /\ splitter.carried \in 0 .. 1
    /\ source.state \in {"live", "disconnected", "waiting", "terminated"}
    /\ source.attempt \in 0 .. MaxAttempts /\ source.errors \in 0 .. 1

\* The reference: strip one leading mark, make every terminator one LF, cut.
Stripped(s) == IF Len(s) >= 3 /\ SubSeq(s, 1, 3) = BOM THEN SubSeq(s, 4, Len(s)) ELSE s
Normal(s) ==
    LET kept == {i \in 1 .. Len(s) : ~(s[i] = "lf" /\ i > 1 /\ s[i - 1] = "cr")}
        places == SetToSortSeq(kept, <)
    IN [k \in 1 .. Len(places) |-> IF s[places[k]] = "cr" THEN "lf" ELSE s[places[k]]]
Cuts(t) == SetToSortSeq({i \in 1 .. Len(t) : t[i] = "lf"}, <)
ReferenceLines(s) ==
    LET t == Normal(Stripped(s)) c == Cuts(t)
    IN [k \in 1 .. Len(c) |-> SubSeq(t, IF k = 1 THEN 1 ELSE c[k - 1] + 1, c[k] - 1)]
ReferenceTail(s) ==
    LET t == Normal(Stripped(s)) c == Cuts(t)
    IN SubSeq(t, IF c = <<>> THEN 1 ELSE c[Len(c)] + 1, Len(t))

AllRead == ~decoder.pushing /\ ~decoder.refused /\ wire.next > Len(wire.whole)

\* Wherever the chunks break, in the mark or between CR and LF, the lines and
\* the unterminated rest are those of the whole stream.
LinesAreBlindToChunks ==
    AllRead => /\ decoder.lines = ReferenceLines(wire.whole)
               /\ TakeUnterminated(splitter) = ReferenceTail(wire.whole)

\* The bytes each event takes, by the stream alone.
EventBytes(s) ==
    LET t == Stripped(s)
        blank(i) == t[i] \in {"cr", "lf"} /\ (i = 1 \/ t[i - 1] \in {"cr", "lf"})
                    /\ ~(t[i] = "lf" /\ i > 1 /\ t[i - 1] = "cr")
        ends == {i \in 1 .. Len(t) : blank(i)}
        after(i) == IF t[i] = "cr" /\ i < Len(t) /\ t[i + 1] = "lf" THEN i + 2 ELSE i + 1
        starts == {1} \cup {after(i) : i \in ends}
    IN {First({e \in ends \cup {Len(t) + 1} : e >= b}) - b : b \in {x \in starts : x <= Len(t)}}

\* The limit is out by one LF at most: one that a chunk break parts from its CR
\* is charged to the next line, which may be of the next event, or a blank line
\* that is charged to none.
RefusedIsLarge ==
    /\ decoder.refused => \E n \in EventBytes(wire.whole) : n + 1 > MaxEventSize
    /\ AllRead => \A n \in EventBytes(wire.whole) : n <= MaxEventSize + 1

\* Events come in the server's order, none twice; one is missing only if its
\* connection was lost between its id and its blank line.
SkipsOnlyTheCutEvent ==
    /\ \A i \in 1 .. Len(source.got) - 1 : source.got[i] < source.got[i + 1]
    /\ source.got # <<>> =>
         \A e \in 1 .. source.got[Len(source.got)] : e \in ToSet(source.got) \cup source.cut

\* The caller is told of the end once; and every attempt charged since the
\* last connection is one that failed, one it dropped, or the one it waits for.
AttemptsAreAccounted ==
    /\ source.state = "terminated" <=> source.errors = 1
    /\ source.attempt = source.failed + source.abandoned + (IF source.state = "waiting" THEN 1 ELSE 0)

\* Server-sent events as a whole: chunks do not show, the limit is kept, and a
\* reconnect repeats nothing and skips only what a cut connection had begun.
SseHolds ==
    /\ SseTypeOK /\ LinesAreBlindToChunks /\ RefusedIsLarge
    /\ SkipsOnlyTheCutEvent /\ AttemptsAreAccounted
=============================================================================
