------------------------------- MODULE Tunnel -------------------------------
(***************************************************************************)
(* Tunnels a filter opens through an HTTP proxy, and what runs over them:  *)
(*  - `NativeDial::connect_tunnel_raw': HTTP/3 first, HTTP/2 after it,     *)
(*    with a share of the connect bound each and a memory of the proxies   *)
(*    whose HTTP/3 failed;                                                 *)
(*  - the write half of an HTTP/3 tunnel's stream, whose writes go on after *)
(*    the call that accepted them has returned;                            *)
(*  - the receive half of a SOCKS5 UDP association, which listens to two   *)
(*    sockets under one waker.                                             *)
(***************************************************************************)
EXTENDS Naturals, Sequences, FiniteSets

CONSTANTS
    TunnelBounds,      \* connect bounds a request may come with
    H3TunnelBeforeH2,  \* longest HTTP/3 attempt where HTTP/2 follows
    TunnelFailureTtl,  \* how long a failed HTTP/3 tunnel is remembered
    TunnelMaxTime,     \* bound on the clock
    MaxWrites,         \* bound on the writes of one stream
    MaxArrivals,       \* bound on the datagram batches of one association
    MaxDiscards        \* batches one poll may throw away

ASSUME TunnelBoundsOK ==
    /\ TunnelBounds \subseteq Nat
    /\ {H3TunnelBeforeH2, TunnelFailureTtl, TunnelMaxTime, MaxWrites, MaxArrivals}
          \subseteq Nat
    /\ MaxDiscards \in Nat \ {0}

VARIABLES
    tNow,         \* the clock
    tHeld,        \* until when the proxy's HTTP/3 is remembered as failing
    tunnel,       \* the attempt in progress
    writer,       \* the write half of an HTTP/3 tunnel
    inbox,        \* batches the association's socket holds
    relay         \* the association's receiver

dialVars == <<tNow, tHeld, tunnel>>
tunnelVars == <<dialVars, writer, inbox, relay>>

Min2(a, b) == IF a < b THEN a ELSE b

-----------------------------------------------------------------------------
(* HTTP/3, then HTTP/2. *)

\* What the filter asks for and what the transport lends it.
TunnelRequests ==
    [takes : {{"h3"}, {"h2"}, {"h3", "h2"}}, lends : SUBSET {"h3", "h2"}, bound : TunnelBounds]

NoTunnel == [pc |-> "idle", takes |-> {}, lends |-> {}, due |-> 0, h3Due |-> 0,
             h3Left |-> 0, tried |-> {}, outcome |-> "none"]

H2Follows(r) == "h2" \in r.takes \cap r.lends
RememberedFailing == tNow < tHeld
Remaining(t) == t.due - tNow        \* the clock never passes `due'

\* Mutant: the HTTP/3 arm may take all of the bound.
H3BudgetWhole(r, left) == left

\* The HTTP/3 arm's share.
H3Budget(r, left) == IF H2Follows(r) THEN Min2(left \div 2, H3TunnelBeforeH2) ELSE left

AsksH3(r) == /\ "h3" \in r.takes \cap r.lends
             /\ ~(H2Follows(r) /\ RememberedFailing)

\* Where a request goes that has no HTTP/3 attempt, or none left.
AfterH3(t, failed) ==
    IF H2Follows(t) THEN [t EXCEPT !.pc = "h2", !.tried = t.tried \cup {"h2"}]
    ELSE [t EXCEPT !.pc = "ended", !.outcome = IF failed THEN "h3_error" ELSE "unsupported"]

\* The entry of `connect_tunnel_raw', up to its first await.
AskTunnel(r) ==
    /\ tunnel.pc \in {"idle", "ended"}
    /\ tNow + r.bound <= TunnelMaxTime
    /\ LET t == [NoTunnel EXCEPT !.takes = r.takes, !.lends = r.lends,
                                 !.due = tNow + r.bound, !.pc = "h3"]
       IN tunnel' = IF AsksH3(r)
                    THEN [t EXCEPT !.tried = {"h3"}, !.h3Left = r.bound,
                                   !.h3Due = tNow + H3Budget(r, r.bound)]
                    ELSE AfterH3(t, FALSE)
    /\ UNCHANGED <<tNow, tHeld>>

\* The HTTP/3 tunnel opens: a connection, the proxy's SETTINGS, the CONNECT.
H3TunnelOpens ==
    /\ tunnel.pc = "h3"
    /\ tunnel' = [tunnel EXCEPT !.pc = "ended", !.outcome = "open"]
    /\ UNCHANGED <<tNow, tHeld>>

\* It fails (refused, no extended CONNECT, no datagrams) or runs out of its
\* share; either way the proxy is remembered.
H3TunnelFails ==
    /\ tunnel.pc = "h3"
    /\ tHeld' = tNow + TunnelFailureTtl
    /\ tunnel' = AfterH3(tunnel, TRUE)
    /\ UNCHANGED tNow

H2TunnelEnds ==
    /\ tunnel.pc = "h2"
    /\ \E outcome \in {"open", "h2_error"} :
          tunnel' = [tunnel EXCEPT !.pc = "ended", !.outcome = outcome]
    /\ UNCHANGED <<tNow, tHeld>>

\* The connect bound over the whole attempt.
TunnelTimesOut ==
    /\ tunnel.pc \in {"h3", "h2"}
    /\ tNow = tunnel.due
    /\ tunnel' = [tunnel EXCEPT !.pc = "ended", !.outcome = "timeout"]
    /\ UNCHANGED <<tNow, tHeld>>

ForgetTunnelFailures ==
    /\ RememberedFailing
    /\ tHeld' = tNow
    /\ UNCHANGED <<tNow, tunnel>>

\* Timers fire when due: the clock does not pass one that is armed.
TunnelTick ==
    /\ tNow < TunnelMaxTime
    /\ tunnel.pc = "h3" => tNow < tunnel.h3Due
    /\ tunnel.pc = "h2" => tNow < tunnel.due
    /\ tNow' = tNow + 1
    /\ UNCHANGED <<tHeld, tunnel>>

DialNext ==
    \/ \E r \in TunnelRequests : AskTunnel(r)
    \/ H3TunnelOpens \/ H3TunnelFails \/ H2TunnelEnds \/ TunnelTimesOut
    \/ ForgetTunnelFailures \/ TunnelTick

-----------------------------------------------------------------------------
(* The write half.  `op' is the send the last write started: it owns the   *)
(* chunk, and only a later call polls it.                                  *)

NoWriter == [state |-> "idle", accepted |-> 0, sent |-> 0, lost |-> 0, told |-> 0, fin |-> FALSE]

\* `settle', when the operation in flight ends: (sent or lost) or FIN.
SettleWell(w) ==
    CASE w.state = "busy" -> [w EXCEPT !.state = "idle", !.sent = @ + 1]
      [] w.state = "finishing" -> [w EXCEPT !.state = "shut", !.fin = TRUE]
      [] OTHER -> w

\* Mutant: a lost write is nobody's error.
SettleQuietly(w) ==
    CASE w.state = "busy" -> [w EXCEPT !.state = "idle", !.lost = @ + 1]
      [] w.state = "finishing" -> [w EXCEPT !.state = "shut"]

SettleBadly(w) ==
    CASE w.state = "busy" -> [w EXCEPT !.state = "idle", !.lost = @ + 1, !.told = @ + 1]
      [] w.state = "finishing" -> [w EXCEPT !.state = "shut"]

\* A send accepted while the operation before it is still in flight waits.
InFlight == writer.state \in {"busy", "finishing"}

\* `poll_write' of a non-empty buffer: settle, then start the next send and
\* accept it whatever the send comes to, unless it has already failed.
PollWrite ==
    /\ writer.accepted < MaxWrites
    /\ LET w == SettleWell(writer)
           started == [w EXCEPT !.state = "busy", !.accepted = @ + 1]
       IN IF w.state = "shut" THEN writer' = w          \* BrokenPipe
          ELSE \/ writer' = started                      \* pending: taken all the same
               \/ writer' = SettleWell(started)
               \/ writer' = SettleBadly(started)

\* `poll_write', `poll_flush' or `poll_close' finds the operation failed and
\* answers with its error.
PollFails ==
    /\ InFlight
    /\ writer' = SettleBadly(writer)

PollFlush == InFlight /\ writer' = SettleWell(writer)

\* `end': settle, then the FIN, once.
PollClose ==
    LET w == SettleWell(writer)
        finishing == [w EXCEPT !.state = "finishing"]
    IN /\ writer.state # "shut"
       /\ IF w.state = "shut" THEN writer' = w
          ELSE \/ writer' = finishing
               \/ writer' = SettleWell(finishing)
               \/ writer' = SettleBadly(finishing)

WriterNext == PollWrite \/ PollFails \/ PollFlush \/ PollClose

-----------------------------------------------------------------------------
(* The association's receiver. *)

Segments == {"payload", "headerless"}
Batches == [fromRelay : BOOLEAN, segs : {<<>>} \cup [1 .. 1 -> Segments] \cup [1 .. 2 -> Segments]]

NoRelay == [queued |-> 0, control |-> "open", parked |-> FALSE, woken |-> FALSE,
            failed |-> FALSE, arrived |-> 0, owed |-> 0, delivered |-> 0]

Payloads(b) ==
    IF b.fromRelay THEN Cardinality({i \in 1 .. Len(b.segs) : b.segs[i] = "payload"}) ELSE 0

\* How many batches one poll reads: up to the first that carries a payload,
\* at most `MaxDiscards' of which carry none.
Useless == {i \in 1 .. Len(inbox) : \A j \in 1 .. i : Payloads(inbox[j]) = 0}
BatchesRead ==
    LET dry == Min2(Cardinality(Useless), MaxDiscards)
    IN IF dry < MaxDiscards /\ dry < Len(inbox) THEN dry + 1 ELSE dry

Dropped(n) == SubSeq(inbox, n + 1, Len(inbox))

\* A poll that threw its fill away wakes itself; any other that comes back
\* empty-handed left its waker with both sockets.
Rewakes(n) == n = MaxDiscards

Deliver(r) == [r EXCEPT !.parked = FALSE, !.woken = FALSE, !.queued = @ - 1, !.delivered = @ + 1]

\* `poll_recv'.
PollRecv ==
    LET n == BatchesRead
        found == IF n = 0 THEN 0 ELSE Payloads(inbox[n])
    IN /\ ~relay.failed
       /\ relay.parked => relay.woken
       /\ \/ /\ relay.queued > 0
             /\ relay' = Deliver(relay)
             /\ UNCHANGED inbox
          \/ /\ relay.queued = 0 /\ relay.control = "closed"
             /\ relay' = [relay EXCEPT !.failed = TRUE, !.parked = FALSE]
             /\ UNCHANGED inbox
          \/ /\ relay.queued = 0 /\ relay.control = "open"
             /\ inbox' = Dropped(n)
             /\ relay' = IF found > 0 THEN Deliver([relay EXCEPT !.queued = found])
                         ELSE [relay EXCEPT !.parked = TRUE, !.woken = Rewakes(n)]

BatchArrives(b) ==
    /\ relay.arrived < MaxArrivals
    /\ inbox' = Append(inbox, b)
    /\ relay' = [relay EXCEPT !.arrived = @ + 1, !.woken = relay.parked,
                              !.owed = @ + Payloads(b)]

ControlCloses ==
    /\ relay.control = "open"
    /\ relay' = [relay EXCEPT !.control = "closed", !.woken = relay.parked]
    /\ UNCHANGED inbox

RelayNext == PollRecv \/ ControlCloses \/ \E b \in Batches : BatchArrives(b)

-----------------------------------------------------------------------------
DialInit == tNow = 0 /\ tHeld = 0 /\ tunnel = NoTunnel
WriterInit == writer = NoWriter
RelayInit == inbox = <<>> /\ relay = NoRelay

-----------------------------------------------------------------------------
TunnelTypeOK ==
    /\ tNow \in 0 .. TunnelMaxTime
    /\ tunnel.pc \in {"idle", "h3", "h2", "ended"}
    /\ writer.state \in {"idle", "busy", "finishing", "shut"}
    /\ relay.queued \in 0 .. 2
    /\ relay.control \in {"open", "closed"}

\* An attempt that would take either version and fails for good (the connect
\* bound aside) has asked for every version it takes and is lent, HTTP/3
\* excepted while the proxy is remembered; and one that takes HTTP/3 alone
\* is never turned away on the strength of that memory.
BothVersionsAreTried ==
    tunnel.pc = "ended" /\ tunnel.outcome \in {"h3_error", "h2_error", "unsupported"} =>
        /\ H2Follows(tunnel) => "h2" \in tunnel.tried
        /\ ("h3" \in tunnel.takes \cap tunnel.lends /\ ~H2Follows(tunnel)) =>
              "h3" \in tunnel.tried

\* HTTP/2 keeps at least half of what was left when HTTP/3 was asked, at the
\* moment its turn comes, however HTTP/3 came to an end.
H2KeepsItsShare ==
    [][tunnel.pc = "h3" /\ tunnel'.pc = "h2" =>
          2 * (tunnel.due - tNow) >= tunnel.h3Left]_dialVars

\* The stream is finished only once every accepted write was sent, or its
\* loss was answered to a call: accepted bytes never vanish behind a clean
\* end of stream.
FinAccountsForWrites ==
    writer.fin => /\ writer.accepted = writer.sent + writer.lost
                  /\ writer.told = writer.lost

\* A receiver that returned Pending and was not woken has nothing to read:
\* no batch in the socket, and the control connection still open.
ReceiverIsNotStranded ==
    relay.parked /\ ~relay.woken =>
        inbox = <<>> /\ relay.control = "open" /\ relay.delivered = relay.owed

\* Tunnels as a whole: no version given up untried, no write lost behind a
\* clean end, no receiver asleep beside a datagram.
TunnelHolds ==
    TunnelTypeOK /\ BothVersionsAreTried /\ FinAccountsForWrites /\ ReceiverIsNotStranded
=============================================================================
