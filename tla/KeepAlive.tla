------------------------------ MODULE KeepAlive ------------------------------
(***************************************************************************)
(* The driver of a shared HTTP/2 connection and its keep-alive: a PING     *)
(* after `every' of quiet timer, and the connection given up when no PONG  *)
(* came `within' a bound.  The driver's task is polled when something      *)
(* wakes it, and possibly late: a busy executor is no reason to close.     *)
(***************************************************************************)
EXTENDS Naturals

CONSTANTS
    PingEvery,    \* H2KeepAlive::every
    PongWithin,   \* H2KeepAlive::within
    KaMaxTime,    \* bound on the clock
    MaxLag        \* how late a due poll may be

ASSUME KeepAliveConstants == {PingEvery, PongWithin, KaMaxTime, MaxLag} \subseteq Nat

VARIABLES
    kaNow,      \* the clock
    driver,     \* the H2Driver
    link        \* the connection: its end, and the PONG that arrived

kaVars == <<kaNow, driver, link>>

KaInit ==
    /\ kaNow = 0
    /\ \E on \in BOOLEAN :
          driver = [phase |-> IF on THEN "idle" ELSE "off", due |-> PingEvery, pinged |-> 0,
                    closed |-> "no", events |-> 0]
    /\ link = [state |-> "up", silent |-> FALSE, owed |-> FALSE, pong |-> FALSE, pongAt |-> 0, since |-> 0]

Closes(d, why) == [d EXCEPT !.closed = why, !.events = @ + 1]

\* KeepAlive::poll, from the phase it is in to the one it waits in.  A PONG
\* is looked for before the deadline is.
Probe(d, pong) ==
    IF pong THEN [d EXCEPT !.phase = "idle", !.due = kaNow + PingEvery]
    ELSE IF kaNow >= d.due THEN Closes(d, "no_pong")
    ELSE d

Pings(d) == [d EXCEPT !.phase = "probing", !.due = kaNow + PongWithin, !.pinged = kaNow]

KeepAlivePoll(d) ==
    CASE d.phase = "off" -> d
      [] d.phase = "idle" /\ kaNow < d.due -> d
      [] d.phase = "idle" /\ kaNow >= d.due -> Pings(d)
      [] d.phase = "probing" -> Probe(d, link.pong)

\* H2Driver::poll: the connection first, the keep-alive if it is pending.
DriverPoll ==
    /\ driver.closed = "no"
    /\ driver' = IF link.state # "up" THEN Closes(driver, link.state) ELSE KeepAlivePoll(driver)
    /\ link' = [link EXCEPT !.pong = FALSE,
                            !.owed = @ \/ (driver'.phase = "probing" /\ driver.phase = "idle")]
    /\ UNCHANGED kaNow

\* The peer answers a PING, goes silent, or ends the connection.
Pongs ==
    /\ link.owed /\ ~link.silent /\ link.state = "up" /\ driver.closed = "no"
    /\ link' = [link EXCEPT !.owed = FALSE, !.pong = TRUE, !.pongAt = kaNow]
    /\ UNCHANGED <<kaNow, driver>>

GoesSilent ==
    /\ ~link.silent
    /\ link' = [link EXCEPT !.silent = TRUE, !.since = kaNow]
    /\ UNCHANGED <<kaNow, driver>>

LinkEnds ==
    /\ link.state = "up"
    /\ \E how \in {"ended", "failed"} : link' = [link EXCEPT !.state = how]
    /\ UNCHANGED <<kaNow, driver>>

\* A poll that is due comes at most MaxLag late.
KaTick ==
    /\ kaNow < KaMaxTime
    /\ driver.phase # "off" /\ driver.closed = "no" => kaNow < driver.due + MaxLag
    /\ link.pong => kaNow < link.pongAt + MaxLag
    /\ kaNow' = kaNow + 1
    /\ UNCHANGED <<driver, link>>

KaNext == DriverPoll \/ Pongs \/ GoesSilent \/ LinkEnds \/ KaTick

-----------------------------------------------------------------------------
\* A connection is given up for want of a PONG only if none came for the whole
\* of `within'; the end is reported once; and a silent peer is found out no
\* later than one PING and one wait after it fell silent.
KeepAliveIsJust ==
    /\ driver.closed = "no_pong" => kaNow >= driver.pinged + PongWithin /\ ~link.pong /\ link.owed
    /\ driver.events <= 1
    /\ driver.closed = "no" /\ link.silent /\ driver.phase # "off" =>
          kaNow <= link.since + PingEvery + PongWithin + 3 * MaxLag
=============================================================================
