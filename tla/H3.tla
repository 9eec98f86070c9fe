--------------------------------- MODULE H3 ---------------------------------
(***************************************************************************)
(* The HTTP/3 transport (hclient-native/src/http3): connections pooled by  *)
(* key and shared by concurrent requests, early data and its replay, the   *)
(* upload pumped beside the response, and the event that tells of a        *)
(* connection's end.  The peer, quinn and h3 are the environment.          *)
(***************************************************************************)
EXTENDS Naturals

CONSTANTS
  H3Reqs,    \* concurrent requests to one origin
  MaxConns   \* bound on the connections ever made

ASSUME H3Constants == MaxConns \in Nat

VARIABLES
  h3Pool,  \* Shared::conns: by early_data, the connection pooled, 0 for none
  h3Conn,  \* the connections made
  h3Req    \* the requests

h3Vars == <<h3Pool, h3Conn, h3Req>>

H3Ids == 1..MaxConns

(***************************************************************************)
(* A connection.                                                           *)
(* made, alive   close_reason is none while it is alive                    *)
(* zeroRtt       Pooled::zero_rtt: no early data went out, or the verdict: *)
(*               pending, accepted, rejected                               *)
(* told          ConnState::told; closes: the Closed events emitted        *)
(* A request.                                                              *)
(* pc     idle, resolving, dialling, staged, sent, verdict, replayed,      *)
(*        body, done                                                       *)
(* early  admits_early_data; dialEarly: this dial uses it                  *)
(* inEarly  the attempt went out before the verdict                        *)
(* upload   the pump: none, writing, finished, cancelled                   *)
(* arrived  history: how often the server has taken the request up         *)
(***************************************************************************)
NoConn == [made |-> FALSE, alive |-> FALSE, zeroRtt |-> "none", told |-> FALSE, closes |-> 0]
NoH3Req == [pc |-> "idle", early |-> FALSE, dialEarly |-> FALSE, conn |-> 0, inEarly |-> FALSE,
            upload |-> "none", here |-> FALSE, arrived |-> 0]

H3Init ==
  /\ h3Pool = [early \in BOOLEAN |-> 0]
  /\ h3Conn = [c \in H3Ids |-> NoConn]
  /\ h3Req = [r \in H3Reqs |-> NoH3Req]

ConnOf(r) == h3Conn[h3Req[r].conn]

\* Watch::failed and the stale entry of checkout: ConnState::closed, for a
\* connection that has a close_reason.
ClosedEvent(c) ==
  IF h3Conn[c].alive THEN h3Conn
  ELSE [h3Conn EXCEPT ![c].told = TRUE, ![c].closes = IF h3Conn[c].told THEN @ ELSE @ + 1]

\* Mutant: the pool key leaves early_data out.
KeyOfNone(early) == FALSE

KeyOf(early) == early

\* stage_with admits the request: what it allows decides which connections it
\* may share.  Only a request whose body can be replayed may allow early data.
H3Admits(r, early) ==
  /\ h3Req[r].pc = "idle"
  /\ h3Req' = [h3Req EXCEPT ![r] = [NoH3Req EXCEPT !.pc = "resolving", !.early = early]]
  /\ UNCHANGED <<h3Pool, h3Conn>>

\* The first half of checkout, once resolve has an address: a live pooled
\* connection is shared; a dead one is taken out and told of.
H3Checkout(r) ==
  LET q == h3Req[r]
      key == KeyOf(q.early)
      c == h3Pool[key]
  IN
  /\ q.pc = "resolving"
  /\ IF c # 0 /\ h3Conn[c].alive
     THEN /\ h3Req' = [h3Req EXCEPT ![r] = [q EXCEPT !.pc = "staged", !.conn = c]]
          /\ UNCHANGED <<h3Pool, h3Conn>>
     ELSE /\ h3Req' = [h3Req EXCEPT ![r] = [q EXCEPT !.pc = "dialling", !.dialEarly = q.early]]
          /\ h3Pool' = [h3Pool EXCEPT ![key] = 0]
          /\ h3Conn' = IF c = 0 THEN h3Conn ELSE ClosedEvent(c)

\* dial: with a ticket a connection is usable before its verdict.
DialledAs(early) == IF early THEN {"none", "pending"} ELSE {"none"}

\* The second half of checkout: the connection is inserted, over whatever a
\* concurrent dial has inserted since.
H3Dialled(r, c, zeroRtt) ==
  /\ h3Req[r].pc = "dialling" /\ ~h3Conn[c].made
  /\ \A d \in H3Ids : d < c => h3Conn[d].made
  /\ zeroRtt \in DialledAs(h3Req[r].dialEarly)
  /\ h3Conn' = [h3Conn EXCEPT ![c] = [NoConn EXCEPT !.made = TRUE, !.alive = TRUE, !.zeroRtt = zeroRtt]]
  /\ h3Pool' = [h3Pool EXCEPT ![KeyOf(h3Req[r].early)] = c]
  /\ h3Req' = [h3Req EXCEPT ![r].pc = "staged", ![r].conn = c, ![r].dialEarly = FALSE]

\* The pump with its Writer is dropped: an upload that is not settled is cancelled.
DropPump(q) == [q EXCEPT !.upload = IF @ = "writing" THEN "cancelled" ELSE @]

Over(q) == [NoH3Req EXCEPT !.pc = "done", !.upload = DropPump(q).upload]

\* No address, or the connect bound met before there is one.
H3Unresolved(r) ==
  /\ h3Req[r].pc = "resolving"
  /\ h3Req' = [h3Req EXCEPT ![r] = Over(@)]
  /\ UNCHANGED <<h3Pool, h3Conn>>

\* connect: EarlyDataLost is dialled again without early data, anything else
\* and the timeout end the request; so does dropping it.
DialFails(r, lost) ==
  /\ h3Req[r].pc = "dialling"
  /\ lost => h3Req[r].dialEarly
  /\ h3Req' = [h3Req EXCEPT ![r] = IF lost THEN [@ EXCEPT !.dialEarly = FALSE] ELSE Over(@)]
  /\ UNCHANGED <<h3Pool, h3Conn>>

\* one_attempt: the head is sent and the pump starts.
H3Sends(r) ==
  /\ h3Req[r].pc = "staged"
  /\ h3Req' = [h3Req EXCEPT ![r].pc = "sent", ![r].upload = "writing", ![r].here = FALSE,
                            ![r].inEarly = ConnOf(r).zeroRtt = "pending"]
  /\ UNCHANGED <<h3Pool, h3Conn>>

\* The server decides on the early data of a connection.
VerdictComes(c, verdict) ==
  /\ h3Conn[c].zeroRtt = "pending"
  /\ h3Conn' = [h3Conn EXCEPT ![c].zeroRtt = verdict]
  /\ UNCHANGED <<h3Pool, h3Req>>

\* The server takes the request up: early data only if it was accepted.
ServerTakes(r) ==
  /\ h3Req[r].pc \in {"sent", "replayed"} /\ ~h3Req[r].here /\ ConnOf(r).alive
  /\ h3Req[r].inEarly => ConnOf(r).zeroRtt = "accepted"
  /\ h3Req' = [h3Req EXCEPT ![r].here = TRUE, ![r].arrived = @ + 1]
  /\ UNCHANGED <<h3Pool, h3Conn>>

\* The response head arrives, on the first attempt or on the replay.
HeadArrives(r) ==
  /\ h3Req[r].pc \in {"sent", "replayed"} /\ h3Req[r].here
  /\ h3Req' = [h3Req EXCEPT ![r].pc = "body"]
  /\ UNCHANGED <<h3Pool, h3Conn>>

\* write_body is done: finish, or a peer that stopped the upload, which is no
\* error (write_after_head).
PumpDone(r) ==
  /\ h3Req[r].upload = "writing" /\ h3Req[r].pc \in {"sent", "replayed", "body"}
  /\ h3Req' = [h3Req EXCEPT ![r].upload = "finished"]
  /\ UNCHANGED <<h3Pool, h3Conn>>

\* A stream error, a reset, a rejection, or the pump's error: the first
\* attempt is over.  Without early data the error is the caller's.
AttemptFails(r) ==
  /\ h3Req[r].pc = "sent"
  /\ LET q == DropPump(h3Req[r]) IN
     IF ConnOf(r).zeroRtt = "none"
     THEN /\ h3Req' = [h3Req EXCEPT ![r] = Over(q)]
          /\ h3Conn' = ClosedEvent(q.conn)
     ELSE /\ h3Req' = [h3Req EXCEPT ![r] = [q EXCEPT !.pc = "verdict"]]
          /\ UNCHANGED h3Conn
  /\ UNCHANGED h3Pool

\* finish awaits the verdict: accepted, the failure is real; otherwise the
\* request is sent again.  A connection that died undecided says rejected.
AfterVerdict(r) ==
  LET c == ConnOf(r) IN
  /\ h3Req[r].pc = "verdict"
  /\ c.zeroRtt = "pending" => ~c.alive
  /\ IF c.zeroRtt = "accepted"
     THEN /\ h3Req' = [h3Req EXCEPT ![r] = Over(@)]
          /\ h3Conn' = ClosedEvent(h3Req[r].conn)
     ELSE /\ h3Req' = [h3Req EXCEPT ![r].pc = "replayed", ![r].upload = "writing", ![r].here = FALSE,
                                    ![r].inEarly = FALSE]
          /\ UNCHANGED h3Conn
  /\ UNCHANGED h3Pool

\* The replay fails, or the response body does: H3Body reports it.
H3Fails(r) ==
  /\ h3Req[r].pc \in {"replayed", "body"}
  /\ h3Req' = [h3Req EXCEPT ![r] = Over(@)]
  /\ h3Conn' = ClosedEvent(h3Req[r].conn)
  /\ UNCHANGED h3Pool

\* The body was read to its end, or the caller dropped it or the exchange.
H3Dropped(r) ==
  /\ h3Req[r].pc \in {"staged", "sent", "verdict", "replayed", "body"}
  /\ h3Req' = [h3Req EXCEPT ![r] = Over(@)]
  /\ UNCHANGED <<h3Pool, h3Conn>>

\* Another request of the caller.
H3Again(r) ==
  /\ h3Req[r].pc = "done"
  /\ h3Req' = [h3Req EXCEPT ![r] = NoH3Req]
  /\ UNCHANGED <<h3Pool, h3Conn>>

\* The peer closes the connection, or it times out.
ConnDies(c) ==
  /\ h3Conn[c].alive
  /\ h3Conn' = [h3Conn EXCEPT ![c].alive = FALSE]
  /\ UNCHANGED <<h3Pool, h3Req>>

H3Next ==
  \/ \E r \in H3Reqs :
       \/ \E early \in BOOLEAN : H3Admits(r, early) \/ DialFails(r, early)
       \/ H3Checkout(r) \/ H3Unresolved(r)
       \/ \E c \in H3Ids, z \in {"none", "pending"} : H3Dialled(r, c, z)
       \/ H3Sends(r) \/ ServerTakes(r) \/ HeadArrives(r) \/ PumpDone(r) \/ AttemptFails(r)
       \/ AfterVerdict(r) \/ H3Fails(r) \/ H3Dropped(r) \/ H3Again(r)
  \/ \E c \in H3Ids : ConnDies(c) \/ \E v \in {"accepted", "rejected"} : VerdictComes(c, v)

H3Spec == H3Init /\ [][H3Next]_h3Vars

-----------------------------------------------------------------------------
H3TypeOK ==
  /\ h3Pool \in [BOOLEAN -> 0..MaxConns]
  /\ \A r \in H3Reqs : h3Req[r].pc \in {"idle", "done"} => h3Req[r].upload # "writing"

\* What a caller did not allow never goes into early data, although
\* connections are shared: a request without AllowEarlyData is not put on a
\* connection whose verdict is open.
EarlyOnlyIfAllowed ==
  \A r \in H3Reqs : h3Req[r].inEarly => h3Req[r].early

\* However many requests share a connection and fail on it, its end is told
\* once, and only once it has really closed: a reset stream is not a close.
ClosedIsToldOnce ==
  \A c \in H3Ids : h3Conn[c].closes <= 1 /\ (h3Conn[c].alive => h3Conn[c].closes = 0)

\* A request is taken up twice only where its connection's early data was
\* rejected: there a request that went out after the verdict, and was not early
\* data at all, is sent again too.
TakenUpOnce ==
  \A r \in H3Reqs : h3Req[r].arrived >= 2 => ConnOf(r).zeroRtt = "rejected"

\* Requests that share HTTP/3 connections: early data only where allowed, one
\* Closed event per connection, and no second arrival unless early data was lost.
H3Holds == H3TypeOK /\ EarlyOnlyIfAllowed /\ ClosedIsToldOnce /\ TakenUpOnce
=============================================================================
