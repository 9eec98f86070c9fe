----------------------------- MODULE ClientRun ------------------------------
(***************************************************************************)
(* One operation of a Client: Client::run of hclient/src/client.rs, the    *)
(* loop over redirect hops with, in each hop, the HSTS upgrade, the cookie *)
(* header, the default and netrc headers, the cache lookup, the retry      *)
(* loop, the replay of a 425, the legs of an authentication, the cache     *)
(* update and the redirect decision.  Operations follow one another on one *)
(* client, whose cookie jar, HSTS hosts and response cache they share with *)
(* operations elsewhere.                                                   *)
(*                                                                         *)
(* A URI is its origin, [host, scheme]: paths are not told apart.  A       *)
(* credential is <<who wrote it, the host it is for>>.                     *)
(***************************************************************************)
EXTENDS Naturals, FiniteSets

CONSTANTS
  Hosts,
  Asks,         \* what callers ask for and how the client is configured
  Storable,     \* the URIs whose responses a server lets caches keep
  Serves,       \* what servers answer
  Shared,       \* what operations elsewhere touch: cookies and HSTS hosts
  CacheSize,    \* entries the response store keeps
  Limit,        \* sansio::redirect::Limit
  MaxAttempts   \* Backoff::max_attempts

Origins == [host : Hosts, scheme : {"http", "https"}]

(***************************************************************************)
(* uri, method, body   of the request; a body is empty, full (in memory or *)
(*                     from a factory) or a stream                         *)
(* authz, cookie       the caller wrote Authorization, Cookie              *)
(* auth                the Auth of the request: none, digest, or a scheme  *)
(*                     of any number of legs                               *)
(* early               AllowEarlyData                                      *)
(* conditional, only   the caller's own If-None-Match, only-if-cached      *)
(* keep                the redirect policy keeps credentials across origins*)
(* retry               the RetryPolicy: none, Standard, or one of the      *)
(*                     caller's that does not look at the body             *)
(* netrc               hosts with a netrc entry                            *)
(***************************************************************************)
AskType ==
  [uri : Origins, method : {"GET", "POST"}, body : {"empty", "full", "stream"},
   authz : BOOLEAN, cookie : BOOLEAN, auth : {"none", "digest", "legs"},
   early : BOOLEAN, conditional : BOOLEAN, only : BOOLEAN, keep : BOOLEAN,
   retry : {"none", "standard", "own"}, netrc : SUBSET Hosts]

ASSUME ClientConstants ==
  /\ Asks \subseteq AskType /\ Asks # {} /\ Storable \subseteq Origins
  /\ Shared.cookies \subseteq Hosts \X {"plain", "secure"} /\ Shared.hosts \subseteq Hosts
  /\ Limit \in Nat /\ MaxAttempts \in Nat \ {0} /\ CacheSize \in Nat \ {0}

MaxLegs == 4

VARIABLES
  op,      \* the operation: run's local variables
  jar,     \* the cookies held, <<host, "plain" or "secure">>
  known,   \* the hosts with an HSTS policy
  cache,   \* the stored responses
  wire,    \* history: the request the transport has
  last,    \* history: (hop, resend) of the last request, <<>> before it
  streams  \* history: how often this operation handed its stream over

clientVars == <<op, jar, known, cache, wire, last, streams>>

NoCred == <<"none", "none">>
Creds  == {NoCred} \cup ({"caller", "netrc", "scheme"} \X Hosts)

Cookies == Hosts \X {"plain", "secure", "caller"}

(***************************************************************************)
(* A stored response: its key, the Authorization of its Selector, whether  *)
(* it is fresh, and (history) the credential it was fetched with.          *)
(***************************************************************************)
Entries == [uri : Origins, sel : Creds, fresh : BOOLEAN, for : Creds]
NoEntry == [uri |-> "none"]

(***************************************************************************)
(* A response: its class (unauthorized is a 401 with a digest challenge,   *)
(* busy a status of RetryStatuses::Transient with no Retry-After, or one   *)
(* the policy will wait for, unsent and broken are errors), where a        *)
(* redirect points and whether its status is 303, and whether it sets a    *)
(* cookie and an HSTS policy.                                              *)
(***************************************************************************)
NoTarget  == [host |-> "none", scheme |-> "none"]
SetCookie == {"no", "plain", "secure"}
Sts       == {"no", "set", "clear"}
Responses ==
  [class : {"ok", "created", "unauthorized", "too_early", "not_modified", "busy"},
   to : {NoTarget}, other : {FALSE}, cookie : SetCookie, sts : Sts]
  \cup [class : {"redirect"}, to : Origins \cup {NoTarget}, other : BOOLEAN,
        cookie : SetCookie, sts : Sts]
  \cup [class : {"unsent", "broken"}, to : {NoTarget}, other : {FALSE},
        cookie : {"no"}, sts : {"no"}]
Plain(class) == [class |-> class, to |-> NoTarget, other |-> FALSE, cookie |-> "no", sts |-> "no"]

(***************************************************************************)
(* pc: idle, upgrade, cookies, lookup (the awaits before the request),     *)
(* sending, storing, noting (the awaits of send_hop), judge (what to do    *)
(* with the answer), sleep, after (cache_after), decide, body (the answer  *)
(* is with the caller).                                                    *)
(***************************************************************************)
NoOp == [pc |-> "idle", ask |-> CHOOSE x \in Asks : TRUE, uri |-> NoTarget,
         method |-> "GET", body |-> "empty", replay |-> "none", cred |-> NoCred,
         leg |-> NoCred, cookies |-> {}, early |-> FALSE, auth |-> "none",
         answered |-> FALSE, hops |-> 0, resend |-> 0, phase |-> "try",
         attempt |-> 0, legs |-> 0, plan |-> NoEntry, resp |-> Plain("ok"),
         storing |-> NoEntry, served |-> NoEntry]

NoSend == [uri |-> NoTarget, cred |-> NoCred, cookies |-> {}, early |-> FALSE]

ClientInit ==
  /\ op = NoOp
  /\ jar = {} /\ known = {} /\ cache = {}
  /\ wire = NoSend /\ last = <<>> /\ streams = 0

ASSUME ServesResponses == Serves \subseteq Responses

-----------------------------------------------------------------------------
(* What the steps are made of.                                             *)

\* Mutant: the snapshot of a stream is the stream.
RewindStream(body) == body

\* RequestBody::rewind: the snapshot taken before the body is sent.
Rewind(body) == IF body = "stream" THEN "none" ELSE body

\* replay_for_too_early: whether the body can be sent once more.
MayReplay(replay) == replay # "none"

\* Mutant: a replay is the send it repeats.
ResentNot(n) == n

\* Attempt::resent.  The count saturates: at u16::MAX in the code, here
\* past anything an operation reaches.
Resent(n) == IF n < MaxAttempts + MaxLegs THEN n + 1 ELSE n

(***************************************************************************)
(* One execute of the transport: with the request's own headers, or with   *)
(* the clone a 425 replay or an authentication leg makes of them.          *)
(***************************************************************************)
SendAs(o, cred, body, early) ==
  /\ op' = [o EXCEPT !.pc = "sending", !.leg = cred, !.resp = Plain("ok")]
  /\ wire' = [uri |-> o.uri, cred |-> cred, cookies |-> o.cookies, early |-> early]
  /\ last' = <<o.hops, o.resend>>
  /\ streams' = IF body = "stream" /\ streams < 2 THEN streams + 1 ELSE streams

Again(o, phase) == [o EXCEPT !.phase = phase, !.resend = Resent(@)]

\* run returns, or its future is dropped: nothing of it is left.
Ends == op' = NoOp /\ wire' = NoSend /\ last' = <<>> /\ streams' = 0

-----------------------------------------------------------------------------
\* execute_with: the operation starts.
Start(ask) ==
  /\ op.pc = "idle"
  /\ op' = [NoOp EXCEPT
       !.pc = "upgrade", !.ask = ask, !.uri = ask.uri, !.method = ask.method,
       !.body = ask.body, !.early = ask.early, !.auth = ask.auth,
       !.cred = IF ask.authz THEN <<"caller", ask.uri.host>> ELSE NoCred,
       !.cookies = IF ask.cookie THEN {<<ask.uri.host, "caller">>} ELSE {}]
  /\ wire' = NoSend /\ last' = <<>> /\ streams' = 0
  /\ UNCHANGED <<jar, known, cache>>

\* A timeout, a redirect policy or a version the transport cannot honour:
\* the operation fails before anything is sent.
StartUnsupported(ask) ==
  /\ op.pc = "idle"
  /\ ask \in Asks /\ Ends
  /\ UNCHANGED <<jar, known, cache>>

\* upgrade_scheme.
Upgrade ==
  /\ op.pc = "upgrade"
  /\ op' = [op EXCEPT !.pc = "cookies",
                      !.uri.scheme = IF op.uri.host \in known THEN "https" ELSE @]
  /\ UNCHANGED <<jar, known, cache, wire, last, streams>>

\* Mutant: the header of the last hop stays where the jar has nothing to say.
CookieHeaderStays(o) ==
  LET mine == {c \in jar : c[1] = o.uri.host /\ (c[2] = "secure" => o.uri.scheme = "https")}
  IN  IF o.ask.cookie \/ mine = {} THEN o.cookies ELSE mine

\* attach_cookies: the caller's header, or what the jar holds for the URI.
CookieHeader(o) ==
  IF o.ask.cookie THEN o.cookies
  ELSE {c \in jar : c[1] = o.uri.host /\ (c[2] = "secure" => o.uri.scheme = "https")}

\* The netrc entry of this hop's host, for a request with no credential.
Netrc(o) ==
  IF o.cred # NoCred \/ o.auth # "none" \/ o.uri.host \notin o.ask.netrc THEN o.cred
  ELSE <<"netrc", o.uri.host>>

\* attach_cookies, then up to the cache lookup: netrc and the body snapshot.
AttachCookies ==
  /\ op.pc = "cookies"
  /\ op' = [op EXCEPT !.pc = "lookup", !.cookies = CookieHeader(op),
                      !.cred = Netrc(op), !.replay = Rewind(op.body)]
  /\ UNCHANGED <<jar, known, cache, wire, last, streams>>

\* The stored responses a lookup may select.
Matching(o) ==
  IF o.ask.conditional \/ o.method # "GET" THEN {}
  ELSE {e \in cache : e.uri = o.uri /\ e.sel = o.cred}

\* cache_before: a hit is the answer.
CacheHit ==
  /\ op.pc = "lookup"
  /\ \E e \in Matching(op) :
       /\ e.fresh
       /\ op' = [op EXCEPT !.pc = "decide", !.resp = Plain("ok"), !.served = e]
  /\ UNCHANGED <<jar, known, cache, wire, last, streams>>

\* cache_before: only-if-cached and nothing usable is a 504 of the client's
\* own.  What the caller's conditionals keep from the cache is no miss.
CacheUnsatisfiable ==
  /\ op.pc = "lookup" /\ op.ask.only /\ ~op.ask.conditional
  /\ \A e \in Matching(op) : FALSE
  /\ op' = [op EXCEPT !.pc = "decide", !.resp = Plain("ok")]
  /\ UNCHANGED <<jar, known, cache, wire, last, streams>>

\* AuthFlow::authorize on the first leg: a digest has nothing to answer yet.
FirstLeg(o) == IF o.auth = "legs" THEN <<"scheme", o.ask.uri.host>> ELSE o.cred

\* cache_before goes on, with a conditional request where a stale response
\* is held; the authentication starts and the first request goes out.
CacheMiss ==
  /\ op.pc = "lookup"
  /\ \A e \in Matching(op) : ~e.fresh
  /\ ~(op.ask.only /\ ~op.ask.conditional /\ Matching(op) = {})
  /\ \E plan \in IF Matching(op) = {} THEN {NoEntry} ELSE Matching(op) :
       LET o == [op EXCEPT !.plan = plan, !.cred = FirstLeg(op), !.answered = FALSE,
                           !.phase = "try", !.attempt = 1, !.legs = 1]
       IN  SendAs(o, o.cred, o.body, o.early)
  /\ UNCHANGED <<jar, known, cache>>

\* The transport answers or fails (send_hop).  An await of send_hop with
\* nothing to write is no step.
Answer(r) ==
  /\ op.pc = "sending"
  /\ r.class = "not_modified" => op.plan # NoEntry \/ op.ask.conditional
  /\ r.class = "created" <=> (op.method = "POST" /\ r.class \in {"ok", "created"})
  /\ op' = [op EXCEPT !.resp = r,
                      !.pc = IF r.cookie # "no" THEN "storing"
                             ELSE IF r.sts # "no" THEN "noting" ELSE "judge"]
  /\ wire' = NoSend
  /\ UNCHANGED <<jar, known, cache, last, streams>>

\* store_cookies, of every response of every hop.
StoreCookies ==
  /\ op.pc = "storing"
  /\ jar' = IF op.resp.cookie = "plain" \/ (op.resp.cookie = "secure" /\ op.uri.scheme = "https")
              THEN jar \cup {<<op.uri.host, op.resp.cookie>>} ELSE jar
  /\ op' = [op EXCEPT !.pc = IF op.resp.sts # "no" THEN "noting" ELSE "judge"]
  /\ UNCHANGED <<known, cache, wire, last, streams>>

\* note_hsts: only what came over https counts.
NoteHsts ==
  /\ op.pc = "noting"
  /\ known' = IF op.uri.scheme # "https" THEN known
              ELSE IF op.resp.sts = "set" THEN known \cup {op.uri.host}
              ELSE known \ {op.uri.host}
  /\ op' = [op EXCEPT !.pc = "judge"]
  /\ UNCHANGED <<jar, cache, wire, last, streams>>

\* The verdict of Standard on an answer of the retry loop: Standard::decide and
\* Backoff::delay.
Retries(o) ==
  /\ o.phase = "try" /\ o.ask.retry = "standard"
  /\ o.resp.class \in {"busy", "unsent"} /\ MayReplay(o.replay)
  /\ o.attempt < MaxAttempts

\* A policy of the caller's is asked about every status and every unsent
\* request, and may say either of any of them; it stops by MaxAttempts.
OwnRetries(o) ==
  /\ o.phase = "try" /\ o.ask.retry = "own"
  /\ o.resp.class # "broken"
  /\ o.attempt < MaxAttempts

\* The retry loop goes round: sleep, then send again.
RetrySleeps ==
  /\ op.pc = "judge" /\ (Retries(op) \/ OwnRetries(op))
  /\ op' = [op EXCEPT !.pc = "sleep", !.attempt = IF @ < MaxAttempts THEN @ + 1 ELSE @]
  /\ UNCHANGED <<jar, known, cache, wire, last, streams>>

Resend ==
  /\ op.pc = "sleep"
  /\ \/ /\ MayReplay(op.replay)
        /\ SendAs(Again(op, "try"), op.cred, op.replay, op.early)
     \/ /\ ~MayReplay(op.replay)      \* BodyVanishedBeforeRetry
        /\ Ends
  /\ UNCHANGED <<jar, known, cache>>

\* The transport's error ends the operation.
Fail ==
  /\ op.pc = "judge" /\ ~Retries(op)
  /\ op.resp.class \in {"unsent", "broken"}
  /\ Ends
  /\ UNCHANGED <<jar, known, cache>>

Answers == {"ok", "created", "unauthorized", "too_early", "not_modified", "busy", "redirect"}

\* Whether the answer is a 425 to be replayed.
IsTooEarly(o) ==
  o.phase = "try" /\ o.resp.class = "too_early" /\ MayReplay(o.replay)

\* Mutant: the replay is the request as it was.
EarlyOnReplayKept(o) == o.early

\* AllowEarlyData of a 425 replay: removed on the clone.
EarlyOnReplay(o) == FALSE

TooEarlyReplay ==
  /\ op.pc = "judge" /\ IsTooEarly(op)
  /\ SendAs(Again(op, "early"), op.cred, op.replay, EarlyOnReplay(op))
  /\ UNCHANGED <<jar, known, cache>>

\* AuthFlow::on_response: a digest answers one challenge; another scheme may
\* want another leg whatever it is told.
WantsLeg(o) ==
  \/ o.auth = "digest" /\ o.resp.class = "unauthorized" /\ ~o.answered
  \/ o.auth = "legs"

AuthDone(o) == o.auth # "digest" \/ ~WantsLeg(o)

\* Another leg of the authentication, on a clone of the request.
AuthLeg ==
  /\ op.pc = "judge" /\ op.resp.class \in Answers
  /\ ~Retries(op) /\ ~IsTooEarly(op) /\ WantsLeg(op)
  /\ op.legs < MaxLegs /\ MayReplay(op.replay)
  /\ SendAs([Again(op, "leg") EXCEPT !.legs = @ + 1, !.answered = TRUE],
            <<"scheme", op.ask.uri.host>>, op.replay, op.early)
  /\ UNCHANGED <<jar, known, cache>>

\* TooManyLegs.
AuthTooManyLegs ==
  /\ op.pc = "judge" /\ op.resp.class \in Answers
  /\ ~Retries(op) /\ ~IsTooEarly(op) /\ WantsLeg(op)
  /\ op.legs = MaxLegs
  /\ Ends
  /\ UNCHANGED <<jar, known, cache>>

\* The answer stands: nothing is to be sent again, or nothing can be.
AnswerStands ==
  /\ op.pc = "judge" /\ op.resp.class \in Answers
  /\ ~Retries(op) /\ ~IsTooEarly(op)
  /\ AuthDone(op) \/ (op.legs < MaxLegs /\ ~MayReplay(op.replay))
  /\ op' = [op EXCEPT !.pc = "after", !.phase = "try", !.attempt = 0, !.legs = 0, !.answered = FALSE]
  /\ UNCHANGED <<jar, known, cache, wire, last, streams>>

\* The Storing of a response: its Selector is taken from the request's own
\* headers, not from the clone an authentication leg was sent with.
StoringOf(o) == [uri |-> o.uri, sel |-> o.cred, fresh |-> TRUE, for |-> o.leg]

\* A put into the response store: it replaces what has the same key and
\* selector, and may push another out.
Put(e) ==
  LET others == {x \in cache : x.uri # e.uri \/ x.sel # e.sel}
  IN  \E kept \in SUBSET others :
        /\ Cardinality(kept) < CacheSize
        /\ kept # others => Cardinality(kept) = CacheSize - 1
        /\ cache' = kept \cup {e}

\* cache_after: a 304 refreshes the stale response and serves it; anything
\* else removes it, an unsafe request that succeeded invalidates the key, and
\* what may be stored is recorded as the caller reads it.
CacheAfter ==
  /\ op.pc = "after"
  /\ LET stale == IF op.plan = NoEntry THEN {} ELSE {e \in cache : e.uri = op.plan.uri /\ e.sel = op.plan.sel}
         fresh == [op.plan EXCEPT !.fresh = TRUE]
         rest  == IF op.resp.class \in {"created", "redirect"} /\ op.method = "POST"
                    THEN {e \in cache \ stale : e.uri # op.uri} ELSE cache \ stale
     IN  IF op.plan # NoEntry /\ op.resp.class = "not_modified"
           THEN /\ Put(fresh)
                /\ op' = [op EXCEPT !.pc = "decide", !.plan = NoEntry, !.leg = NoCred,
                                    !.resp = Plain("ok"), !.served = fresh]
           ELSE /\ cache' = rest
                /\ op' = [op EXCEPT !.pc = "decide", !.plan = NoEntry, !.leg = NoCred,
                     !.storing = IF op.method = "GET" /\ ~op.ask.conditional /\ op.resp.class = "ok"
                                    /\ op.uri \in Storable
                                   THEN StoringOf(op) ELSE NoEntry]
  /\ UNCHANGED <<jar, known, wire, last, streams>>

-----------------------------------------------------------------------------
(* The redirect decision (sansio::redirect::decide and next_hop).          *)

CrossOrigin(from, to) == from # to

\* A status 301 or 302 is here a 303 for a POST and a 307 for a GET.
Downgrades(o) == o.resp.other

\* The answer is the caller's: no redirect, no Location, or a body that
\* cannot be sent again.
Deliver ==
  /\ op.pc = "decide"
  /\ \/ op.resp.class # "redirect"
     \/ op.resp.to = NoTarget
     \/ /\ op.hops < Limit
        /\ ~Downgrades(op) /\ op.replay = "none"
  /\ op' = [op EXCEPT !.pc = "body"]
  /\ UNCHANGED <<jar, known, cache, wire, last, streams>>

\* Refused by the limit, or a Location that is no reference.
RefuseRedirect ==
  /\ op.pc = "decide" /\ op.resp.class = "redirect"
  /\ op.hops >= Limit \/ op.resp.to = NoTarget
  /\ Ends
  /\ UNCHANGED <<jar, known, cache>>

\* Mutant: the Auth of the request survives the origin.
StrippedAuthStays(o, strip) ==
  [o EXCEPT !.cred = IF strip THEN NoCred ELSE @, !.cookies = IF strip THEN {} ELSE @,
            !.early = @ /\ ~strip]

\* What leaving the origin takes away: the sensitive headers, early data and
\* the authentication.
Stripped(o, strip) ==
  [o EXCEPT !.cred = IF strip THEN NoCred ELSE @, !.cookies = IF strip THEN {} ELSE @,
            !.early = @ /\ ~strip, !.auth = IF strip THEN "none" ELSE @]

\* Mutant: the hop counter does not move.
CountedNot(n) == n

Counted(n) == n + 1

Follow ==
  /\ op.pc = "decide" /\ op.resp.class = "redirect" /\ op.resp.to # NoTarget
  /\ op.hops < Limit
  /\ Downgrades(op) \/ op.replay # "none"
  /\ LET o == Stripped(op, CrossOrigin(op.uri, op.resp.to) /\ ~op.ask.keep)
     IN  op' = [o EXCEPT !.pc = "upgrade", !.uri = op.resp.to, !.hops = Counted(@), !.resend = 0,
                  !.method = IF Downgrades(op) THEN "GET" ELSE @,
                  !.body = IF Downgrades(op) THEN "empty" ELSE op.replay,
                  !.resp = Plain("ok"), !.storing = NoEntry, !.served = NoEntry]
  /\ UNCHANGED <<jar, known, cache, wire, last, streams>>

-----------------------------------------------------------------------------
\* The caller reads the body to its end: the Recorder commits (Cache::store).
ReadToEnd ==
  /\ op.pc = "body"
  /\ IF op.storing = NoEntry THEN UNCHANGED cache ELSE Put(op.storing)
  /\ Ends
  /\ UNCHANGED <<jar, known>>

\* The caller drops the operation or the body, or `total' expires and the
\* future of run is dropped at whichever await it stands.
Cut ==
  /\ op.pc # "idle"
  /\ Ends
  /\ UNCHANGED <<jar, known, cache>>

\* What other operations of the same client do meanwhile.
Elsewhere ==
  /\ \/ \E c \in Shared.cookies :
          jar' \in {jar \cup {c}, jar \ {c}} /\ UNCHANGED <<known, cache>>
     \/ \E h \in Shared.hosts : known' \in {known \cup {h}, known \ {h}} /\ UNCHANGED <<jar, cache>>
     \/ \E e \in cache :
          /\ cache' \in {(cache \ {e}) \cup {[e EXCEPT !.fresh = FALSE]}, cache \ {e}}
          /\ UNCHANGED <<jar, known>>
  /\ UNCHANGED <<op, wire, last, streams>>

OpStep ==
  \/ Upgrade \/ AttachCookies
  \/ CacheHit \/ CacheUnsatisfiable \/ CacheMiss
  \/ \E r \in Serves : Answer(r)
  \/ StoreCookies \/ NoteHsts
  \/ RetrySleeps \/ Resend \/ Fail
  \/ TooEarlyReplay \/ AuthLeg \/ AuthTooManyLegs \/ AnswerStands
  \/ CacheAfter
  \/ Deliver \/ RefuseRedirect \/ Follow
  \/ ReadToEnd

ClientNext ==
  \/ \E ask \in Asks : Start(ask) \/ StartUnsupported(ask)
  \/ OpStep
  \/ Cut
  \/ Elsewhere

ClientSpec == ClientInit /\ [][ClientNext]_clientVars

\* The caller polls the operation, and the transport answers or fails.
ClientLiveSpec == ClientSpec /\ WF_clientVars(OpStep)

-----------------------------------------------------------------------------
PCs == {"idle", "upgrade", "cookies", "lookup", "sending", "storing", "noting",
        "judge", "sleep", "after", "decide", "body"}

(***************************************************************************)
(* Types, and the bound on what one hop may send: the attempts of the      *)
(* retry policy, one replay of a 425 and the legs of an authentication,    *)
(* whichever order the server's answers put them in.                       *)
(***************************************************************************)
ClientTypeOK ==
  /\ op.pc \in PCs /\ op.ask \in Asks
  /\ op.uri \in Origins \cup {NoTarget} /\ op.cred \in Creds /\ op.leg \in Creds
  /\ op.cookies \subseteq Cookies /\ op.resp \in Responses
  /\ op.storing \in Entries \cup {NoEntry} /\ op.served \in Entries \cup {NoEntry}
  /\ jar \subseteq Cookies /\ known \subseteq Hosts /\ cache \subseteq Entries
  /\ op.hops \in 0..Limit
  /\ op.attempt \in 0..MaxAttempts /\ op.legs \in 0..MaxLegs
  /\ op.resend < MaxAttempts + MaxLegs
  /\ streams \in 0..2

\* A credential reaches no host but the one it is for, and one the caller
\* wrote or an Auth computed does not go out in clear text once it has been
\* sent over TLS: whatever the redirects, the HSTS upgrades and the legs in
\* between, unless the policy said to keep credentials.  (strip_sensitive,
\* next_hop, `auth = None', netrc by THIS hop's host.)
CredentialsStayHome ==
  (wire.cred # NoCred /\ ~op.ask.keep) =>
    /\ wire.cred[2] = wire.uri.host
    /\ (op.ask.uri.scheme = "https" /\ wire.cred[1] # "netrc") => wire.uri.scheme = "https"

\* A cookie of the jar is sent to its own host only, a Secure one only over
\* https, even where the policy keeps credentials: attach_cookies decides
\* again in every hop, after the HSTS upgrade.  The caller's own Cookie
\* header leaves its host only where the policy keeps credentials.
CookiesStayHome ==
  \A c \in wire.cookies :
    /\ c[1] = wire.uri.host \/ (c[2] = "caller" /\ op.ask.keep)
    /\ c[2] = "secure" => wire.uri.scheme = "https"

\* A body that can be sent only once is handed to the transport only once,
\* across retries, 425 replays, authentication legs and redirects, whatever
\* the caller's retry policy says.
StreamedBodyOnce == streams <= 1

\* "A replay outside early data": what is sent on account of a 425 does not
\* carry AllowEarlyData.  The mark goes out again in two ways only: a policy of
\* the caller's asks for the 425 itself to be retried, with the request as it
\* is, or a scheme goes on to another leg whatever it is told, and then only
\* to a server that has answered 425 to the replay as well.
TooEarlyIsNotRepeatedEarly ==
  [][(op.pc \in {"judge", "sleep"} /\ op.resp.class = "too_early" /\ wire'.early) =>
       \/ op.pc = "judge" /\ op.auth = "legs" /\ op.phase # "try"
       \/ op.pc = "sleep" /\ op.ask.retry = "own"]_clientVars

\* Every send of an operation has its own (hop, resend), and the pairs only
\* go up: what hooks and transports are told orders the requests.
AttemptsAdvance ==
  [][(last # <<>> /\ last' # <<>> /\ op'.pc = "sending" /\ op.pc # "sending") =>
       \/ last'[1] > last[1]
       \/ last'[1] = last[1] /\ last'[2] > last[2]]_clientVars

\* Every operation ends, whatever the servers answer: the retries, the legs
\* and the hops are all bounded.
EveryOperationEnds == op.pc = "upgrade" ~> op.pc \in {"body", "idle"}

\* "A response fetched with one token is never served to a request carrying
\* another" (cache::policy): a stored response goes to requests that carry
\* the credential it was fetched with, or it was fetched with none.
ServedToItsOwner ==
  op.served # NoEntry => op.served.for \in {NoCred, op.cred}

\* An operation's state is one the code can be in, and a body that can be sent
\* only once is.
OperationIsSound == ClientTypeOK /\ StreamedBodyOnce
=============================================================================
