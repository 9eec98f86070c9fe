------------------------------- MODULE Connect -------------------------------
(***************************************************************************)
(* Opening one connection: hclient-native/src/connect.rs, with the         *)
(* scheduler it drives (hclient-proto/src/happy_eyeballs.rs), the memory   *)
(* of failed HTTPS records (hclient-native/src/discovery.rs) and the way a *)
(* proxy is reached by name (hclient-native/src/dial.rs).                  *)
(*                                                                         *)
(* The two address lookups run as streams while everything else happens.   *)
(* What the resolver has said so far is kept, so that a second try starts  *)
(* from the same answers; an item is an address, a failure, or a record of *)
(* a type nobody asked for.  The i-th item of a family stands for the      *)
(* address <<f, i>>, and <<f, 0>> is the hint an HTTPS record gives.       *)
(*                                                                         *)
(* Time is relative: each clock counts from the event it is compared with  *)
(* and stops at the last value the code tells apart.                       *)
(***************************************************************************)
EXTENDS Integers, Sequences, FiniteSets, FiniteSetsExt, Functions

CONSTANTS
    Items,              \* the kinds of item each family's lookup produces
    MaxAnswers,         \* items each family's lookup may still produce: [Families -> Nat]
    ResolutionDelay,    \* HeConfig::resolution_delay
    AttemptDelay,       \* HeConfig::attempt_delay, inside the range Scheduler::new accepts
    FirstFamilyCount,   \* HeConfig::first_family_count
    ResolveBound        \* Timeouts::resolve, 0 when the caller set none

Families == {"v6", "v4"}
Kinds == {"addr", "fail", "other"}

ASSUME ConnectAssumption ==
    /\ \A f \in Families : Items[f] \subseteq Kinds
    /\ MaxAnswers \in [Families -> Nat]
    /\ ResolutionDelay \in Nat \ {0}
    /\ AttemptDelay \in Nat \ {0}
    /\ FirstFamilyCount \in Nat
    /\ ResolveBound \in Nat

VARIABLES
    pc,         \* where the connect is
    secure,     \* a handshake follows TCP: TLS, or first the proxy's own
    ans,        \* what each lookup has answered, and whether it is over
    rec,        \* the HTTPS record in force: whether there is one, the families it hints
    suppressed, \* NegativeCache holds this origin
    at,         \* next position of each family's stream (0 is the hint)
    queue,      \* Scheduler: addresses offered and not started, by position
    fin,        \* Scheduler: families marked done
    age,        \* time since the connect began, then since its race began
    gap,        \* time since the last attempt started, up to AttemptDelay
    streak,     \* Scheduler::run_in_first_family, up to FirstFamilyCount
    flying,     \* attempts in progress
    tried,      \* attempts started in this race
    left,       \* what the timer waited on still has to run
    err,        \* the error the connect ended with
    behind      \* history: attempts of the other family since f had one queued

heVars == <<at, queue, fin, age, gap, streak, flying, tried, behind>>
envVars == <<ans, suppressed>>
vars == <<pc, secure, rec, left, err, heVars, envVars>>

NoAnswers == [f \in Families |-> [seen |-> <<>>, done |-> FALSE]]
NoRecord == [used |-> FALSE, hints |-> {}]
Positions(f) == 0 .. MaxAnswers[f]
Addresses == UNION {{<<f, i>> : i \in Positions(f)} : f \in Families}
Other(f) == CHOOSE g \in Families : g # f
CapAt(n, top) == IF n > top THEN top ELSE n
Ended == {"idle", "ok", "failed"}
OldestAge(at_pc) == IF at_pc = "wait" THEN ResolutionDelay ELSE ResolveBound + 1
LongestWait == Max({ResolutionDelay, AttemptDelay, ResolveBound})

ConnectTypeOK ==
    /\ pc \in Ended \cup {"discover", "bounded", "poll", "wait", "drain", "secure"}
    /\ secure \in BOOLEAN
    /\ ans \in [Families -> [seen : Seq(Kinds), done : BOOLEAN]]
    /\ \A f \in Families : Len(ans[f].seen) <= MaxAnswers[f]
    /\ rec \in [used : BOOLEAN, hints : SUBSET Families]
    /\ suppressed \in BOOLEAN
    /\ \A f \in Families : at[f] \in 0 .. Len(ans[f].seen) + 1
    /\ \A f \in Families : queue[f] \subseteq 0 .. at[f] - 1
    /\ fin \subseteq Families
    /\ age \in 0 .. Max({ResolutionDelay, ResolveBound + 1})
    /\ gap \in 0 .. AttemptDelay
    /\ streak \in 0 .. FirstFamilyCount
    /\ tried \subseteq Addresses /\ flying \subseteq tried
    /\ left \in 0 .. LongestWait
    /\ err \in {"none", "timeout", "resolve", "connect", "lookup", "tls"}

------------------------------------------------------------------------------
(* The streams a race reads: the record's hint, then the answers so far,   *)
(* then what is still to come.                                             *)

\* MUTANT of ReplayFrom: a replay that goes on where the last reader stopped.
ReplayFromEnd(f) == Len(ans[f].seen) + 1

\* Answers::replay starts at the first answer, whoever read it before.
ReplayFrom(f) == 1

StreamStart(f, r) == IF f \in r.hints THEN 0 ELSE ReplayFrom(f)
AfterHint(f) == IF at[f] = 0 THEN ReplayFrom(f) ELSE at[f] + 1
HasItem(f) == at[f] = 0 \/ at[f] <= Len(ans[f].seen)
Item(f) == IF at[f] = 0 THEN "addr" ELSE ans[f].seen[at[f]]
StreamReady(f) == f \notin fin /\ (HasItem(f) \/ ans[f].done)

\* Whether family f's stream gave an error.
Failed(f) == \E i \in 1 .. at[f] - 1 : ans[f].seen[i] = "fail"

------------------------------------------------------------------------------
(* Scheduler::poll                                                         *)

Exhausted == fin = Families /\ \A f \in Families : queue[f] = {}

\* MUTANT of HeldForV6: waits for AAAA however long it takes.
HeldForV6Forever == queue["v6"] = {} /\ "v6" \notin fin

\* The Connection Attempt Delay since the last start, then the Resolution
\* Delay that holds IPv4 back while AAAA is outstanding.
Paced == tried # {} /\ gap < AttemptDelay
HeldForV6 == queue["v6"] = {} /\ "v6" \notin fin /\ age < ResolutionDelay

\* MUTANT of PicksV6: IPv6 first as long as there is any.
PicksV6Always == queue["v6"] # {}

PicksV6 ==
    /\ queue["v6"] # {}
    /\ queue["v4"] = {} \/ tried = {} \/ streak < FirstFamilyCount

Picked == IF PicksV6 THEN "v6" ELSE "v4"

WaitFor ==
    IF Paced THEN AttemptDelay - gap
    ELSE IF HeldForV6 THEN ResolutionDelay - age
    ELSE ResolutionDelay

\* HeAction::Start: the attempt is launched and the scheduler asked again.
Start ==
    LET f == Picked
        i == Min(queue[f])
    IN  /\ pc = "poll" /\ ~Paced /\ ~HeldForV6 /\ queue[f] # {}
        /\ queue' = [queue EXCEPT ![f] = @ \ {i}]
        /\ tried' = tried \cup {<<f, i>>}
        /\ flying' = flying \cup {<<f, i>>}
        /\ gap' = 0
        /\ streak' = IF f = "v6" THEN CapAt(streak + 1, FirstFamilyCount) ELSE 0
        /\ behind' = [behind EXCEPT ![f] = 0,
                                    ![Other(f)] = IF queue[Other(f)] = {} THEN 0 ELSE @ + 1]
        /\ UNCHANGED <<pc, secure, rec, left, err, at, fin, age, envVars>>

\* HeAction::Wait
Wait ==
    /\ pc = "poll" /\ ~Exhausted
    /\ Paced \/ HeldForV6 \/ queue[Picked] = {}
    /\ left' = WaitFor
    /\ pc' = "wait"
    /\ UNCHANGED <<secure, rec, err, heVars, envVars>>

\* HeAction::Exhausted
Drain ==
    /\ pc = "poll" /\ Exhausted
    /\ pc' = "drain"
    /\ UNCHANGED <<secure, rec, left, err, heVars, envVars>>

------------------------------------------------------------------------------
(* drive: what it waits on, in the order it is polled.                     *)

\* The race starts over, on the streams record r gives it.
RaceFrom(r) ==
    /\ pc' = "poll"
    /\ rec' = r
    /\ at' = [f \in Families |-> StreamStart(f, r)]
    /\ queue' = [f \in Families |-> {}]
    /\ behind' = [f \in Families |-> 0]
    /\ fin' = {} /\ age' = 0 /\ gap' = 0 /\ streak' = 0
    /\ flying' = {} /\ tried' = {}

NextStream == IF StreamReady("v6") THEN "v6" ELSE "v4"

ReadStream ==
    LET f == NextStream
    IN  /\ pc = "wait" /\ StreamReady(f)
        /\ IF HasItem(f)
             THEN /\ at' = [at EXCEPT ![f] = AfterHint(f)]
                  /\ queue' = IF Item(f) = "addr"
                                THEN [queue EXCEPT ![f] = @ \cup {at[f]}] ELSE queue
                  /\ fin' = fin
             ELSE /\ fin' = fin \cup {f}
                  /\ UNCHANGED <<at, queue>>
        /\ pc' = "poll"
        /\ UNCHANGED <<secure, rec, left, err, age, gap, streak, flying, tried, behind, envVars>>

NoStreamReady == \A f \in Families : ~StreamReady(f)
AttemptsHeard == pc = "drain" \/ (pc = "wait" /\ NoStreamReady)

\* An attempt that failed: the loop asks the scheduler again, or the drain
\* goes on with the others.
AttemptFails(a) ==
    /\ AttemptsHeard
    /\ flying' = flying \ {a}
    /\ pc' = IF pc = "wait" THEN "poll" ELSE pc
    /\ UNCHANGED <<secure, rec, left, err, at, queue, fin, age, gap, streak, tried, behind, envVars>>

\* The first attempt to succeed wins; the others are dropped.
AttemptWins(a) ==
    /\ AttemptsHeard
    /\ flying' = {}
    /\ pc' = IF secure THEN "secure" ELSE "ok"
    /\ UNCHANGED <<secure, rec, left, err, at, queue, fin, age, gap, streak, tried, behind, envVars>>

TimedOut ==
    /\ pc = "wait" /\ left = 0 /\ NoStreamReady
    /\ pc' = "poll"
    /\ UNCHANGED <<secure, rec, left, err, heVars, envVars>>

------------------------------------------------------------------------------
(* connect                                                                 *)

\* MUTANT of Fails: the second try goes through the record that just failed.
FailsThroughTheRecord(e) ==
    IF rec.used
      THEN /\ RaceFrom(rec)
           /\ suppressed' = TRUE
           /\ UNCHANGED err
      ELSE /\ pc' = "failed" /\ err' = e
           /\ UNCHANGED <<rec, heVars, suppressed>>

\* What a connect that failed with e does: a record in force is remembered
\* as bad and the origin tried once more without it.
Fails(e) ==
    IF rec.used
      THEN /\ RaceFrom(NoRecord)
           /\ suppressed' = TRUE
           /\ UNCHANGED err
      ELSE /\ pc' = "failed" /\ err' = e
           /\ UNCHANGED <<rec, heVars, suppressed>>

\* Every address was tried and none answered.  A lookup's error is passed on
\* where it is more than "no such name"; which it was is left open.
RaceLost ==
    /\ pc = "drain" /\ flying = {}
    /\ \/ Fails(IF tried = {} THEN "resolve" ELSE "connect")
       \/ (\E f \in Families : Failed(f)) /\ Fails("lookup")
    /\ UNCHANGED <<secure, ans, left>>

Secured ==
    /\ pc = "secure"
    /\ pc' = "ok"
    /\ UNCHANGED <<secure, rec, left, err, heVars, envVars>>

NotSecured ==
    /\ pc = "secure"
    /\ Fails("tls")
    /\ UNCHANGED <<secure, ans, left>>

\* What the record's query found, once inert records are set aside.
Records == {NoRecord} \cup [used : {TRUE}, hints : SUBSET Families]

\* first_address_within: skipped where a hint is somewhere to go already.
Onward(r) ==
    IF ResolveBound = 0 \/ r.hints # {}
      THEN RaceFrom(r) /\ UNCHANGED left
      ELSE /\ pc' = "bounded" /\ rec' = r /\ left' = ResolveBound
           /\ UNCHANGED heVars

\* A connect begins: through a filter, which dials the proxy by name with
\* neither record nor resolve bound; or directly, after looking for the HTTPS
\* record where there is one to look for, unless the caller already looked.
BeginProxied ==
    /\ pc = "idle"
    /\ secure' = TRUE
    /\ RaceFrom(NoRecord)
    /\ UNCHANGED <<left, err, envVars>>

\* discovered_endpoint: an https origin on its default port, a resolver that
\* can ask, and no failure remembered; asking is what forgets one whose time
\* is up.
BeginDirect(tls, asks, expired) ==
    LET held == suppressed /\ ~(tls /\ asks /\ expired)
    IN  /\ pc = "idle"
        /\ secure' = tls
        /\ IF tls /\ asks /\ ~held
             THEN pc' = "discover" /\ rec' = NoRecord /\ UNCHANGED <<left, heVars>>
             ELSE Onward(NoRecord)
        /\ suppressed' = held
        /\ UNCHANGED <<err, ans>>

BeginPrefetched(r) ==
    /\ pc = "idle"
    /\ secure' = TRUE
    /\ Onward(r)
    /\ UNCHANGED <<err, envVars>>

Discovered(r) ==
    /\ pc = "discover"
    /\ Onward(r)
    /\ UNCHANGED <<secure, err, envVars>>

\* The wait for the first address ends with any record of either family, or
\* when both lookups are over.
AnyRecord == \E f \in Families : Range(ans[f].seen) \cap {"addr", "other"} # {}
BoundMet == AnyRecord \/ \A f \in Families : ans[f].done

FirstAddress ==
    /\ pc = "bounded" /\ BoundMet
    /\ RaceFrom(rec)
    /\ UNCHANGED <<secure, left, err, envVars>>

ResolveTimedOut ==
    /\ pc = "bounded" /\ ~BoundMet /\ left = 0
    /\ pc' = "failed" /\ err' = "timeout"
    /\ UNCHANGED <<secure, rec, left, heVars, envVars>>

------------------------------------------------------------------------------
(* Outside: the resolver, the clock, whoever asked.                        *)

\* The lookups are streams: they move where the connect polls them.
Polled == pc \in {"discover", "bounded", "wait"}

Answer(f, item) ==
    /\ Polled
    /\ ~ans[f].done /\ Len(ans[f].seen) < MaxAnswers[f]
    /\ ans' = [ans EXCEPT ![f].seen = Append(@, item)]
    /\ UNCHANGED <<pc, secure, rec, left, err, heVars, suppressed>>

LookupEnds(f) ==
    /\ Polled
    /\ ~ans[f].done
    /\ ans' = [ans EXCEPT ![f].done = TRUE]
    /\ UNCHANGED <<pc, secure, rec, left, err, heVars, suppressed>>

\* Time passes where something is measured by it; a timer that is due is
\* served first.
Tick ==
    /\ pc = "discover" \/ (pc \in {"bounded", "wait"} /\ left > 0)
    /\ left' = IF pc = "discover" THEN left ELSE left - 1
    /\ age' = CapAt(age + 1, OldestAge(pc))
    /\ gap' = IF tried = {} THEN gap ELSE CapAt(gap + 1, AttemptDelay)
    /\ UNCHANGED <<pc, secure, rec, err, at, queue, fin, streak, flying, tried, behind, envVars>>

\* The connect is over, or is dropped where it stands (its budget ran out, the
\* request was dropped): its streams and attempts go with it.
Dropped ==
    /\ pc # "idle"
    /\ pc' = "idle"
    /\ secure' = FALSE
    /\ rec' = NoRecord
    /\ ans' = NoAnswers
    /\ at' = [f \in Families |-> 1]
    /\ queue' = [f \in Families |-> {}]
    /\ behind' = [f \in Families |-> 0]
    /\ fin' = {} /\ age' = 0 /\ gap' = 0 /\ streak' = 0
    /\ flying' = {} /\ tried' = {}
    /\ left' = 0 /\ err' = "none" 
    /\ UNCHANGED suppressed

ConnectInit ==
    /\ pc = "idle"
    /\ secure = FALSE
    /\ rec = NoRecord
    /\ ans = NoAnswers
    /\ at = [f \in Families |-> 1]
    /\ queue = [f \in Families |-> {}]
    /\ behind = [f \in Families |-> 0]
    /\ fin = {} /\ age = 0 /\ gap = 0 /\ streak = 0
    /\ flying = {} /\ tried = {}
    /\ left = 0 /\ err = "none" 
    /\ suppressed = FALSE

\* What the executor runs as soon as it is ready, with the clock.
Serve ==
    \/ Start \/ Wait \/ Drain \/ ReadStream \/ TimedOut \/ RaceLost
    \/ FirstAddress \/ ResolveTimedOut \/ Tick

\* What ends because a peer, the operating system or the resolver ends it.
Ends ==
    \/ \E a \in flying : AttemptFails(a) \/ AttemptWins(a)
    \/ Secured \/ NotSecured
    \/ \E r \in Records : Discovered(r)

ConnectNext ==
    \/ Serve \/ Ends
    \/ BeginProxied
    \/ \E tls, asks, expired \in BOOLEAN : BeginDirect(tls, asks, expired)
    \/ \E r \in Records : BeginPrefetched(r)
    \/ \E f \in Families : LookupEnds(f) \/ \E item \in Items[f] : Answer(f, item)
    \/ Dropped

\* The executor runs what is ready and the clock goes on; attempts, handshakes
\* and the HTTPS query end one way or the other.  Of the address lookups
\* nothing is assumed.
ConnectFairness == WF_vars(Serve) /\ WF_vars(Ends)

ConnectSpec == ConnectInit /\ [][ConnectNext]_vars /\ ConnectFairness

------------------------------------------------------------------------------
\* A connect that failed by losing the race had tried every address the
\* resolver gave it, whichever try read it first: an address that arrived
\* while the HTTPS query ran, or during a first race through the record, is
\* not lost to the race that follows (connect.rs, Answers and Replay).
NothingLeftUntried ==
    pc = "failed" /\ err \in {"connect", "resolve", "lookup"} =>
        \A f \in Families :
            /\ ans[f].done
            /\ \A i \in DOMAIN ans[f].seen : ans[f].seen[i] = "addr" => <<f, i>> \in tried

\* The two families take turns: while an address of one is queued, the other
\* starts at most its share (first_family_count for IPv6, one for IPv4)
\* before it (Scheduler::poll).  A count of zero, which the code accepts, gives
\* IPv6 the first attempt and no other as long as IPv4 has one queued.
FamiliesTakeTurns ==
    /\ behind["v4"] <= Max({FirstFamilyCount, 1})
    /\ FirstFamilyCount # 0 => behind["v6"] <= 1

\* Once both lookups are over the connect ends, won or lost: there is no
\* race without an end, and a record that fails costs one more race, not one
\* after another (drive, connect).
EndsOnceLookupsDo ==
    (pc \notin Ended /\ \A f \in Families : ans[f].done) ~> pc \in Ended

\* An IPv4 address the resolver gave is tried, or the connect is over, even
\* if the AAAA lookup never answers and never ends: it is held back for the
\* Resolution Delay, not for good (Scheduler::poll; RFC 8305 section 3).
KnownV4IsTried ==
    \A i \in Positions("v4") \ {0} :
        (/\ pc \notin Ended
         /\ i \in DOMAIN ans["v4"].seen
         /\ ans["v4"].seen[i] = "addr") ~> (<<"v4", i>> \in tried \/ pc \in Ended)

\* What Timeouts::resolve is said to bound: the wait for the first address
\* (hclient-core/src/req.rs).
ResolveIsBounded ==
    /\ ResolveBound # 0
    /\ pc \in {"discover", "bounded"}
    /\ \A f \in Families : "addr" \notin Range(ans[f].seen)
    => age <= ResolveBound

\* A connect ends without a connection only when everything was tried.
ConnectIsSound == ConnectTypeOK /\ NothingLeftUntried
=============================================================================
