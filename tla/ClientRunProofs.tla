-------------------------- MODULE ClientRunProofs ---------------------------
(***************************************************************************)
(* One operation of a Client, proved for any hosts, any set of asks, any   *)
(* answers of the servers, any limits: credentials and cookies stay where  *)
(* they belong, a stream is sent once, the sends of an operation are       *)
(* bounded per hop and numbered upwards, a 425 is repeated outside early   *)
(* data.                                                                   *)
(***************************************************************************)
EXTENDS ClientRun, TLAPS

\* run's local variables, all of them.
OpType ==
  [pc : PCs, ask : Asks, uri : Origins \cup {NoTarget}, method : {"GET", "POST"},
   body : {"empty", "full", "stream"}, replay : {"none", "empty", "full"}, cred : Creds,
   leg : Creds, cookies : SUBSET Cookies, early : BOOLEAN, auth : {"none", "digest", "legs"},
   answered : BOOLEAN, hops : 0..Limit, resend : Nat, phase : {"try", "early", "leg"},
   attempt : 0..MaxAttempts, legs : 0..MaxLegs, plan : Entries \cup {NoEntry},
   resp : Responses, storing : Entries \cup {NoEntry}, served : Entries \cup {NoEntry}]

WireType ==
  [uri : Origins \cup {NoTarget}, cred : Creds, cookies : SUBSET Cookies, early : BOOLEAN]

\* The types, and that an operation has a URI: the whole of them is
\* inductive, ClientTypeOK alone is not.
Typed ==
  /\ op \in OpType
  /\ op.pc # "idle" => op.uri \in Origins
  /\ jar \subseteq Cookies /\ known \subseteq Hosts /\ cache \subseteq Entries
  /\ wire \in WireType
  /\ last \in {<<>>} \cup (Nat \X Nat)
  /\ streams \in 0..2

\* Where the cookie header and the credential of this hop are settled.
Attached == {"lookup", "sending", "storing", "noting", "judge", "sleep"}

\* What the request holds may be sent where it goes: the credential is its
\* host's, and an authentication is left only at the origin it was asked for.
CredSettled ==
  ~op.ask.keep =>
    /\ op.cred # NoCred =>
         /\ op.cred[2] = op.uri.host
         /\ (op.ask.uri.scheme = "https" /\ op.cred[1] # "netrc") => op.uri.scheme = "https"
    /\ op.auth # "none" =>
         /\ op.ask.uri.host = op.uri.host
         /\ op.ask.uri.scheme = "https" => op.uri.scheme = "https"

\* The cookie header is the caller's own, or settled again in this hop.
CookiesSettled ==
  \A c \in op.cookies :
    /\ op.ask.cookie => c[2] = "caller"
    /\ (op.ask.cookie \/ op.pc \in Attached) =>
         c[1] = op.uri.host \/ (c[2] = "caller" /\ op.ask.keep)
    /\ op.pc \in Attached => (c[2] = "secure" => op.uri.scheme = "https")

\* What a hop has sent again: by the attempts of the retry policy, by the one
\* replay of a 425, by the legs after the first.
Budget ==
  /\ op.resend < MaxAttempts + MaxLegs
  /\ op.pc \in {"upgrade", "cookies", "lookup"} => op.resend = 0
  /\ op.pc \in {"sending", "storing", "noting", "judge"} =>
       /\ op.attempt >= 1 /\ op.legs >= 1
       /\ op.phase # "leg" => op.legs = 1
       /\ op.resend + 2 <= op.attempt + op.legs + (IF op.phase = "try" THEN 0 ELSE 1)
  /\ op.pc = "sleep" =>
       /\ op.phase = "try" /\ op.legs = 1 /\ op.attempt >= 2
       /\ op.resend + 2 <= op.attempt

\* A stream that has not been sent is still the body.
StreamUnsent ==
  /\ streams <= 1
  /\ (op.body = "stream" /\ op.pc \in {"upgrade", "cookies", "lookup"}) => streams = 0

\* The last send lies behind where the operation stands.
LastIsBehind ==
  last # <<>> =>
    /\ last[1] <= op.hops
    /\ last[1] = op.hops => last[2] <= op.resend
    /\ op.pc \in {"upgrade", "cookies", "lookup"} => last[1] < op.hops

\* The transport has a request only while the operation waits for it.
WireIsIdle == op.pc # "sending" => wire = NoSend

\* Who sleeps was told to retry: by Standard, or by the caller's own policy.
SleepIsTold == op.pc = "sleep" => op.ask.retry = "own" \/ op.resp.class \in {"busy", "unsent"}

OperationInv ==
  /\ Typed /\ CredSettled /\ CookiesSettled /\ Budget /\ StreamUnsent
  /\ LastIsBehind /\ WireIsIdle /\ CredentialsStayHome /\ CookiesStayHome /\ SleepIsTold

-----------------------------------------------------------------------------
\* What an ended operation leaves is well formed.
LEMMA NoOpTyped ==
  NoOp \in OpType /\ NoSend \in WireType /\ NoOp.pc = "idle"
BY ClientConstants DEF NoOp, NoSend, OpType, WireType, PCs, Creds, NoCred, Cookies, Responses,
     Plain, NoTarget, SetCookie, Sts, NoEntry, MaxLegs

LEMMA PlainIsResponse ==
  ASSUME NEW class \in {"ok"} PROVE Plain(class) \in Responses
BY DEF Plain, Responses, SetCookie, Sts

LEMMA NoCredIsCred == NoCred \in Creds
BY DEF Creds

\* The places an operation can stand at, by name.
LEMMA Places ==
  /\ "idle" \in PCs /\ "upgrade" \in PCs /\ "cookies" \in PCs /\ "lookup" \in PCs
  /\ "sending" \in PCs /\ "storing" \in PCs /\ "noting" \in PCs /\ "judge" \in PCs
  /\ "sleep" \in PCs /\ "after" \in PCs /\ "decide" \in PCs /\ "body" \in PCs
BY DEF PCs

\* An execute keeps the types, whatever request it is given.
LEMMA SendAsTyped ==
  ASSUME Typed, NEW o \in OpType, o.uri \in Origins, NEW c \in Creds,
         NEW b, NEW e \in BOOLEAN, SendAs(o, c, b, e),
         UNCHANGED <<jar, known, cache>>
  PROVE  Typed'
<1>1. op' \in OpType
  BY ZenonT(60), PlainIsResponse DEF SendAs, OpType, PCs
<1>2. op'.uri \in Origins
  BY DEF SendAs, OpType
<1>3. wire' \in WireType
  BY DEF SendAs, OpType, WireType
<1>4. last' \in {<<>>} \cup (Nat \X Nat)
  BY ClientConstants DEF SendAs, OpType
<1>5. streams' \in 0..2
  BY DEF SendAs, Typed
<1> QED
  BY <1>1, <1>2, <1>3, <1>4, <1>5 DEF Typed

LEMMA EndsTyped ==
  ASSUME Typed, Ends, jar' \subseteq Cookies, known' \subseteq Hosts, cache' \subseteq Entries
  PROVE  Typed'
BY NoOpTyped DEF Ends, Typed

\* A stored response is one, and a put leaves stored responses only.
LEMMA PutTyped ==
  ASSUME NEW e \in Entries, cache \subseteq Entries, Put(e)
  PROVE  cache' \subseteq Entries
BY DEF Put

\* The requests a hop sends again have the operation's own types.
LEMMA AgainTyped ==
  ASSUME NEW o \in OpType, NEW phase \in {"try", "early", "leg"}
  PROVE  /\ Again(o, phase) \in OpType /\ Again(o, phase).uri = o.uri
         /\ Again(o, phase).hops = o.hops /\ Again(o, phase).cookies = o.cookies
         /\ Again(o, phase).resend = Resent(o.resend)
<1>1. Resent(o.resend) \in Nat
  BY ClientConstants DEF OpType, Resent, MaxLegs
<1> QED
  BY ZenonT(60), <1>1 DEF Again, OpType

LEMMA StrippedTyped ==
  ASSUME NEW o \in OpType, NEW strip \in BOOLEAN
  PROVE  Stripped(o, strip) \in OpType /\ Stripped(o, strip).hops = o.hops
<1>1. PICK c \in Creds, k \in SUBSET Cookies, e \in BOOLEAN, a \in {"none", "digest", "legs"} :
        Stripped(o, strip) = [o EXCEPT !.cred = c, !.cookies = k, !.early = e, !.auth = a]
  BY NoCredIsCred DEF Stripped, OpType
<1>2. [o EXCEPT !.cred = c, !.cookies = k, !.early = e, !.auth = a] \in OpType
  BY ZenonT(60) DEF OpType
<1>3. [o EXCEPT !.cred = c, !.cookies = k, !.early = e, !.auth = a].hops = o.hops
  BY DEF OpType
<1> QED
  BY <1>1, <1>2, <1>3

\* Every step keeps the types.
LEMMA TypedInductive == Typed /\ [ClientNext]_clientVars => Typed'
<1> SUFFICES ASSUME Typed, [ClientNext]_clientVars PROVE Typed'
  OBVIOUS
<1>a. /\ op \in OpType /\ jar \subseteq Cookies /\ known \subseteq Hosts
      /\ cache \subseteq Entries /\ (op.pc # "idle" => op.uri \in Origins)
  BY DEF Typed
<1>b. op.ask \in AskType
  BY <1>a, ClientConstants DEF OpType
<1>c. /\ op.replay \in {"none", "empty", "full"} /\ op.cred \in Creds /\ op.early \in BOOLEAN
      /\ op.body \in {"empty", "full", "stream"} /\ op.plan \in Entries \cup {NoEntry}
      /\ op.resp \in Responses /\ op.uri \in Origins \cup {NoTarget}
  BY <1>a DEF OpType
<1>1. ASSUME NEW ask \in Asks, Start(ask) PROVE Typed'
  <2>1. /\ ask \in AskType /\ ask.uri \in Origins /\ ask.uri.host \in Hosts
        /\ (IF ask.authz THEN <<"caller", ask.uri.host>> ELSE NoCred) \in Creds
        /\ (IF ask.cookie THEN {<<ask.uri.host, "caller">>} ELSE {}) \subseteq Cookies
        /\ ask.method \in {"GET", "POST"} /\ ask.body \in {"empty", "full", "stream"}
        /\ ask.early \in BOOLEAN /\ ask.auth \in {"none", "digest", "legs"}
    BY ClientConstants DEF AskType, Creds, Cookies, Origins
  <2>3. op' \in OpType
    <3>1. PICK c \in Creds, k \in SUBSET Cookies :
            op' = [NoOp EXCEPT !.pc = "upgrade", !.ask = ask, !.uri = ask.uri,
                     !.method = ask.method, !.body = ask.body, !.early = ask.early,
                     !.auth = ask.auth, !.cred = c, !.cookies = k]
      BY <1>1, <2>1 DEF Start
    <3> QED
      BY ZenonT(60), <2>1, <3>1, NoOpTyped, Places DEF OpType
  <2>2. op'.uri \in Origins
    BY <1>1, <2>1, NoOpTyped DEF Start, OpType
  <2> QED
    BY <1>1, <1>a, <2>2, <2>3, NoOpTyped DEF Start, Typed
<1>2. ASSUME NEW ask \in Asks, StartUnsupported(ask) PROVE Typed'
  BY <1>2, <1>a, EndsTyped DEF StartUnsupported
<1>3. CASE Upgrade
  <2>1. op'.uri \in Origins
    BY <1>3, <1>a DEF Upgrade, OpType, Origins
  <2>2. op' \in OpType
    BY ZenonT(60), <1>3, <1>a, <2>1, Places DEF Upgrade, OpType, Origins
  <2> QED
    BY <1>3, <1>a, <2>1, <2>2 DEF Upgrade, Typed
<1>4. CASE AttachCookies
  <2>1. CookieHeader(op) \subseteq Cookies /\ Netrc(op) \in Creds /\ Rewind(op.body) \in {"none", "empty", "full"}
    BY <1>4, <1>a, <1>b, <1>c DEF AttachCookies, CookieHeader, Netrc, Rewind, OpType, Creds, Origins
  <2>2. op' \in OpType /\ op'.uri = op.uri
    BY ZenonT(60), <1>4, <1>a, <2>1, Places DEF AttachCookies, OpType
  <2> QED
    BY <1>4, <1>a, <2>2 DEF AttachCookies, Typed
<1>5. CASE CacheHit
  <2>0. PICK e \in Matching(op) :
          op' = [op EXCEPT !.pc = "decide", !.resp = Plain("ok"), !.served = e]
    BY <1>5 DEF CacheHit
  <2>1. e \in Entries
    BY <1>a DEF Matching
  <2>2. op' \in OpType /\ op'.uri = op.uri
    BY ZenonT(60), <1>a, <2>0, <2>1, PlainIsResponse, Places DEF OpType
  <2> QED
    BY <1>5, <1>a, <2>2 DEF CacheHit, Typed
<1>6. CASE CacheUnsatisfiable
  <2>1. op' \in OpType /\ op'.uri = op.uri
    BY <1>6, <1>a, PlainIsResponse, Places DEF CacheUnsatisfiable, OpType
  <2> QED
    BY <1>6, <1>a, <2>1 DEF CacheUnsatisfiable, Typed
<1>7. CASE CacheMiss
  <2>1. PICK plan \in IF Matching(op) = {} THEN {NoEntry} ELSE Matching(op) :
          LET o == [op EXCEPT !.plan = plan, !.cred = FirstLeg(op), !.answered = FALSE,
                              !.phase = "try", !.attempt = 1, !.legs = 1]
          IN  SendAs(o, o.cred, o.body, o.early)
    BY <1>7, <1>a DEF CacheMiss
  <2> DEFINE o == [op EXCEPT !.plan = plan, !.cred = FirstLeg(op), !.answered = FALSE,
                             !.phase = "try", !.attempt = 1, !.legs = 1]
  <2>2. plan \in Entries \cup {NoEntry}
    BY <1>a, <2>1 DEF Matching
  <2>3. FirstLeg(op) \in Creds
    BY <1>b, <1>c DEF FirstLeg, Creds, AskType, Origins
  <2>4. 1 \in 0..MaxAttempts /\ 1 \in 0..MaxLegs
    BY ClientConstants DEF MaxLegs
  <2>5. o \in OpType /\ o.uri = op.uri /\ o.cred \in Creds /\ o.early \in BOOLEAN
    BY ZenonT(60), <1>a, <2>2, <2>3, <2>4 DEF OpType
  <2>6. SendAs(o, o.cred, o.body, o.early)
    BY <2>1
  <2> HIDE DEF o
  <2> QED
    BY <1>7, <1>a, <2>5, <2>6, SendAsTyped DEF CacheMiss
<1>8. ASSUME NEW r \in Serves, Answer(r) PROVE Typed'
  <2>1. op' \in OpType /\ op'.uri = op.uri
    BY ZenonT(60), <1>8, <1>a, ServesResponses, Places DEF Answer, OpType
  <2> QED
    BY <1>8, <1>a, <2>1, NoOpTyped DEF Answer, Typed
<1>9. CASE StoreCookies
  <2>1. op' \in OpType /\ op'.uri = op.uri
    BY <1>9, <1>a, Places DEF StoreCookies, OpType
  <2>2. jar' \subseteq Cookies
    BY <1>9, <1>a DEF StoreCookies, Cookies, Origins
  <2> QED
    BY <1>9, <1>a, <2>1, <2>2 DEF StoreCookies, Typed
<1>10. CASE NoteHsts
  <2>1. op' \in OpType /\ op'.uri = op.uri
    BY <1>10, <1>a, Places DEF NoteHsts, OpType
  <2>2. known' \subseteq Hosts
    BY <1>10, <1>a DEF NoteHsts, Origins
  <2> QED
    BY <1>10, <1>a, <2>1, <2>2 DEF NoteHsts, Typed
<1>11. CASE RetrySleeps
  <2>0. op.attempt \in Nat /\ (IF op.attempt < MaxAttempts THEN op.attempt + 1 ELSE op.attempt) \in 0..MaxAttempts
    BY <1>a, ClientConstants DEF OpType
  <2>1. op' \in OpType /\ op'.uri = op.uri
    BY ZenonT(60), <1>11, <1>a, <2>0, Places DEF RetrySleeps, OpType
  <2> QED
    BY <1>11, <1>a, <2>1 DEF RetrySleeps, Typed
<1>12. CASE Resend
  BY <1>12, <1>a, <1>c, AgainTyped, SendAsTyped, EndsTyped DEF Resend
<1>13. CASE Fail
  BY <1>13, <1>a, EndsTyped DEF Fail
<1>14. CASE TooEarlyReplay
  BY <1>14, <1>a, <1>c, AgainTyped, SendAsTyped DEF TooEarlyReplay, EarlyOnReplay
<1>15. CASE AuthLeg
  <2> DEFINE o == [Again(op, "leg") EXCEPT !.legs = @ + 1, !.answered = TRUE]
  <2>1. Again(op, "leg") \in OpType /\ Again(op, "leg").uri = op.uri /\ Again(op, "leg").legs = op.legs
    BY ZenonT(60), <1>a, AgainTyped DEF Again, OpType
  <2>2. op.legs + 1 \in 0..MaxLegs
    BY <1>15, <1>a DEF AuthLeg, OpType, MaxLegs
  <2>4. o \in OpType /\ o.uri = op.uri
    BY <2>1, <2>2 DEF OpType
  <2>3. <<"scheme", op.ask.uri.host>> \in Creds
    BY <1>b DEF Creds, AskType, Origins
  <2> HIDE DEF o
  <2> QED
    BY <1>15, <1>a, <1>c, <2>3, <2>4, SendAsTyped DEF AuthLeg, o
<1>16. CASE AuthTooManyLegs
  BY <1>16, <1>a, EndsTyped DEF AuthTooManyLegs
<1>17. CASE AnswerStands
  <2>0. 0 \in 0..MaxAttempts /\ 0 \in 0..MaxLegs
    BY ClientConstants DEF MaxLegs
  <2>1. op' \in OpType /\ op'.uri = op.uri
    BY ZenonT(60), <1>17, <1>a, <2>0, Places DEF AnswerStands, OpType
  <2> QED
    BY <1>17, <1>a, <2>1 DEF AnswerStands, Typed
<1>18. CASE CacheAfter
  <2> DEFINE fresh == [op.plan EXCEPT !.fresh = TRUE]
  <2>1. op.plan # NoEntry => fresh \in Entries
    BY <1>c DEF Entries
  <2>2. StoringOf(op) \in Entries
    BY <1>18, <1>a, <1>c DEF CacheAfter, StoringOf, Entries, OpType
  <2>3. NoCred \in Creds
    BY NoCredIsCred
  <2>4. CASE op.plan # NoEntry /\ op.resp.class = "not_modified"
    <3>1. Put(fresh)
      BY <1>18, <1>a, <2>4 DEF CacheAfter
    <3>2. op' = [op EXCEPT !.pc = "decide", !.plan = NoEntry, !.leg = NoCred,
                           !.resp = Plain("ok"), !.served = fresh]
      BY <1>18, <2>4 DEF CacheAfter
    <3>4. op' \in OpType /\ op'.uri = op.uri
      BY ZenonT(60), <1>a, <2>1, <2>3, <2>4, <3>2, PlainIsResponse, Places DEF OpType
    <3>3. cache' \subseteq Entries
      BY <1>a, <2>1, <2>4, <3>1, PutTyped
    <3> QED
      BY <1>18, <1>a, <3>3, <3>4 DEF CacheAfter, Typed
  <2>5. CASE ~(op.plan # NoEntry /\ op.resp.class = "not_modified")
    <3>1. cache' \subseteq cache
      BY <1>18, <1>a, <2>5 DEF CacheAfter
    <3>2. PICK st \in Entries \cup {NoEntry} :
            op' = [op EXCEPT !.pc = "decide", !.plan = NoEntry, !.leg = NoCred, !.storing = st]
      BY <1>18, <2>2, <2>5 DEF CacheAfter
    <3>4. op' \in OpType /\ op'.uri = op.uri
      BY ZenonT(60), <1>a, <2>3, <3>2, Places DEF OpType
    <3> QED
      BY <1>18, <1>a, <3>1, <3>4 DEF CacheAfter, Typed
  <2> QED
    BY <2>4, <2>5
<1>19. CASE Deliver
  <2>1. op' \in OpType /\ op'.uri = op.uri
    BY <1>19, <1>a, Places DEF Deliver, OpType
  <2> QED
    BY <1>19, <1>a, <2>1 DEF Deliver, Typed
<1>20. CASE RefuseRedirect
  BY <1>20, <1>a, EndsTyped DEF RefuseRedirect
<1>21. CASE Follow
  <2> DEFINE o == Stripped(op, CrossOrigin(op.uri, op.resp.to) /\ ~op.ask.keep)
  <2>1. o \in OpType /\ o.hops = op.hops
    BY <1>a, <1>b, StrippedTyped DEF CrossOrigin, AskType
  <2>2. op.resp.to \in Origins
    BY <1>21, <1>c DEF Follow, Responses
  <2>3. op' \in OpType /\ op'.uri \in Origins
    <3>1. PICK m \in {"GET", "POST"}, b \in {"empty", "full", "stream"} :
            op' = [o EXCEPT !.pc = "upgrade", !.uri = op.resp.to, !.hops = Counted(@),
                            !.resend = 0, !.method = m, !.body = b,
                            !.resp = Plain("ok"), !.storing = NoEntry, !.served = NoEntry]
      BY ZenonT(60), <1>21, <1>c, <2>1 DEF Follow, OpType
    <3>2. Counted(o.hops) \in 0..Limit
      BY <1>21, <1>a, <2>1, ClientConstants DEF Follow, Counted, OpType
    <3> HIDE DEF o
    <3> QED
      BY ZenonT(60), <2>1, <2>2, <3>1, <3>2, PlainIsResponse, Places DEF OpType
  <2> QED
    BY <1>21, <1>a, <2>3 DEF Follow, Typed
<1>22. CASE ReadToEnd
  <2>1. op.storing \in Entries \cup {NoEntry}
    BY <1>a DEF OpType
  <2>2. cache' \subseteq Entries
    BY <1>22, <1>a, <2>1, PutTyped DEF ReadToEnd
  <2> QED
    BY <1>22, <1>a, <2>2, EndsTyped DEF ReadToEnd
<1>23. CASE Cut
  BY <1>23, <1>a, EndsTyped DEF Cut
<1>24. CASE Elsewhere
  <2>1. jar' \subseteq Cookies /\ known' \subseteq Hosts
    BY <1>24, <1>a, ClientConstants DEF Elsewhere, Cookies
  <2>2. cache' \subseteq Entries
    <3>1. \A e \in Entries : [e EXCEPT !.fresh = FALSE] \in Entries
      BY DEF Entries
    <3> QED
      BY <1>24, <1>a, <3>1 DEF Elsewhere
  <2> QED
    BY <1>24, <1>a, <2>1, <2>2 DEF Elsewhere, Typed
<1>25. CASE UNCHANGED clientVars
  BY <1>25, <1>a DEF clientVars, Typed
<1> QED
  BY <1>1, <1>a, <1>2, <1>3, <1>4, <1>5, <1>6, <1>7, <1>8, <1>9, <1>10, <1>11, <1>12, <1>13, <1>14,
     <1>15, <1>16, <1>17, <1>18, <1>19, <1>20, <1>21, <1>22, <1>23, <1>24, <1>25
     DEF ClientNext, OpStep

-----------------------------------------------------------------------------
(***************************************************************************)
(* What a step may do to an operation.  Every action has one of eight      *)
(* shapes, and the invariants below are shown for the shapes: what an      *)
(* action does beyond its shape does not matter to them.                   *)
(***************************************************************************)
Waiting == {"sending", "storing", "noting", "judge"}

\* The request and its numbers stay as they are.
Kept ==
  /\ op'.ask = op.ask /\ op'.uri = op.uri /\ op'.auth = op.auth
  /\ op'.cred = op.cred /\ op'.cookies = op.cookies /\ op'.body = op.body
  /\ op'.hops = op.hops /\ op'.resend = op.resend
  /\ last' = last /\ streams' = streams

\* Nothing of the operation moves.
Still == op' = op /\ wire' = wire /\ last' = last /\ streams' = streams

\* The operation is over.
Over == op' = NoOp /\ wire' = NoSend /\ last' = <<>> /\ streams' = 0

\* The hop has its answer.
Settles == op'.pc \in {"after", "decide", "body"} /\ op.pc # "sending" /\ Kept /\ wire' = wire

\* The transport has answered, and what came with the answer is noted.
Notes ==
  /\ op.pc \in Waiting /\ op'.pc \in Waiting \ {"sending"} /\ Kept
  /\ op'.attempt = op.attempt /\ op'.legs = op.legs /\ op'.phase = op.phase
  /\ wire' = NoSend \/ (op.pc # "sending" /\ wire' = wire)

\* The retry policy wants another attempt.
Sleeps ==
  /\ op.pc = "judge" /\ op'.pc = "sleep" /\ Kept /\ wire' = wire
  /\ op.phase = "try" /\ op'.phase = "try" /\ op'.legs = op.legs
  /\ op'.attempt = op.attempt + 1
  /\ op'.ask.retry = "own" \/ op'.resp.class \in {"busy", "unsent"}

\* The scheme's own credential, for the host it was asked for.
SchemeCred == <<"scheme", op.ask.uri.host>>

\* A request goes to the transport, with the request's credential or the one
\* of the authentication.
Executes ==
  /\ op'.pc = "sending"
  /\ op'.ask = op.ask /\ op'.uri = op.uri /\ op'.auth = op.auth
  /\ op'.cookies = op.cookies /\ op'.body = op.body /\ op'.hops = op.hops
  /\ op'.cred \in {op.cred} \cup (IF op.auth = "none" THEN {} ELSE {SchemeCred})
  /\ wire'.uri = op.uri /\ wire'.cookies = op.cookies
  /\ wire'.cred \in {op'.cred} \cup (IF op.auth = "none" THEN {} ELSE {SchemeCred})
  /\ last' = <<op.hops, op'.resend>>

First ==
  /\ op.pc = "lookup" /\ Executes
  /\ op'.resend = op.resend
  /\ op'.attempt = 1 /\ op'.legs = 1 /\ op'.phase = "try"
  /\ streams' = streams \/ (op.body = "stream" /\ streams' = streams + 1)

Repeats ==
  /\ Executes
  /\ op'.resend = Resent(op.resend) /\ op'.attempt = op.attempt
  /\ streams' = streams
  /\ \/ op.pc = "sleep" /\ op'.phase = "try" /\ op'.legs = op.legs
     \/ op.pc = "judge" /\ op.phase = "try" /\ op'.phase = "early" /\ op'.legs = op.legs
     \/ op.pc = "judge" /\ op'.phase = "leg" /\ op'.legs = op.legs + 1

\* An execute with a body that is no stream, of a request like op's.
LEMMA RepeatsByShape ==
  ASSUME op \in OpType, NEW o \in OpType, NEW c, NEW e, streams \in 0..2,
         SendAs(o, c, op.replay, e),
         c = op.cred \/ (op.auth # "none" /\ c = SchemeCred),
         o.ask = op.ask /\ o.uri = op.uri /\ o.auth = op.auth /\ o.cred = op.cred,
         o.cookies = op.cookies /\ o.body = op.body /\ o.hops = op.hops,
         o.resend = Resent(op.resend) /\ o.attempt = op.attempt,
         \/ op.pc = "sleep" /\ o.phase = "try" /\ o.legs = op.legs
         \/ op.pc = "judge" /\ op.phase = "try" /\ o.phase = "early" /\ o.legs = op.legs
         \/ op.pc = "judge" /\ o.phase = "leg" /\ o.legs = op.legs + 1
  PROVE  Repeats
<1>1. /\ op'.pc = "sending" /\ op'.ask = o.ask /\ op'.uri = o.uri /\ op'.auth = o.auth
      /\ op'.cookies = o.cookies /\ op'.body = o.body /\ op'.hops = o.hops /\ op'.cred = o.cred
      /\ op'.resend = o.resend /\ op'.attempt = o.attempt /\ op'.phase = o.phase /\ op'.legs = o.legs
  BY DEF SendAs, OpType
<1>2. op.replay # "stream"
  BY DEF OpType
<1>3. wire'.uri = o.uri /\ wire'.cred = c /\ wire'.cookies = o.cookies
      /\ last' = <<o.hops, o.resend>> /\ streams' = streams
  BY <1>2 DEF SendAs
<1> QED
  BY <1>1, <1>3 DEF Repeats, Executes

\* The request sent again is the operation's own, with its next number.
LEMMA AgainKeeps ==
  ASSUME NEW o \in OpType, NEW phase \in {"try", "early", "leg"}
  PROVE  LET a == Again(o, phase) IN
         /\ a.ask = o.ask /\ a.uri = o.uri /\ a.auth = o.auth /\ a.cred = o.cred
         /\ a.cookies = o.cookies /\ a.body = o.body /\ a.hops = o.hops
         /\ a.resend = Resent(o.resend) /\ a.attempt = o.attempt
         /\ a.phase = phase /\ a.legs = o.legs
BY DEF Again, OpType

Begins ==
  \E ask \in Asks :
    /\ op'.ask = ask /\ op'.uri = ask.uri /\ op'.auth = ask.auth /\ op'.pc = "upgrade"
    /\ op'.cred = IF ask.authz THEN <<"caller", ask.uri.host>> ELSE NoCred
    /\ op'.cookies = IF ask.cookie THEN {<<ask.uri.host, "caller">>} ELSE {}
    /\ op'.resend = 0
    /\ wire' = NoSend /\ last' = <<>> /\ streams' = 0

\* Before the request: the scheme may become https, the header and the netrc
\* credential are settled.
Prepares ==
  \/ /\ op.pc = "upgrade" /\ op'.pc = "cookies"
     /\ [op EXCEPT !.uri = op'.uri, !.pc = "cookies"] = op'
     /\ op'.uri.host = op.uri.host /\ op'.uri.scheme \in {op.uri.scheme, "https"}
     /\ wire' = wire /\ last' = last /\ streams' = streams
  \/ /\ op.pc = "cookies" /\ op'.pc = "lookup"
     /\ op'.ask = op.ask /\ op'.uri = op.uri /\ op'.auth = op.auth /\ op'.body = op.body
     /\ op'.hops = op.hops /\ op'.resend = op.resend
     /\ op'.cookies = CookieHeader(op) /\ op'.cred = Netrc(op)
     /\ wire' = wire /\ last' = last /\ streams' = streams

\* A redirect is followed: leaving the origin takes everything along that is
\* not to be kept.
Hops ==
  /\ op.pc = "decide" /\ op'.pc = "upgrade"
  /\ op'.ask = op.ask /\ op'.hops = op.hops + 1 /\ op'.resend = 0 /\ op'.body # "stream"
  /\ \/ op'.uri = op.uri /\ op'.auth = op.auth /\ op'.cred = op.cred /\ op'.cookies = op.cookies
     \/ op.ask.keep /\ op'.auth = op.auth /\ op'.cred = op.cred /\ op'.cookies = op.cookies
     \/ op'.auth = "none" /\ op'.cred = NoCred /\ op'.cookies = {}
  /\ wire' = wire /\ last' = last /\ streams' = streams

\* Every action has one of the shapes.
LEMMA Shapes ==
  Typed /\ [ClientNext]_clientVars =>
    Still \/ Over \/ Settles \/ Notes \/ Sleeps \/ First \/ Repeats \/ Begins \/ Prepares \/ Hops
<1> SUFFICES ASSUME Typed, [ClientNext]_clientVars
             PROVE  Still \/ Over \/ Settles \/ Notes \/ Sleeps \/ First \/ Repeats
                    \/ Begins \/ Prepares \/ Hops
  OBVIOUS
<1>a. op \in OpType /\ streams \in 0..2
  BY DEF Typed
<1>1. ASSUME NEW ask \in Asks, Start(ask) PROVE Begins
  <2>1. NoOp \in OpType /\ NoOp.resend = 0
    BY NoOpTyped DEF NoOp
  <2> QED
    BY <1>1, <2>1 DEF Start, Begins, OpType
<1>2. ASSUME NEW ask \in Asks, StartUnsupported(ask) PROVE Over
  BY <1>2 DEF StartUnsupported, Ends, Over
<1>3. CASE Upgrade
  <2>1. op.uri \in Origins
    BY <1>3 DEF Typed, Upgrade
  <2> QED
    BY <1>3, <1>a, <2>1 DEF Upgrade, Prepares, OpType, Origins
<1>4. CASE AttachCookies
  BY <1>4, <1>a DEF AttachCookies, Prepares, OpType
<1>5. CASE CacheHit
  <2>1. PICK e : op' = [op EXCEPT !.pc = "decide", !.resp = Plain("ok"), !.served = e]
    BY <1>5 DEF CacheHit
  <2>2. Settles
    BY <1>5, <1>a, <2>1 DEF CacheHit, Settles, Kept, OpType
  <2> QED
    BY <2>2
<1>6. CASE CacheUnsatisfiable
  <2>1. Settles
    BY <1>6, <1>a DEF CacheUnsatisfiable, Settles, Kept, OpType
  <2> QED
    BY <2>1
<1>7. CASE CacheMiss
  <2>1. PICK plan :
          LET o == [op EXCEPT !.plan = plan, !.cred = FirstLeg(op), !.answered = FALSE,
                              !.phase = "try", !.attempt = 1, !.legs = 1]
          IN  SendAs(o, o.cred, o.body, o.early)
    BY <1>7 DEF CacheMiss
  <2> DEFINE o == [op EXCEPT !.plan = plan, !.cred = FirstLeg(op), !.answered = FALSE,
                             !.phase = "try", !.attempt = 1, !.legs = 1]
  <2>2. SendAs(o, o.cred, o.body, o.early)
    BY <2>1
  <2>3. /\ o.ask = op.ask /\ o.uri = op.uri /\ o.auth = op.auth /\ o.cred = FirstLeg(op)
        /\ o.cookies = op.cookies /\ o.body = op.body /\ o.hops = op.hops
        /\ o.resend = op.resend /\ o.attempt = 1 /\ o.phase = "try" /\ o.legs = 1
    BY <1>a DEF OpType
  <2>4. op' = [o EXCEPT !.pc = "sending", !.leg = o.cred, !.resp = Plain("ok")]
    BY <2>2 DEF SendAs
  <2>5. /\ op'.pc = "sending" /\ op'.ask = o.ask /\ op'.uri = o.uri /\ op'.auth = o.auth
        /\ op'.cookies = o.cookies /\ op'.body = o.body /\ op'.hops = o.hops /\ op'.cred = o.cred
        /\ op'.resend = o.resend /\ op'.attempt = o.attempt /\ op'.phase = o.phase /\ op'.legs = o.legs
    BY <1>a, <2>4 DEF OpType
  <2> HIDE DEF o
  <2>6. /\ wire'.uri = o.uri /\ wire'.cred = o.cred /\ wire'.cookies = o.cookies
        /\ last' = <<o.hops, o.resend>>
        /\ streams' = streams \/ (o.body = "stream" /\ streams' = streams + 1)
    BY <2>2 DEF SendAs
  <2>7. FirstLeg(op) \in {op.cred} \cup (IF op.auth = "none" THEN {} ELSE {SchemeCred})
    BY DEF FirstLeg, SchemeCred
  <2> QED
    BY <1>7, <2>3, <2>5, <2>6, <2>7 DEF CacheMiss, First, Executes
<1>8. ASSUME NEW r \in Serves, Answer(r) PROVE Notes
  BY <1>8, <1>a DEF Answer, Notes, Kept, OpType, Waiting
<1>9. CASE StoreCookies
  <2>1. Notes
    BY <1>9, <1>a DEF StoreCookies, Notes, Kept, OpType, Waiting
  <2> QED
    BY <2>1
<1>10. CASE NoteHsts
  <2>1. Notes
    BY <1>10, <1>a DEF NoteHsts, Notes, Kept, OpType, Waiting
  <2> QED
    BY <2>1
<1>11. CASE RetrySleeps
  <2>1. Sleeps
    BY <1>11, <1>a DEF RetrySleeps, Retries, OwnRetries, Sleeps, Kept, OpType
  <2> QED
    BY <2>1
<1>12. CASE Resend
  <2>1. CASE Ends
    BY <2>1 DEF Ends, Over
  <2>2. CASE SendAs(Again(op, "try"), op.cred, op.replay, op.early)
    <3>1. Repeats
      BY <1>12, <1>a, <2>2, AgainTyped, AgainKeeps, RepeatsByShape DEF Resend
    <3> QED
      BY <3>1
  <2> QED
    BY <1>12, <2>1, <2>2 DEF Resend
<1>13. CASE Fail
  BY <1>13 DEF Fail, Ends, Over
<1>14. CASE TooEarlyReplay
  <2>1. Repeats
    BY <1>14, <1>a, AgainTyped, AgainKeeps, RepeatsByShape DEF TooEarlyReplay, IsTooEarly
  <2> QED
    BY <2>1
<1>15. CASE AuthLeg
  <2> DEFINE o == [Again(op, "leg") EXCEPT !.legs = @ + 1, !.answered = TRUE]
  <2>1. Again(op, "leg") \in OpType /\ op.legs + 1 \in 0..MaxLegs
    BY <1>15, <1>a, AgainTyped DEF AuthLeg, OpType, MaxLegs
  <2>2. Again(op, "leg").legs = op.legs
    BY <1>a, AgainKeeps
  <2>3. o \in OpType
    BY <2>1, <2>2 DEF OpType
  <2>4. /\ o.ask = op.ask /\ o.uri = op.uri /\ o.auth = op.auth /\ o.cred = op.cred
        /\ o.cookies = op.cookies /\ o.body = op.body /\ o.hops = op.hops
        /\ o.resend = Resent(op.resend) /\ o.attempt = op.attempt
        /\ o.phase = "leg" /\ o.legs = op.legs + 1
    BY <1>a, <2>1, AgainKeeps DEF OpType
  <2>5. SendAs(o, SchemeCred, op.replay, op.early) /\ op.pc = "judge" /\ op.auth # "none"
    BY <1>15 DEF AuthLeg, WantsLeg, SchemeCred
  <2> HIDE DEF o
  <2>6. Repeats
    BY <1>a, <2>3, <2>4, <2>5, RepeatsByShape
  <2> QED
    BY <2>6
<1>16. CASE AuthTooManyLegs
  BY <1>16 DEF AuthTooManyLegs, Ends, Over
<1>17. CASE AnswerStands
  <2>1. Settles
    BY <1>17, <1>a DEF AnswerStands, Settles, Kept, OpType
  <2> QED
    BY <2>1
<1>18. CASE CacheAfter
  <2>1. \/ \E x : op' = [op EXCEPT !.pc = "decide", !.plan = NoEntry, !.leg = NoCred,
                                   !.resp = Plain("ok"), !.served = x]
        \/ \E x : op' = [op EXCEPT !.pc = "decide", !.plan = NoEntry, !.leg = NoCred, !.storing = x]
    BY <1>18 DEF CacheAfter
  <2>2. Settles
    BY ZenonT(60), <1>18, <1>a, <2>1 DEF CacheAfter, Settles, Kept, OpType
  <2> QED
    BY <2>2
<1>19. CASE Deliver
  <2>1. Settles
    BY <1>19, <1>a DEF Deliver, Settles, Kept, OpType
  <2> QED
    BY <2>1
<1>20. CASE RefuseRedirect
  BY <1>20 DEF RefuseRedirect, Ends, Over
<1>21. CASE Follow
  <2> DEFINE strip == CrossOrigin(op.uri, op.resp.to) /\ ~op.ask.keep
  <2> DEFINE o == Stripped(op, strip)
  <2>1. /\ o.ask = op.ask /\ o.hops = op.hops
        /\ \/ ~strip /\ o.auth = op.auth /\ o.cred = op.cred /\ o.cookies = op.cookies
           \/ o.auth = "none" /\ o.cred = NoCred /\ o.cookies = {}
    BY <1>a DEF Stripped, OpType
  <2>2. o \in OpType
    BY <1>a, StrippedTyped DEF CrossOrigin
  <2> DEFINE m == IF Downgrades(op) THEN "GET" ELSE o.method
  <2> DEFINE b == IF Downgrades(op) THEN "empty" ELSE op.replay
  <2>3. /\ op' = [o EXCEPT !.pc = "upgrade", !.uri = op.resp.to, !.hops = Counted(@),
                           !.resend = 0, !.method = m, !.body = b,
                           !.resp = Plain("ok"), !.storing = NoEntry, !.served = NoEntry]
        /\ b # "stream"
    <3>1. op.replay # "stream"
      BY <1>a DEF OpType
    <3> QED
      BY <1>21, <3>1 DEF Follow
  <2>4. ~strip => op.resp.to = op.uri \/ op.ask.keep
    BY DEF CrossOrigin
  <2> HIDE DEF strip, o, m, b
  <2>5. /\ op'.pc = "upgrade" /\ op'.ask = o.ask /\ op'.hops = o.hops + 1 /\ op'.resend = 0
        /\ op'.uri = op.resp.to /\ op'.auth = o.auth /\ op'.cred = o.cred
        /\ op'.cookies = o.cookies /\ op'.body # "stream"
    BY <2>2, <2>3 DEF OpType, Counted
  <2>6. Hops
    BY <1>21, <2>1, <2>4, <2>5 DEF Follow, Hops
  <2> QED
    BY <2>6
<1>22. CASE ReadToEnd
  BY <1>22 DEF ReadToEnd, Ends, Over
<1>23. CASE Cut
  BY <1>23 DEF Cut, Ends, Over
<1>24. CASE Elsewhere
  BY <1>24 DEF Elsewhere, Still
<1>25. CASE UNCHANGED clientVars
  BY <1>25 DEF clientVars, Still
<1> QED
  BY <1>1, <1>2, <1>3, <1>4, <1>5, <1>6, <1>7, <1>8, <1>9, <1>10, <1>11, <1>12, <1>13, <1>14,
     <1>15, <1>16, <1>17, <1>18, <1>19, <1>20, <1>21, <1>22, <1>23, <1>24, <1>25
     DEF ClientNext, OpStep

-----------------------------------------------------------------------------
\* What an ended operation leaves holds nothing.
LEMMA NoOpFields ==
  /\ NoOp.cred = NoCred /\ NoOp.auth = "none" /\ NoOp.cookies = {} /\ NoOp.resend = 0
  /\ NoOp.pc = "idle" /\ NoOp.hops = 0
  /\ NoSend.cred = NoCred /\ NoSend.cookies = {} /\ NoSend.early = FALSE
BY DEF NoOp, NoSend

\* What a step finds of the operation's types, before it and after it.
LEMMA TypedFacts ==
  ASSUME Typed
  PROVE  /\ op.ask \in AskType /\ op.ask \in Asks /\ op.cred \in Creds /\ op.cookies \subseteq Cookies
         /\ op.hops \in Nat /\ op.resend \in Nat /\ op.attempt \in 0..MaxAttempts
         /\ op.legs \in 0..MaxLegs /\ op.phase \in {"try", "early", "leg"}
         /\ op.uri \in Origins \cup {NoTarget} /\ streams \in 0..2
         /\ last # <<>> => last \in Nat \X Nat
<1>1. op \in OpType
  BY DEF Typed
<1> QED
  BY <1>1, ClientConstants DEF Typed, OpType

\* The credential and the authentication of a request stay at home.
LEMMA CredInductive ==
  Typed /\ CredSettled /\ [ClientNext]_clientVars => CredSettled'
<1> SUFFICES ASSUME Typed, CredSettled, [ClientNext]_clientVars PROVE CredSettled'
  OBVIOUS
<1> USE DEF CredSettled
<1>1. CASE Still
  BY <1>1 DEF Still
<1>2. CASE Over
  BY <1>2, NoOpFields DEF Over
<1>3. CASE Settles
  BY <1>3 DEF Settles, Kept
<1>4. CASE Notes
  BY <1>4 DEF Notes, Kept
<1>5. CASE Sleeps
  BY <1>5 DEF Sleeps, Kept
<1>6. CASE First
  BY <1>6 DEF First, Executes, SchemeCred
<1>7. CASE Repeats
  BY <1>7 DEF Repeats, Executes, SchemeCred
<1>8. CASE Begins
  BY <1>8 DEF Begins
<1>9. CASE Prepares
  <2>1. op \in OpType /\ op.cred \in Creds
    BY TypedFacts DEF Typed
  <2>2. CASE op.pc = "upgrade"
    <3>1. op'.ask = op.ask /\ op'.cred = op.cred /\ op'.auth = op.auth
      BY <1>9, <2>1, <2>2 DEF Prepares, OpType
    <3> QED
      BY <1>9, <2>2, <3>1 DEF Prepares
  <2>3. CASE op.pc = "cookies"
    BY <1>9, <2>3 DEF Prepares, Netrc
  <2> QED
    BY <1>9, <2>2, <2>3 DEF Prepares
<1>10. CASE Hops
  BY <1>10 DEF Hops
<1> QED
  BY <1>1, <1>2, <1>3, <1>4, <1>5, <1>6, <1>7, <1>8, <1>9, <1>10, Shapes

\* The cookie header of a request stays at home.
LEMMA CookiesInductive ==
  Typed /\ CookiesSettled /\ [ClientNext]_clientVars => CookiesSettled'
<1> SUFFICES ASSUME Typed, CookiesSettled, [ClientNext]_clientVars PROVE CookiesSettled'
  OBVIOUS
<1> USE DEF CookiesSettled, Attached
<1>1. CASE Still
  BY <1>1 DEF Still
<1>2. CASE Over
  BY <1>2, NoOpFields DEF Over
<1>3. CASE Settles
  BY <1>3 DEF Settles, Kept
<1>4. CASE Notes
  BY <1>4 DEF Notes, Kept, Waiting
<1>5. CASE Sleeps
  BY <1>5 DEF Sleeps, Kept, Waiting
<1>6. CASE First
  BY <1>6 DEF First, Executes
<1>7. CASE Repeats
  BY <1>7 DEF Repeats, Executes
<1>8. CASE Begins
  BY <1>8 DEF Begins
<1>9. CASE Prepares
  <2>1. op \in OpType
    BY DEF Typed
  <2>2. CASE op.pc = "upgrade"
    <3>1. op'.ask = op.ask /\ op'.cookies = op.cookies
      BY <1>9, <2>1, <2>2 DEF Prepares, OpType
    <3> QED
      BY <1>9, <2>2, <3>1 DEF Prepares
  <2>3. CASE op.pc = "cookies"
    BY <1>9, <2>3 DEF Prepares, CookieHeader
  <2> QED
    BY <1>9, <2>2, <2>3 DEF Prepares
<1>10. CASE Hops
  BY <1>10 DEF Hops
<1> QED
  BY <1>1, <1>2, <1>3, <1>4, <1>5, <1>6, <1>7, <1>8, <1>9, <1>10, Shapes

\* A hop sends no more often than its attempts, one replay and its legs.
LEMMA BudgetInductive ==
  Typed /\ Typed' /\ Budget /\ [ClientNext]_clientVars => Budget'
<1> SUFFICES ASSUME Typed, Typed', Budget, [ClientNext]_clientVars PROVE Budget'
  OBVIOUS
<1>a. /\ op.resend \in Nat /\ op.attempt \in 0..MaxAttempts /\ op.legs \in 0..4
      /\ op.phase \in {"try", "early", "leg"}
      /\ op'.resend \in Nat /\ op'.attempt \in 0..MaxAttempts /\ op'.legs \in 0..4
      /\ op'.phase \in {"try", "early", "leg"} /\ MaxAttempts \in Nat \ {0}
  BY TypedFacts, ClientConstants DEF Typed, OpType, MaxLegs
<1> USE <1>a DEF Budget, MaxLegs
<1>1. CASE Still
  BY <1>1 DEF Still
<1>2. CASE Over
  BY <1>2, NoOpFields DEF Over
<1>3. CASE Settles
  BY <1>3 DEF Settles, Kept
<1>4. CASE Notes
  BY <1>4 DEF Notes, Kept, Waiting
<1>5. CASE Sleeps
  BY <1>5 DEF Sleeps, Kept
<1>6. CASE First
  BY <1>6 DEF First, Executes
<1>7. CASE Repeats
  BY <1>7 DEF Repeats, Executes, Resent
<1>8. CASE Begins
  BY <1>8 DEF Begins
<1>9. CASE Prepares
  <2>1. op'.resend = op.resend
    BY ZenonT(60), <1>9 DEF Prepares, Typed, OpType
  <2> QED
    BY <1>9, <2>1 DEF Prepares
<1>10. CASE Hops
  BY <1>10 DEF Hops
<1> QED
  BY <1>1, <1>2, <1>3, <1>4, <1>5, <1>6, <1>7, <1>8, <1>9, <1>10, Shapes

\* A stream goes out with the first send, or not at all.
LEMMA StreamInductive ==
  Typed /\ StreamUnsent /\ [ClientNext]_clientVars => StreamUnsent'
<1> SUFFICES ASSUME Typed, StreamUnsent, [ClientNext]_clientVars PROVE StreamUnsent'
  OBVIOUS
<1>a. streams \in 0..2
  BY DEF Typed
<1> USE <1>a DEF StreamUnsent
<1>1. CASE Still
  BY <1>1 DEF Still
<1>2. CASE Over
  BY <1>2, NoOpFields DEF Over
<1>3. CASE Settles
  BY <1>3 DEF Settles, Kept
<1>4. CASE Notes
  BY <1>4 DEF Notes, Kept, Waiting
<1>5. CASE Sleeps
  BY <1>5 DEF Sleeps, Kept
<1>6. CASE First
  BY <1>6 DEF First, Executes
<1>7. CASE Repeats
  BY <1>7 DEF Repeats, Executes
<1>8. CASE Begins
  BY <1>8 DEF Begins
<1>9. CASE Prepares
  <2>1. op'.body = op.body
    BY <1>9 DEF Prepares, Typed, OpType
  <2> QED
    BY <1>9, <2>1 DEF Prepares
<1>10. CASE Hops
  BY <1>10 DEF Hops
<1> QED
  BY <1>1, <1>2, <1>3, <1>4, <1>5, <1>6, <1>7, <1>8, <1>9, <1>10, Shapes

\* The number of the last send lies behind the operation.
LEMMA LastInductive ==
  Typed /\ Typed' /\ Budget /\ LastIsBehind /\ [ClientNext]_clientVars => LastIsBehind'
<1> SUFFICES ASSUME Typed, Typed', Budget, LastIsBehind, [ClientNext]_clientVars
             PROVE  LastIsBehind'
  OBVIOUS
<1>a. /\ op.resend \in Nat /\ op.hops \in Nat /\ op'.resend \in Nat /\ op'.hops \in Nat
      /\ last # <<>> => last[1] \in Nat /\ last[2] \in Nat
      /\ MaxAttempts \in Nat /\ Limit \in Nat
  BY SMTT(30), TypedFacts, ClientConstants DEF Typed, OpType
<1> USE <1>a DEF LastIsBehind
<1>1. CASE Still
  BY <1>1 DEF Still
<1>2. CASE Over
  BY <1>2, NoOpFields DEF Over
<1>3. CASE Settles
  BY <1>3 DEF Settles, Kept
<1>4. CASE Notes
  BY <1>4 DEF Notes, Kept, Waiting
<1>5. CASE Sleeps
  BY <1>5 DEF Sleeps, Kept
<1>6. CASE First
  BY <1>6 DEF First, Executes
<1>7. CASE Repeats
  BY <1>7 DEF Repeats, Executes
<1>8. CASE Begins
  BY <1>8 DEF Begins
<1>9. CASE Prepares
  <2>1. op'.resend = op.resend /\ op'.hops = op.hops
    BY <1>9 DEF Prepares, Typed, OpType
  <2> QED
    BY <1>9, <2>1 DEF Prepares
<1>10. CASE Hops
  BY <1>10 DEF Hops
<1> QED
  BY <1>1, <1>2, <1>3, <1>4, <1>5, <1>6, <1>7, <1>8, <1>9, <1>10, Shapes

\* What the transport is given may go where it goes.
LEMMA WireInductive ==
  /\ Typed /\ CredSettled /\ CookiesSettled /\ WireIsIdle
  /\ CredentialsStayHome /\ CookiesStayHome /\ [ClientNext]_clientVars
  => WireIsIdle' /\ CredentialsStayHome' /\ CookiesStayHome'
<1> SUFFICES ASSUME Typed, CredSettled, CookiesSettled, WireIsIdle,
                    CredentialsStayHome, CookiesStayHome, [ClientNext]_clientVars
             PROVE  WireIsIdle' /\ CredentialsStayHome' /\ CookiesStayHome'
  OBVIOUS
<1> DEFINE Home == WireIsIdle' /\ CredentialsStayHome' /\ CookiesStayHome'
\* Nobody has the request.
<1>a. ASSUME wire' = NoSend PROVE Home
  BY <1>a, NoOpFields DEF WireIsIdle, CredentialsStayHome, CookiesStayHome
\* The request goes out as it is, or with the scheme's credential.
<1>b. ASSUME Executes, op.pc \in Attached PROVE Home
  <2>1. WireIsIdle'
    BY <1>b DEF Executes, WireIsIdle
  <2>2. CredentialsStayHome'
    BY <1>b DEF Executes, SchemeCred, CredSettled, CredentialsStayHome
  <2>3. CookiesStayHome'
    BY <1>b DEF Executes, CookiesSettled, CookiesStayHome
  <2> QED
    BY <2>1, <2>2, <2>3
<1>1. CASE Still
  BY <1>1 DEF Still, WireIsIdle, CredentialsStayHome, CookiesStayHome
<1>2. CASE Over
  BY <1>2, <1>a DEF Over
<1>3. CASE Settles
  BY <1>3, <1>a DEF Settles, WireIsIdle
<1>4. CASE Notes
  BY <1>4, <1>a DEF Notes, WireIsIdle
<1>5. CASE Sleeps
  BY <1>5, <1>a DEF Sleeps, WireIsIdle
<1>6. CASE First
  BY <1>6, <1>b DEF First, Attached
<1>7. CASE Repeats
  BY <1>7, <1>b DEF Repeats, Attached
<1>8. CASE Begins
  BY <1>8, <1>a DEF Begins
<1>9. CASE Prepares
  BY <1>9, <1>a DEF Prepares, WireIsIdle
<1>10. CASE Hops
  BY <1>10, <1>a DEF Hops, WireIsIdle
<1> QED
  BY <1>1, <1>2, <1>3, <1>4, <1>5, <1>6, <1>7, <1>8, <1>9, <1>10, Shapes

\* Nothing but the retry loop puts an operation to sleep.
LEMMA SleepInductive ==
  Typed /\ SleepIsTold /\ [ClientNext]_clientVars => SleepIsTold'
<1> SUFFICES ASSUME Typed, SleepIsTold, [ClientNext]_clientVars PROVE SleepIsTold'
  OBVIOUS
<1>1. CASE Still
  BY <1>1 DEF Still, SleepIsTold
<1>2. CASE Over
  BY <1>2, NoOpFields DEF Over, SleepIsTold
<1>3. CASE Settles \/ Notes \/ First \/ Repeats \/ Begins \/ Prepares \/ Hops
  BY <1>3 DEF Settles, Notes, First, Repeats, Executes, Begins, Prepares, Hops, Waiting, SleepIsTold
<1>4. CASE Sleeps
  BY <1>4 DEF Sleeps, SleepIsTold
<1> QED
  BY <1>1, <1>2, <1>3, <1>4, Shapes

-----------------------------------------------------------------------------
\* The inductive invariant, whole: every operation of run keeps it.
LEMMA OperationInductive == OperationInv /\ [ClientNext]_clientVars => OperationInv'
<1> SUFFICES ASSUME OperationInv, [ClientNext]_clientVars PROVE OperationInv'
  OBVIOUS
<1> USE DEF OperationInv
<1>1. Typed'
  BY TypedInductive
<1>2. CredSettled' /\ CookiesSettled' /\ StreamUnsent'
  BY CredInductive, CookiesInductive, StreamInductive
<1>3. Budget' /\ LastIsBehind'
  BY <1>1, BudgetInductive, LastInductive
<1>4. WireIsIdle' /\ CredentialsStayHome' /\ CookiesStayHome' /\ SleepIsTold'
  BY WireInductive, SleepInductive
<1> QED
  BY <1>1, <1>2, <1>3, <1>4

\* A client starts with no operation, and nothing held for one.
LEMMA OperationInitially == ClientInit => OperationInv
<1> SUFFICES ASSUME ClientInit PROVE OperationInv
  OBVIOUS
<1>1. Typed
  BY NoOpTyped DEF ClientInit, Typed
<1>2. /\ CredSettled /\ CookiesSettled /\ WireIsIdle /\ CredentialsStayHome /\ CookiesStayHome
      /\ SleepIsTold
  BY NoOpFields DEF ClientInit, CredSettled, CookiesSettled, WireIsIdle, CredentialsStayHome,
       CookiesStayHome, SleepIsTold
<1>3. Budget
  BY NoOpFields, ClientConstants DEF ClientInit, Budget, MaxLegs
<1>4. StreamUnsent /\ LastIsBehind
  BY DEF ClientInit, StreamUnsent, LastIsBehind
<1> QED
  BY <1>1, <1>2, <1>3, <1>4 DEF OperationInv

LEMMA OperationAlways == ClientSpec => []OperationInv
BY OperationInitially, OperationInductive, PTL DEF ClientSpec

\* Whatever the redirects, HSTS upgrades, retries and legs, a credential
\* reaches only the host it is for, and none that was asked for over TLS goes
\* out in clear text (next_hop, strip_sensitive, `auth = None').
THEOREM CredentialsAtHome == ClientSpec => []CredentialsStayHome
<1>1. OperationInv => CredentialsStayHome
  BY DEF OperationInv
<1> QED
  BY <1>1, OperationAlways, PTL

\* A cookie of the jar is sent to its own host, a Secure one over https only,
\* and the caller's own header leaves its host only where the policy keeps
\* credentials (attach_cookies in every hop).
THEOREM CookiesAtHome == ClientSpec => []CookiesStayHome
<1>1. OperationInv => CookiesStayHome
  BY DEF OperationInv
<1> QED
  BY <1>1, OperationAlways, PTL

\* The types of run's state, the bound on what one hop sends, and that a
\* streamed body is handed over at most once.
THEOREM OperationSound == ClientSpec => []OperationIsSound
<1>1. OperationInv => OperationIsSound
  <2> SUFFICES ASSUME OperationInv PROVE OperationIsSound
    OBVIOUS
  <2>1. op \in OpType
    BY DEF OperationInv, Typed
  <2>2. ClientTypeOK
    BY <2>1 DEF OperationInv, Typed, Budget, OpType, ClientTypeOK
  <2> QED
    BY <2>2 DEF OperationInv, StreamUnsent, OperationIsSound, StreamedBodyOnce
<1> QED
  BY <1>1, OperationAlways, PTL

\* The replay of a 425 goes out without AllowEarlyData; the mark comes back
\* only where a policy of the caller's retries the 425 itself, or with a later
\* leg of a scheme that goes on whatever it is told.
THEOREM RepeatedOutsideEarlyData == ClientSpec => TooEarlyIsNotRepeatedEarly
<1> DEFINE Late == (op.pc \in {"judge", "sleep"} /\ op.resp.class = "too_early" /\ wire'.early) =>
                     \/ op.pc = "judge" /\ op.auth = "legs" /\ op.phase # "try"
                     \/ op.pc = "sleep" /\ op.ask.retry = "own"
<1>1. OperationInv /\ [ClientNext]_clientVars => [Late]_clientVars
  <2> SUFFICES ASSUME OperationInv, ClientNext, op.resp.class = "too_early", wire'.early
               PROVE  /\ op.pc = "judge" => op.auth = "legs" /\ op.phase # "try"
                      /\ op.pc = "sleep" => op.ask.retry = "own"
    OBVIOUS
  <2>1. SUFFICES ASSUME op.pc = "judge" PROVE op.auth = "legs" /\ op.phase # "try"
    BY DEF OperationInv, SleepIsTold
  <2>2. wire' # NoSend /\ wire = NoSend
    BY <2>1, NoOpFields DEF OperationInv, WireIsIdle
  <2>3. CASE TooEarlyReplay
    BY <2>3 DEF TooEarlyReplay, SendAs, EarlyOnReplay
  <2>4. CASE AuthLeg
    BY <2>4 DEF AuthLeg, WantsLeg, IsTooEarly
  <2> QED
    BY <2>1, <2>2, <2>3, <2>4
       DEF ClientNext, OpStep, Start, StartUnsupported, Ends, Upgrade, AttachCookies, CacheHit,
           CacheUnsatisfiable, CacheMiss, Answer, StoreCookies, NoteHsts, RetrySleeps, Resend,
           Fail, AuthTooManyLegs, AnswerStands, CacheAfter, Deliver, RefuseRedirect, Follow,
           ReadToEnd, Cut, Elsewhere
<1> QED
  BY <1>1, OperationAlways, PTL DEF ClientSpec, TooEarlyIsNotRepeatedEarly

\* The sends of one operation are numbered upwards, (hop, resend) by
\* (hop, resend), whichever of retry, replay, leg and redirect comes next
\* (Attempt::resent and Attempt::hop).
THEOREM AttemptsGoUp == ClientSpec => AttemptsAdvance
<1> DEFINE Up == (last # <<>> /\ last' # <<>> /\ op'.pc = "sending" /\ op.pc # "sending") =>
                   \/ last'[1] > last[1]
                   \/ last'[1] = last[1] /\ last'[2] > last[2]
<1>1. OperationInv /\ [ClientNext]_clientVars => [Up]_clientVars
  <2> SUFFICES ASSUME OperationInv, [ClientNext]_clientVars,
                      last # <<>>, last' # <<>>, op'.pc = "sending", op.pc # "sending"
               PROVE  \/ last'[1] > last[1]
                      \/ last'[1] = last[1] /\ last'[2] > last[2]
    OBVIOUS
  <2>1. /\ op.resend \in Nat /\ op.hops \in Nat /\ last[1] \in Nat /\ last[2] \in Nat
        /\ MaxAttempts \in Nat
    BY TypedFacts, ClientConstants DEF OperationInv
  <2>2. First \/ Repeats
    BY Shapes, NoOpFields
       DEF OperationInv, Still, Over, Settles, Notes, Sleeps, Begins, Prepares, Hops
  <2>3. CASE First
    BY <2>1, <2>3 DEF First, Executes, OperationInv, LastIsBehind
  <2>4. CASE Repeats
    BY <2>1, <2>4 DEF Repeats, Executes, Resent, OperationInv, Budget, LastIsBehind
  <2> QED
    BY <2>2, <2>3, <2>4
<1> QED
  BY <1>1, OperationAlways, PTL DEF ClientSpec, AttemptsAdvance
=============================================================================
