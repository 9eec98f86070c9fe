--------------------------- MODULE ProxyHandshake ---------------------------
(***************************************************************************)
(* One connection attempt through a proxy rule: reaching the proxy, the    *)
(* TLS a proxy may want first, and the handshake that opens the tunnel     *)
(* (SOCKS4a, SOCKS5, HTTP CONNECT) or the UDP association, driven over a   *)
(* stream that delivers the proxy's bytes in any fragmentation.            *)
(*                                                                         *)
(* A proxy's whole answer is a `script': the fields it puts on the wire.   *)
(* `Bytes(s)' is the byte string that carries it (99 stands for a byte     *)
(* past the handshake, 0 for one nobody reads); a CONNECT head is counted  *)
(* in lines.  The protocols' `advance' reads those bytes, and the          *)
(* properties compare what it concludes with the script.                   *)
(***************************************************************************)
EXTENDS Naturals, Sequences, FiniteSets

CONSTANTS
    MaxHead,      \* lines of an unfinished CONNECT head the client will hold
    MaxTail       \* bytes the proxy may send past its reply

ASSUME HandshakeBounds == MaxHead \in Nat \ {0} /\ MaxTail \in Nat

VARIABLES
    hs,           \* the handshake object and the task driving it
    script,       \* what this proxy answers, given enough time
    stream,       \* the bytes that carry it
    got,          \* bytes of it read from the stream so far
    taken,        \* bytes the handshake has split off its buffer
    told          \* what was written to the proxy, in order

hsVars == <<hs, script, stream, got, taken, told>>

Protocols == {"socks4", "socks5", "connect", "associate"}
Password == 2
NoAuth == 0
Unacceptable == 255
NotSupported == 7

-----------------------------------------------------------------------------
(* The proxy's side. *)

Tails == UNION {[1 .. n -> {99}] : n \in 0 .. MaxTail}
Zeros(n) == [i \in 1 .. n |-> 0]

\* What is never sent, a status or a name's length, is not told apart.
Socks5Scripts ==
    {s \in [ver : {4, 5}, method : {NoAuth, Password, Unacceptable}, authStatus : {0, 1},
            rep : {0, 1, NotSupported}, atyp : {1, 3, 4, 9}, name : 0 .. 1, tail : Tails] :
        (s.method = Password \/ s.authStatus = 0) /\ (s.atyp = 3 \/ s.name = 0)}
Socks4Scripts == [ver : {0, 4}, cd : {90, 91}, tail : Tails]
ConnectScripts ==
    [status : {"ok", "refused", "malformed"}, fields : 0 .. MaxHead + 1, tail : Tails]

\* The proxy asks for the password only from a client that offers one; what
\* it says then follows on the same stream.
AddressBytes(s) ==
    CASE s.atyp = 1 -> Zeros(4)
      [] s.atyp = 4 -> Zeros(16)
      [] OTHER -> <<s.name>> \o Zeros(s.name)

Socks5Bytes(s, auth) ==
    <<s.ver, s.method>>
    \o (IF auth /\ s.method = Password THEN <<1, s.authStatus>> ELSE <<>>)
    \o <<5, s.rep, 0, s.atyp>> \o AddressBytes(s) \o Zeros(2) \o s.tail

Socks4Bytes(s) == <<s.ver, s.cd>> \o Zeros(6) \o s.tail

\* A head: the status line, its fields, the empty line (10).
StatusLine == [ok |-> 200, refused |-> 407, malformed |-> 1]
ConnectLines(s) == <<StatusLine[s.status]>> \o Zeros(s.fields) \o <<10>> \o s.tail

Wire(h, s) ==
    CASE h.proto = "socks4" -> Socks4Bytes(s)
      [] h.proto = "connect" -> ConnectLines(s)
      [] OTHER -> Socks5Bytes(s, h.auth)

Buffered == SubSeq(stream, taken + 1, got)

-----------------------------------------------------------------------------
(* What `advance' answers: NeedMore, Write, Done or an error, with the     *)
(* bytes it splits off and the state it moves to.                          *)

NeedMore == [step |-> "need", take |-> 0, next |-> "same", out |-> "none"]
Writes(n, next, what) == [step |-> "write", take |-> n, next |-> next, out |-> what]
Done(n) == [step |-> "done", take |-> n, next |-> "done", out |-> "open"]
Fails(why) == [step |-> "error", take |-> 0, next |-> "same", out |-> why]

Offered(auth) == IF auth THEN {Password, NoAuth} ELSE {NoAuth}

ChosenMethod(auth, buf) ==
    IF Len(buf) < 2 THEN NeedMore
    ELSE IF buf[1] # 5 THEN Fails("bad_version")
    ELSE IF buf[2] = Unacceptable \/ buf[2] \notin Offered(auth) THEN Fails("no_method")
    ELSE IF buf[2] = Password THEN Writes(2, "auth_reply", "credentials")
    ELSE Writes(2, "reply", "target")

AuthReply(buf) ==
    IF Len(buf) < 2 THEN NeedMore
    ELSE IF buf[2] # 0 THEN Fails("bad_credentials")
    ELSE Writes(2, "reply", "target")

\* Mutant: the port after a domain name is forgotten.
AddressLengthNoPort(buf) ==
    CASE buf[4] = 1 -> 4 + 2
      [] buf[4] = 4 -> 16 + 2
      [] buf[4] = 3 -> IF Len(buf) < 5 THEN 0 ELSE buf[5] + 1

\* `parse_addr' and the address arm of `Socks5::advance': 0 while the length
\* is not known yet, else how many bytes of address and port follow the type.
AddressLength(buf) ==
    CASE buf[4] = 1 -> 4 + 2
      [] buf[4] = 4 -> 16 + 2
      [] buf[4] = 3 -> IF Len(buf) < 5 THEN 0 ELSE buf[5] + 1 + 2

\* The two readers of the final reply: the one of the tunnel and the one of
\* the association, which tells a proxy without UDP from one that refuses.
Replied(buf, refusal) ==
    IF Len(buf) < 4 THEN NeedMore
    ELSE IF buf[1] # 5 THEN Fails("bad_version")
    ELSE IF buf[2] # 0 THEN refusal
    ELSE IF buf[4] \notin {1, 3, 4} THEN Fails("bad_address")
    ELSE IF AddressLength(buf) = 0 \/ Len(buf) < 4 + AddressLength(buf) THEN NeedMore
    ELSE Done(4 + AddressLength(buf))

Socks5Reply(buf) == Replied(buf, Fails("refused"))

AssociateReply(buf) ==
    Replied(buf, IF Len(buf) >= 2 /\ buf[2] = NotSupported
                 THEN Fails("unsupported") ELSE Fails("refused"))

Socks4Reply(buf) ==
    IF Len(buf) < 8 THEN NeedMore
    ELSE IF buf[1] # 0 THEN Fails("bad_version")
    ELSE IF buf[2] # 90 THEN Fails("refused")
    ELSE Done(8)

\* `head::parse_response': the first unreadable line is an error at once, a
\* head without its empty line is not one yet.
ConnectReply(buf) ==
    LET ends == {i \in 1 .. Len(buf) : buf[i] = 10}
        len == CHOOSE i \in ends : \A j \in ends : i <= j
    IN IF Len(buf) > 0 /\ buf[1] = 1 THEN Fails("malformed")
       ELSE IF ends = {} THEN IF Len(buf) > MaxHead THEN Fails("too_long") ELSE NeedMore
       ELSE IF buf[1] # 200 THEN Fails("refused")
       ELSE Done(len)

\* `Socks5Associate::advance' repeats the first two states of SOCKS5.
AssociateAdvance(h, buf) ==
    CASE h.state = "method" -> ChosenMethod(h.auth, buf)
      [] h.state = "auth_reply" -> AuthReply(buf)
      [] h.state = "reply" -> AssociateReply(buf)

Socks5Advance(h, buf) ==
    CASE h.state = "method" -> ChosenMethod(h.auth, buf)
      [] h.state = "auth_reply" -> AuthReply(buf)
      [] h.state = "reply" -> Socks5Reply(buf)

Advance(h, buf) ==
    CASE h.proto = "socks4" -> Socks4Reply(buf)
      [] h.proto = "connect" -> ConnectReply(buf)
      [] h.proto = "socks5" -> Socks5Advance(h, buf)
      [] h.proto = "associate" -> AssociateAdvance(h, buf)

-----------------------------------------------------------------------------
(* The task. *)

Scripts(proto) ==
    CASE proto = "socks4" -> Socks4Scripts
      [] proto = "connect" -> ConnectScripts
      [] OTHER -> Socks5Scripts

Idle == [proto |-> "socks4", auth |-> FALSE, state |-> "fresh",
         pc |-> "idle", outcome |-> "none"]

NoScript == [ver |-> 0, cd |-> 90, tail |-> <<>>]

HsInit ==
    /\ hs = Idle
    /\ script = NoScript
    /\ stream = <<>>
    /\ got = 0
    /\ taken = 0
    /\ told = <<>>

Ends(why) == hs' = [hs EXCEPT !.pc = "ended", !.outcome = why]

\* The rule that serves the target names the proxy; what this one would say
\* if it were asked is settled now.
Dials(proto, auth, s) ==
    /\ hs.pc = "idle"
    /\ hs' = [Idle EXCEPT !.proto = proto, !.auth = auth, !.pc = "dial"]
    /\ script' = s
    /\ stream' = Wire(hs', s)
    /\ UNCHANGED <<got, taken, told>>

OpenStream(auth) ==
    \E proto \in Protocols \ {"associate"} :
        /\ proto = "socks4" => ~auth
        /\ \E s \in Scripts(proto) : Dials(proto, auth, s)

OpenDatagrams(auth) == \E s \in Scripts("associate") : Dials("associate", auth, s)

\* `reach_tcp': TCP, then the proxy's own TLS where the rule asks for it.
Reached ==
    /\ hs.pc = "dial"
    /\ \/ \E tls \in BOOLEAN : hs' = [hs EXCEPT !.pc = IF tls THEN "tls" ELSE "begin"]
       \/ Ends("connect_failed")
    /\ UNCHANGED <<script, stream, got, taken, told>>

Secured ==
    /\ hs.pc = "tls"
    /\ \/ hs' = [hs EXCEPT !.pc = "begin"]
       \/ Ends("tls_failed")
    /\ UNCHANGED <<script, stream, got, taken, told>>

\* `begin' of each protocol: its first message, or a target it cannot carry.
Says(what, next) ==
    /\ hs' = [hs EXCEPT !.pc = "write", !.state = next]
    /\ told' = Append(told, what)

BadTarget == Ends("bad_target") /\ UNCHANGED told

BeginSocks4 ==
    /\ hs.pc = "begin" /\ hs.proto = "socks4"
    /\ Says("target", "reply") \/ BadTarget
    /\ UNCHANGED <<script, stream, got, taken>>

BeginSocks5 ==
    /\ hs.pc = "begin" /\ hs.proto = "socks5"
    /\ Says("greeting", "method") \/ BadTarget
    /\ UNCHANGED <<script, stream, got, taken>>

\* Over cleartext a CONNECT proxy is given absolute-form requests instead.
BeginConnect ==
    /\ hs.pc = "begin" /\ hs.proto = "connect"
    /\ \/ Says(IF hs.auth THEN "target_and_credentials" ELSE "target", "reply")
       \/ BadTarget
       \/ Ends("absolute") /\ UNCHANGED told
    /\ UNCHANGED <<script, stream, got, taken>>

BeginAssociate ==
    /\ hs.pc = "begin" /\ hs.proto = "associate"
    /\ Says("greeting", "method")
    /\ UNCHANGED <<script, stream, got, taken>>

\* `write_all' of what was said, flushed or failed.
Written ==
    /\ hs.pc = "write"
    /\ hs' = [hs EXCEPT !.pc = "advance"] \/ Ends("write_failed")
    /\ UNCHANGED <<script, stream, got, taken, told>>

\* What follows `Done': `drive_exact' refuses bytes left in the buffer,
\* `drive_associate' drops them and goes on to the relay.
AfterDone(left) ==
    IF hs.proto = "associate" THEN [hs EXCEPT !.state = "done", !.pc = "relay"]
    ELSE [hs EXCEPT !.state = "done", !.pc = "ended",
                    !.outcome = IF left > 0 THEN "spoke_first" ELSE "open"]

\* One turn of the drive loop.
Drive ==
    /\ hs.pc = "advance"
    /\ LET a == Advance(hs, Buffered)
       IN /\ taken' = taken + a.take
          /\ hs' = CASE a.step = "need" -> [hs EXCEPT !.pc = "read"]
                     [] a.step = "write" -> [hs EXCEPT !.pc = "write", !.state = a.next]
                     [] a.step = "done" -> AfterDone(got - taken')
                     [] a.step = "error" -> [hs EXCEPT !.pc = "ended", !.outcome = a.out]
          /\ told' = IF a.step = "write" THEN Append(told, a.out) ELSE told
    /\ UNCHANGED <<script, stream, got>>

\* `open_path' past the handshake: a relay given by name, or not at all, is
\* resolved; then the socket and the header every datagram will carry.
OpenPath ==
    /\ hs.pc = "relay"
    /\ \/ Ends("open")
       \/ script.atyp \in {1, 3, 4} /\ Ends("no_relay")
       \/ Ends("no_socket")
       \/ Ends("no_udp")
       \/ Ends("bad_target")
    /\ UNCHANGED <<script, stream, got, taken, told>>

\* `read_some': any number of the bytes the proxy has sent.
Read ==
    /\ hs.pc = "read"
    /\ \E n \in got + 1 .. Len(stream) : got' = n
    /\ hs' = [hs EXCEPT !.pc = "advance"]
    /\ UNCHANGED <<script, stream, taken, told>>

\* The proxy hangs up, at any point of its answer.
ReadEof ==
    /\ hs.pc = "read"
    /\ Ends("eof")
    /\ UNCHANGED <<script, stream, got, taken, told>>

\* The attempt is over; the next one starts from a fresh handshake object.
NextAttempt ==
    /\ hs.pc = "ended"
    /\ hs' = Idle
    /\ script' = NoScript
    /\ stream' = <<>>
    /\ got' = 0
    /\ taken' = 0
    /\ told' = <<>>

HsNext ==
    \/ \E auth \in BOOLEAN : OpenStream(auth) \/ OpenDatagrams(auth)
    \/ Reached \/ Secured
    \/ BeginSocks4 \/ BeginSocks5 \/ BeginConnect \/ BeginAssociate
    \/ Written \/ Drive \/ Read \/ ReadEof \/ OpenPath \/ NextAttempt

HsSpec == HsInit /\ [][HsNext]_hsVars

-----------------------------------------------------------------------------
(* What the script says the attempt must come to, fragmentation aside.     *)

Socks5Verdict(proto, s, auth) ==
    IF s.ver # 5 THEN "bad_version"
    ELSE IF s.method \notin Offered(auth) THEN "no_method"
    ELSE IF s.method = Password /\ s.authStatus # 0 THEN "bad_credentials"
    ELSE IF s.rep = NotSupported /\ proto = "associate" THEN "unsupported"
    ELSE IF s.rep # 0 THEN "refused"
    ELSE IF s.atyp = 9 THEN "bad_address"
    ELSE "open"

Verdict(h, s) ==
    CASE h.proto = "socks4" ->
            IF s.ver # 0 THEN "bad_version" ELSE IF s.cd # 90 THEN "refused" ELSE "open"
      [] h.proto = "connect" ->
            IF s.status = "malformed" THEN "malformed"
            ELSE IF s.status = "refused" THEN "refused" ELSE "open"
      [] OTHER -> Socks5Verdict(h.proto, s, h.auth)

HandshakeLength == Len(stream) - Len(script.tail)

BeforeHello == {"connect_failed", "tls_failed", "bad_target", "eof", "absolute",
                "write_failed", "no_relay", "no_socket", "no_udp"}
AfterHello == hs.pc = "ended" /\ hs.outcome \notin BeforeHello

\* Each handshake object and its driver are in a state the code knows.
HsTypeOK ==
    /\ hs.proto \in Protocols
    /\ hs.state \in {"fresh", "method", "auth_reply", "reply", "done"}
    /\ hs.pc \in {"idle", "dial", "tls", "begin", "write", "advance", "read", "relay",
                  "ended"}
    /\ taken <= got /\ got <= Len(stream)
    /\ Len(told) <= 3

\* However the proxy's answer is cut into reads, the attempt ends as that
\* answer read whole says.  Three ends depend on the cut, by design: a head
\* that is too long is refused only if it is still unfinished when it is
\* looked at; bytes past the reply are refused only if they came with it.
FragmentsDoNotMatter ==
    AfterHello =>
        \/ hs.outcome = Verdict(hs, script)
        \/ /\ hs.outcome = "spoke_first"
           /\ script.tail # <<>>
           /\ Verdict(hs, script) = "open"
        \/ /\ hs.outcome = "too_long"
           /\ script.fields + 1 > MaxHead

\* A tunnel that opens has split off the whole handshake and not one byte of
\* what follows; nothing already read is lost with the handshake's buffer.
TunnelStartsClean ==
    AfterHello /\ hs.outcome = "open" =>
        /\ taken = HandshakeLength
        /\ hs.proto # "associate" => got = taken

\* Credentials leave only when the proxy chose the password method, and a
\* proxy that chose it learns the target only after accepting them.
SecretsInOrder ==
    hs.proto \in {"socks5", "associate"} =>
        /\ \A i \in 1 .. Len(told) :
              told[i] = "credentials" => hs.auth /\ script.method = Password /\ got >= 2
        /\ \A i \in 1 .. Len(told) :
              told[i] = "target" /\ script.method = Password =>
                 /\ \E j \in 1 .. i - 1 : told[j] = "credentials"
                 /\ script.authStatus = 0 /\ got >= 4

\* The handshakes as a whole: the outcome is the proxy's answer and not its
\* packets', the tunnel starts at its first byte, and secrets leave in order.
HandshakeHolds == HsTypeOK /\ FragmentsDoNotMatter /\ TunnelStartsClean /\ SecretsInOrder
=============================================================================
