---------------------------- MODULE MCTransport ----------------------------
(***************************************************************************)
(* The parts of the transports beside the pool and the request loop.  They *)
(* share no state: a behaviour is one of a single part, and the others     *)
(* stay where they began.                                                  *)
(***************************************************************************)
EXTENDS H3, Fanout, Tunnel, ProxyHandshake, Exchange, BodyLayers, Sse, ContinueGate,
        KeepAlive, WebSocket, WebTransport, Embassy, TlsStream, Fetch, WinHttp, UrlSession,
        TLC

VARIABLE part

Parts == {"h3", "fan", "dial", "writer", "relay", "proxy", "exchange", "layers",
          "split", "source", "gate", "keepalive", "ws", "sessions", "watch",
          "sockets", "tls", "fetch", "page", "winhttp", "urlsession", "urlsocket"}

relayVars == <<inbox, relay>>

\* Requests, tasks and sessions are interchangeable.  Every part is given the
\* same names for them, so that exchanging two is one permutation for all.
TransportSymmetry == Permutations(H3Reqs)

\* What a part may begin with is chosen only where that part moves.
TransportInit ==
  /\ part \in Parts
  /\ H3Init
  /\ FanInit /\ (part # "fan" => resource = "socket")
  /\ DialInit /\ WriterInit /\ RelayInit /\ HsInit
  /\ ExInit /\ (part # "exchange" => req.chunks = 0 /\ req.tail = "end")
  /\ LayersInit
  /\ part # "layers" => chain.limit = NoLimit /\ chain.coding = "through" /\ chain.rec = "off"
  /\ IF part = "split" THEN SplitInit
     ELSE wire = [whole |-> <<>>, next |-> 1] /\ splitter = NewSplitter /\ decoder = NewDecoder
  /\ SourceInit /\ GateInit
  /\ KaInit /\ (part # "keepalive" => driver.phase = "off")
  /\ WsInit /\ (part # "ws" => ~ws.live)
  /\ WtInit
  /\ EmbassyInit /\ (part # "sockets" => slots.free = SetToSeq(Slots))
  /\ TlsInit
  /\ FetchInit /\ (part # "fetch" => ~fetch.send)
  /\ PageInit
  /\ WinInit /\ (part # "winhttp" => ~win.ws)
  /\ DataInit /\ SocketInit
  /\ WatchInit /\ (part # "watch" => watch.caps = <<>> /\ watch.end = "fin")

\* The variables of every part but the one that moves.
StillH3 == UNCHANGED h3Vars
StillTunnel == UNCHANGED <<dialVars, writer, relayVars>>
StillBodies == UNCHANGED <<exVars, layersVars, splitVars, reconnectVars>>
StillWakers == UNCHANGED <<fanVars, gateVars, kaVars>>
StillHandshake == UNCHANGED hsVars
StillSockets == UNCHANGED <<wsVars, wtVars>>
StillSeams == UNCHANGED <<embassyVars, tls, fetch, page, win, data, socket>>

H3Moves ==
  /\ part = "h3" /\ H3Next
  /\ StillTunnel /\ StillBodies /\ StillWakers /\ StillHandshake /\ StillSockets /\ StillSeams

TunnelMoves ==
  /\ \/ part = "dial" /\ DialNext /\ UNCHANGED <<writer, relayVars>>
     \/ part = "writer" /\ WriterNext /\ UNCHANGED <<dialVars, relayVars>>
     \/ part = "relay" /\ RelayNext /\ UNCHANGED <<dialVars, writer>>
  /\ StillH3 /\ StillBodies /\ StillWakers /\ StillHandshake /\ StillSockets /\ StillSeams

HandshakeMoves ==
  /\ part = "proxy" /\ HsNext
  /\ StillH3 /\ StillTunnel /\ StillBodies /\ StillWakers /\ StillSockets /\ StillSeams

BodyMoves ==
  /\ \/ part = "exchange" /\ ExNext /\ UNCHANGED <<layersVars, splitVars, reconnectVars>>
     \/ part = "layers" /\ LayersNext /\ UNCHANGED <<exVars, splitVars, reconnectVars>>
     \/ part = "split" /\ SplitNext /\ UNCHANGED <<exVars, layersVars, reconnectVars>>
     \/ part = "source" /\ SourceNext /\ UNCHANGED <<exVars, layersVars, splitVars>>
  /\ StillH3 /\ StillTunnel /\ StillWakers /\ StillHandshake /\ StillSockets /\ StillSeams

WakerMoves ==
  /\ \/ part = "fan" /\ FanNext /\ UNCHANGED <<gateVars, kaVars>>
     \/ part = "gate" /\ GateNext /\ UNCHANGED <<fanVars, kaVars>>
     \/ part = "keepalive" /\ KaNext /\ UNCHANGED <<fanVars, gateVars>>
  /\ StillH3 /\ StillTunnel /\ StillBodies /\ StillHandshake /\ StillSockets /\ StillSeams

SocketMoves ==
  /\ \/ part = "ws" /\ WsNext /\ UNCHANGED wtVars
     \/ part = "sessions" /\ SessionsNext /\ UNCHANGED <<wsVars, watch>>
     \/ part = "watch" /\ WatchNext /\ UNCHANGED wsVars
  /\ StillH3 /\ StillTunnel /\ StillBodies /\ StillWakers /\ StillHandshake /\ StillSeams

SeamMoves ==
  /\ \/ part = "sockets" /\ EmbassyNext /\ UNCHANGED tls
     \/ part = "tls" /\ TlsNext /\ UNCHANGED embassyVars
  /\ StillH3 /\ StillTunnel /\ StillBodies /\ StillWakers /\ StillHandshake /\ StillSockets
  /\ UNCHANGED <<fetch, page, win, data, socket>>

PlatformMoves ==
  /\ \/ part = "fetch" /\ FetchNext /\ UNCHANGED <<page, win, data, socket>>
     \/ part = "page" /\ PageNext /\ UNCHANGED <<fetch, win, data, socket>>
     \/ part = "winhttp" /\ WinNext /\ UNCHANGED <<fetch, page, data, socket>>
     \/ part = "urlsession" /\ DataNext /\ UNCHANGED <<fetch, page, win, socket>>
     \/ part = "urlsocket" /\ UrlSocketNext /\ UNCHANGED <<fetch, page, win, data>>
  /\ StillH3 /\ StillTunnel /\ StillBodies /\ StillWakers /\ StillHandshake /\ StillSockets
  /\ UNCHANGED <<embassyVars, tls>>

transportVars ==
  <<part, h3Vars, fanVars, dialVars, writer, relayVars, hsVars, exVars, layersVars,
    splitVars, reconnectVars, gateVars, kaVars, wsVars, wtVars, embassyVars, tls, fetch, page,
    win, data, socket>>

TransportNext ==
  /\ \/ H3Moves \/ TunnelMoves \/ HandshakeMoves \/ BodyMoves
     \/ WakerMoves \/ SocketMoves \/ SeamMoves \/ PlatformMoves
  /\ UNCHANGED part

TransportSpec == TransportInit /\ [][TransportNext]_transportVars

\* The two keep-alives, of a shared HTTP/2 connection and of a WebSocket: a
\* peer is given up only for a silence it kept, a silent one is found out, and
\* no ping or answer stays behind.
KeepAlivesAreJust == KeepAliveIsJust /\ WsHolds

\* What stands between the client and an origin behind a proxy: the handshakes
\* that ask for it and the tunnels that carry it.
ProxiesHold == HandshakeHolds /\ TunnelHolds

\* Tasks that share one waker slot: the pollers of a QUIC socket or a datagram
\* queue, and the readers behind the 100-continue gate.
WakersHold == FanHolds /\ GateHolds

\* Two kinds of deadline: HTTP/2 keeps its share of a connect's budget when
\* HTTP/3 is tried first, and a body is timed out only when it is due.
DeadlinesHold == H2KeepsItsShare /\ TimeoutsAreDue

\* The transports that are bindings to a platform: a browser's fetch, WinHTTP and
\* URLSession, each with its WebSocket.
PlatformsHold == FetchHolds /\ WinHttpHolds /\ UrlSessionHolds
=============================================================================
