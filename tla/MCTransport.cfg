CONSTANTS
  H3Reqs = {x1, x2}
  MaxConns = 2
  Pollers = {x1, x2, x3}
  MaxReady = 2
  TunnelBounds = {1, 2, 5}
  H3TunnelBeforeH2 = 2
  TunnelFailureTtl = 3
  TunnelMaxTime = 8
  MaxWrites = 3
  MaxArrivals = 3
  MaxDiscards = 2
  MaxHead = 2
  MaxTail = 1
  MaxChunks = 2
  ChunkSize = 2
  MaxFrames = 1
  Every = 1
  Total = 3
  SizeLimits = {1, 2}
  NoLimit = NoLimit
  CacheMax = 2
  MaxData = 3
  LayersMaxTime = 3
  MaxBytes = 4
  MaxEventSize = 3
  LastId = 3
  MaxAttempts = 2
  MaxBreaks = 4
  Readers = {x1, x2}
  PingEvery = 2
  PongWithin = 2
  KaMaxTime = 12
  MaxLag = 1
  WsEvery = 2
  WsWithin = 2
  WsMaxTime = 6
  MaxFromPeer = 2
  MaxSends = 1
  Sessions = {x1, x2, x3}
  MaxSessions = 2
  MaxQueued = 2
  MaxDatagrams = 2
  MaxCapsules = 3
  Slots = {s1, s2}
  SocketTasks = {x1, x2, x3}
  MaxOut = 2
  MaxIn = 3
  PlainLimit = 2
  Scratch = 4
  TlsRoom = 1
  MaxParts = 3
  MaxEvents = 3
  WinFrames = 2
  WinSends = 2
  MaxChunksIn = 3
  MaxIncoming = 3
SPECIFICATION TransportSpec
SYMMETRY TransportSymmetry
INVARIANTS H3Holds ProxiesHold ExchangeHolds LayersHold SseHolds WakersHold KeepAlivesAreJust WtHolds SocketsHold TlsHolds PlatformsHold
PROPERTIES DeadlinesHold
CHECK_DEADLOCK FALSE
