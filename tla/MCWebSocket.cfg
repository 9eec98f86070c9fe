CONSTANTS
  WsEvery = 2
  WsWithin = 2
  WsMaxTime = 2
  MaxFromPeer = 1
  MaxSends = 1
SPECIFICATION WsSpec
INVARIANT SenderIsNotStranded
CHECK_DEADLOCK FALSE
