\* A connection that was given up rests.
CHECK_DEADLOCK FALSE
CONSTANTS
  SeqSpace = 32
  ReqLen = 3
  Iss = 30
  SndMss = 2
  SndBuf = 4
  FirstWnds = {0, 1, 4}
  PeerWnds = {0, 1, 4}
  MaxRtx = 2
  MaxCwnd = 8
  MaxSendFaults = 2
  MaxAcks = 1
SPECIFICATION TcpSendSpec
INVARIANT PersistHasData
