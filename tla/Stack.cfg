SPECIFICATION StackSpec
\* A client bound for ever, a finished stream and a failed assertion rest.
CHECK_DEADLOCK FALSE
CONSTANTS
  Addr = {a1, a2}
  NoAddr = NoAddr
  Absent = Absent
  Infinite = 255
  Leases <- MCLeases
  CoarseSecs = 2
  MaxTimeout = 7
  MaxRequests = 2
  ProbeNum = 2
  AnnounceNum = 2
  MaxConflicts = 2
  MaxFaults = 2
  Ip = {x1, x2, x3}
  Mac = {m1, m2}
  Packet = {p1, p2}
  Nil = Nil
  TableSize = 2
  ArpMaxAge = 3
  UnicastAge = 1
  MaxPending = 2
  MemSize = 16
  SizeofMem = 1
  MinSize = 2
  Sizes = {1, 2, 3, 4, 5, 6}
  PbufPool = {1, 2, 3}
  BufSize = 2
  Lengths = {1, 3}
  MaxTotLen = 5
  MaxHeld = 2
  Ids = {a, b, c}
  DatagramLen = 3
  MaxPbufs = 4
  NumReass = 2
  ReassMaxAge = 1
  NoDatagram = NoDatagram
  UdpPool = {u1, u2, u3}
  NoUdp = NoUdp
  PortSpan = 8
  TickMs = 10
  FirstPort = 3
  Bootps = 1
  Bootpc = 2
  Byte = 4
  EchoType = 2
  Octets = {1, 3}
  MaxData = 3
  Halves = {6, 15}
  StreamLen = 8
  SeqSpace = 32
  Irs = 30
  Wnd = 6
  Mss = 2
  ReqLen = 3
  Iss = 30
  SndMss = 2
  SndBuf = 4
  FirstWnds = {0, 1, 4}
  PeerWnds = {0, 4}
  MaxRtx = 2
  MaxCwnd = 8
  MaxAcks = 1
  MaxSendFaults = 1
  Names = {n1, n2}
  Callbacks = {"http_dns_cb"}
  Null = null
  ClientRequests = 2
  ClientPcbs = {q1, q2}
INVARIANTS
  NeverStuck AddressLeased TableSound SentToOwner MemSound PbufSound
  ReassSound UdpSound DatagramsServed MessagesChecked ReceiveSound 
  ClientSound
PROPERTIES
  CheckedUnlessLost LeaseObtained PendingEnds ReassEnds QueryGoesOut
  EdgeAdvances  
