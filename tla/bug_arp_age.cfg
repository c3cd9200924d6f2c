SPECIFICATION ServicesSpec
CONSTANTS
  Parts = {"arp"}
  h = h
  q = q
  r = r
  x = x
  Nodes = {h, q, r}
  Routers = {q, r}
  Globals = {h, r}
  Stranger = x
  Foreign <- MCSent
  None = None
  Nobody = Nobody
  Defrt <- MCDefrt
  UdpConns <- MCUdpConns
  HopLimit = 3
  ReassBlocks = 9
  Behind = 1
  MaxOwn = 0
  m1 = m1
  m2 = m2
  m3 = m3
  Machines = {m1, m2, m3}
  Senders = {m1}
  Gateway = m3
  Zero = Zero
  Away = Away
  BCast = BCast
  ArpSize = 1
  TimeMod = 3
  ArpMaxAge = 2
  SplitSize = 2
  Segments = {3}
  CopyOrders = {"up"}
  MaxMoves = 1
  MaxSegments = 2
  c1 = c1
  c2 = c2
  Clients = {c1, c2}
  XidMod = 3
  DiscoverMax = 2
  RequestMax = 2
  Lease = 6
  MaxDelay = 1
  t1 = t1
  t2 = t2
  Timers = {t1, t2}
  ClockMod = 9
  Intervals = {2}
  MaxLate = 2
  NumDescriptors = 3
  MaxFrames = 3
  FrameHeaders <- MCHeaders
  FrameDatas <- MCDatas
  MaxIn = 6
  MaxPeer = 2
  MaxLost = 1
  RxSize = 9
  ByteMod = 3
  MaxLen = 2
  MaxArrived = 6
  UdpSocks = {u1, u2}
  UdpConnNbs = {1, 2}
  Remotes <- MCRemotes
  Sources <- MCSources
  PortLo = 1
  PortHi = 4
  BindPorts = {1}
  ReadSizes = {1}
  WriteSizes = {1, 2}
  DatagramSizes = {2}
  ReadStates = {"READING", "READING_LINE"}
  d1 = d1
  d2 = d2
  d3 = d3
  Servers = {d1, d2, d3}
  NsPool = 2
  NsInfinite = 6
  Lifetimes = {0, 1, 2, 6}
  MaxNow = 4
CHECK_DEADLOCK FALSE
INVARIANT ArpAges
