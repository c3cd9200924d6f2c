SPECIFICATION SocketsSpec
CONSTANTS
  Socks = {s1, s2}
  NConns = 1
  Ports = {p1}
  NoSock = NoSock
  NoPort = NoPort
  AcceptHook = TRUE
  Calls = {"listen", "read", "write", "close", "readTimeout"}
  WriteLens = {2}
  ReadMaxes = {1}
  SegLens = {1}
  Windows = {1}
  MaxListen = 1
  MaxRtx = 1
  MaxSynRtx = 0
  MaxGiant = 1
  UdpSocks = {u1, u2}
  UdpConnNbs = {2}
  Remotes <- MCRemotes
  Sources <- MCSources
  PortLo = 1
  PortHi = 4
  BindPorts = {1}
  ReadSizes = {1}
  WriteSizes = {1}
  DatagramSizes = {2}
  ReadStates = {"READING"}
PROPERTIES MainServes WriteReturns CloseReturns UdpEnds
