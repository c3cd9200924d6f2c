SPECIFICATION FairSpec
CONSTANTS
  Socks = {s1, s2}
  NConns = 1
  Ports = {p1}
  NoSock = NoSock
  NoPort = NoPort
  AcceptHook = TRUE
  Calls = {"connect", "write"}
  WriteLens = {1}
  ReadMaxes = {1}
  SegLens = {1}
  Windows = {1}
  MaxListen = 1
  MaxRtx = 1
  MaxSynRtx = 1
  MaxGiant = 1
CHECK_DEADLOCK FALSE
PROPERTIES MainServes
