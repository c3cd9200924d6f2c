SPECIFICATION Spec
CONSTANTS
  Socks = {s1, s2}
  NConns = 1
  Ports = {p1}
  NoSock = NoSock
  NoPort = NoPort
  AcceptHook = TRUE
  Calls = {"listen", "read", "readLine", "write", "close", "readTimeout"}
  WriteLens = {2}
  ReadMaxes = {1, 3}
  SegLens = {2}
  Windows = {1, 2}
  MaxListen = 1
  MaxRtx = 1
  MaxSynRtx = 1
  MaxGiant = 1
INVARIANTS TypeOK Inductive RetransmitsWrite ReadsConserve WritesConserve NoLostWakeup Assertions
PROPERTIES ImplementsHandshake
