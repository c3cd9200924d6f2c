SPECIFICATION Spec
CONSTANTS
  Socks = {s1, s2, s3}
  NConns = 1
  Ports = {p1}
  NoSock = NoSock
  NoPort = NoPort
  AcceptHook = FALSE
  Calls = {"listen", "accept", "close", "closeListen"}
  WriteLens = {1}
  ReadMaxes = {1}
  SegLens = {1}
  Windows = {1}
  MaxListen = 1
  MaxRtx = 1
  MaxSynRtx = 1
  MaxGiant = 1
SYMMETRY Symm
CHECK_DEADLOCK FALSE
INVARIANTS NoUseAfterFree EstablishedHasSocket
