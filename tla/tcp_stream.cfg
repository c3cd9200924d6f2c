SPECIFICATION FairSpec
CONSTANTS
  enda = enda
  endb = endb
  Active = enda
  Passive = endb
  SeqMod = 8
  Iss <- MCIss
  MSS = 2
  MaxRtx = 1
  MaxSynRtx = 1
  Sizes <- MCSizes
  Total <- MCTotal
  Stale <- MCStale
CHECK_DEADLOCK FALSE
INVARIANTS TcpTypeOK StreamIntact StopAndWait
PROPERTIES ImplementsStream WriteEnds CloseEnds
