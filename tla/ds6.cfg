SPECIFICATION Ds6FairSpec
CONSTANTS
  hosta = hosta
  hostb = hostb
  r = r
  Hosts = {hosta, hostb}
  RouterNodes = {r}
  Links <- MCLinks
  Iid <- MCIid
  LinkPrefix = "fe80"
  Prefixes = {"p"}
  AddrNb = 2
  PrefixNb = 2
  MaxDadNs = 1
  MaxRs = 1
  MaxInitialRas = 1
  Options <- MCOptions
  TwoHours = 2
  MaxTold = 2
CHECK_DEADLOCK FALSE
INVARIANT UniqueGlobal
PROPERTY AddressSettles
