SPECIFICATION Spec
CONSTANTS
  n1 = n1
  n2 = n2
  h1 = h1
  h2 = h2
  l1 = l1
  l2 = l2
  NSlots = 2
  NRoutes = 1
  NDefrts = 2
  Addrs = {n1, n2, h1, h2}
  OnLink = {n1, n2}
  Dests <- MCDests
  LLs = {l1, l2}
  NullLL = NullLL
  Unused = Unused
  None = None
  Owns <- MCOwns
  Hops = {n1}
  RouterAddrs = {n2}
  Builds = {TRUE}
  MaxMulticast = 2
  MaxUnicast = 1
  NoOpt = NoOpt
CHECK_DEADLOCK FALSE
INVARIANTS Nd6TypeOK RoutesLinked UniqueAddress Resolved RoutersDistinct
PROPERTIES LosesNone
