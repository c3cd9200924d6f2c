SPECIFICATION FairSpec
CONSTANTS
  n1 = n1
  n2 = n2
  h1 = h1
  h2 = h2
  l1 = l1
  l2 = l2
  NSlots = 2
  NRoutes = 1
  NDefrts = 1
  Addrs = {n1, n2, h1}
  OnLink = {n1, n2}
  Dests <- MCNoDests
  LLs = {l1, l2}
  NullLL = NullLL
  Unused = Unused
  None = None
  Owns <- MCOwnsFixed
  Hops = {}
  RouterAddrs = {n1}
  Builds = {FALSE}
  MaxMulticast = 2
  MaxUnicast = 1
  NoOpt = NoOpt
CHECK_DEADLOCK FALSE
PROPERTIES SolicitationEnds
