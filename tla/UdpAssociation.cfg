SPECIFICATION FairSpec
CONSTANTS
  Dests = {d1, d2}
  Peers = {p1, p2}
  NoPeer = nobody
  Capacity = 2
  IdleTimeout = 1
  MaxDatagrams = 4
CHECK_DEADLOCK FALSE
INVARIANTS OneClient
PROPERTIES InOrder ControlEndsAssociation TargetsEnd
