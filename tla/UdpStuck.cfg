SPECIFICATION LoopSpec
CONSTANTS
  Dests = {d1}
  Peers = {p1}
  NoPeer = nobody
  Capacity = 1
  IdleTimeout = 1
  MaxDatagrams = 3
CHECK_DEADLOCK FALSE
PROPERTIES ControlEndsAssociation
