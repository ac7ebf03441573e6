SPECIFICATION Spec
CONSTANTS
  Dests = {d1}
  Peers = {p1}
  NoPeer = nobody
  Capacity = 1
  IdleTimeout = 2
  MaxDatagrams = 1
CHECK_DEADLOCK FALSE
PROPERTIES OnlyIdleTornDown
