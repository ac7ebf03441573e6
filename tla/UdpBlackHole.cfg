SPECIFICATION Spec
CONSTANTS
  Dests = {d1}
  Peers = {p1}
  NoPeer = nobody
  Capacity = 1
  IdleTimeout = 1
  MaxDatagrams = 4
CHECK_DEADLOCK FALSE
INVARIANTS OnlyRacingSendsLost
