SPECIFICATION FairSpec
CONSTANTS
  Tunnels = {t1, t2}
  Resetter = resetter
  MaxConns = 1
  MaxResets = 1
PROPERTIES ConnectEnds
