SPECIFICATION Spec
CONSTANTS
  Tunnels = {t1, t2}
  Resetter = resetter
  MaxConns = 2
  MaxResets = 1
SYMMETRY TunnelSymmetry
INVARIANTS FreshAfterReset
PROPERTIES ImplementsShared RetryOnOtherConnection OnlyNeverFallsBack
