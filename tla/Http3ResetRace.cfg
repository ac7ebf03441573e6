SPECIFICATION Spec
CONSTANTS
  Tunnels = {t1, t2}
  Resetter = resetter
  MaxConns = 3
  MaxResets = 1
PROPERTIES ResetEndsFallback
