SPECIFICATION Spec
CONSTANTS
  Tunnels = {t1, t2}
  Startup = startup
  Keeper = keeper
  AccessTtls = {2}
  RefreshTtl = 3
  LongestTtl = 50
  RenewRetryDelay = 2
  MinInterval = 1
  MaxRetryDelay = 4
  MaxTime = 2
  MaxIssued = 2
  MaxRestarts = 1
CHECK_DEADLOCK FALSE
SYMMETRY TunnelSymmetry
INVARIANTS RenewalsExclusive
PROPERTIES RefreshTokenOnce RenewalIsNeeded RetryCarriesNewToken
