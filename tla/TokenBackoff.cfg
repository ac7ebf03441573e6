SPECIFICATION Spec
CONSTANTS
  Tunnels = {t1}
  Startup = startup
  Keeper = keeper
  AccessTtls = {10}
  RefreshTtl = 20
  LongestTtl = 50
  RenewRetryDelay = 2
  MinInterval = 1
  MaxRetryDelay = 4
  MaxTime = 10
  MaxIssued = 2
  MaxRestarts = 0
CHECK_DEADLOCK FALSE
PROPERTIES BackoffKept
