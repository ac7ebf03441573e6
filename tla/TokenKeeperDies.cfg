SPECIFICATION Spec
CONSTANTS
  Tunnels = {t1}
  Startup = startup
  Keeper = keeper
  AccessTtls = {5, 99}
  RefreshTtl = 6
  LongestTtl = 50
  RenewRetryDelay = 2
  MinInterval = 1
  MaxRetryDelay = 4
  MaxTime = 7
  MaxIssued = 3
  MaxRestarts = 0
CHECK_DEADLOCK FALSE
INVARIANTS KeeperLives
