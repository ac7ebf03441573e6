SPECIFICATION FairSpec

CONSTANTS
  Inputs <- MCInputs
  CheckTimeout = 10
  HandshakeTimeout = 3
  RequestTimeout = 5
  MaxAddresses = 1
  MaxConns = 1

PROPERTY StartsRightAway

CHECK_DEADLOCK FALSE
