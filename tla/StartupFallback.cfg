SPECIFICATION Spec

CONSTANTS
  Inputs <- MCInputs
  CheckTimeout = 10
  HandshakeTimeout = 3
  RequestTimeout = 5
  MaxAddresses = 4
  MaxConns = 1

INVARIANT AlwaysFallsBack

CHECK_DEADLOCK FALSE
