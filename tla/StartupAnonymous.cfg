SPECIFICATION Spec

CONSTANTS
  Inputs <- MCInputs
  CheckTimeout = 10
  HandshakeTimeout = 3
  RequestTimeout = 5
  MaxAddresses = 1
  MaxConns = 1

PROPERTY AnonymousIsChecked

CHECK_DEADLOCK FALSE
