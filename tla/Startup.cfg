SPECIFICATION AnsweringSpec

CONSTANTS
  Inputs <- MCInputs
  CheckTimeout = 10
  HandshakeTimeout = 3
  RequestTimeout = 5
  MaxAddresses = 4
  MaxConns = 1

INVARIANTS
  NothingBeforeCheck
  StartsAsReported
  FallsBackInTime
  FileNeverOverrides

PROPERTIES
  StartupEnds
  ShutdownEnds

CHECK_DEADLOCK FALSE
