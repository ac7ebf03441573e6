SPECIFICATION Spec
CONSTANTS
  Inputs <- MCInputs
  Labels <- MCLabels
  Lowered <- MCLowered
  Digits <- MCDigits
  Odd <- MCOdd
  Ipv6 <- MCIpv6
  Barred <- MCBarred
  List <- MCList
  Custom <- MCCustom
  Chunk = 4
  MaxHead = 22
  MaxResponse = 10
CHECK_DEADLOCK FALSE
INVARIANTS LimitIsOnHead DatagramsInverse OnlyHttpTargets
