SPECIFICATION AnsweringSpec
CONSTANTS
  Preemptive = FALSE
  MaxChanges = 1
  Sources = {1}
  MaxVersion = 1
  LastModified <- DistinctTimes
CHECK_DEADLOCK FALSE
PROPERTIES AutoRecovers
