SPECIFICATION Spec
CONSTANTS
  Preemptive = TRUE
  MaxChanges = 2
  Sources = {1}
  MaxVersion = 1
  LastModified <- DistinctTimes
CHECK_DEADLOCK FALSE
INVARIANTS GlobalStays
