SPECIFICATION FairSpec
CONSTANTS
  Preemptive = FALSE
  MaxChanges = 2
  Sources = {1, 2}
  MaxVersion = 2
  LastModified <- DistinctTimes
CHECK_DEADLOCK FALSE
INVARIANTS GlobalStays
PROPERTIES RulesInOrder ImplementsPromise StaleTasksEnd HotReload
