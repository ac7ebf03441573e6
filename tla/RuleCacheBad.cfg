SPECIFICATION Spec
CONSTANTS
  Loaders = {l1}
  Sources = {1}
  MaxVersion = 1
  LastModified <- DistinctTimes
INVARIANTS BadNotReused
