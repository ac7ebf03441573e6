SPECIFICATION Spec
CONSTANTS
  Loaders = {l1, l2}
  Sources = {1}
  MaxVersion = 2
  LastModified <- DistinctTimes
INVARIANTS CachedIsCurrent
