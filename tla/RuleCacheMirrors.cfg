SPECIFICATION Spec
CONSTANTS
  Loaders = {l1}
  Sources = {1, 2}
  MaxVersion = 2
  LastModified <- SharedTimes
INVARIANTS CachedIsCurrent
