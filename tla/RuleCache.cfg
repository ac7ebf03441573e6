SPECIFICATION Spec
CONSTANTS
  Loaders = {l1}
  Sources = {1, 2}
  MaxVersion = 3
  LastModified <- DistinctTimes
INVARIANTS NeverTorn CachedIsCurrent
PROPERTIES UnchangedNotDownloaded
