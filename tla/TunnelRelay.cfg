SPECIFICATION FairSpec
CONSTANTS
  Window = 2
  MaxChunks = 2
CHECK_DEADLOCK FALSE
INVARIANTS Whole Framed
PROPERTIES Delivered HandlerEnds
