CONSTANTS
  Size = 11
  FrameSizes <- MCFrameSizes
  CopyLimit = 9
  EagerWrap = TRUE
  MaxFrames = 5
SPECIFICATION MCSpec
INVARIANTS AnySizeIsTaken
CHECK_DEADLOCK FALSE
