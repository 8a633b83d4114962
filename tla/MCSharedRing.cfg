CONSTANTS
  Size = 11
  FrameSizes <- MCFrameSizes
  CopyLimit = 9
  EagerWrap = TRUE
  MaxFrames = 5
SPECIFICATION MCSpec
INVARIANTS StatusWordsOnly UnreadIntact
PROPERTIES DrainedAccepts EventuallyCopied ImplementsQueue
CHECK_DEADLOCK FALSE
