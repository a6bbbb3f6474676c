SPECIFICATION Spec
CONSTANTS
  KeyCount = 2
  NumHits = 3
  Chart <- MCChart
  HitAccuracy = 5
  None = None
  Threaded = FALSE
  Mirror = TRUE
  InputOffset <- MCInputOffset
  StartPosition <- MCStartPosition
  FrameTimes <- MCFrameTimes
  LongTimes <- MCLongTimes
  LastShortFrame = 402
  GapTimes <- MCGap
  Corrections <- MCForward
  MaxQueued = 0
INVARIANTS
  TypeOK
  ReplayAgrees
  NoStuckLane
  FinishedIsComplete
PROPERTIES
  ResumeMissesNothing
CHECK_DEADLOCK FALSE
