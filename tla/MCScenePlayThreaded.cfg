SPECIFICATION Spec
CONSTANTS
  KeyCount = 2
  NumHits = 2
  Chart <- MCShortChart
  HitAccuracy = 5
  None = None
  Threaded = TRUE
  Mirror = TRUE
  InputOffset <- MCInputOffset
  StartPosition <- MCStartPosition
  FrameTimes <- MCFrameTimes
  LongTimes <- MCLongTimes
  LastShortFrame = 267
  GapTimes <- MCGap
  Corrections <- MCSnaps
  MaxQueued = 1
INVARIANTS
  NoStuckLane
  FinishedIsComplete
CHECK_DEADLOCK FALSE
