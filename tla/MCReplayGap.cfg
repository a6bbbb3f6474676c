SPECIFICATION Spec
CONSTANTS
  KeyCount = 2
  NumHits = 3
  Chart <- MCChart
  HitAccuracy = 5
  None = None
  Threaded = TRUE
  Mirror = TRUE
  InputOffset <- MCInputOffset
  StartPosition <- MCStartPosition
  FrameTimes <- MCFrameTimes
  LongTimes <- MCLongTimes
  LastShortFrame = 402
  GapTimes <- MCGap
  Corrections <- MCNoCorrection
  MaxQueued = 2
INVARIANTS
  ReplayAgrees
CHECK_DEADLOCK FALSE
