SPECIFICATION Spec
CONSTANTS
  KeyCount = 2
  NumHits = 4
  Chart <- MCChart
  HitAccuracy = 5
  None = None
  Times <- MCTimes
  InputKeys <- MCInputKeys
  MaxBackStep = 150
INVARIANTS
  TypeOK
  TallyAgrees
  OpenHoldAttached
  TargetsAreHits
  NothingOverdue
  MissesAreExplained
  PassedAreJudged
  ComboRule
PROPERTIES
  JudgementsAreFinal
  OnePressOneHead
  OneReleaseOneTail
  NoteSelection
  EmptyPressHasNoNote
