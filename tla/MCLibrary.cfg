SPECIFICATION Spec
CONSTANTS
  Files = {1, 2}
  Versions <- MCVersions
  Size <- MCSize
  Keys = {1, 2}
  DifficultyKey <- MCDifficultyKey
  Savers = {"scan", "later"}
  CompactMin = 2
  MaxEvents = 3
INVARIANTS
  TypeOK
  NotesAreRight
  NothingUnsaved
