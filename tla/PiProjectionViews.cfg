SPECIFICATION HistorySpec
CONSTANTS
  Lanes = {main, other}
  MaxEntries = 3
  MaxMetadata = 1
  MaxMoves = 2
INVARIANTS
  SnapshotsBuild
  ContextsAgree
  AnswersStand
CHECK_DEADLOCK FALSE
