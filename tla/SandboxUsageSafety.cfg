SPECIFICATION Spec
CONSTANTS
  Lifetime = 2
  MaxTime = 4
  MaxCalls = 4
INVARIANTS
  IntervalsAreDisjoint
  RunningIsMetered
  CertainWasWatched
CHECK_DEADLOCK FALSE
