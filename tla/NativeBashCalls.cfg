SPECIFICATION FairSpec
CONSTANTS
  Tools = {a, b}
  None = None
  Pausable = TRUE
  MaxBoxes = 2
  MaxLives = 3
INVARIANTS
  OncePerSandbox
  OneDeathNeverReplays
  BoxesAreAccountedFor
PROPERTIES
  MeterStopsWithBox
  CallsEnd
CHECK_DEADLOCK FALSE
