SPECIFICATION Spec
CONSTANTS
  Tools = {a, b}
  MaxCalls = 4
  MaxLives = 3
SYMMETRY Interchangeable
INVARIANTS
  TranscriptIsWhole
  EffectsOnce
CHECK_DEADLOCK FALSE
