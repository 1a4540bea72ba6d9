SPECIFICATION Spec
CONSTANTS
  Tools = {a}
  None = None
  Pausable = FALSE
  MaxBoxes = 2
  MaxLives = 3
INVARIANT NeverRunsTwice
CHECK_DEADLOCK FALSE
