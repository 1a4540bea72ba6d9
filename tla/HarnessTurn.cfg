SPECIFICATION Spec
CONSTANTS
  Tools = {a, b}
  Inputs = {i}
  MaxUsage = 3
  MaxLives = 2
  MaxFaults = 1
SYMMETRY Interchangeable
INVARIANTS
  AttemptsBalance
  ToolsOnce
  InputsLogged
  NeverMisfits
  PromptFollowsContext
CHECK_DEADLOCK FALSE
