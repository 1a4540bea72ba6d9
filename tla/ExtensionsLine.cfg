SPECIFICATION FairSpec
CONSTANTS
  Models = {m, n}
  Levels = {"high"}
  Reasoning = {m}
  MaxStaged = 3
  MaxLives = 2
INVARIANTS
  CommitsInOrder
  ViewMatchesLane
  DispatchesSeeWholeChanges
PROPERTIES
  FlushSettlesAll
  DrainsEnd
CHECK_DEADLOCK FALSE
