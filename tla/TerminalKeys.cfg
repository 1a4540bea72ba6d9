SPECIFICATION FairSpec
CONSTANTS
  Sessions = {s, u}
  First = s
  MaxRuns = 2
  MaxEvents = 2
  MaxObjects = 2
INVARIANTS
  TurnsAreWhole
  ExitWasAnnounced
PROPERTIES
  StopsArrive
CHECK_DEADLOCK FALSE
