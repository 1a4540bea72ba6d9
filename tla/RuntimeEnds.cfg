SPECIFICATION FairSpec
CONSTANTS
  Sessions = {s1, s2}
  Turns = {t1, t2}
  Requests = {r1}
  Engine = "pi-executor"
  None = None
  MaxOpens = 2
PROPERTIES
  AbortClassifies
  CloseEnds
  ExecutionsEnd
CHECK_DEADLOCK FALSE
