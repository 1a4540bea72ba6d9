SPECIFICATION Spec
CONSTANTS
  Sessions = {s1, s2}
  Turns = {t1, t2}
  Requests = {r1, r2}
  Engine = "pi-harness"
  None = None
  MaxOpens = 2
SYMMETRY Interchangeable
INVARIANTS
  OneOwner
  OnlyNewestUnsettled
  AncestorsPersist
PROPERTIES
  SettledIsFrozen
  SandboxKeptForResume
  ImplementsLedger
CHECK_DEADLOCK FALSE
