SPECIFICATION Spec
CONSTANTS
  Procs = {p1, p2}
  None = None
INVARIANTS
  ExclusiveAccess
