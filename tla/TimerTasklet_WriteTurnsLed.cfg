SPECIFICATION Spec
CONSTANTS
  Procs = {p1}
  None = None
  Smp = FALSE
INVARIANTS
  WriteTurnsLed
