SPECIFICATION Spec
CONSTANTS
  Delay = 2
  Buffer = 4
  None = None
INVARIANTS
  NoReportAfterFree
