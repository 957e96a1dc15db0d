SPECIFICATION Spec
CONSTANTS
  Procs = {p1, p2}
  Channels = 1
  Conversions = 2
  Failures = 1
  Bad = Bad
SYMMETRY AnyProcess
INVARIANTS
  TypeOK
  NoFault
  SensorOn
  NotStale
