SPECIFICATION Spec
CONSTANTS
  Procs = {p1, p2}
  Changes = 1
  Devices = 2
  None = None
  Error = Error
  Axes <- MCAxes
  Light <- MCLight
  Motion <- MCMotion
SYMMETRY AnyProcess
INVARIANTS
  TypeOK
  NoFault
  ReadExact
