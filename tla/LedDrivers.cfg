SPECIFICATION Spec
CONSTANTS
  Procs = {p1, p2}
  None = None
INVARIANTS
  TypeOK
  NothingLeaked
  NodeHasPin
  ExclusiveUnlessByHand
  OffWhenUnbound
