SPECIFICATION FairSpec
CONSTANTS
  Delay = 2
  Buffer = 8
  None = None
INVARIANTS
  TypeOK
  Settled
  NoFault
  NothingLeft
  CaughtUp
PROPERTIES
  Debounced
  StableKeyShown
