SPECIFICATION FairSpec
CONSTANTS
  Procs = {p1, p2}
  None = None
  Smp = FALSE
INVARIANTS
  TypeOK
  Ladder
  Quiesced
  FilePinsDriver
  AutoChain
  WriteSticks
PROPERTIES
  DrivesOwnedPin
  Blinks
  CoreReturns
