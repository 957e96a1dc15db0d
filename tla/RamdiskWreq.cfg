SPECIFICATION FairSpec
CONSTANTS
  Clients = {c1, c2}
  Zero = Zero
  SectorSize = 2
  Sectors = 2
INVARIANTS
  TypeOK
  NothingLeaked
  BufferOutlivesBios
  InOneRequest
PROPERTIES
  StoresRequests
  BiosEnd
