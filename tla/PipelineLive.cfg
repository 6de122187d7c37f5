SPECIFICATION FairSpec

CONSTANTS
  Size = 12
  BootPc = 0
  RefillVec = 7
  GeneralVec = 9
  ErrorEpc = 0
  FetchMapped = {}
  Programs <- CorePrograms
  MemoryDelay = 1
  DcacheDelay = 1
  IcacheDelay = 1
  MciDelay = 1
  EpilogueStall = 2

PROPERTIES
  Progress
  InterruptServed
