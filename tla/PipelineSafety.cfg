SPECIFICATION Spec

CONSTANTS
  Size = 12
  BootPc = 0
  RefillVec = 7
  GeneralVec = 9
  ErrorEpc = 0
  FetchMapped = {2, 3, 4, 5, 6}
  Programs <- AllPrograms
  MemoryDelay = 1
  DcacheDelay = 1
  IcacheDelay = 1
  MciDelay = 1
  EpilogueStall = 2

INVARIANTS
  TypeOK
  FastModeClean
  FaultsDrain
  InOrderRetirement
  PreciseException
  AccessOnce
  BusyWaitSound
  OrderInv
