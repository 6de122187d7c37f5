\* The interpreter with a guest that faults, sleeps and is interrupted.
SPECIFICATION FairSpec
CONSTANTS
  Size = 26
  BootPc = 8
  RefillVec = 11
  GeneralVec = 14
  ErrorEpc = 8
  HandlerOf <- Handlers
  PageOf <- MCPageOf
  MaxPage = 7
  GlobalPages <- SharedText
  Asids = 2
  Entries = 4
  Wired = 1
  CountSize = 26
  Period = 22
  Programs <- MCPrograms
  KernelText <- MCKernelText
INVARIANTS
  TypeOK
  NoDuplicate
PROPERTIES
  ScAtomic
  ImplementsFlow
  WaitWakes
  UserProgress
