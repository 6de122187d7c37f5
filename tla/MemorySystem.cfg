CONSTANTS
  Entries = 4
  Group = 2
  Page <- MCPage
  Asid = {0, 1}
  Frame <- MCPage
  Value = {0, 1}
  InitialMemory <- MCInitialMemory
  DLines = 2
  ILines = 4
  Guests <- MCGuests
SPECIFICATION Spec
INVARIANT TypeOK
PROPERTY ImplementsMemory
PROPERTY StaleOnlyByDMTC0
PROPERTY OnlyGranted
PROPERTY RefillEndsMisses
PROPERTY WiredKept
PROPERTY StopsOnlyAsKnown
CHECK_DEADLOCK FALSE
