CONSTANTS
  Entries = 4
  Group = 2
  Page <- MCPage
  Asid = {0, 1}
  Frame <- MCPage
  Value = {0, 1}
  InitialMemory <- MCInitialMemory
  DLines = 2
  ILines = 4
  Guests <- ProbeGuests
SPECIFICATION Spec
INVARIANT ProbeMatches
CHECK_DEADLOCK FALSE
