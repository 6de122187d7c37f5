SPECIFICATION Spec

CONSTANTS
  FifoSize = 2
  Char = {c1}
  Nul = nul
  Batch = 1
  GuestCalls <- AllCalls

PROPERTIES
  ImplementsUart
  GuestRuns
  ShutdownEnds
