SPECIFICATION Spec

CONSTANTS
  FifoSize = 3
  Char = {c1, c2}
  Nul = nul
  GuestKeepsUp = FALSE

PROPERTIES
  InputKept
