SPECIFICATION Spec

CONSTANTS
  Slots = {3, 10}
  Ranges <- MCRanges

INVARIANTS
  Resolves
  Balanced
