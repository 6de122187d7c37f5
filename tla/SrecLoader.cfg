SPECIFICATION Spec

CONSTANTS
  MemSize = 2
  Segment = 4
  Types = {0, 3, 5, 7}
  Counts = {4, 6, 7}
  Addresses = {3, 4, 6, 9}
  Bytes = {1, 2}
  MaxFile = 13

INVARIANT LoadsImage
