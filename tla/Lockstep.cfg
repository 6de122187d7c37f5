CONSTANTS
  ByteBits = 1
  ShiftBits = 2
  Reg <- MCReg
  Ra = 2
  Pc <- MCPc
  JumpBits = 3
  MemoryWords <- MCMemoryWords
  DeviceWord <- MCDeviceWord
  Programs <- MCPrograms
  InitialMemory <- MCInitialMemory
SPECIFICATION Spec
INVARIANT TypeOK
INVARIANT NarrowRegisters
INVARIANT UnalignedWord
INVARIANT UnalignedDouble
INVARIANT PathsAgree
PROPERTY OnlyKnownDivergence
CHECK_DEADLOCK FALSE
