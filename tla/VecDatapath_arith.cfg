SPECIFICATION MSpec
CONSTANTS
  BYTE = 2
  NVREGS = 6
  LANES = 2
  MEM_WORDS = 4
  Accesses <- MemoryAccesses
  Cases <- DatapathCases
INVARIANT MemoryTypeOK
INVARIANT ElementsExact
INVARIANT Resumable
INVARIANT LikeSimultaneous
INVARIANT ScalarLanes
INVARIANT MovesItsBytes
CHECK_DEADLOCK FALSE
