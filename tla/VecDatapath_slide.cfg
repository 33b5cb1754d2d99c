SPECIFICATION MSpec
CONSTANTS
  BYTE = 2
  NVREGS = 6
  LANES = 2
  MEM_WORDS = 4
  Accesses <- NoAccesses
  Cases <- WrappingSlides
INVARIANT SlidesInZeros
CHECK_DEADLOCK FALSE
