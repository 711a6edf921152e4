CONSTANTS
  Callers = {c1}
  Sizes = {160}
  Base = 4096
  Unwritten <- Leftovers
  MaxBlocks = 3
  HibSz = 53
  PadOff = 37
  PadLen = 64
  MagicSz = 3
SPECIFICATION HeapSpec
INVARIANTS HeapTypeOK PointersAndBlocks PointersFresh
PROPERTY ChecksumLocal
