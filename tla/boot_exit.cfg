CONSTANTS
  Images <- MCImages
  Chunk = 2
  Cells = 12
  MaxFailures = 2
SPECIFICATION Spec
INVARIANTS KernelAlone
