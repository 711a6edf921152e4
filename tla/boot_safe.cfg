CONSTANTS
  Images <- MCImages
  Chunk = 2
  Cells = 12
  MaxFailures = 2
SPECIFICATION FairSpec
INVARIANTS TypeOK HandoverWhole ImageWhole
PROPERTIES BootEnds
