CONSTANTS
  Blocks = {b1, b2}
  MaxUsed = 2
  Callers = {c1, c2}
  Vectors = {3, 14, 32, 50}
  Depth = 2
  Faults = 2
  Tries = 2
  kSchedProcessLimitPerTeam = 2
  PtEntries = 2
  Signatures <- MCSignatures
  Tables <- MCTables
  Texts <- MCTexts
  ListAt = 4
  Stride = 24
  IdAt = 8
  Madts <- MCMadts
  Pages = {1, 2, 3, 4}
  Ticks = {0, 1, 2, 3, 4, 5}
SPECIFICATION Spec
INVARIANTS
  ProcessKept
  TablesRead
PROPERTIES
  TickEnds
