CONSTANTS
  Callers = {c1}
  Sizes = {1, 3}
  Base = 1
  Unwritten <- Leftovers
  MaxBlocks = 3
SPECIFICATION FairSpec
INVARIANTS TypeOK TilesInFront
PROPERTIES HeadersGrow RequestReturns Implements
