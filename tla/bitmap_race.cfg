CONSTANTS
  Callers = {c1, c2}
  Sizes = {1, 3}
  Base = 1
  Unwritten <- Leftovers
  MaxBlocks = 2
SPECIFICATION Spec
INVARIANT TwiceOnlyInARace
SYMMETRY CallerSymmetry
