CONSTANTS
  j = j
  w = w
  Paths = {j, w}
  Stamp = j
  kSwapPageFile = w
  MainData = "main_data"
  ForkNames = {"main_data", "rsrc"}
  Data = {"d1", "d2"}
  Streams = {s1, s2}
  Restricts <- MCRestricts
  kNeFSForkSize = 2
  Forks = 3
  Disks <- MCDisks
SPECIFICATION Spec
INVARIANTS
  FilesKept
PROPERTIES
  OnlyWritersWrite
