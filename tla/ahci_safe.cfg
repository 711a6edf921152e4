CONSTANTS
  super = super
  cat = cat
  Torn = Torn
  NoCall = NoCall
  None = None
  Machines <- MCMachines
  Buses = {0, 1}
  DeviceField = 2
  ErrPort = 1
  Slots = 2
  Header = 2
  Room = 1
  Step = 1
  SectorSz = 3
  IdentifySize = 6
  Callers = {kernel}
  Places = {super, cat}
  Address <- MCAddress
  Size <- MCSize
  Values = {v1}
  MaxFaults = 1
  MaxLosses = 1
SPECIFICATION FairSpec
INVARIANTS TablesIntact FindsDrive
PROPERTIES Implements TransfersEnd
