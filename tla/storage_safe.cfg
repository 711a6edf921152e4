CONSTANTS
  epm = epm
  super = super
  cat = cat
  SectorSz = 4
  Sectors = 6
  Epm = epm
  Places = {epm, super, cat}
  Super = super
  Address <- MCAddress
  Size <- MCSize
  Magic = Magic
  Values = {v1, v2}
  Torn = Torn
  NoCall = NoCall
  None = None
  MaxFaults = 1
  MaxLosses = 1
SPECIFICATION FairSpec
INVARIANTS InStep
PROPERTIES Implements OnlyEpmWritten HealthyNotFormatted TransfersEnd
