CONSTANTS
  none = none
  root = root
  etc = etc
  journal = journal
  dir = dir
  file = file
  Names <- MCNames
  NoName = none
  Root = root
  Parent <- MCParent
  Folders <- MCFolders
  Total = 9
  MaxCrashes = 2
SPECIFICATION FairSpec
INVARIANTS TypeOK NamesLead FreeAlmostExact PromiseKept
PROPERTY Installed
