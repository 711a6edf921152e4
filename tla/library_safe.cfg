CONSTANTS
  MemSz = 7
  Chars = {0, 37, 65}
  Word = 2
  IntValues = 2048
  LongValues = 1048576
  a = a
  b = b
  Names = {a, b}
  Base <- MCBase
  Sizes = {2, 5}
  Texts <- MCTexts
  kIPCMsgSize = 2
  SizeOfMsg = 5
  Address = {n, x}
  NoAddress = n
  LongMax = 9
  kAtExitMacDestructors = 3
  kMaxAPInsideSched = 3
  PixelPerLine = 6
  FbSz = 60
  FontSize = 2
  Font <- MCFont
  TextMax = 3
  Platform = 1
  NameRoom = 4
SPECIFICATION StringsSpec
INVARIANTS
  AgreesWithReference
  StringsHoldTheirText
CHECK_DEADLOCK FALSE
