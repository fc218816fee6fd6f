SPECIFICATION Spec
CONSTANTS
  Old = Old
  Blank = Blank
  Garbage = Garbage
  Pages <- MCPages
  FlashSectors = 2
  RamPages = 4
  Lengths = {0, 3, 16, 21, 33}
  Images <- MCImages
  OldFlash <- MCOldFlash
  MaxFaults = 2
  MaxRuns = 2
INVARIANTS
  IInv
  SuccessMeansInstalled
  CopyIsLegal
  ErasedBeforeCopy
PROPERTY
  KeepsPromise
CHECK_DEADLOCK FALSE
