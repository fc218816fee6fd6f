SPECIFICATION FairSpec
CONSTANTS
  Old = Old
  Blank = Blank
  Garbage = Garbage
  Pages <- MCPages
  FlashSectors = 2
  RamPages = 16
  Lengths = {0, 5, 18, 33}
  Images <- MCImages
  OldFlash <- MCOldFlash
  MaxFaults = 2
  MaxRuns = 3
PROPERTIES
  RunEnds
  Recovers
CHECK_DEADLOCK FALSE
