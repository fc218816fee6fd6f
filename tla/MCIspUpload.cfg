CONSTANTS
  Flash <- MCFlash
  Sizes <- MCSizes
  Rooms <- MCRooms
  BufSize = 4
  Word = 2
  LineLimit = 5
  MaxFaults = 2
SPECIFICATION Spec
INVARIANTS
  SuccessMeansCopied
  FileIsPrefix
CHECK_DEADLOCK FALSE
