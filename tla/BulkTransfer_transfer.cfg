CONSTANTS
  Megabytes = {0, 1, 2, 3, 4, 7, 8}
  MB = 4
  WriteAmt = 2
  IntMod = 32
  SizeMod = 64
  WINDOW = 3
SPECIFICATION TransferFairSpec
CHECK_DEADLOCK FALSE
INVARIANTS SuccessMeansAll OneBufferShort
PROPERTY TransferEnds
