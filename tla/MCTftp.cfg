SPECIFICATION TftpFairSpec
CONSTANTS
  nblocks = 3
  BlkMod = 8
  NRETRIES = 2
  Sess = {1, 2}
  ShortReads = FALSE
  MaxDup = 1
  MaxResend = 1
CHECK_DEADLOCK FALSE
INVARIANTS
  GetComplete
  PutComplete
PROPERTIES
  ClientEnds
