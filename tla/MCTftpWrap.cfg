SPECIFICATION TftpFairSpec
CONSTANTS
  nblocks = 4
  BlkMod = 4
  NRETRIES = 2
  Sess = {1}
  ShortReads = FALSE
  MaxDup = 1
  MaxResend = 1
CHECK_DEADLOCK FALSE
INVARIANTS
  GetComplete
