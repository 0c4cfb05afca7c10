SPECIFICATION XargsFairSpec
CHECK_DEADLOCK FALSE
CONSTANTS
  Inputs <- MCInputs
  Options <- MCOptions
  CmdWords = 1
  CmdSize = 2
  NARGS = 6
INVARIANTS
  XargsInv
  StatusTells
  CommandFits
PROPERTIES
  XargsEnds
