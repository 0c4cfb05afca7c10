SPECIFICATION FairSpec
CHECK_DEADLOCK FALSE
CONSTANTS
  Target = {"all", "x", "y", "d", "s", "r", "def"}
  Default = "def"
  None = "none"
  Invocations <- MCCircular
  StartClock = 1
  MaxClock = 2
  MaxSignals = 1
INVARIANTS
  WalkAcyclic
