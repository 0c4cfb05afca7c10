SPECIFICATION FairSpec
CHECK_DEADLOCK FALSE
CONSTANTS
  Target = {"all", "x", "y", "d", "s", "r", "def"}
  Default = "def"
  None = "none"
  Invocations <- MCInvocations
  StartClock = 1
  MaxClock = 2
  MaxSignals = 1
INVARIANTS
  UpToDate
  QuestionHonest
PROPERTIES
  InterruptedRemoved
  RunsOnce
  NoForkAfterSignal
  NotMadeAfterError
  MakeEnds
