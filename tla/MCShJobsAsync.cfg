SPECIFICATION FairSpec
CHECK_DEADLOCK FALSE
CONSTANTS
    Modes <- AsyncModes
    NSlots = 2
    MaxForks = 3
INVARIANTS
    AwaitedKept
