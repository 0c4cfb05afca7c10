SPECIFICATION FairSpec
CHECK_DEADLOCK FALSE
CONSTANTS
    Modes <- MC_Modes
    NSlots = 2
    MaxForks = 3
INVARIANTS
    JobInv
    NamesHold
    StatusReal
PROPERTIES
    WaitReturns
    TrapRuns
