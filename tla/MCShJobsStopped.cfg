SPECIFICATION FairSpec
CHECK_DEADLOCK FALSE
CONSTANTS
    Modes <- InteractiveModes
    NSlots = 2
    MaxForks = 3
PROPERTIES
    StopEndsWait
