SPECIFICATION Spec
CHECK_DEADLOCK FALSE
CONSTANTS
    Modes <- LargeModes
    NSlots = 3
    MaxForks = 3
INVARIANTS
    JobInv
    NamesHold
    StatusReal
