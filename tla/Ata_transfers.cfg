SPECIFICATION FairSpec
CONSTANTS
    Kinds <- Machines
    Sectors = 2
    Words = 2
    Data = {1, 2}
    MaxCount = 2
    MaxFaults = 1
INVARIANTS TransfersExact
PROPERTIES WritesAsAsked Terminates
CHECK_DEADLOCK FALSE
