SPECIFICATION FairSpec
CONSTANTS
    Kinds <- PacketSlave
    Sectors = 2
    Words = 2
    Data = {1}
    MaxCount = 2
    MaxFaults = 1
PROPERTY PollEndsWithBusy
CHECK_DEADLOCK FALSE
