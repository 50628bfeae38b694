SPECIFICATION Spec
CONSTANTS
    HeapSize = 25600
    Word = 65536
    Block = 1024
    Name = 16
    FileBuff = 12288
    BinBuff = 2048
    Blocks = {2}
    Hows = {"found", "root"}
    Over = {0, 249}
    Asked = {100, 65530}
    Bounds <- TwoBounds
INVARIANTS HeapSound PrivKept NothingLost Enough
CHECK_DEADLOCK FALSE
