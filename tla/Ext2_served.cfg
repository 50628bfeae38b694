SPECIFICATION ServedSpec
CONSTANTS
    Blocks = 9
    Groups = 1
    FirstBgd = 2
    System = {0, 1, 2, 3}
    BlockSize = 4
    SectorSize = 2
    Direct = 3
    File = {"a", "b", "c"}
    Dir = {"d"}
    Missing = "none"
    Stray = 4
    InodeAt <- Inodes
    Records = {}
    FreeAt <- OneGroup
    Buffers <- LongBuffers
    MaxSize = 8
    MaxOutages = 2
INVARIANT SystemIntact
PROPERTY ImplementsStore
CHECK_DEADLOCK FALSE
