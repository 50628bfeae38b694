SPECIFICATION Spec
CONSTANTS
    Blocks = 8
    Groups = 1
    FirstBgd = 2
    System = {0, 1, 2, 3}
    BlockSize = 4
    SectorSize = 4
    Direct = 2
    File = {"b", "c", "e"}
    Dir = {"d"}
    Missing = "none"
    Stray = 5
    InodeAt <- Inodes
    Records <- LooseRecords
    FreeAt <- FewFree
    Buffers <- ThreeBytes
    MaxSize = 11
    MaxOutages = 1
INVARIANTS NoSharedBlock CountsSound
PROPERTY MetadataKept
CHECK_DEADLOCK FALSE
