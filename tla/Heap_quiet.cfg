SPECIFICATION Spec
CONSTANTS
    HeapSize = 57
    Word = 4096
    Sizes = {4, 36}
    Images <- EdgeImages
INVARIANTS TypeOK Disjoint HeaderIntact NoResidue
PROPERTY ImplementsStore
CHECK_DEADLOCK FALSE
