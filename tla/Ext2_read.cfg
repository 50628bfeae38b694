SPECIFICATION Spec
CONSTANTS
    Trees <- BothTrees
    Paths <- AllPaths
    BlockSize = 2
    Direct = 2
    Amounts = {1, 2, 4, 7, 11}
    Hints = {0, 1, 2}
    GroupInodes = {8, 20}
    Groups = 2
INVARIANTS FindsNoOther FindsAll ReadsFile ListsNamed PlacesApart
