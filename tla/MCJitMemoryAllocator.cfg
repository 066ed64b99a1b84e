SPECIFICATION Spec
CONSTANTS
    SteppingArray <- MCSteppingArray
    PageSize = 8
    HeaderSize = 1
    LargeHeader = 2
    OsPage = 4
    RangePages = 2
    Large = {l1, l2}
    Anchor = Anchor
    Null = Null
    Sizes = {1, 3, 4, 7}
    MaxPages = 3
SYMMETRY LargeSymmetry
INVARIANTS
    CellsPartitioned
    AllocListsExact
    MemoryAccounted
PROPERTIES
    TightestFit
