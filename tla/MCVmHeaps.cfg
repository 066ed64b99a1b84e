SPECIFICATION HeapSpec
CONSTANTS
    VmBaseOffset = 16
    UserHeapSize = 11
    VmSize = 3
    VmPageSize = 2
    AllocSize = 4
    Int32Max = 15
    Uint32Mod = 32
    Lengths = {1, 3, 6, 30}
INVARIANTS
    ObjectsDisjoint
    ObjectsMapped
