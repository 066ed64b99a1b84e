SPECIFICATION Spec
CONSTANTS
    Arenas = {a1, a2}
    Permanent = {x}
    AllocSize = 2
    RegionSize = 8
    TagMod = 32
    MaxOps = 6
    None = None
SYMMETRY ArenaSymmetry
INVARIANTS
    PagesPartitioned
    GrowExclusive
PROPERTIES PagesSpec
