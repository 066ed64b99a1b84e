SPECIFICATION FairSpec
CONSTANTS
    c1 = c1  c2 = c2  prim = prim
    f1 = f1  f2 = f2  fprim = fprim
    s1 = s1  s2 = s2  s3 = s3
    Fn = {f1, f2, fprim}
    Code = {c1, c2, prim}
    Bytecode = {c1, c2}
    ExecOf <- MCExecOf
    Sites = {s1, s2, s3}
    SiteOwner <- MCSiteOwner
    Hoisted = {s1, s3}
    At <- MCAt
    InterpEntry <- MCInterpEntry
    BaselineEntry <- MCBaselineEntry
    CodeBlockAt <- MCCodeBlockAt
    BytecodePtr <- MCBytecodePtr
    PtrMod = 16
    MaxDepth = 2
    None = None
INVARIANTS
    CachedPtrCurrent
    ListsExact
    CompiledOnce
PROPERTIES
    OsrKeepsBytecode
    PatchingEnds
    DispatchSpec
