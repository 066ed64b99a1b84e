SPECIFICATION FairSpec
CONSTANTS
    c1 = c1  c2 = c2  p = p
    f1 = f1  g1 = g1  f2 = f2  fp = fp
    s1 = s1
    Fn <- MCFn
    Code <- MCCode
    Bytecode <- MCBytecode
    ExecOf <- MCExecOf
    Sites = {s1}
    SiteOwner <- MCSiteOwner
    Entry = {e1, e2, e3, e4}
    MaxEntries = 3
    BloomMask <- MCBloomMask
    InterpEntry <- MCInterpEntry
    BaselineEntry <- MCBaselineEntry
    PtrMod = 8
    PatchBias <- DistinctBias
    SlowPath = SlowPath
    NoCall = NoCall
INVARIANTS
    TypeOK
    StubPtrCurrent
    IcListExact
    OwnedOnce
    RunningStubOwned
    ChainMirrorsList
    SiteConsistent
    ProfileSound
PROPERTIES
    CallCompletes
    DispatchSpec
