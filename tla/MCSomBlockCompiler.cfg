CONSTANTS
    MaxDepth = 4
    MaxVars = 1
SPECIFICATION Spec
INVARIANTS ThrowChainSelfMutable ParentHasUpvalue OwnReturnCloses
