CONSTANTS
    NumLocals = 2
    MaxFrames = 3
    MaxClosures = 2
    Values = {0, 1}
    Nil = 0
SPECIFICATION Spec
INVARIANTS OpenListExact OpenInLiveFrame ReturnsFromOwnHome SelfIsHomeSelf
PROPERTY BoxesSpec
VIEW LiveState
