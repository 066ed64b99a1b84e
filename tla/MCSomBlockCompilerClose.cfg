CONSTANTS
    MaxDepth = 2
    MaxVars = 1
SPECIFICATION Spec
INVARIANT ScopesClose
