CONSTANTS
    Keys = {1, 2, 3, 4, 5}
    HashFunctions <- MCHashFunctions
    MaxRounds = 3
    MaxSize = 8
    BootstrapSize = 2
    MaxClasses = 2
    MaxMethods = 3
SPECIFICATION FairSpec
CHECK_DEADLOCK FALSE
INVARIANTS TablesPlaced MethodsFound GivesUpOnlyWhenFull
PROPERTY InsertionEnds
