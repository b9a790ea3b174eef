CONSTANTS
    D = 2
    T = 2
    W = 3
    MaxData = 10
    MayFail = TRUE
SPECIFICATION Spec
INVARIANTS TypeOK TasksDisjoint LowerLevelsComplete OnlyTreeWritten ConsumerReads
PROPERTIES Terminates
