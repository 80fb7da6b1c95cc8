SPECIFICATION Spec
CONSTANTS
    c1 = c1
    c2 = c2
    c3 = c3
    c4 = c4
    k1 = k1
    k2 = k2
    b1 = b1
    b2 = b2
    NoKey = NoKey
    NoRecord = NoRecord
    Purges = TRUE
    Calls <- MCCalls
    Keys <- MCKeys
    Bodies <- MCBodies
SYMMETRY MCSymmetry
INVARIANTS
    TypeOK
    ReplaysAreGenuine
    KnownKeysWriteNothing
PROPERTIES
    LiveRecordsAreFinal
CHECK_DEADLOCK FALSE
