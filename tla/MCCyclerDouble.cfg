SPECIFICATION Spec
CONSTANTS
    sub1 = sub1
    sub2 = sub2
    w1 = w1
    w2 = w2
    Subs <- MCSubs
    Offered <- MCOffered
    Workers <- MCOneWorker
    MonthLengths <- MCMonths
    Days <- MCDays
    StartDays <- MCStartDays
    Batch = 1
    MaxCycles = 2
    MaxFaults = 1
INVARIANTS
    ChargedOncePerCycle
CHECK_DEADLOCK FALSE
