SPECIFICATION DashboardSpec
CONSTANTS
    m1 = m1
    m2 = m2
    Unset = Unset
    NoCursor = NoCursor
    Merchants <- MCMerchants
    Kinds <- MCKinds
    AskedFilters <- MCAskedFilters
    MaxPayments = 3
    MaxTime = 1
    DayLength = 1
    PageSize = 1
    MaxLoads = 2
SYMMETRY MCSymmetry
INVARIANTS
    DashboardTypeOK
    EachShownOnce
    VolumesAddUp
    ScreenIsOneListing
CHECK_DEADLOCK FALSE
