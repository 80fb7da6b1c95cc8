SPECIFICATION Spec
CONSTANTS
    c1 = c1
    c2 = c2
    c3 = c3
    k1 = k1
    k2 = k2
    shop = shop
    cafe = cafe
    alice = alice
    Admin = Admin
    NoKey = NoKey
    NoRecord = NoRecord
    Calls <- MCCalls
    Keys <- MCKeys
    Accounts <- MCAccounts
    Customers <- MCCustomers
    Requests <- MCRequests
    Amounts = {100}
    RefundAmounts = {50}
    MaxPayments = 3
    MaxRefunds = 2
    MaxSubscriptions = 2
    Purges = FALSE
SYMMETRY MCSymmetry
INVARIANTS
    EffectsAreEntitled
    SuccessMeansDone
PROPERTIES
    ImplementsIdempotency
CHECK_DEADLOCK FALSE
