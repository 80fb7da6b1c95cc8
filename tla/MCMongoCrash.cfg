SPECIFICATION Spec
CONSTANTS
    s1 = s1
    s2 = s2
    alice = alice
    shop = shop
    shopUSD = shopUSD
    Sessions <- MCSessions
    Accounts <- MCAccounts
    Customers <- MCCustomers
    MerchantOf <- MCMerchantOf
    Methods <- MCMethods
    Amounts <- MCAmounts
    RefundAmounts <- MCRefundAmounts
    MaxPayments = 1
    MaxRefunds = 2
SYMMETRY SessionSymmetry
INVARIANTS
    NothingOwedAtRest
