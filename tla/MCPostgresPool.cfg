SPECIFICATION Spec
CONSTANTS
    s1 = s1
    s2 = s2
    alice = alice
    shop = shop
    shopUSD = shopUSD
    Sessions <- MCSessions
    Accounts <- MCAccounts
    Customers <- MCCustomers
    MerchantOf <- MCMerchantOf
    Methods <- MCMethods
    Amounts <- MCAmounts
    RefundAmounts <- MCRefundAmounts
    PoolSize = 2
    MaxPayments = 1
    MaxRefunds = 1
PROPERTIES
    MissesAnswered
