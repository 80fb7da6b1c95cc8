SPECIFICATION Spec
CONSTANTS
    shopUSD = shopUSD
    shopEUR = shopEUR
    cafeEUR = cafeEUR
    Accounts <- MCAccounts
    MerchantOf <- MCMerchantOf
    CurrencyOf <- MCCurrencyOf
    Amounts <- MCAmounts
    RefundAmounts <- MCRefundAmounts
    MaxPayments = 2
    MaxRefunds = 2
INVARIANTS
    TypeOK
    RefundsAddUp
    CreditMatchesStatus
    Reconciled
    FeeDriftBounded
    BooksBalance
PROPERTIES
    PaymentsOnlyMoveForward
CHECK_DEADLOCK FALSE
