SPECIFICATION FeeSpec
CONSTANTS
    paid = paid
    declined = declined
    junk = junk
    stray = stray
    w1 = w1
    w2 = w2
    Payments <- MCPayments
    AmountOf <- MCAmountOf
    Junk <- MCJunk
    Strays <- MCStrays
    FeeWorkers <- MCWorkers
    Surcharges <- MCSurcharges
    FeeBatch = 2
    MaxFeeFaults = 3
INVARIANTS
    FeeTypeOK
    NoEventLost
    OnlyPublishedPay
PROPERTIES
    FirstFeeStays
    PublishedGetsFee
    QueueDrains
CHECK_DEADLOCK FALSE
