SPECIFICATION RelatedSpec
CONSTANTS
    Transfer = {t1, t2}
    BaseTransfer = {t1, t2}
    Tx = {x1, x2}
    Index = {0, 1}
    Amount = {10, 12}
    Quote = 10
    Fee = 2
    Tolerance = 1
    OverpayMax = 13
    AutoAdjust = TRUE
    Customer = {c1}
    Batched = TRUE
    MaxDeposits = 3
    PayoutState = {}
CHECK_DEADLOCK FALSE
PROPERTY DepositCredited
