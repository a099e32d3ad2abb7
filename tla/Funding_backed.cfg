SPECIFICATION Spec
CONSTANTS
    Transfer = {t1, t2}
    BaseTransfer = {t1, t2}
    Tx = {x1, x2}
    Index = {0, 1}
    Amount = {8, 9, 12, 15}
    Quote = 10
    Fee = 2
    Tolerance = 1
    OverpayMax = 13
    AutoAdjust = TRUE
    Customer = {c1}
    Batched = TRUE
    MaxDeposits = 2
    PayoutState = {"PAYOUT_INITIATED", "PAYOUT_REVIEW_REQUIRED"}
CHECK_DEADLOCK FALSE
SYMMETRY Symmetry
INVARIANT CreditedOnce
INVARIANT PayoutBacked
INVARIANT FundedCompletely
INVARIANT SubmissionTruthful
