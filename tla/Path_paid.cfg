SPECIFICATION MCSpec
CONSTANTS
    Transfer = {t1}
    BaseTransfer = {t1}
    Request = {r1, r2}
    Callback = {}
    AutoKey = auto
    OpsKey = {o1}
    MaxAttempts = 1
    Worker = {w1, w2}
    DispatchMax = 2
    SweepRequired = TRUE
    MaxStalls = 1
    Sweeper = {s1}
    SweepMax = 1
    SlowSweepers = FALSE
    MaxFaults = 1
CHECK_DEADLOCK FALSE
INVARIANT NoLostPayout
INVARIANT SweptBeforePayout
PROPERTY FundedIsPaid
