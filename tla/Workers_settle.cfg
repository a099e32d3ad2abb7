SPECIFICATION FairSpec
CONSTANTS
    Transfer = {t1, t2}
    BaseTransfer = {t2}
    Worker = {w1, w2}
    DispatchMax = 2
    SweepRequired = TRUE
    MaxStalls = 1
    Sweeper = {s1, s2}
    SweepMax = 2
    SlowSweepers = TRUE
    MaxFaults = 1
CHECK_DEADLOCK FALSE
INVARIANT RetryBudget
INVARIANT SweptTruthful
PROPERTY EventSettles
PROPERTY SettlementResolves
