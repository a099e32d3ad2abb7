SPECIFICATION FairSpec
CONSTANTS
    d1 = d1
    f1 = f1
    z1 = z1
    Deposit = {d1, f1, z1}
    Foreign = {f1}
    Refused = {z1}
    Runner = {w1, w2}
    Span = 1
    MaxBlock = 2
    MaxFaults = 1
INVARIANT CursorSafe
INVARIANT ReportsFinal
PROPERTY EveryDepositReported
