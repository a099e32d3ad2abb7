SPECIFICATION MCFairSpec
CONSTANTS
    a = a
    b = b
    c = c
    d = d
    s = s
    treasury = treasury
    x1 = x1
    Transfer = {a, b, c, d}
    Address = {c, d}
    Stranger = {s}
    Treasury = treasury
    Tx = {x1, x2}
    Content <- Contents
    Runner = {w1}
    Limit = 1
    Unit = 2
    Expected = 10
    Tolerance = 1
    OverpayMax = 13
    AutoAdjust = TRUE
    MaxSlot = 2
    MaxFaults = 1
CHECK_DEADLOCK FALSE
INVARIANT CursorSafe
INVARIANT ReportedIsFunded
INVARIANT ToleranceHonoured
PROPERTY EveryPaymentReported
