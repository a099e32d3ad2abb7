SPECIFICATION MCSpec
CONSTANTS
    MaxTransfer = 2
    Solana = {2}
    Run = {x1, x2}
    Triggered = {x1}
    Detail = {d1, d2}
    Own = {d2}
    PageSize = 1
    MaxFaults = 1
CONSTRAINT StillReading
CHECK_DEADLOCK FALSE
INVARIANT MismatchMeansConflict
