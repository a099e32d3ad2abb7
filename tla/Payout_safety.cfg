SPECIFICATION Spec
CONSTANTS
    Transfer = {t1}
    Request = {r1, r2}
    Callback = {c1, c2}
    AutoKey = auto
    OpsKey = {o1}
    MaxAttempts = 2
    MaxFaults = 2
INVARIANT PaidOnlyIfFunded
INVARIANT AnswerTruthful
INVARIANT RowsAgree
PROPERTY ImplementsContract
