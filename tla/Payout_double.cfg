SPECIFICATION Spec
CONSTANTS
    Transfer = {t1}
    Request = {r1, r2}
    Callback = {c1}
    AutoKey = auto
    OpsKey = {o1}
    MaxAttempts = 2
    MaxFaults = 0
INVARIANT NoDoublePayout
