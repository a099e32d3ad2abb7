SPECIFICATION FairSpec
CONSTANTS
    Request = {r1, r2, r3}
    Key = {k1, k2}
    Hash = {h1, h2}
    Response = {accepted, rejected}
    Faults = {"crash", "store_failure", "purge"}
CHECK_DEADLOCK FALSE
INVARIANT SingleOwner
INVARIANT OneResponsePerKey
INVARIANT AtMostOneExecution
PROPERTY EveryCallAnswered
