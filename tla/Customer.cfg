SPECIFICATION MCSpec
CONSTANTS
    Tab = {t1, t2}
    MaxSessions = 2
    MaxLostAnswers = 1
    QuoteId = {q1, q2}
    RecipientId = {b1, b2}
    MaxVisits = 2
    MaxOrders = 2
    MaxLost = 1
    r1 = r1
    r2 = r2
    d1 = d1
    Request = {r1, r2, d1}
    Direct = {d1}
    Key = {k1}
    Quote = {q1, q2}
    MaxAccount = 2
    MaxReview = 2
    MaxFaults = 2
    Rate = {98, 100}
    Unlisted = Unlisted
    Form = {f1, f2}
    TolerancePercent = 2
    Ttl = 1
    Stale = 2
    MaxAge = 3
    MaxPayments = 2
    MaxMounts = 3
SYMMETRY Symmetry
CHECK_DEADLOCK FALSE
INVARIANT OneAccount
INVARIANT SignedOutStaysOut
INVARIANT DraftConsistent
INVARIANT OneOrderPerVisit
INVARIANT KycLatest
INVARIANT OneTransferPerKey
INVARIANT AnswersHold
INVARIANT PaidToRecipient
INVARIANT QuoteBacked
INVARIANT PaidOnce
