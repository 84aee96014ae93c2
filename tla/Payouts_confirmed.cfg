SPECIFICATION MCSpec
CONSTANTS
    w2 = w2
    Withdrawals = {w1, w2}
    Workers = {k1}
    Reconcilers = {}
    Amount <- UnitAmount
    MaxIncome = 1
    MaxAttempts = 2
    BatchLimit = 1
    MaxCrashes = 0
    Hazards = {"cancel_claimed"}
    None = None
INVARIANTS
    ConfirmedPaymentIsRecorded
CHECK_DEADLOCK FALSE
