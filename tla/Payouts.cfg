SPECIFICATION MCSpec
CONSTANTS
    w2 = w2
    Withdrawals = {w1, w2}
    Workers = {k1, k2}
    Reconcilers = {r1}
    Amount <- UnitAmount
    MaxIncome = 1
    MaxAttempts = 2
    BatchLimit = 2
    MaxCrashes = 2
    Hazards = {"lost_reply", "refusal", "deactivation", "slow_worker", "cancel_claimed", "suspension"}
    None = None
INVARIANTS
    LedgerMatchesStatus
    PaidOnlyByProvider
    ContactOnlyAfterApproval
    OutboxTellsOutcome
    NoLedgerAnomaly
    ReturnedIsNotPaid
PROPERTIES
    OnlyRefundsOverdraw
    FinalIsFinal
    KeepsContract
    ApprovedIsResolved
CHECK_DEADLOCK FALSE
