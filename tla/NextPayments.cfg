SPECIFICATION Spec
CONSTANTS
    o1 = o1
    o2 = o2
    s1 = s1
    l1 = l1
    Payments = {o1, o2, s1, l1}
    Provider <- ProviderOf
    Amount = 2
    CheckoutKeys = {k1, k2}
    RefundKeys = {r1, r2}
    Bodies = {b1}
    Servers = {n1, n2}
    Nothing = Nothing
SYMMETRY Symmetry
CONSTRAINT OneDirect
INVARIANTS
    PaidIsCollected
    RefundsMatchRecords
    RecordsAgree
PROPERTIES
    NoStaleAnswer
CHECK_DEADLOCK FALSE
