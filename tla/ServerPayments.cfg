SPECIFICATION MCSpec
CONSTANTS
    o1 = o1
    o2 = o2
    r1 = r1
    r2 = r2
    r3 = r3
    u2 = u2
    Grants = {g1, g2}
    Orders = {o1, o2}
    Uses = {u1, u2}
    Refunds = {r1, r2, r3}
    Requests = {b1}
    Credits = 2
    Horizon = 2
    Amount = 3
    Callers = {c1}
    RefundOf <- AskedRefunds
    None = None
SYMMETRY Symmetry
INVARIANTS
    BookedOnce
    CreditsConserved
    RefundsMatchBooks
    ActivationsArePaid
CHECK_DEADLOCK FALSE
