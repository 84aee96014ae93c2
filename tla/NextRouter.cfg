SPECIFICATION RouterSpec
CONSTANTS
    Users = {u1, u2}
    None = None
    Passwords = {p1, p2}
    BootstrapEmail = u1
    Sessions = {s1, s2, s3}
    Tokens = {t1, t2, t3, t4}
    Links = {l1, l2}
    RateLimit = 1
    Orgs = {o1}
    OrgNames = {n1, n2}
    Invitations = {i1, i2}
    Prices = {c1}
    Amounts = {1, 2}
    Subscriptions = {b1, b2}
    Keys = {k1, k2}
    MaxLots = 2
    Horizon = 1
    Accounts = {a1}
    Providers = {"local", "other"}
    Withdrawals = {w1, w2}
    Events = {e1}
SYMMETRY Symmetry
INVARIANTS
    SessionsFollowAccount
    EntitlementsBacked
    LotsMatchLedger
    WalletCovered
PROPERTIES
    KeepsSuperadmin
    OwnerDecides
    SessionFamilies
CHECK_DEADLOCK FALSE
