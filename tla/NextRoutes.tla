----------------------------- MODULE NextRoutes -----------------------------
(***************************************************************************)
(* The contract of the HTTP API: who may call an operation, and whether    *)
(* the call must carry the CSRF token of the session.  Operations that     *)
(* change nothing are left out.                                            *)
(***************************************************************************)

Public       == [auth |-> "public", csrf |-> FALSE]
SessionWrite == [auth |-> "session", csrf |-> TRUE]
AdminWrite   == [auth |-> "admin", csrf |-> TRUE]

IdentityRoutes ==
    [register |-> Public, login |-> Public, verificationRequest |-> Public,
     verificationConfirm |-> Public, forgot |-> Public, reset |-> Public,
     change |-> SessionWrite, refresh |-> SessionWrite, logout |-> SessionWrite,
     logoutAll |-> SessionWrite, googleStart |-> Public, googleCallback |-> Public]

OrganizationRoutes ==
    [create |-> SessionWrite, update |-> SessionWrite, invite |-> SessionWrite,
     accept |-> SessionWrite, refuse |-> SessionWrite, changeMember |-> SessionWrite,
     removeMember |-> SessionWrite, leave |-> SessionWrite]

BillingRoutes ==
    [purchase |-> SessionWrite, subscribe |-> SessionWrite, cancel |-> SessionWrite]

WithdrawalRoutes ==
    [account |-> SessionWrite, request |-> SessionWrite, cancel |-> SessionWrite,
     callback |-> Public]

AdminRoutes ==
    [user |-> AdminWrite, organization |-> AdminWrite, price |-> AdminWrite,
     archive |-> AdminWrite, grant |-> AdminWrite, verify |-> AdminWrite,
     approve |-> AdminWrite]
=============================================================================
