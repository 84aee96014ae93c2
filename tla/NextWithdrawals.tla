--------------------------- MODULE NextWithdrawals --------------------------
(***************************************************************************)
(* Withdrawals of the Next.js backend: what a user earned, the ledger of   *)
(* billing says; what was paid or is reserved, the withdrawals themselves. *)
(* Every request is a transaction of the store.                            *)
(***************************************************************************)
EXTENDS NextBilling

CONSTANTS
    Accounts,          \* payout accounts
    Providers,         \* of payouts; "local" pays without a call
    Withdrawals,
    Events             \* identifiers a payout callback may carry

ASSUME NextWithdrawalsAssumption == IsFiniteSet(Withdrawals)

VARIABLES
    account,           \* account[a]: the row of a payout account
    withdrawal,        \* withdrawal[w]: the row of a withdrawal
    payoutEvents,      \* webhookEvents of payouts
    overturned         \* history: withdrawals a callback completed after they had been given
                       \* up, or failed after they had been completed

withdrawalVars == <<account, withdrawal, payoutEvents, overturned>>

Owner(w) == account[withdrawal[w].account].owner

WithdrawalsOf(u, statuses) ==
    {w \in Withdrawals : withdrawal[w].status \in statuses /\ Owner(w) = u}

Sum(W) == SumFunctionOnSet([w \in Withdrawals |-> withdrawal[w].amount], W)

Reserving == {"PENDING", "APPROVED"}

\* Mutant: what is approved is no longer reserved.
Reserved_Pending(u) == Sum(WithdrawalsOf(u, {"PENDING"}))

Reserved(u) == Sum(WithdrawalsOf(u, Reserving))

Completed(u) == Sum(WithdrawalsOf(u, {"COMPLETED"}))

Earned(u) == Total(u, {"CREDIT"})

\* Amounts of all currencies are added up.
Balance(u) == Max({0, Earned(u) - Completed(u) - Reserved(u)})

-----------------------------------------------------------------------------
AddAccount(u, a, v) ==
    /\ account[a].owner = None
    /\ account' = [account EXCEPT ![a] = [owner |-> u, provider |-> v, verified |-> FALSE]]
    /\ UNCHANGED <<withdrawal, payoutEvents, overturned, billingVars>>

\* The balance is looked at before the idempotency key.
RequestWithdrawal(u, a, n, w, k) ==
    /\ account[a].owner = u
    /\ Balance(u) >= n
    /\ Once(<<u, "withdrawal.request", account[a].provider, k>>)
    /\ withdrawal[w].status = "none"
    /\ withdrawal' = [withdrawal EXCEPT ![w] = [status |-> "PENDING", account |-> a, amount |-> n]]
    /\ UNCHANGED <<account, payoutEvents, overturned, price, creditVars, planVars>>

CancelWithdrawal(u, w) ==
    /\ withdrawal[w].status = "PENDING"
    /\ Owner(w) = u
    /\ withdrawal' = [withdrawal EXCEPT ![w].status = "CANCELLED"]
    /\ UNCHANGED <<account, payoutEvents, overturned, billingVars>>

\* The administrator vouches for the account, whatever became of the withdrawal.
Verify(w) ==
    /\ withdrawal[w].status # "none"
    /\ account' = [account EXCEPT ![withdrawal[w].account].verified = TRUE]
    /\ UNCHANGED <<withdrawal, payoutEvents, overturned, billingVars>>

Approve(w) ==
    /\ withdrawal[w].status = "PENDING"
    /\ account[withdrawal[w].account].verified
    /\ withdrawal' = [withdrawal EXCEPT ![w].status = "APPROVED"]
    /\ UNCHANGED <<account, payoutEvents, overturned, billingVars>>

\* Of the scheduler: the first 25 of these, which a bounded instance never exceeds.
ProcessBatch ==
    /\ withdrawal' = [w \in Withdrawals |->
          IF withdrawal[w].status = "APPROVED" /\ account[withdrawal[w].account].provider = "local"
            THEN [withdrawal[w] EXCEPT !.status = "COMPLETED"]
            ELSE withdrawal[w]]
    /\ UNCHANGED <<account, payoutEvents, overturned, billingVars>>

\* What became of a withdrawal, and what a callback makes of it.
Overturning ==
    {<<"CANCELLED", "COMPLETED">>, <<"FAILED", "COMPLETED">>, <<"COMPLETED", "FAILED">>}

\* A signed callback: any status may be answered, by any provider.
Callback(v, e, w, outcome) ==
    /\ <<v, e>> \notin payoutEvents
    /\ withdrawal[w].status # "none"
    /\ withdrawal' = [withdrawal EXCEPT ![w].status = outcome]
    /\ payoutEvents' = payoutEvents \cup {<<v, e>>}
    /\ overturned' = IF <<withdrawal[w].status, outcome>> \in Overturning
                       THEN overturned \cup {w} ELSE overturned
    /\ UNCHANGED <<account, billingVars>>

-----------------------------------------------------------------------------
WithdrawalInit ==
    /\ account = [a \in Accounts |-> [owner |-> None, provider |-> "none", verified |-> FALSE]]
    /\ withdrawal = [w \in Withdrawals |-> [status |-> "none", account |-> None, amount |-> 0]]
    /\ payoutEvents = {}
    /\ overturned = {}

WithdrawalNext ==
    \/ \E u \in Users, a \in Accounts :
          \/ \E v \in Providers : AddAccount(u, a, v)
          \/ \E n \in Amounts, w \in Withdrawals, k \in Keys : RequestWithdrawal(u, a, n, w, k)
    \/ \E w \in Withdrawals :
          \/ \E u \in Users : CancelWithdrawal(u, w)
          \/ Verify(w) \/ Approve(w)
          \/ \E v \in Providers, e \in Events, outcome \in {"COMPLETED", "FAILED"} :
                Callback(v, e, w, outcome)
    \/ ProcessBatch

WalletSpec ==
    /\ BillingInit /\ WithdrawalInit
    /\ [][WithdrawalNext \/ (BillingNext /\ UNCHANGED withdrawalVars)]_<<billingVars, withdrawalVars>>

-----------------------------------------------------------------------------
(* Properties *)

\* Every field has its type.
WithdrawalTypeOK ==
    /\ account \in [Accounts -> [owner : Users \cup {None}, provider : Providers \cup {"none"},
                                 verified : BOOLEAN]]
    /\ withdrawal \in [Withdrawals -> [status : {"none", "COMPLETED", "FAILED", "CANCELLED"} \cup Reserving,
                                       account : Accounts \cup {None}, amount : Amounts \cup {0}]]
    /\ payoutEvents \subseteq Providers \X Events
    /\ overturned \subseteq Withdrawals

\* A user is never paid, or promised, more than was earned, in any order of requests,
\* cancellations, approvals, batches and callbacks, but for the withdrawals whose outcome a
\* callback overturned. The code lets it overturn any (withdrawals.ts:249): one that was
\* completed and then failed frees what was paid, one that was given up and then completed takes
\* what may be promised again. All of these were once completed: what was ever paid, and what
\* is promised, exceeds what was earned by their amounts at most.
WalletCovered ==
    \A u \in Users :
        Sum(WithdrawalsOf(u, Reserving \cup {"COMPLETED"}) \ overturned) <= Earned(u)
=============================================================================
