---------------------------- MODULE ServerBilling ---------------------------
(***************************************************************************)
(* Billing of the Laravel server: one owner's credits in lots, their       *)
(* ledger and reservations, and the owner's subscriptions to one price.    *)
(* Every operation is a transaction that locks the rows it decides on.  An *)
(* operation repeated under its idempotency key gets the recorded answer,  *)
(* which is no step.                                                       *)
(***************************************************************************)
EXTENDS Integers, Sequences, FiniteSets, Functions

CONSTANTS
    Grants,        \* lots an administrator grants, or the owner buys
    Orders,        \* orders of payments, each of which may bring a lot
    Uses,          \* reservations of business services
    Refunds,       \* refunds of orders, which may reserve credits
    Requests,      \* subscriptions asked for without an order
    Credits,       \* plans.included_credits
    Horizon        \* bound: the last moment

ASSUME ServerBillingAssumption ==
    /\ IsFiniteSet(Grants) /\ IsFiniteSet(Orders) /\ Grants \cap Orders = {}
    /\ IsFiniteSet(Uses) /\ IsFiniteSet(Refunds) /\ Uses \cap Refunds = {}
    /\ Credits \in Nat \ {0}
    /\ Horizon \in Nat

Lots == Grants \cup Orders
Reservations == Uses \cup Refunds
Subscriptions == Orders \cup Requests

VARIABLES
    offered,       \* the price is active and not archived
    total,         \* credit_lots.quantity_total, 0 before the lot exists
    remaining,     \* credit_lots.quantity_remaining
    reserved,      \* credit_lots.quantity_reserved
    expires,       \* credit_lots.expires_at
    balance,       \* the sum of credit_ledger_entries.quantity_fixed
    expired,       \* lots with an entry of the scope "expire:<lot>", which is unique
    held,          \* credit_reservations.status
    allocation,    \* credit_reservations.allocations
    now,
    opened,        \* subscriptions in the order of created_at
    state,         \* subscriptions.status
    touched        \* subscriptions.last_event_sequence > 0

lotVars  == <<total, remaining, reserved, expires, balance, expired>>
holdVars == <<held, allocation>>
subVars  == <<opened, state, touched>>
creditVars  == <<lotVars, holdVars>>
billingVars == <<offered, creditVars, now, subVars>>

-----------------------------------------------------------------------------
(* Catalogue *)

ArchivePrice ==
    /\ offered
    /\ offered' = FALSE
    /\ UNCHANGED <<creditVars, now, subVars>>

-----------------------------------------------------------------------------
(* Credits *)

\* The moment after the last stands for a lot that does not expire.
Never == Horizon + 1

\* grant: an entry of the ledger and its lot.
NewLot(l, quantity, expiry) ==
    /\ total[l] = 0
    /\ total' = [total EXCEPT ![l] = quantity]
    /\ remaining' = [remaining EXCEPT ![l] = quantity]
    /\ expires' = [expires EXCEPT ![l] = expiry]
    /\ balance' = balance + quantity
    /\ UNCHANGED <<reserved, expired, holdVars>>

Purchase(l) ==
    /\ offered
    /\ NewLot(l, Credits, Never)
    /\ UNCHANGED <<offered, now, subVars>>

AdministrativeGrant(l) ==
    /\ \E quantity \in 1..Credits, expiry \in now + 1 .. Never : NewLot(l, quantity, expiry)
    /\ UNCHANGED <<offered, now, subVars>>

UsableLots == {l \in Lots : remaining[l] > 0 /\ expires[l] > now}

\* What reserve may take: the lots that expire first, each as far as it goes; those that
\* expire together in any order.
Allocations(quantity) ==
    LET Whole(a, l) == a[l] = remaining[l]
    IN  {a \in [UsableLots -> 0..quantity] :
            /\ SumFunction(a) = quantity
            /\ \A l \in UsableLots : a[l] <= remaining[l]
            /\ \A k, l \in UsableLots : a[l] > 0 /\ expires[k] < expires[l] => Whole(a, k)
            /\ Cardinality({l \in UsableLots : a[l] > 0 /\ ~Whole(a, l)}) <= 1}

\* A reservation and its debit.
Hold(r, a) ==
    /\ held[r] = "NONE"
    /\ held' = [held EXCEPT ![r] = "RESERVED"]
    /\ allocation' = [allocation EXCEPT ![r] = a]
    /\ remaining' = [l \in Lots |-> remaining[l] - a[l]]
    /\ reserved' = [l \in Lots |-> reserved[l] + a[l]]
    /\ balance' = balance - SumFunction(a)
    /\ UNCHANGED <<total, expires, expired>>

Reserve(u) ==
    /\ held[u] = "NONE"
    /\ \E quantity \in 1..Credits : \E a \in Allocations(quantity) :
         Hold(u, [l \in Lots |-> IF l \in UsableLots THEN a[l] ELSE 0])
    /\ UNCHANGED <<offered, now, subVars>>

\* Mutant: a confirmation gives the credits back too.
GivenBack_Always(r, confirm) == allocation[r]

\* Credits that settle puts back into their lots.
GivenBack(r, confirm) == [l \in Lots |-> IF confirm THEN 0 ELSE allocation[r][l]]

\* A reservation that is settled already keeps its status, which is no step.
SettleHold(r, confirm) ==
    /\ held[r] = "RESERVED"
    /\ held' = [held EXCEPT ![r] = IF confirm THEN "CONFIRMED" ELSE "RELEASED"]
    /\ remaining' = [l \in Lots |-> remaining[l] + GivenBack(r, confirm)[l]]
    /\ reserved' = [l \in Lots |-> reserved[l] - allocation[r][l]]
    /\ balance' = balance + (IF confirm THEN 0 ELSE SumFunction(allocation[r]))
    /\ UNCHANGED <<total, expires, expired, allocation>>

Settle(u, confirm) ==
    /\ SettleHold(u, confirm)
    /\ UNCHANGED <<offered, now, subVars>>

Due(l) == remaining[l] > 0 /\ expires[l] <= now

\* summary: the lots that are due are written off, in one transaction, which the unique
\* scope of the entries makes fail if one of them has been written off before.
Summary ==
    LET due == {l \in Lots : Due(l)}
    IN  /\ due # {} /\ due \cap expired = {}
        /\ remaining' = [l \in Lots |-> IF l \in due THEN 0 ELSE remaining[l]]
        /\ balance' = balance - SumFunctionOnSet(remaining, due)
        /\ expired' = expired \cup due
        /\ UNCHANGED <<offered, total, reserved, expires, holdVars, now, subVars>>

Tick ==
    /\ now < Horizon
    /\ now' = now + 1
    /\ UNCHANGED <<offered, creditVars, subVars>>

-----------------------------------------------------------------------------
(* Subscriptions *)

Transitions ==
    [PENDING              |-> {"TRIALING", "ACTIVE", "CANCELLED", "EXPIRED"},
     TRIALING             |-> {"ACTIVE", "PAST_DUE", "CANCELLED", "EXPIRED"},
     ACTIVE               |-> {"PAST_DUE", "SUSPENDED", "CANCEL_AT_PERIOD_END", "CANCELLED", "EXPIRED"},
     PAST_DUE             |-> {"ACTIVE", "SUSPENDED", "CANCELLED", "EXPIRED"},
     SUSPENDED            |-> {"ACTIVE", "CANCELLED", "EXPIRED"},
     CANCEL_AT_PERIOD_END |-> {"ACTIVE", "CANCELLED", "EXPIRED"},
     CANCELLED            |-> {},
     EXPIRED              |-> {}]

\* Mutant: a subscription goes anywhere.
Allowed_Anywhere(s, next) == state[s] # "NONE"

Allowed(s, next) == state[s] # "NONE" /\ next \in Transitions[state[s]]

\* createPending.
Open(s) ==
    /\ state[s] = "NONE"
    /\ opened' = Append(opened, s)
    /\ state' = [state EXCEPT ![s] = "PENDING"]
    /\ UNCHANGED touched

CreatePending(s) ==
    /\ offered
    /\ Open(s)
    /\ UNCHANGED <<offered, creditVars, now>>

\* The subscription the payments of the price are about.
Latest == opened[Len(opened)]

\* An event with a sequence that is not newer than the last is ignored, one that is newer
\* must be a transition: otherwise it throws.
ApplyVerifiedEvent(s, newer, next) ==
    IF newer
    THEN /\ Allowed(s, next)
         /\ state' = [state EXCEPT ![s] = next]
         /\ touched' = [touched EXCEPT ![s] = TRUE]
         /\ UNCHANGED opened
    ELSE UNCHANGED subVars

ScheduleCancellation(s, immediate) ==
    LET next == IF immediate THEN "CANCELLED" ELSE "CANCEL_AT_PERIOD_END"
    IN  /\ Allowed(s, next)
        /\ state' = [state EXCEPT ![s] = next]
        /\ UNCHANGED <<offered, creditVars, now, opened, touched>>

-----------------------------------------------------------------------------
BillingInit ==
    /\ offered = TRUE
    /\ total = [l \in Lots |-> 0]
    /\ remaining = [l \in Lots |-> 0]
    /\ reserved = [l \in Lots |-> 0]
    /\ expires = [l \in Lots |-> Never]
    /\ balance = 0
    /\ expired = {}
    /\ held = [r \in Reservations |-> "NONE"]
    /\ allocation = [r \in Reservations |-> [l \in Lots |-> 0]]
    /\ now = 0
    /\ opened = <<>>
    /\ state = [s \in Subscriptions |-> "NONE"]
    /\ touched = [s \in Subscriptions |-> FALSE]

BillingNext ==
    \/ ArchivePrice \/ Summary \/ Tick
    \/ \E l \in Grants : Purchase(l) \/ AdministrativeGrant(l)
    \/ \E u \in Uses : Reserve(u) \/ \E confirm \in BOOLEAN : Settle(u, confirm)
    \/ \E s \in Requests : CreatePending(s)
    \/ \E s \in Subscriptions, immediate \in BOOLEAN : ScheduleCancellation(s, immediate)

BillingSpec == BillingInit /\ [][BillingNext]_billingVars

-----------------------------------------------------------------------------
(* Properties *)

\* The columns of the billing hold the values the code writes.
CreditsTypeOK ==
    /\ total \in [Lots -> 0..Credits]
    /\ remaining \in [Lots -> Nat]
    /\ reserved \in [Lots -> Int]
    /\ expires \in [Lots -> 0..Never]
    /\ balance \in Int
    /\ expired \subseteq Lots
    /\ held \in [Reservations -> {"NONE", "RESERVED", "CONFIRMED", "RELEASED"}]
    /\ allocation \in [Reservations -> [Lots -> Nat]]

SubscriptionsTypeOK ==
    /\ opened \in Seq(Subscriptions)
    /\ state \in [Subscriptions -> {"NONE"} \cup DOMAIN Transitions]
    /\ touched \in [Subscriptions -> BOOLEAN]

BillingTypeOK ==
    /\ CreditsTypeOK /\ SubscriptionsTypeOK
    /\ offered \in BOOLEAN
    /\ now \in 0..Horizon

\* The credits of a lot that reservations with a status have taken.
Taken(l, status) ==
    SumFunction([r \in Reservations |-> IF held[r] = status THEN allocation[r][l] ELSE 0])

\* Released, confirmed or written off in any order, no credit is lost, used twice or missing
\* from the balance: those of a lot are left, reserved by an open reservation or used, and
\* only those of a lot that expired may be none of these.
CreditsConserved ==
    /\ balance = SumFunction(remaining)
    /\ \A l \in Lots :
         LET accounted == remaining[l] + reserved[l] + Taken(l, "CONFIRMED")
         IN  /\ remaining[l] >= 0
             /\ reserved[l] = Taken(l, "RESERVED")
             /\ accounted <= total[l]
             /\ accounted < total[l] => l \in expired
=============================================================================
