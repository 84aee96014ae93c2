----------------------------- MODULE NextBilling ----------------------------
(***************************************************************************)
(* Billing of the Next.js backend: the catalogue, credits in lots with     *)
(* their ledger, subscriptions and what they entitle to.  A request with   *)
(* an idempotency key is executed once; its repetition gets the recorded   *)
(* answer and its misuse an error, which are no steps.  Whoever asks is    *)
(* the user the router has authenticated.                                  *)
(***************************************************************************)
EXTENDS NextCommon, Integers, Sequences, FiniteSetsExt, Functions

CONSTANTS
    Prices,
    Amounts,           \* amounts of money, in minor units
    Subscriptions,
    Keys,              \* idempotency keys, and references of consumptions
    MaxLots,           \* bound: lots of credits
    Horizon            \* bound: the last day

ASSUME NextBillingAssumption ==
    /\ Amounts \subseteq Nat \ {0}
    /\ MaxLots \in Nat
    /\ Horizon \in Nat

VARIABLES
    price,             \* price[p]: the price in the catalogue
    lots,              \* creditLots
    ledger,
    subscription,      \* subscription[s]: the row of a subscription
    entitlements,      \* entitlements[u]: prices whose benefits u has
    replies,           \* idempotency: the scopes of requests that were executed
    today

creditVars  == <<lots, ledger, today>>
planVars    == <<subscription, entitlements>>
billingVars == <<price, creditVars, planVars, replies>>

\* withIdempotency.
Once(scope) ==
    /\ scope \notin replies
    /\ replies' = replies \cup {scope}

-----------------------------------------------------------------------------
(* Catalogue *)

CreatePrice(p, a) ==
    /\ price[p].state = "none"
    /\ price' = [price EXCEPT ![p] = [state |-> "offered", amount |-> a]]
    /\ UNCHANGED <<creditVars, planVars, replies>>

\* requiredPrice.
Offered(p) == price[p].state = "offered"

ArchivePrice(p) ==
    /\ Offered(p)
    /\ price' = [price EXCEPT ![p].state = "archived"]
    /\ UNCHANGED <<creditVars, planVars, replies>>

-----------------------------------------------------------------------------
(* Credits *)

\* The day after the last stands for "never".
Never == Horizon + 1

Entry(u, kind, a, ref) == [owner |-> u, kind |-> kind, amount |-> a, reference |-> ref]

AppendLedger(u, kind, a, ref) ==
    /\ ~\E e \in ledger : e.owner = u /\ e.kind = kind /\ e.reference = ref
    /\ ledger' = ledger \cup {Entry(u, kind, a, ref)}

\* A lot's number stands for its identifier and for the moment of its creation.
AddLot(u, a, expiry) ==
    /\ Len(lots) < MaxLots
    /\ lots' = Append(lots, [owner |-> u, remaining |-> a, expiry |-> expiry])
    /\ AppendLedger(u, "CREDIT", a, <<"lot", Len(lots) + 1>>)

Grant(admin, u, a, expiry, k) ==
    /\ Once(<<admin, "credit.grant", "local", k>>)
    /\ AddLot(u, a, expiry)
    /\ UNCHANGED <<price, planVars, today>>

PurchaseCredits(u, p, k) ==
    /\ Offered(p)
    /\ Once(<<u, "credit.purchase", "local", k>>)
    /\ AddLot(u, price[p].amount, Never)
    /\ UNCHANGED <<price, planVars, today>>

Usable(u) ==
    {i \in DOMAIN lots : /\ lots[i].owner = u
                         /\ lots[i].remaining > 0
                         /\ lots[i].expiry \in {Never} \cup {d \in 0..Horizon : d > today}}

Remaining(S) == SumFunctionOnSet([i \in DOMAIN lots |-> lots[i].remaining], S)

\* The lot that expires first is used first, then the older one.
Before(i, j) ==
    \/ lots[i].expiry < lots[j].expiry
    \/ lots[i].expiry = lots[j].expiry /\ i < j

\* Mutant: every lot gives what is asked for.
Used_Each(u, a, i) == IF i \notin Usable(u) THEN 0 ELSE Min({lots[i].remaining, a})

\* What a consumption of a takes from a lot.
Used(u, a, i) ==
    IF i \notin Usable(u) THEN 0
    ELSE LET left == a - Remaining({j \in Usable(u) : Before(j, i)})
         IN  Max({0, Min({lots[i].remaining, left})})

\* For the features of a generated application: no request of the API consumes.
Consume(u, a, ref) ==
    /\ Remaining(Usable(u)) >= a
    /\ lots' = [i \in DOMAIN lots |-> [owner |-> lots[i].owner, expiry |-> lots[i].expiry,
                                       remaining |-> lots[i].remaining - Used(u, a, i)]]
    /\ AppendLedger(u, "DEBIT", a, <<"use", ref>>)
    /\ UNCHANGED <<price, planVars, replies, today>>

NextDay ==
    /\ today < Horizon
    /\ today' = today + 1
    /\ UNCHANGED <<price, lots, ledger, planVars, replies>>

-----------------------------------------------------------------------------
(* Subscriptions *)

CreateSubscription(u, p, s, k) ==
    /\ Offered(p)
    /\ Once(<<u, "subscription.create", "local", k>>)
    /\ subscription[s].status = "none"
    /\ subscription' = [subscription EXCEPT ![s] = [status |-> "ACTIVE", owner |-> u, price |-> p]]
    /\ entitlements' = [entitlements EXCEPT ![u] = @ \cup {p}]
    /\ UNCHANGED <<price, creditVars>>

\* Mutant: what the subscription entitled to is kept.
Forfeits_Nothing(s) == {}

Forfeits(s) == {subscription[s].price}

\* Another subscription of the same price does not keep the entitlement.  PAST_DUE may be
\* cancelled as well, but nothing sets it.
CancelSubscription(u, s) ==
    /\ subscription[s].status = "ACTIVE"
    /\ subscription[s].owner = u
    /\ subscription' = [subscription EXCEPT ![s].status = "CANCELLED"]
    /\ entitlements' = [entitlements EXCEPT ![u] = @ \ Forfeits(s)]
    /\ UNCHANGED <<price, creditVars, replies>>

-----------------------------------------------------------------------------
BillingInit ==
    /\ price = [p \in Prices |-> [state |-> "none", amount |-> 0]]
    /\ lots = <<>>
    /\ ledger = {}
    /\ subscription = [s \in Subscriptions |-> [status |-> "none", owner |-> None, price |-> None]]
    /\ entitlements = [u \in Users |-> {}]
    /\ replies = {}
    /\ today = 0

CreditNext ==
    \/ \E p \in Prices, u \in Users, k \in Keys : PurchaseCredits(u, p, k)
    \/ \E admin, u \in Users, a \in Amounts, d \in 0..Never, k \in Keys : Grant(admin, u, a, d, k)
    \/ \E u \in Users, a \in Amounts, k \in Keys : Consume(u, a, k)
    \/ NextDay

PlanNext ==
    \/ \E p \in Prices : ArchivePrice(p) \/ \E a \in Amounts : CreatePrice(p, a)
    \/ \E u \in Users, s \in Subscriptions :
          \/ CancelSubscription(u, s)
          \/ \E p \in Prices, k \in Keys : CreateSubscription(u, p, s, k)

BillingNext == CreditNext \/ PlanNext

BillingSpec == BillingInit /\ [][BillingNext]_billingVars

-----------------------------------------------------------------------------
(* Properties *)

\* Every field of the catalogue and of the subscriptions has its type; of the credits, whose
\* amounts are sums, LotsMatchLedger says more.
BillingTypeOK ==
    /\ price \in [Prices -> [state : {"none", "offered", "archived"}, amount : Amounts \cup {0}]]
    /\ subscription \in [Subscriptions -> [status : {"none", "ACTIVE", "CANCELLED"},
                                           owner : Users \cup {None}, price : Prices \cup {None}]]
    /\ entitlements \in [Users -> SUBSET Prices]
    /\ today \in 0..Horizon

\* A cancelled subscription entitles to nothing: an entitlement rests on an active subscription
\* of that user to that price, whatever was subscribed twice, cancelled, subscribed again or
\* archived (entitlements are a list of their own).  It says nothing of money: a subscription
\* is ACTIVE from its user's request on, and no payment is asked for.
EntitlementsBacked ==
    \A u \in Users : \A p \in entitlements[u] :
        \E s \in Subscriptions :
            subscription[s] = [status |-> "ACTIVE", owner |-> u, price |-> p]

Total(u, kinds) ==
    SumFunctionOnSet([e \in ledger |-> e.amount], {e \in ledger : e.owner = u /\ e.kind \in kinds})

\* What is left in a user's lots is what the ledger credits less what it debits, whichever
\* lots a consumption is spread over, and whether or not they expire.
LotsMatchLedger ==
    \A u \in Users :
        /\ Remaining({i \in DOMAIN lots : lots[i].owner = u})
             = Total(u, {"CREDIT"}) - Total(u, {"DEBIT"})
        /\ \A i \in DOMAIN lots : lots[i].remaining >= 0
=============================================================================
