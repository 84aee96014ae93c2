---------------------------- MODULE NextPayments ----------------------------
(***************************************************************************)
(* Payments of the Next.js backend.  Each request runs in a transaction of *)
(* the store, which works on a copy of the state and holds the store until *)
(* it commits or throws.  A checkout with Orange Money, its notification   *)
(* and its return page call the provider in the middle of the transaction: *)
(* those requests are three steps (begin, ask, commit) and may be rolled   *)
(* back at any of them.  The other requests are one step.                  *)
(*                                                                         *)
(* The body of a notification is not trusted: anybody may send any.  The   *)
(* providers are external; what they collected is final.                   *)
(***************************************************************************)
EXTENDS Integers, FiniteSets, Functions

CONSTANTS
    Payments,      \* identifiers of payments (random UUIDs)
    Provider,      \* Provider[p]: "local", "stripe" or "orange_money_ml"
    Amount,        \* what a payment is over, in minor units
    CheckoutKeys,  \* idempotency keys of checkouts, each with its actor and body
    RefundKeys,    \* idempotency keys of refunds, each with its actor
    Bodies,        \* bodies of Orange's notifications, identifiers of Stripe's events
    Servers,       \* processes that serve requests on one store
    Nothing        \* no payment, no key, no event, no answer

PaymentProviders == {"local", "stripe", "orange_money_ml"}
Statuses  == {"PENDING", "SUCCEEDED", "FAILED", "NEEDS_REVIEW", "REFUNDED"}
Remotes   == {"none", "pending", "success", "failed"}

ASSUME NextPaymentsAssumption ==
    /\ IsFiniteSet(Payments)
    /\ Provider \in [Payments -> PaymentProviders]
    /\ Amount \in Nat \ {0}
    /\ Nothing \notin Payments \cup CheckoutKeys \cup Bodies \cup Statuses

VARIABLES
    payment,       \* PaymentRecord.status, "NONE" if there is no such record
    refunded,      \* PaymentRecord.refundedMinor
    checkouts,     \* idempotency records of checkouts: <<provider, key, payment>>
    refunds,       \* idempotency records of refunds: provider, key, payment, amount
    events,        \* webhookEvents: <<payment, body>>, or <<"stripe", identifier>>
    outbox,        \* messages enqueued: <<topic, what it is about>>
    tx,            \* the request each server runs on the store, if it asks a provider
    remote,        \* what Orange has of the payment (external)
    vouched        \* history: payments a completed session of Stripe has named

books    == <<payment, refunded, checkouts, refunds, events, outbox>>
external == <<remote, vouched>>
vars     == <<books, tx, external>>

NoTx == [op |-> "none", payment |-> Nothing, key |-> Nothing, event |-> Nothing, answer |-> Nothing]

-----------------------------------------------------------------------------
(* The store: one request at a time, on a row lock or a queue of promises. *)

\* Mutant: requests run side by side.
StoreFree_NoLock(s) == tx[s].op = "none"

StoreFree(s) == \A t \in Servers : tx[t].op = "none"

\* The request throws, or its process dies: the copy it worked on is dropped, what
\* the provider was told stays.
Rollback(s) ==
    /\ tx[s].op # "none"
    /\ tx' = [tx EXCEPT ![s] = NoTx]
    /\ UNCHANGED <<books, external>>

-----------------------------------------------------------------------------
(* The providers (external). *)

\* Mutant: an order the adapter cannot read counts as paid.
Normalized_Lenient(r) == IF r = "failed" THEN "FAILED" ELSE "SUCCEEDED"

\* The adapter's vocabulary: PROCESSING counts as PENDING, CANCELLED and EXPIRED as FAILED.
Normalized(r) ==
    CASE r = "success" -> "SUCCEEDED"
      [] r = "failed"  -> "FAILED"
      [] OTHER         -> "PENDING"

\* What a request learns from Orange: a status, or one the adapter does not know.
Learns(s, r) ==
    \E a \in {Normalized(r), "NEEDS_REVIEW"} : tx' = [tx EXCEPT ![s].answer = a]

\* The customer pays Orange for the order it knows, or does not.
Settle(p) ==
    /\ remote[p] = "pending"
    /\ \E r \in {"success", "failed"} : remote' = [remote EXCEPT ![p] = r]
    /\ UNCHANGED <<books, tx, vouched>>

-----------------------------------------------------------------------------
(* Checkout *)

\* A UUID nobody has used.
Fresh(p) ==
    /\ payment[p] = "NONE"
    /\ remote[p] = "none"
    /\ \A s \in Servers : tx[s].payment # p

\* Mutant: the idempotency record of a checkout is not looked up.
KeyUsed_Never(v, k) == FALSE

KeyUsed(v, k) == \E p \in Payments : <<v, k, p>> \in checkouts

CreateRecord(p, k, st) ==
    /\ payment' = [payment EXCEPT ![p] = st]
    /\ checkouts' = checkouts \cup {<<Provider[p], k, p>>}
    /\ outbox' = outbox \cup {<<"payment.created", p>>}
    /\ UNCHANGED <<refunded, refunds, events>>

\* Without a call: the local simulator succeeds at once, Stripe waits for its webhook.
CheckoutDirect(s, p, k) ==
    /\ StoreFree(s)
    /\ Provider[p] # "orange_money_ml"
    /\ ~KeyUsed(Provider[p], k)
    /\ Fresh(p)
    /\ CreateRecord(p, k, IF Provider[p] = "local" THEN "SUCCEEDED" ELSE "PENDING")
    /\ UNCHANGED <<tx, external>>

CheckoutBegin(s, p, k) ==
    /\ StoreFree(s)
    /\ Provider[p] = "orange_money_ml"
    /\ ~KeyUsed(Provider[p], k)
    /\ Fresh(p)
    /\ tx' = [tx EXCEPT ![s] = [NoTx EXCEPT !.op = "checkout", !.payment = p, !.key = k]]
    /\ UNCHANGED <<books, external>>

\* Orange registers the order; it may be settled when it answers.
CheckoutAsk(s) ==
    /\ tx[s].op = "checkout"
    /\ tx[s].answer = Nothing
    /\ \E r \in {"pending", "success", "failed"} :
         /\ remote' = [remote EXCEPT ![tx[s].payment] = r]
         /\ Learns(s, r)
    /\ UNCHANGED <<books, vouched>>

CheckoutCommit(s) ==
    /\ tx[s].op = "checkout"
    /\ tx[s].answer # Nothing
    /\ CreateRecord(tx[s].payment, tx[s].key, tx[s].answer)
    /\ tx' = [tx EXCEPT ![s] = NoTx]
    /\ UNCHANGED external

-----------------------------------------------------------------------------
(* Orange's notification (e is its body) and its return or cancel page (e is Nothing). *)

StatusBegin(s, p, e) ==
    /\ StoreFree(s)
    /\ Provider[p] = "orange_money_ml"
    /\ payment[p] # "NONE"
    /\ <<p, e>> \notin events
    /\ tx' = [tx EXCEPT ![s] = [NoTx EXCEPT !.op = "status", !.payment = p, !.event = e]]
    /\ UNCHANGED <<books, external>>

\* The amount or the currency may differ from the payment's: that is NEEDS_REVIEW as well.
StatusAsk(s) ==
    /\ tx[s].op = "status"
    /\ tx[s].answer = Nothing
    /\ Learns(s, remote[tx[s].payment])
    /\ UNCHANGED <<books, external>>

\* A notification is recorded and announced, a visit of the page is not.
StatusCommit(s) ==
    /\ tx[s].op = "status"
    /\ tx[s].answer # Nothing
    /\ payment' = [payment EXCEPT ![tx[s].payment] = tx[s].answer]
    /\ LET seen == {e \in {<<tx[s].payment, tx[s].event>>} : tx[s].event # Nothing} IN
         /\ events' = events \cup seen
         /\ outbox' = outbox \cup {<<"payment.webhook.received", e>> : e \in seen}
    /\ tx' = [tx EXCEPT ![s] = NoTx]
    /\ UNCHANGED <<refunded, checkouts, refunds, external>>

\* An event Stripe signed.  It may name any payment, of another provider as well: one of
\* type checkout.session.completed makes it SUCCEEDED if there is such a record, even if the
\* session is not paid yet; any other is recorded and announced without effect.
StripeWebhook(s, p, e, completed) ==
    /\ StoreFree(s)
    /\ <<"stripe", e>> \notin events
    /\ LET named == {q \in {p} : completed /\ payment[q] # "NONE"} IN
         /\ payment' = [q \in Payments |-> IF q \in named THEN "SUCCEEDED" ELSE payment[q]]
         /\ vouched' = vouched \cup named
    /\ events' = events \cup {<<"stripe", e>>}
    /\ outbox' = outbox \cup {<<"payment.webhook.received", <<"stripe", e>>>>}
    /\ UNCHANGED <<refunded, checkouts, refunds, tx, remote>>

-----------------------------------------------------------------------------
(* Refund, by the owner or a superadmin: no provider is involved. *)

Refundable(p, a) == payment[p] = "SUCCEEDED" /\ refunded[p] + a <= Amount

\* Mutant: the record of a refund is not looked up.
Replayed_Never(p, r) == FALSE

\* A key that was used for the provider replays or conflicts: no effect.
Replayed(p, r) == \E x \in refunds : x.key = r /\ x.provider = Provider[p]

Refund(s, p, a, r) ==
    /\ StoreFree(s)
    /\ Refundable(p, a)
    /\ ~Replayed(p, r)
    /\ refunded' = [refunded EXCEPT ![p] = @ + a]
    /\ payment' = IF refunded'[p] = Amount THEN [payment EXCEPT ![p] = "REFUNDED"] ELSE payment
    /\ LET record == [provider |-> Provider[p], key |-> r, payment |-> p, amount |-> a] IN
         /\ refunds' = refunds \cup {record}
         /\ outbox' = outbox \cup {<<"payment.refunded", record>>}
    /\ UNCHANGED <<checkouts, events, tx, external>>

-----------------------------------------------------------------------------
Init ==
    /\ payment = [p \in Payments |-> "NONE"]
    /\ refunded = [p \in Payments |-> 0]
    /\ checkouts = {}
    /\ refunds = {}
    /\ events = {}
    /\ outbox = {}
    /\ tx = [s \in Servers |-> NoTx]
    /\ remote = [p \in Payments |-> "none"]
    /\ vouched = {}

\* Requests of the customer, of Orange and of Stripe, served by s.
Checkout(s) ==
    \/ \E p \in Payments, k \in CheckoutKeys : CheckoutDirect(s, p, k) \/ CheckoutBegin(s, p, k)
    \/ CheckoutAsk(s) \/ CheckoutCommit(s)

Confirmation(s) ==
    \/ \E p \in Payments, e \in Bodies \cup {Nothing} : StatusBegin(s, p, e)
    \/ StatusAsk(s) \/ StatusCommit(s)
    \/ \E p \in Payments, e \in Bodies, completed \in BOOLEAN :
          StripeWebhook(s, p, e, completed)

Next ==
    \/ \E s \in Servers : Checkout(s) \/ Confirmation(s) \/ Rollback(s)
    \/ \E s \in Servers, p \in Payments, a \in 1..Amount, r \in RefundKeys : Refund(s, p, a, r)
    \/ \E p \in Payments : Settle(p)

Spec == Init /\ [][Next]_vars

-----------------------------------------------------------------------------
(* Properties *)

\* Every record has its type; requests hold what they have learnt so far.
TypeOK ==
    /\ payment \in [Payments -> {"NONE"} \cup Statuses]
    /\ refunded \in [Payments -> 0..Amount]
    /\ checkouts \subseteq PaymentProviders \X CheckoutKeys \X Payments
    /\ refunds \subseteq [provider : PaymentProviders, key : RefundKeys, payment : Payments,
                          amount : 1..Amount]
    /\ events \subseteq (Payments \cup {"stripe"}) \X Bodies
    /\ outbox \subseteq ({"payment.created"} \X Payments)
                         \cup ({"payment.webhook.received"} \X events)
                         \cup ({"payment.refunded"} \X refunds)
    /\ tx \in [Servers -> [op : {"none", "checkout", "status"}, payment : Payments \cup {Nothing},
                            key : CheckoutKeys \cup {Nothing}, event : Bodies \cup {Nothing},
                            answer : Statuses \cup {Nothing}]]
    /\ remote \in [Payments -> Remotes]
    /\ vouched \subseteq Payments

\* An order with Orange is taken for paid, or refunded, only if Orange collected it:
\* whatever bodies are sent to the webhook, whoever opens the return page and in whatever
\* order.  The exception is a payment a completed session of Stripe has named: the code
\* takes that word for any payment, without a look at payment_status or at its provider
\* (payments.ts:324-326), so such a payment, of Stripe or of another, may be unpaid.
PaidIsCollected ==
    \A p \in Payments :
        payment[p] \in {"SUCCEEDED", "REFUNDED"} \/ refunded[p] > 0
            => Provider[p] = "local" \/ remote[p] = "success" \/ p \in vouched

\* What was refunded is what the idempotency records say, each of them once, and never
\* more than the payment: also when a late notification makes a refunded payment
\* SUCCEEDED again and refunds are repeated or split.
RefundedOf(p) == SumFunction([x \in {y \in refunds : y.payment = p} |-> x.amount])

RefundsMatchRecords ==
    \A p \in Payments :
        /\ refunded[p] = RefundedOf(p)
        /\ refunded[p] <= Amount
        /\ payment[p] = "REFUNDED" => refunded[p] = Amount

\* Servers that answer the same checkout, or lose it half-way and are asked again, create
\* one payment for each key, and announce every payment, notification and refund.
RecordsAgree ==
    /\ \A c, d \in checkouts : c[1] = d[1] /\ (c[2] = d[2] \/ c[3] = d[3]) => c = d
    /\ \A p \in Payments :
          /\ payment[p] # "NONE" <=> \E k \in CheckoutKeys : <<Provider[p], k, p>> \in checkouts
          /\ payment[p] # "NONE" <=> <<"payment.created", p>> \in outbox
    /\ \A e \in events : <<"payment.webhook.received", e>> \in outbox
    /\ \A x \in refunds : <<"payment.refunded", x>> \in outbox

\* No request applies an answer of Orange that is older than the status it replaces: what
\* was collected is not PENDING or FAILED again, and what failed is not PENDING or
\* SUCCEEDED, unless Stripe named the payment.  This is what the lock of the store gives;
\* it is not the monotony docs/security/model.md:5 speaks of, which these webhooks do not
\* have: a late notification makes a REFUNDED payment SUCCEEDED again, an answer the adapter
\* does not know puts a SUCCEEDED one under review (payments.ts:207 and 326).
NoStaleAnswer ==
    [][\A p \in Payments \ vouched' :
        /\ payment[p] \in {"SUCCEEDED", "REFUNDED"} => payment'[p] \notin {"PENDING", "FAILED"}
        /\ payment[p] = "FAILED" => payment'[p] \notin {"PENDING", "SUCCEEDED"}]_payment
=============================================================================
