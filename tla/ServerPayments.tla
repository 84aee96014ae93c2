--------------------------- MODULE ServerPayments ---------------------------
(***************************************************************************)
(* Payments of the Laravel server, with the billing they grant: orders of  *)
(* one owner for one price, paid through Stripe, whose webhooks are        *)
(* processed in any order and more than once, or through Orange Money,     *)
(* whose status the server asks for; the hourly expiry; refunds.           *)
(* PaymentWebhookProcessor and RefundService lock the order, so that each  *)
(* is one step.  A reconciliation reads the order and asks the provider    *)
(* without a lock, and the expiry collects the orders that are due before  *)
(* it writes: these are two steps.                                         *)
(***************************************************************************)
EXTENDS ServerBilling

CONSTANTS
    Amount,        \* orders.amount_minor, the price
    Callers,       \* requests that run a reconciliation
    RefundOf,      \* RefundOf[r]: the order and the amount of a refund
    None           \* no order in work

ASSUME ServerPaymentsAssumption ==
    /\ Amount \in Nat \ {0}
    /\ RefundOf \in [Refunds -> [order : Orders, amount : 1..Amount]]
    /\ None \notin Orders

VARIABLES
    order,         \* orders.status, "NONE" before the checkout
    attempt,       \* payment_attempts.status of the order
    provider,      \* orders.provider
    purpose,       \* orders.purpose
    due,           \* orders.expires_at <= now
    refunded,      \* orders.refunded_amount_minor
    posted,        \* entries PAYMENT of the order in money_ledger_entries
    inbox,         \* webhook_events: what was processed of which order
    refund,        \* refunds.status, "NONE" before the request
    remote,        \* what the provider has of the order
    sent,          \* events Stripe has sent, which it repeats until they are accepted
    returned,      \* refunds Stripe has accepted
    asked,         \* asked[c]: the order a reconciliation is about, and the answer
    collected      \* orders the expiry is about to write

orderVars   == <<order, attempt, refunded, posted>>
choiceVars  == <<provider, purpose>>
remoteVars  == <<remote, sent, returned>>
paymentVars == <<orderVars, choiceVars, due, inbox, refund, remoteVars, asked, collected>>
vars == <<billingVars, paymentVars>>

Succeeds == {"completed", "async_payment_succeeded", "reconcile:SUCCEEDED"}
Fails    == {"expired", "async_payment_failed", "reconcile:FAILED"}

-----------------------------------------------------------------------------
(* The providers, which are external *)

\* A checkout session is completed when it is paid, or when a payment that takes days was
\* ordered; it expires if neither happens.
StripeMoves(o) ==
    /\ provider[o] = "stripe"
    /\ \E to \in {"paid", "ordered", "failed"}, type \in Succeeds \cup Fails :
         /\ \/ remote[o] = "open" /\ to \in {"paid", "ordered"} /\ type = "completed"
            \/ remote[o] = "open" /\ to = "failed" /\ type = "expired"
            \/ remote[o] = "ordered" /\ to = "paid" /\ type = "async_payment_succeeded"
            \/ remote[o] = "ordered" /\ to = "failed" /\ type = "async_payment_failed"
         /\ remote' = [remote EXCEPT ![o] = to]
         /\ sent' = sent \cup {<<o, type>>}

OrangeMoves(o) ==
    /\ provider[o] = "orange_money_ml"
    /\ remote[o] = "open"
    /\ \E to \in {"paid", "failed"} : remote' = [remote EXCEPT ![o] = to]
    /\ UNCHANGED sent

ProviderMoves(o) ==
    /\ StripeMoves(o) \/ OrangeMoves(o)
    /\ UNCHANGED <<billingVars, orderVars, choiceVars, due, inbox, refund, returned, asked, collected>>

\* The normalized answers of Orange, whose words for a status are not fixed: what the
\* server does not know needs a review.
AnswersOf(o) ==
    {"NEEDS_REVIEW"} \cup
        CASE remote[o] = "paid"   -> {"SUCCEEDED"}
          [] remote[o] = "failed" -> {"FAILED", "PENDING"}
          [] OTHER                -> {"PENDING"}

-----------------------------------------------------------------------------
(* CheckoutService::create *)

\* The order, its attempt and its subscription become visible together, after the provider
\* has answered; when the call fails nothing is left of them.  The simulator is closed in
\* production; nothing confirms a payment of FedaPay.
Checkout(o) ==
    /\ offered
    /\ order[o] = "NONE"
    /\ \E p \in {"stripe", "orange_money_ml"}, q \in {"CREDITS", "SUBSCRIPTION", "ONE_TIME"} :
         /\ p = "orange_money_ml" => q # "SUBSCRIPTION"
         /\ provider' = [provider EXCEPT ![o] = p]
         /\ purpose' = [purpose EXCEPT ![o] = q]
         /\ IF q = "SUBSCRIPTION" THEN Open(o) ELSE UNCHANGED subVars
    /\ order' = [order EXCEPT ![o] = "PENDING"]
    /\ attempt' = [attempt EXCEPT ![o] = "PENDING"]
    /\ remote' = [remote EXCEPT ![o] = "open"]
    /\ UNCHANGED <<offered, creditVars, now, refunded, posted, due, inbox, refund, sent, returned,
                   asked, collected>>

-----------------------------------------------------------------------------
(* PaymentWebhookProcessor::process *)

\* What a payment buys; archived prices and impossible transitions throw.
Deliver(o) ==
    CASE purpose[o] = "CREDITS"      -> offered /\ NewLot(o, Credits, Never) /\ UNCHANGED subVars
      [] purpose[o] = "SUBSCRIPTION" ->
            /\ \E newer \in IF touched[Latest] THEN BOOLEAN ELSE {TRUE} :
                 ApplyVerifiedEvent(Latest, newer, "ACTIVE")
            /\ UNCHANGED creditVars
      [] OTHER                       -> UNCHANGED <<creditVars, subVars>>

\* Mutant: whatever is not paid may still be paid.
Payable_Unpaid(o) == order[o] \in {"PENDING", "FAILED", "EXPIRED", "NEEDS_REVIEW"}

Payable(o) == order[o] = "PENDING"

Book(o) ==
    /\ Payable(o)
    /\ order' = [order EXCEPT ![o] = "SUCCEEDED"]
    /\ attempt' = [attempt EXCEPT ![o] = "SUCCEEDED"]
    /\ posted' = [posted EXCEPT ![o] = @ + 1]
    /\ Deliver(o)
    /\ UNCHANGED refunded

Fail(o) ==
    /\ order' = [order EXCEPT ![o] = IF Payable(o) THEN "FAILED" ELSE @]
    /\ UNCHANGED <<attempt, refunded, posted, creditVars, subVars>>

\* An event is recorded with what it does, or not at all: a success of an order that can
\* neither be booked nor is SUCCEEDED already throws.
Process(o, type) ==
    /\ order[o] # "NONE"
    /\ <<o, type>> \notin inbox
    /\ inbox' = inbox \cup {<<o, type>>}
    /\ \/ type \in Succeeds /\ Book(o)
       \/ type \in Succeeds /\ order[o] = "SUCCEEDED" /\ UNCHANGED <<orderVars, creditVars, subVars>>
       \/ type \in Fails /\ Fail(o)

StripeWebhook(o) ==
    /\ \E type \in Succeeds \cup Fails : <<o, type>> \in sent /\ Process(o, type)
    /\ UNCHANGED <<offered, now, choiceVars, due, refund, remoteVars, asked, collected>>

-----------------------------------------------------------------------------
(* PaymentReconciliationService::reconcile, for the notifications and the return page of
   Orange Money *)

Idle == [order |-> None, answer |-> None]

Ask(c, o) ==
    /\ asked[c] = Idle
    /\ order[o] # "NONE" /\ provider[o] = "orange_money_ml"
    /\ \E answer \in AnswersOf(o) : asked' = [asked EXCEPT ![c] = [order |-> o, answer |-> answer]]
    /\ UNCHANGED <<billingVars, orderVars, choiceVars, due, inbox, refund, remoteVars, collected>>

Answered(c, answer) == asked[c].order # None /\ asked[c].answer = answer

\* The order needs a review, whatever has become of it.
Review(c) ==
    /\ Answered(c, "NEEDS_REVIEW")
    /\ LET o == asked[c].order
       IN  /\ order' = [order EXCEPT ![o] = "NEEDS_REVIEW"]
           /\ attempt' = [attempt EXCEPT ![o] = "NEEDS_REVIEW"]
    /\ asked' = [asked EXCEPT ![c] = Idle]
    /\ UNCHANGED <<billingVars, refunded, posted, choiceVars, due, inbox, refund, remoteVars, collected>>

Reconcile(c) ==
    /\ \/ Answered(c, "SUCCEEDED") /\ Process(asked[c].order, "reconcile:SUCCEEDED")
       \/ Answered(c, "FAILED") /\ Process(asked[c].order, "reconcile:FAILED")
    /\ asked' = [asked EXCEPT ![c] = Idle]
    /\ UNCHANGED <<offered, now, choiceVars, due, refund, remoteVars, collected>>

\* The payment is pending, the event was processed before or throws, or the process dies.
ReconcileEnds(c) ==
    /\ asked[c] # Idle
    /\ asked' = [asked EXCEPT ![c] = Idle]
    /\ UNCHANGED <<billingVars, orderVars, choiceVars, due, inbox, refund, remoteVars, collected>>

-----------------------------------------------------------------------------
(* PaymentMaintenanceService::expirePending *)

\* Time passes expires_at, which matters while the order is pending.
FallsDue(o) ==
    /\ order[o] = "PENDING" /\ ~due[o]
    /\ due' = [due EXCEPT ![o] = TRUE]
    /\ UNCHANGED <<billingVars, orderVars, choiceVars, inbox, refund, remoteVars, asked, collected>>

Overdue(o) == due[o] /\ order[o] = "PENDING"

CollectOverdue ==
    /\ collected = {}
    /\ collected' = {o \in Orders : Overdue(o)}
    /\ collected' # {}
    /\ UNCHANGED <<billingVars, orderVars, choiceVars, due, inbox, refund, remoteVars, asked>>

\* The attempts are written if they are still open, the orders in any case.
WriteExpired ==
    /\ collected # {}
    /\ attempt' = [o \in Orders |-> IF o \in collected /\ attempt[o] = "PENDING" THEN "EXPIRED"
                                    ELSE attempt[o]]
    /\ order' = [o \in Orders |-> IF o \in collected THEN "EXPIRED" ELSE order[o]]
    /\ collected' = {}
    /\ UNCHANGED <<billingVars, refunded, posted, choiceVars, due, inbox, refund, remoteVars, asked>>

ExpiryDies ==
    /\ collected # {}
    /\ collected' = {}
    /\ UNCHANGED <<billingVars, orderVars, choiceVars, due, inbox, refund, remoteVars, asked>>

-----------------------------------------------------------------------------
(* RefundService *)

OrderOf(r) == RefundOf[r].order
Part(r)    == RefundOf[r].amount

\* Credits a refund takes back: all of them, or a share rounded down.
CreditsOf(r) ==
    IF purpose[OrderOf(r)] # "CREDITS" THEN 0
    ELSE IF Part(r) = Amount THEN Credits ELSE (Credits * Part(r)) \div Amount

FromLot(o, quantity) == [l \in Lots |-> IF l = o THEN quantity ELSE 0]

\* Stripe does not return more than was paid, and takes a refund with its key once.
Returns(r) ==
    LET others == {x \in returned \ {r} : OrderOf(x) = OrderOf(r)}
    IN  /\ remote[OrderOf(r)] = "paid"
        /\ SumFunction([x \in others |-> Part(x)]) + Part(r) <= Amount
        /\ returned' = returned \cup {r}

\* Orange Money has no refunds.  The attempt keeps the reference of the payment.
Refundable(r) ==
    LET o == OrderOf(r)
    IN  /\ refund[r] = "NONE"
        /\ order[o] = "SUCCEEDED" /\ attempt[o] = "SUCCEEDED"
        /\ provider[o] = "stripe"
        /\ refunded[o] + Part(r) <= Amount
        /\ CreditsOf(r) > 0 => remaining[o] >= CreditsOf(r)

RequestRefund(r) ==
    /\ Refundable(r)
    /\ Returns(r)
    /\ refund' = [refund EXCEPT ![r] = "PROCESSING"]
    /\ IF CreditsOf(r) = 0 THEN UNCHANGED creditVars
       ELSE Hold(r, FromLot(OrderOf(r), CreditsOf(r)))
    /\ UNCHANGED <<offered, now, subVars, orderVars, choiceVars, due, inbox, remote, sent, asked, collected>>

\* The call fails: Stripe refuses, or its answer is lost.  The credits are reserved and
\* released in one transaction.
RefundFails(r) ==
    /\ Refundable(r)
    /\ Returns(r) \/ UNCHANGED returned
    /\ refund' = [refund EXCEPT ![r] = "FAILED"]
    /\ held' = [held EXCEPT ![r] = IF CreditsOf(r) = 0 THEN @ ELSE "RELEASED"]
    /\ allocation' = [allocation EXCEPT ![r] = FromLot(OrderOf(r), CreditsOf(r))]
    /\ UNCHANGED <<offered, lotVars, now, subVars, orderVars, choiceVars, due, inbox, remote, sent,
                   asked, collected>>

\* The process dies after the call: the transaction leaves nothing, and the request may be
\* repeated with its key.
RefundDies(r) ==
    /\ Refundable(r)
    /\ Returns(r)
    /\ UNCHANGED <<billingVars, orderVars, choiceVars, due, inbox, refund, remote, sent, asked, collected>>

SettleOf(r, succeeded) ==
    IF held[r] = "RESERVED" THEN SettleHold(r, succeeded) ELSE UNCHANGED creditVars

\* A full refund of a subscription cancels the latest subscription to the price.
CancelRefunded(o, all) ==
    IF purpose[o] = "SUBSCRIPTION" /\ all /\ state[Latest] \notin {"CANCELLED", "EXPIRED"}
    THEN ApplyVerifiedEvent(Latest, TRUE, "CANCELLED")
    ELSE UNCHANGED subVars

\* Mutant: the parts refunded before are forgotten.
Completes_Alone(r) == Part(r) = Amount

\* With this refund the whole payment is returned.
Completes(r) == refunded[OrderOf(r)] + Part(r) = Amount

\* confirm, which no route calls: a refund that Stripe carried out, or not after all.
Confirm(r) ==
    LET o == OrderOf(r)
    IN  /\ refund[r] = "PROCESSING"
        /\ refunded[o] + Part(r) <= Amount
        /\ refund' = [refund EXCEPT ![r] = "CONFIRMED"]
        /\ refunded' = [refunded EXCEPT ![o] = @ + Part(r)]
        /\ order' = [order EXCEPT ![o] = IF Completes(r) THEN "REFUNDED" ELSE "PARTIALLY_REFUNDED"]
        /\ SettleOf(r, TRUE)
        /\ CancelRefunded(o, Completes(r))
        /\ UNCHANGED <<offered, now, attempt, posted, choiceVars, due, inbox, remoteVars, asked, collected>>

ConfirmFailed(r) ==
    /\ refund[r] = "PROCESSING"
    /\ refund' = [refund EXCEPT ![r] = "FAILED"]
    /\ returned' = returned \ {r}
    /\ SettleOf(r, FALSE)
    /\ UNCHANGED <<offered, now, subVars, orderVars, choiceVars, due, inbox, remote, sent, asked, collected>>

-----------------------------------------------------------------------------
Init ==
    /\ BillingInit
    /\ order = [o \in Orders |-> "NONE"]
    /\ attempt = [o \in Orders |-> "NONE"]
    /\ provider = [o \in Orders |-> None]
    /\ purpose = [o \in Orders |-> None]
    /\ due = [o \in Orders |-> FALSE]
    /\ refunded = [o \in Orders |-> 0]
    /\ posted = [o \in Orders |-> 0]
    /\ inbox = {}
    /\ refund = [r \in Refunds |-> "NONE"]
    /\ remote = [o \in Orders |-> "none"]
    /\ sent = {}
    /\ returned = {}
    /\ asked = [c \in Callers |-> Idle]
    /\ collected = {}

Expiry == CollectOverdue \/ WriteExpired

Next ==
    \/ BillingNext /\ UNCHANGED paymentVars
    \/ \E o \in Orders : Checkout(o) \/ ProviderMoves(o) \/ StripeWebhook(o) \/ FallsDue(o)
    \/ \E c \in Callers :
         (\E o \in Orders : Ask(c, o)) \/ Review(c) \/ Reconcile(c) \/ ReconcileEnds(c)
    \/ Expiry \/ ExpiryDies
    \/ \E r \in Refunds : RequestRefund(r) \/ RefundFails(r) \/ RefundDies(r) \/ Confirm(r) \/ ConfirmFailed(r)

Spec == Init /\ [][Next]_vars

-----------------------------------------------------------------------------
(* Properties *)

OrderStatuses == {"NONE", "PENDING", "SUCCEEDED", "FAILED", "EXPIRED", "NEEDS_REVIEW",
                  "PARTIALLY_REFUNDED", "REFUNDED"}
AttemptStatuses == {"NONE", "PENDING", "SUCCEEDED", "NEEDS_REVIEW", "EXPIRED"}
Answers == {"NEEDS_REVIEW", "SUCCEEDED", "FAILED", "PENDING"}
Events  == Orders \X (Succeeds \cup Fails)

\* The columns of the payments hold the values the code writes.
PaymentsTypeOK ==
    /\ order \in [Orders -> OrderStatuses]
    /\ attempt \in [Orders -> AttemptStatuses]
    /\ provider \in [Orders -> {None, "stripe", "orange_money_ml"}]
    /\ purpose \in [Orders -> {None, "CREDITS", "SUBSCRIPTION", "ONE_TIME"}]
    /\ due \in [Orders -> BOOLEAN]
    /\ refunded \in [Orders -> 0..Amount]
    /\ posted \in [Orders -> Nat]
    /\ inbox \subseteq Events
    /\ refund \in [Refunds -> {"NONE", "PROCESSING", "CONFIRMED", "FAILED"}]
    /\ remote \in [Orders -> {"none", "open", "ordered", "paid", "failed"}]
    /\ sent \subseteq Events
    /\ returned \subseteq Refunds
    /\ asked \in [Callers -> {Idle} \cup [order : Orders, answer : Answers]]
    /\ collected \subseteq Orders

TypeOK == BillingTypeOK /\ PaymentsTypeOK

\* Whatever is sent twice, asked for, reviewed and expired in between, an order is booked
\* once at most, never without a provider that reported it as completed, and only what is
\* booked brings its credits, or is called paid.  What is booked is neither payable nor
\* failed afterwards, and the attempt keeps its outcome unless a review was called for.
\* Booked does not mean that the money came: Stripe also reports as completed what was only
\* ordered, and the failure that may follow changes nothing.  Nor does the status stay paid:
\* an expiry or a review may overwrite it, see BookedStaysPaid.
BookedOnce ==
    \A o \in Orders :
        IF posted[o] = 0
        THEN total[o] = 0 /\ order[o] \notin {"SUCCEEDED", "PARTIALLY_REFUNDED", "REFUNDED"}
        ELSE /\ posted[o] = 1
             /\ remote[o] = "paid" \/ <<o, "completed">> \in sent
             /\ purpose[o] = "CREDITS" => total[o] = Credits
             /\ order[o] \notin {"PENDING", "FAILED"}
             /\ attempt[o] \in {"SUCCEEDED", "NEEDS_REVIEW"}

\* As docs/payments/providers.md:14 has it, only a verified webhook or an official
\* reconciliation applies a transition: an order that was booked stays paid, or refunded.  The
\* code lets the hourly expiry write EXPIRED over it (PaymentMaintenanceService.php:17), and
\* the review a reconciliation calls for NEEDS_REVIEW (PaymentReconciliationService.php:28).
BookedStaysPaid ==
    \A o \in Orders : posted[o] > 0 => order[o] \in {"SUCCEEDED", "PARTIALLY_REFUNDED", "REFUNDED"}

\* However the refunds of an order overlap, fail and are confirmed, the amount refunded is
\* the sum of those confirmed, all of which Stripe accepted; it never exceeds the payment,
\* and the status says how far it went.  The credits of a refund are held while it is open,
\* gone once it is confirmed, and back if it fails.
RefundsMatchBooks ==
    /\ \A o \in Orders :
         LET confirmed == {r \in Refunds : OrderOf(r) = o /\ refund[r] = "CONFIRMED"}
         IN  /\ refunded[o] = SumFunction([r \in confirmed |-> Part(r)])
             /\ refunded[o] <= Amount
             /\ confirmed \subseteq returned
             /\ order[o] = "PARTIALLY_REFUNDED" => refunded[o] \in 1 .. Amount - 1
             /\ order[o] = "REFUNDED" => refunded[o] = Amount
    /\ \A r \in Refunds :
         held[r] = IF refund[r] = "NONE" \/ CreditsOf(r) = 0 THEN "NONE"
                   ELSE CASE refund[r] = "PROCESSING" -> "RESERVED"
                          [] refund[r] = "CONFIRMED"  -> "CONFIRMED"
                          [] refund[r] = "FAILED"     -> "RELEASED"

\* No more subscriptions of the owner are active than orders for them were booked, although
\* a payment activates the latest one and customers cancel any.
ActivationsArePaid ==
    LET active == {s \in Subscriptions : state[s] \in {"ACTIVE", "CANCEL_AT_PERIOD_END"}}
        booked == {o \in Orders : purpose[o] = "SUBSCRIPTION" /\ posted[o] > 0}
    IN  Cardinality(active) <= Cardinality(booked)
=============================================================================
