------------------------ MODULE ServerPayments_proofs ------------------------
(***************************************************************************)
(* Theorems about the payments and the billing of the Laravel server.      *)
(* Whatever the number of orders, refunds, lots and callers: orders are    *)
(* booked once, credits are conserved, the refunds agree with the books    *)
(* and no activation is free.                                              *)
(***************************************************************************)
EXTENDS ServerPayments, SumLemmas

-----------------------------------------------------------------------------
(* Constants *)

\* Lots and reservations are finitely many.
LEMMA Finite == IsFiniteSet(Lots) /\ IsFiniteSet(Reservations) /\ IsFiniteSet(Refunds)
BY ServerBillingAssumption, FS_Union DEF Lots, Reservations

\* A refund is of an order and takes back a natural number of credits.
LEMMA RefundTyped ==
  ASSUME NEW r \in Refunds
  PROVE  OrderOf(r) \in Orders /\ Part(r) \in 1..Amount /\ CreditsOf(r) \in Nat
<1>1. OrderOf(r) \in Orders /\ Part(r) \in 1..Amount
  BY ServerPaymentsAssumption DEF OrderOf, Part
<1>2. \A a, b \in Nat, d \in Nat \ {0} : (a * b) \div d \in Nat
  OBVIOUS
<1>3. (Credits * Part(r)) \div Amount \in Nat
  BY <1>1, <1>2, ServerBillingAssumption, ServerPaymentsAssumption
<1> QED  BY <1>1, <1>3, ServerBillingAssumption DEF CreditsOf

-----------------------------------------------------------------------------
(* What a step may do to the credits *)

CreditsStep ==
    \/ UNCHANGED creditVars
    \/ \E l \in Lots, quantity \in 1..Credits, expiry \in 0..Never : NewLot(l, quantity, expiry)
    \/ \E r \in Reservations, a \in [Lots -> Nat] :
         (\A l \in Lots : a[l] <= remaining[l]) /\ Hold(r, a)
    \/ \E r \in Reservations, confirm \in BOOLEAN : SettleHold(r, confirm)
    \/ Summary
    \/ \E r \in Refunds : RefundFails(r)

\* What Reserve takes of a lot is there.
LEMMA ReserveHolds ==
  ASSUME BillingTypeOK, NEW u \in Uses, Reserve(u)
  PROVE  \E a \in [Lots -> Nat] : (\A l \in Lots : a[l] <= remaining[l]) /\ Hold(u, a)
<1>1. PICK quantity \in 1..Credits : \E a \in Allocations(quantity) :
         Hold(u, [l \in Lots |-> IF l \in UsableLots THEN a[l] ELSE 0])
  BY DEF Reserve
<1>2. PICK a \in Allocations(quantity) : Hold(u, [l \in Lots |-> IF l \in UsableLots THEN a[l] ELSE 0])
  BY <1>1
<1> DEFINE b == [l \in Lots |-> IF l \in UsableLots THEN a[l] ELSE 0]
<1>3. a \in [UsableLots -> 0..quantity] /\ \A l \in UsableLots : a[l] <= remaining[l]
  BY DEF Allocations
<1>4. b \in [Lots -> Nat]
  BY <1>3 DEF UsableLots
<1>5. ASSUME NEW l \in Lots PROVE b[l] <= remaining[l]
  BY <1>3 DEF BillingTypeOK, CreditsTypeOK
<1> QED  BY <1>2, <1>4, <1>5

\* A step that delivers what was paid.
LEMMA DeliverCredits ==
  ASSUME BillingTypeOK, NEW o \in Orders, Deliver(o)
  PROVE  CreditsStep
<1>1. CASE purpose[o] = "CREDITS"
  <2>1. NewLot(o, Credits, Never)
    BY <1>1 DEF Deliver
  <2>2. o \in Lots /\ Credits \in 1..Credits /\ Never \in 0..Never
    BY ServerBillingAssumption DEF Lots, Never
  <2> QED  BY <2>1, <2>2 DEF CreditsStep
<1>2. CASE purpose[o] # "CREDITS"
  BY <1>2 DEF Deliver, CreditsStep
<1> QED  BY <1>1, <1>2

LEMMA ProcessCredits ==
  ASSUME BillingTypeOK, NEW o \in Orders, NEW type, Process(o, type)
  PROVE  CreditsStep
<1>1. CASE Book(o)
  BY <1>1, DeliverCredits DEF Book
<1>2. CASE UNCHANGED creditVars
  BY <1>2 DEF CreditsStep
<1> QED  BY <1>1, <1>2 DEF Process, Fail

LEMMA SettleOfCredits ==
  ASSUME NEW r \in Refunds, NEW confirm \in BOOLEAN, SettleOf(r, confirm)
  PROVE  CreditsStep
<1>1. r \in Reservations
  BY DEF Reservations
<1> QED  BY <1>1 DEF SettleOf, CreditsStep

\* Whatever the server does, credits are only ever granted, held, settled or written off.
LEMMA AnyStepCredits ==
  ASSUME TypeOK, [Next]_vars
  PROVE  CreditsStep
<1> USE DEF TypeOK
<1>1. CASE UNCHANGED vars
  BY <1>1 DEF vars, billingVars, CreditsStep
<1>2. CASE BillingNext
  <2>1. CASE ArchivePrice \/ Tick
    BY <2>1 DEF ArchivePrice, Tick, CreditsStep
  <2>2. CASE Summary
    BY <2>2 DEF CreditsStep
  <2>3. ASSUME NEW l \in Grants, Purchase(l) \/ AdministrativeGrant(l)
        PROVE  CreditsStep
    <3>1. l \in Lots /\ Credits \in 1..Credits /\ Never \in 0..Never
      BY ServerBillingAssumption DEF Lots, Never
    <3>2. CASE Purchase(l)
      BY <3>1, <3>2 DEF Purchase, CreditsStep
    <3>3. CASE AdministrativeGrant(l)
      <4>1. PICK quantity \in 1..Credits, expiry \in now + 1 .. Never : NewLot(l, quantity, expiry)
        BY <3>3 DEF AdministrativeGrant
      <4>2. expiry \in 0..Never
        BY ServerBillingAssumption DEF BillingTypeOK, Never
      <4> QED  BY <3>1, <4>1, <4>2 DEF CreditsStep
    <3> QED  BY <2>3, <3>2, <3>3
  <2>4. ASSUME NEW u \in Uses, Reserve(u)
        PROVE  CreditsStep
    <3>1. u \in Reservations
      BY DEF Reservations
    <3> QED  BY <2>4, <3>1, ReserveHolds DEF CreditsStep
  <2>5. ASSUME NEW u \in Uses, NEW confirm \in BOOLEAN, Settle(u, confirm)
        PROVE  CreditsStep
    BY <2>5 DEF Settle, CreditsStep, Reservations
  <2>6. ASSUME NEW s \in Requests, CreatePending(s)
        PROVE  CreditsStep
    BY <2>6 DEF CreatePending, CreditsStep
  <2>7. ASSUME NEW s \in Subscriptions, NEW immediate \in BOOLEAN, ScheduleCancellation(s, immediate)
        PROVE  CreditsStep
    BY <2>7 DEF ScheduleCancellation, CreditsStep
  <2> QED  BY <1>2, <2>1, <2>2, <2>3, <2>4, <2>5, <2>6, <2>7 DEF BillingNext
<1>3. ASSUME NEW o \in Orders, Checkout(o) \/ ProviderMoves(o) \/ FallsDue(o)
      PROVE  CreditsStep
  BY <1>3 DEF Checkout, ProviderMoves, FallsDue, billingVars, CreditsStep
<1>4. ASSUME NEW o \in Orders, StripeWebhook(o)
      PROVE  CreditsStep
  BY <1>4, ProcessCredits DEF StripeWebhook
<1>5. ASSUME NEW c \in Callers, (\E o \in Orders : Ask(c, o)) \/ Review(c) \/ ReconcileEnds(c)
      PROVE  CreditsStep
  BY <1>5 DEF Ask, Review, ReconcileEnds, billingVars, CreditsStep
<1>6. ASSUME NEW c \in Callers, Reconcile(c)
      PROVE  CreditsStep
  <2>1. asked[c].order # None /\ asked[c] \in {Idle} \cup [order : Orders, answer : Answers]
    BY <1>6 DEF Reconcile, Answered, PaymentsTypeOK
  <2>2. asked[c].order \in Orders
    BY <2>1 DEF Idle
  <2> QED  BY <1>6, <2>2, ProcessCredits DEF Reconcile
<1>7. CASE Expiry \/ ExpiryDies
  BY <1>7 DEF Expiry, CollectOverdue, WriteExpired, ExpiryDies, billingVars, CreditsStep
<1>8. ASSUME NEW r \in Refunds, RequestRefund(r)
      PROVE  CreditsStep
  <2>1. CASE UNCHANGED creditVars
    BY <2>1 DEF CreditsStep
  <2>2. CASE CreditsOf(r) # 0 /\ Hold(r, FromLot(OrderOf(r), CreditsOf(r)))
    <3> DEFINE a == FromLot(OrderOf(r), CreditsOf(r))
    <3>1. CreditsOf(r) \in Nat /\ r \in Reservations
      BY RefundTyped DEF Reservations
    <3>2. remaining[OrderOf(r)] >= CreditsOf(r)
      BY <1>8, <2>2, <3>1 DEF RequestRefund, Refundable
    <3>3. a \in [Lots -> Nat]
      BY <3>1 DEF FromLot
    <3>4. \A l \in Lots : a[l] <= remaining[l]
      BY <3>1, <3>2 DEF FromLot, BillingTypeOK, CreditsTypeOK
    <3> QED  BY <2>2, <3>1, <3>3, <3>4 DEF CreditsStep
  <2> QED  BY <1>8, <2>1, <2>2 DEF RequestRefund
<1>9. ASSUME NEW r \in Refunds, RefundDies(r)
      PROVE  CreditsStep
  BY <1>9 DEF RefundDies, billingVars, CreditsStep
<1>10. ASSUME NEW r \in Refunds, RefundFails(r)
       PROVE  CreditsStep
  BY <1>10 DEF CreditsStep
<1>11. ASSUME NEW r \in Refunds, Confirm(r) \/ ConfirmFailed(r)
       PROVE  CreditsStep
  BY <1>11, SettleOfCredits DEF Confirm, ConfirmFailed
<1> QED
  BY <1>1, <1>2, <1>3, <1>4, <1>5, <1>6, <1>7, <1>8, <1>9, <1>10, <1>11 DEF Next

-----------------------------------------------------------------------------
(* Type correctness *)

\* What is taken of the lots adds up to an integer.
LEMMA TakenAddsUp ==
  ASSUME NEW a \in [Lots -> Nat]
  PROVE  SumFunction(a) \in Int
<1>1. SumFunction(a) = SumFunctionOnSet(a, Lots)
  BY SumIsOnDomain
<1> QED  BY <1>1, SumInt, Finite

\* The columns of the credits keep their types.
LEMMA CreditsTyped ==
  ASSUME TypeOK, CreditsStep
  PROVE  CreditsTypeOK'
<1> USE DEF TypeOK, BillingTypeOK, CreditsTypeOK
<1>1. CASE UNCHANGED creditVars
  BY <1>1 DEF creditVars, lotVars, holdVars
<1>2. ASSUME NEW l \in Lots, NEW quantity \in 1..Credits, NEW expiry \in 0..Never,
             NewLot(l, quantity, expiry)
      PROVE  CreditsTypeOK'
  BY <1>2, ServerBillingAssumption DEF NewLot, holdVars
<1>3. ASSUME NEW r \in Reservations, NEW a \in [Lots -> Nat],
             \A l \in Lots : a[l] <= remaining[l], Hold(r, a)
      PROVE  CreditsTypeOK'
  <2>1. remaining' \in [Lots -> Nat] /\ reserved' \in [Lots -> Int]
    BY <1>3 DEF Hold
  <2>2. balance' \in Int
    BY <1>3, TakenAddsUp DEF Hold
  <2>3. UNCHANGED <<total, expires, expired>>
    BY <1>3 DEF Hold
  <2>4. /\ held' \in [Reservations -> {"NONE", "RESERVED", "CONFIRMED", "RELEASED"}]
        /\ allocation' \in [Reservations -> [Lots -> Nat]]
    BY <1>3 DEF Hold
  <2> QED  BY <2>1, <2>2, <2>3, <2>4
<1>4. ASSUME NEW r \in Reservations, NEW confirm \in BOOLEAN, SettleHold(r, confirm)
      PROVE  CreditsTypeOK'
  <2>1. remaining' \in [Lots -> Nat] /\ reserved' \in [Lots -> Int]
    BY <1>4 DEF SettleHold, GivenBack
  <2>2. balance' \in Int
    <3>1. SumFunction(allocation[r]) \in Int
      BY TakenAddsUp
    <3> QED  BY <1>4, <3>1 DEF SettleHold
  <2>3. UNCHANGED <<total, expires, expired, allocation>>
    BY <1>4 DEF SettleHold
  <2>4. held' \in [Reservations -> {"NONE", "RESERVED", "CONFIRMED", "RELEASED"}]
    BY <1>4 DEF SettleHold
  <2> QED  BY <2>1, <2>2, <2>3, <2>4
<1>5. CASE Summary
  <2> DEFINE written == {l \in Lots : Due(l)}
  <2>1. remaining' \in [Lots -> Nat]
    BY <1>5 DEF Summary
  <2>2. SumFunctionOnSet(remaining, written) \in Int
    BY SumInt, Finite, FS_Subset
  <2>3. balance' \in Int
    BY <1>5, <2>2 DEF Summary
  <2>4. UNCHANGED <<total, reserved, expires, held, allocation>> /\ expired' \subseteq Lots
    BY <1>5 DEF Summary, holdVars
  <2> QED  BY <2>1, <2>3, <2>4
<1>6. ASSUME NEW r \in Refunds, RefundFails(r)
      PROVE  CreditsTypeOK'
  <2>1. FromLot(OrderOf(r), CreditsOf(r)) \in [Lots -> Nat]
    BY RefundTyped DEF FromLot
  <2>2. UNCHANGED lotVars
    BY <1>6 DEF RefundFails
  <2>3. allocation' \in [Reservations -> [Lots -> Nat]]
    BY <1>6, <2>1 DEF RefundFails, Reservations
  <2>4. held' \in [Reservations -> {"NONE", "RESERVED", "CONFIRMED", "RELEASED"}]
    BY <1>6 DEF RefundFails, Reservations
  <2> QED  BY <2>2, <2>3, <2>4 DEF lotVars
<1> QED  BY <1>1, <1>2, <1>3, <1>4, <1>5, <1>6 DEF CreditsStep

\* ... as do those of the subscriptions, which only the four operations below change.
LEMMA SubscriptionsTyped ==
  ASSUME TypeOK, NEW s \in Subscriptions,
         \/ UNCHANGED subVars
         \/ Open(s)
         \/ \E newer \in BOOLEAN, next \in {"ACTIVE", "CANCELLED"} :
              ApplyVerifiedEvent(Latest, newer, next)
         \/ \E immediate \in BOOLEAN : ScheduleCancellation(s, immediate)
  PROVE  SubscriptionsTypeOK'
<1> USE DEF TypeOK, BillingTypeOK, SubscriptionsTypeOK, subVars, Transitions
<1>1. CASE UNCHANGED subVars
  BY <1>1
<1>2. CASE Open(s)
  BY <1>2 DEF Open
<1>3. ASSUME NEW newer \in BOOLEAN, NEW next \in {"ACTIVE", "CANCELLED"},
             ApplyVerifiedEvent(Latest, newer, next)
      PROVE  SubscriptionsTypeOK'
  BY <1>3 DEF ApplyVerifiedEvent
<1>4. ASSUME NEW immediate \in BOOLEAN, ScheduleCancellation(s, immediate)
      PROVE  SubscriptionsTypeOK'
  BY <1>4 DEF ScheduleCancellation
<1> QED  BY <1>1, <1>2, <1>3, <1>4

LEMMA ProcessTyped ==
  ASSUME TypeOK, NEW o \in Orders, NEW type \in Succeeds \cup Fails, Process(o, type)
  PROVE  /\ order' \in [Orders -> OrderStatuses]
         /\ attempt' \in [Orders -> AttemptStatuses]
         /\ posted' \in [Orders -> Nat]
         /\ inbox' \subseteq Events
         /\ UNCHANGED refunded
         /\ SubscriptionsTypeOK'
<1> USE DEF TypeOK, PaymentsTypeOK
<1>1. inbox' \subseteq Events
  BY DEF Process, Events
<1>2. o \in Subscriptions
  BY DEF Subscriptions
<1>3. CASE Book(o)
  <2>1. /\ order' \in [Orders -> OrderStatuses] /\ attempt' \in [Orders -> AttemptStatuses]
        /\ posted' \in [Orders -> Nat] /\ UNCHANGED refunded
    BY <1>3 DEF Book, OrderStatuses, AttemptStatuses
  <2>2. \/ UNCHANGED subVars
        \/ \E newer \in BOOLEAN : ApplyVerifiedEvent(Latest, newer, "ACTIVE")
    BY <1>3 DEF Book, Deliver
  <2>3. SubscriptionsTypeOK'
    BY <1>2, <2>2, SubscriptionsTyped
  <2> QED  BY <1>1, <2>1, <2>3
<1>4. CASE UNCHANGED <<orderVars, creditVars, subVars>>
  BY <1>1, <1>2, <1>4, SubscriptionsTyped DEF orderVars
<1>5. CASE Fail(o)
  <2>1. order' \in [Orders -> OrderStatuses] /\ UNCHANGED <<attempt, refunded, posted, subVars>>
    BY <1>5 DEF Fail, OrderStatuses
  <2> QED  BY <1>1, <1>2, <2>1, SubscriptionsTyped
<1> QED  BY <1>3, <1>4, <1>5 DEF Process

LEMMA TypedInit == Init => TypeOK
<1> SUFFICES ASSUME Init PROVE TypeOK
  OBVIOUS
<1>1. CreditsTypeOK
  BY ServerBillingAssumption DEF Init, BillingInit, CreditsTypeOK, Never
<1>2. SubscriptionsTypeOK /\ offered \in BOOLEAN /\ now \in 0..Horizon
  BY ServerBillingAssumption DEF Init, BillingInit, SubscriptionsTypeOK
<1>3. PaymentsTypeOK
  BY ServerPaymentsAssumption DEF Init, PaymentsTypeOK, OrderStatuses, AttemptStatuses, Events
<1> QED  BY <1>1, <1>2, <1>3 DEF TypeOK, BillingTypeOK

LEMMA BillingTypedStep ==
  ASSUME TypeOK, BillingNext
  PROVE  SubscriptionsTypeOK' /\ offered' \in BOOLEAN /\ now' \in 0..Horizon
<1> USE DEF TypeOK, BillingTypeOK
<1>1. offered' \in BOOLEAN /\ now' \in 0..Horizon
  <2>1. CASE Tick
    BY <2>1, ServerBillingAssumption DEF Tick
  <2>2. CASE UNCHANGED now /\ (offered' = FALSE \/ UNCHANGED offered)
    BY <2>2
  <2> QED
    BY <2>1, <2>2 DEF BillingNext, ArchivePrice, Summary, Purchase, AdministrativeGrant,
       Reserve, Settle, CreatePending, ScheduleCancellation
<1>2. CASE UNCHANGED subVars
  BY <1>2, <1>1 DEF subVars, SubscriptionsTypeOK
<1>3. ASSUME NEW s \in Requests, CreatePending(s)
      PROVE  SubscriptionsTypeOK'
  BY <1>3, SubscriptionsTyped DEF CreatePending, Subscriptions
<1>4. ASSUME NEW s \in Subscriptions, NEW immediate \in BOOLEAN, ScheduleCancellation(s, immediate)
      PROVE  SubscriptionsTypeOK'
  BY <1>4, SubscriptionsTyped
<1>5. \/ UNCHANGED subVars
      \/ \E s \in Requests : CreatePending(s)
      \/ \E s \in Subscriptions, immediate \in BOOLEAN : ScheduleCancellation(s, immediate)
  BY DEF BillingNext, ArchivePrice, Summary, Tick, Purchase, AdministrativeGrant, Reserve, Settle
<1> QED  BY <1>1, <1>2, <1>3, <1>4, <1>5

LEMMA TypedStep == TypeOK /\ [Next]_vars => TypeOK'
<1> SUFFICES ASSUME TypeOK, [Next]_vars PROVE TypeOK'
  OBVIOUS
<1> USE DEF TypeOK, BillingTypeOK
<1>0. CreditsTypeOK'
  BY AnyStepCredits, CreditsTyped
<1> SUFFICES /\ SubscriptionsTypeOK' /\ offered' \in BOOLEAN /\ now' \in 0..Horizon
             /\ PaymentsTypeOK'
  BY <1>0
<1> DEFINE Rest == SubscriptionsTypeOK' /\ offered' \in BOOLEAN /\ now' \in 0..Horizon
<1>1. ASSUME UNCHANGED <<offered, now, subVars>>
      PROVE  Rest
  BY <1>1 DEF subVars, SubscriptionsTypeOK
<1>2. CASE UNCHANGED vars
  <2>1. PaymentsTypeOK'
    BY <1>2 DEF vars, paymentVars, orderVars, choiceVars, remoteVars, PaymentsTypeOK
  <2> QED  BY <1>1, <1>2, <2>1 DEF vars, billingVars
<1>3. CASE BillingNext /\ UNCHANGED paymentVars
  <2>1. PaymentsTypeOK'
    BY <1>3 DEF paymentVars, orderVars, choiceVars, remoteVars, PaymentsTypeOK
  <2> QED  BY <1>3, <2>1, BillingTypedStep
<1>4. ASSUME NEW o \in Orders, Checkout(o)
      PROVE  Rest /\ PaymentsTypeOK'
  <2>1. o \in Subscriptions /\ (UNCHANGED subVars \/ Open(o))
    BY <1>4 DEF Checkout, Subscriptions
  <2>2. Rest
    BY <1>4, <2>1, SubscriptionsTyped DEF Checkout
  <2>3. PaymentsTypeOK'
    BY <1>4 DEF Checkout, PaymentsTypeOK, OrderStatuses, AttemptStatuses
  <2> QED  BY <2>2, <2>3
<1>5. ASSUME NEW o \in Orders, ProviderMoves(o)
      PROVE  Rest /\ PaymentsTypeOK'
  <2>1. remote' \in [Orders -> {"none", "open", "ordered", "paid", "failed"}] /\ sent' \subseteq Events
    BY <1>5 DEF ProviderMoves, StripeMoves, OrangeMoves, PaymentsTypeOK, Events
  <2>2. UNCHANGED <<billingVars, orderVars, choiceVars, due, inbox, refund, returned, asked, collected>>
    BY <1>5 DEF ProviderMoves
  <2>3. PaymentsTypeOK'
    BY <2>1, <2>2 DEF PaymentsTypeOK, orderVars, choiceVars
  <2> QED  BY <1>1, <2>2, <2>3 DEF billingVars
<1>6. ASSUME NEW o \in Orders, StripeWebhook(o)
      PROVE  Rest /\ PaymentsTypeOK'
  <2>1. PICK type \in Succeeds \cup Fails : Process(o, type)
    BY <1>6 DEF StripeWebhook
  <2>2. UNCHANGED <<offered, now, choiceVars, due, refund, remoteVars, asked, collected>>
    BY <1>6 DEF StripeWebhook
  <2> QED  BY <2>1, <2>2, ProcessTyped DEF PaymentsTypeOK, choiceVars, remoteVars
<1>7. ASSUME NEW o \in Orders, FallsDue(o)
      PROVE  Rest /\ PaymentsTypeOK'
  BY <1>1, <1>7 DEF FallsDue, billingVars, PaymentsTypeOK, orderVars, choiceVars, remoteVars
<1>8. ASSUME NEW c \in Callers, NEW o \in Orders, Ask(c, o)
      PROVE  Rest /\ PaymentsTypeOK'
  <2>1. PICK answer \in AnswersOf(o) : asked' = [asked EXCEPT ![c] = [order |-> o, answer |-> answer]]
    BY <1>8 DEF Ask
  <2>2. answer \in Answers
    BY <2>1 DEF AnswersOf, Answers
  <2>3. asked' \in [Callers -> {Idle} \cup [order : Orders, answer : Answers]]
    BY <2>1, <2>2 DEF PaymentsTypeOK
  <2> QED  BY <1>1, <1>8, <2>3 DEF Ask, billingVars, PaymentsTypeOK, orderVars, choiceVars, remoteVars
<1>9. ASSUME NEW c \in Callers, Review(c)
      PROVE  Rest /\ PaymentsTypeOK'
  <2>1. order' \in [Orders -> OrderStatuses] /\ attempt' \in [Orders -> AttemptStatuses]
    BY <1>9 DEF Review, PaymentsTypeOK, OrderStatuses, AttemptStatuses
  <2>2. asked' \in [Callers -> {Idle} \cup [order : Orders, answer : Answers]]
    BY <1>9 DEF Review, PaymentsTypeOK
  <2> QED  BY <1>1, <1>9, <2>1, <2>2 DEF Review, billingVars, PaymentsTypeOK, choiceVars, remoteVars
<1>10. ASSUME NEW c \in Callers, Reconcile(c)
       PROVE  Rest /\ PaymentsTypeOK'
  <2>1. asked[c].order \in Orders
    BY <1>10 DEF Reconcile, Answered, PaymentsTypeOK, Idle
  <2>2. PICK type \in Succeeds \cup Fails : Process(asked[c].order, type)
    BY <1>10 DEF Reconcile, Succeeds, Fails
  <2>3. UNCHANGED <<offered, now, choiceVars, due, refund, remoteVars, collected>>
    BY <1>10 DEF Reconcile
  <2>4. asked' \in [Callers -> {Idle} \cup [order : Orders, answer : Answers]]
    BY <1>10 DEF Reconcile, PaymentsTypeOK
  <2> QED  BY <2>1, <2>2, <2>3, <2>4, ProcessTyped DEF PaymentsTypeOK, choiceVars, remoteVars
<1>11. ASSUME NEW c \in Callers, ReconcileEnds(c)
       PROVE  Rest /\ PaymentsTypeOK'
  BY <1>1, <1>11 DEF ReconcileEnds, billingVars, PaymentsTypeOK, orderVars, choiceVars, remoteVars
<1>12. CASE CollectOverdue \/ ExpiryDies
  BY <1>1, <1>12 DEF CollectOverdue, ExpiryDies, billingVars, PaymentsTypeOK, orderVars, choiceVars, remoteVars
<1>13. CASE WriteExpired
  <2>1. order' \in [Orders -> OrderStatuses] /\ attempt' \in [Orders -> AttemptStatuses]
    BY <1>13 DEF WriteExpired, PaymentsTypeOK, OrderStatuses, AttemptStatuses
  <2> QED  BY <1>1, <1>13, <2>1 DEF WriteExpired, billingVars, PaymentsTypeOK, choiceVars, remoteVars
<1>14. ASSUME NEW r \in Refunds, RequestRefund(r) \/ RefundFails(r) \/ ConfirmFailed(r)
       PROVE  Rest /\ PaymentsTypeOK'
  <2>1. returned' \subseteq Refunds /\ refund' \in [Refunds -> {"NONE", "PROCESSING", "CONFIRMED", "FAILED"}]
    BY <1>14 DEF RequestRefund, RefundFails, ConfirmFailed, Returns, PaymentsTypeOK
  <2>2. UNCHANGED <<offered, now, subVars, orderVars, choiceVars, due, inbox, remote, sent, asked, collected>>
    BY <1>14 DEF RequestRefund, RefundFails, ConfirmFailed
  <2> QED  BY <1>1, <2>1, <2>2 DEF PaymentsTypeOK, orderVars, choiceVars
<1>15. ASSUME NEW r \in Refunds, RefundDies(r)
       PROVE  Rest /\ PaymentsTypeOK'
  <2>1. returned' \subseteq Refunds
    BY <1>15 DEF RefundDies, Returns, PaymentsTypeOK
  <2> QED  BY <1>1, <1>15, <2>1 DEF RefundDies, billingVars, PaymentsTypeOK, orderVars, choiceVars
<1>16. ASSUME NEW r \in Refunds, Confirm(r)
       PROVE  Rest /\ PaymentsTypeOK'
  <2>1. OrderOf(r) \in Orders /\ OrderOf(r) \in Subscriptions /\ Part(r) \in 1..Amount
    BY RefundTyped DEF Subscriptions
  <2>2. refunded' \in [Orders -> 0..Amount]
    BY <1>16, <2>1, ServerPaymentsAssumption DEF Confirm, PaymentsTypeOK
  <2>3. order' \in [Orders -> OrderStatuses] /\ refund' \in [Refunds -> {"NONE", "PROCESSING", "CONFIRMED", "FAILED"}]
    BY <1>16 DEF Confirm, PaymentsTypeOK, OrderStatuses
  <2>4. UNCHANGED subVars \/ ApplyVerifiedEvent(Latest, TRUE, "CANCELLED")
    BY <1>16 DEF Confirm, CancelRefunded
  <2>5. SubscriptionsTypeOK'
    BY <2>1, <2>4, SubscriptionsTyped
  <2> QED  BY <1>16, <2>2, <2>3, <2>5 DEF Confirm, PaymentsTypeOK, choiceVars, remoteVars
<1> QED
  BY <1>2, <1>3, <1>4, <1>5, <1>6, <1>7, <1>8, <1>9, <1>10, <1>11, <1>12, <1>13, <1>14, <1>15, <1>16
     DEF Next, Expiry

\* The server only writes values of the type of their column.
THEOREM TypeCorrect == Spec => []TypeOK
<1> QED  BY TypedInit, TypedStep, PTL DEF Spec

-----------------------------------------------------------------------------
(* Credits are conserved *)

\* What reservations of one status have of a lot, as a function, and its sum.
TakenBy(l, status) == [r \in Reservations |-> IF held[r] = status THEN allocation[r][l] ELSE 0]

LEMMA TakenTyped ==
  ASSUME CreditsTypeOK, NEW l \in Lots, NEW status
  PROVE  /\ Taken(l, status) = SumFunctionOnSet(TakenBy(l, status), Reservations)
         /\ \A r \in Reservations : TakenBy(l, status)[r] \in Nat
         /\ Taken(l, status) \in Nat
<1>1. Taken(l, status) = SumFunctionOnSet(TakenBy(l, status), Reservations)
  BY SumIsOnDomain DEF Taken, TakenBy
<1>2. \A r \in Reservations : TakenBy(l, status)[r] \in Nat
  BY DEF TakenBy, CreditsTypeOK
<1>3. SumFunctionOnSet(TakenBy(l, status), Reservations) \in Nat
  BY <1>2, SumNat, Finite
<1> QED  BY <1>1, <1>2, <1>3

\* A step that concerns no reservation of a status leaves what they have.
LEMMA TakenStays ==
  ASSUME CreditsTypeOK, CreditsTypeOK', NEW l \in Lots, NEW status,
         \A r \in Reservations : TakenBy(l, status)'[r] = TakenBy(l, status)[r]
  PROVE  Taken(l, status)' = Taken(l, status)
<1>1. Taken(l, status)' = SumFunctionOnSet(TakenBy(l, status)', Reservations)
  BY SumIsOnDomain DEF Taken, TakenBy
<1>2. Taken(l, status) = SumFunctionOnSet(TakenBy(l, status), Reservations)
  BY TakenTyped
<1> HIDE DEF TakenBy
<1> QED  BY <1>1, <1>2, SumSame, Finite

\* A step that concerns one reservation moves it by what this one takes or leaves.
LEMMA TakenMoves ==
  ASSUME CreditsTypeOK, CreditsTypeOK', NEW l \in Lots, NEW status, NEW r \in Reservations,
         \A x \in Reservations \ {r} : TakenBy(l, status)'[x] = TakenBy(l, status)[x]
  PROVE  Taken(l, status)' = Taken(l, status) + (TakenBy(l, status)'[r] - TakenBy(l, status)[r])
<1>1. Taken(l, status)' = SumFunctionOnSet(TakenBy(l, status)', Reservations)
  BY SumIsOnDomain DEF Taken, TakenBy
<1>2. /\ Taken(l, status) = SumFunctionOnSet(TakenBy(l, status), Reservations)
      /\ \A x \in Reservations : TakenBy(l, status)[x] \in Int
  BY TakenTyped
<1>3. TakenBy(l, status)'[r] \in Int
  BY DEF TakenBy, CreditsTypeOK
<1> HIDE DEF TakenBy
<1> QED  BY <1>1, <1>2, <1>3, SumChange, Finite

\* The balance is the sum of what remains.
LEMMA BalanceMoves ==
  ASSUME CreditsTypeOK, CreditsTypeOK', balance = SumFunction(remaining), NEW change,
         \A l \in Lots : change[l] \in Int /\ remaining'[l] = remaining[l] + change[l],
         balance' = balance + SumFunctionOnSet(change, Lots)
  PROVE  balance' = SumFunction(remaining')
<1>1. SumFunction(remaining) = SumFunctionOnSet(remaining, Lots)
  BY SumIsOnDomain DEF CreditsTypeOK
<1>2. SumFunction(remaining') = SumFunctionOnSet(remaining', Lots)
  BY SumIsOnDomain DEF CreditsTypeOK
<1>3. SumFunctionOnSet(remaining', Lots) = SumFunctionOnSet(remaining, Lots) + SumFunctionOnSet(change, Lots)
  <2>1. \A l \in Lots : remaining[l] \in Int /\ change[l] \in Int /\ remaining'[l] = remaining[l] + change[l]
    BY DEF CreditsTypeOK
  <2> QED  BY <2>1, SumAdd, Finite
<1> QED  BY <1>1, <1>2, <1>3

\* The balance of one lot.
LotConserved(l) ==
    LET accounted == remaining[l] + reserved[l] + Taken(l, "CONFIRMED")
    IN  /\ remaining[l] >= 0
        /\ reserved[l] = Taken(l, "RESERVED")
        /\ accounted <= total[l]
        /\ accounted < total[l] => l \in expired

LEMMA NewLotConserves ==
  ASSUME CreditsTypeOK, CreditsTypeOK', CreditsConserved,
         NEW l \in Lots, NEW quantity \in 1..Credits, NEW expiry, NewLot(l, quantity, expiry)
  PROVE  CreditsConserved'
<1> USE DEF NewLot, holdVars
<1>1. balance' = SumFunction(remaining')
  <2> DEFINE change == [k \in Lots |-> IF k = l THEN quantity ELSE 0]
             none   == [k \in Lots |-> 0]
  <2>1. quantity \in Int /\ remaining[l] = 0
    <3>1. Taken(l, "RESERVED") \in Nat /\ Taken(l, "CONFIRMED") \in Nat
      BY TakenTyped
    <3>2. /\ remaining[l] + reserved[l] + Taken(l, "CONFIRMED") <= 0
          /\ reserved[l] = Taken(l, "RESERVED")
      BY DEF CreditsConserved
    <3>3. remaining[l] \in Nat
      BY DEF CreditsTypeOK
    <3> QED  BY <3>1, <3>2, <3>3
  <2>2. SumFunctionOnSet(change, Lots) = SumFunctionOnSet(none, Lots) + (change[l] - none[l])
    BY <2>1, SumChange, Finite
  <2>3. SumFunctionOnSet(none, Lots) = 0
    BY SumZero, Finite
  <2>4. \A k \in Lots : change[k] \in Int /\ remaining'[k] = remaining[k] + change[k]
    BY <2>1 DEF CreditsTypeOK
  <2>5. SumFunctionOnSet(change, Lots) = quantity
    BY <2>1, <2>2, <2>3
  <2> HIDE DEF change
  <2> QED  BY <2>4, <2>5, BalanceMoves DEF CreditsConserved
<1>2. ASSUME NEW k \in Lots PROVE LotConserved(k)'
  <2>1. \A status : Taken(k, status)' = Taken(k, status)
    BY TakenStays DEF TakenBy
  <2>2. Taken(k, "RESERVED") \in Nat /\ Taken(k, "CONFIRMED") \in Nat
    BY TakenTyped
  <2>3. LotConserved(k)
    BY DEF CreditsConserved, LotConserved
  <2>4. CASE k = l
    BY <2>1, <2>2, <2>3, <2>4 DEF LotConserved, CreditsTypeOK
  <2>5. CASE k # l
    BY <2>1, <2>3, <2>5 DEF LotConserved, CreditsTypeOK
  <2> QED  BY <2>4, <2>5
<1> QED  BY <1>1, <1>2 DEF CreditsConserved, LotConserved

LEMMA HoldConserves ==
  ASSUME CreditsTypeOK, CreditsTypeOK', CreditsConserved,
         NEW r \in Reservations, NEW a \in [Lots -> Nat],
         \A l \in Lots : a[l] <= remaining[l], Hold(r, a)
  PROVE  CreditsConserved'
<1> USE DEF Hold
<1>1. balance' = SumFunction(remaining')
  <2> DEFINE change == [k \in Lots |-> 0 - a[k]]
             none   == [k \in Lots |-> 0]
  <2>1. SumFunction(a) = SumFunctionOnSet(a, Lots)
    BY SumIsOnDomain
  <2>2. /\ \A k \in Lots : a[k] \in Int /\ change[k] \in Int /\ none[k] = a[k] + change[k]
        /\ SumFunctionOnSet(none, Lots) = 0
    BY SumZero, Finite
  <2>3. SumFunctionOnSet(none, Lots) = SumFunctionOnSet(a, Lots) + SumFunctionOnSet(change, Lots)
    <3> HIDE DEF change, none
    <3> QED  BY <2>2, SumAdd, Finite
  <2>4. SumFunctionOnSet(a, Lots) \in Int /\ SumFunctionOnSet(change, Lots) \in Int
    BY <2>2, SumInt, Finite
  <2>5. balance' = balance + SumFunctionOnSet(change, Lots)
    <3>1. \A b, s, c \in Int : 0 = s + c => b - s = b + c
      OBVIOUS
    <3>2. balance' = balance - SumFunctionOnSet(a, Lots) /\ balance \in Int
      BY <2>1 DEF CreditsTypeOK
    <3> HIDE DEF change, none
    <3> QED  BY <2>2, <2>3, <2>4, <3>1, <3>2
  <2>6. \A k \in Lots : change[k] \in Int /\ remaining'[k] = remaining[k] + change[k]
    BY DEF CreditsTypeOK
  <2> HIDE DEF change
  <2> QED  BY <2>5, <2>6, BalanceMoves DEF CreditsConserved
<1>2. ASSUME NEW l \in Lots PROVE LotConserved(l)'
  <2>1. Taken(l, "CONFIRMED")' = Taken(l, "CONFIRMED")
    BY TakenStays DEF TakenBy, CreditsTypeOK
  <2>2. Taken(l, "RESERVED")' = Taken(l, "RESERVED") + a[l]
    <3>1. \A x \in Reservations \ {r} : TakenBy(l, "RESERVED")'[x] = TakenBy(l, "RESERVED")[x]
      BY DEF TakenBy, CreditsTypeOK
    <3>2. TakenBy(l, "RESERVED")'[r] = a[l] /\ TakenBy(l, "RESERVED")[r] = 0
      BY DEF TakenBy, CreditsTypeOK
    <3>3. Taken(l, "RESERVED")' = Taken(l, "RESERVED") + (a[l] - 0)
      BY <3>1, <3>2, TakenMoves
    <3> QED  BY <3>3
  <2>3. Taken(l, "RESERVED") \in Nat /\ Taken(l, "CONFIRMED") \in Nat
    BY TakenTyped
  <2>4. LotConserved(l)
    BY DEF CreditsConserved, LotConserved
  <2>5. remaining'[l] = remaining[l] - a[l] /\ reserved'[l] = reserved[l] + a[l] /\ a[l] <= remaining[l]
    OBVIOUS
  <2>6. remaining[l] \in Nat /\ reserved[l] \in Int /\ total[l] \in Nat /\ a[l] \in Nat
    BY DEF CreditsTypeOK
  <2> QED  BY <2>1, <2>2, <2>3, <2>4, <2>5, <2>6 DEF LotConserved
<1> QED  BY <1>1, <1>2 DEF CreditsConserved, LotConserved

LEMMA SettleConserves ==
  ASSUME CreditsTypeOK, CreditsTypeOK', CreditsConserved,
         NEW r \in Reservations, NEW confirm \in BOOLEAN, SettleHold(r, confirm)
  PROVE  CreditsConserved'
<1> USE DEF SettleHold
<1> DEFINE back == GivenBack(r, confirm)
<1>1. \A l \in Lots : back[l] = (IF confirm THEN 0 ELSE allocation[r][l]) /\ back[l] \in Nat
  BY DEF GivenBack, CreditsTypeOK
<1>2. \A l \in Lots : remaining'[l] = remaining[l] + back[l] /\ reserved'[l] = reserved[l] - allocation[r][l]
  OBVIOUS
<1>3. balance' = SumFunction(remaining')
  <2>1. balance' = balance + SumFunctionOnSet(back, Lots)
    <3>1. CASE confirm
      <4>1. SumFunctionOnSet(back, Lots) = 0
        BY <1>1, <3>1, SumZero, Finite
      <4> QED  BY <3>1, <4>1 DEF CreditsTypeOK
    <3>2. CASE ~confirm
      <4>1. SumFunction(allocation[r]) = SumFunctionOnSet(allocation[r], Lots)
        BY SumIsOnDomain DEF CreditsTypeOK
      <4>2. SumFunctionOnSet(back, Lots) = SumFunctionOnSet(allocation[r], Lots)
        BY <1>1, <3>2, SumSame, Finite
      <4> QED  BY <3>2, <4>1, <4>2
    <3> QED  BY <3>1, <3>2
  <2> HIDE DEF back
  <2> QED  BY <1>1, <1>2, <2>1, BalanceMoves DEF CreditsConserved
<1> HIDE DEF back
<1>4. ASSUME NEW l \in Lots PROVE LotConserved(l)'
  <2>1. Taken(l, "RESERVED")' = Taken(l, "RESERVED") - allocation[r][l]
    <3>1. \A x \in Reservations \ {r} : TakenBy(l, "RESERVED")'[x] = TakenBy(l, "RESERVED")[x]
      BY DEF TakenBy, CreditsTypeOK
    <3>2. TakenBy(l, "RESERVED")'[r] = 0 /\ TakenBy(l, "RESERVED")[r] = allocation[r][l]
      BY DEF TakenBy, CreditsTypeOK
    <3>3. Taken(l, "RESERVED")' = Taken(l, "RESERVED") + (0 - allocation[r][l])
      BY <3>1, <3>2, TakenMoves
    <3>4. Taken(l, "RESERVED") \in Nat /\ allocation[r][l] \in Nat
      BY TakenTyped DEF CreditsTypeOK
    <3> QED  BY <3>3, <3>4
  <2>2. Taken(l, "CONFIRMED")' = Taken(l, "CONFIRMED") + (IF confirm THEN allocation[r][l] ELSE 0)
    <3>1. \A x \in Reservations \ {r} : TakenBy(l, "CONFIRMED")'[x] = TakenBy(l, "CONFIRMED")[x]
      BY DEF TakenBy, CreditsTypeOK
    <3>2. /\ TakenBy(l, "CONFIRMED")'[r] = IF confirm THEN allocation[r][l] ELSE 0
          /\ TakenBy(l, "CONFIRMED")[r] = 0
      BY DEF TakenBy, CreditsTypeOK
    <3>3. Taken(l, "CONFIRMED")' = Taken(l, "CONFIRMED") + ((IF confirm THEN allocation[r][l] ELSE 0) - 0)
      BY <3>1, <3>2, TakenMoves
    <3> QED  BY <3>3 DEF CreditsTypeOK
  <2>3. Taken(l, "RESERVED") \in Nat /\ Taken(l, "CONFIRMED") \in Nat
    BY TakenTyped
  <2>4. LotConserved(l)
    BY DEF CreditsConserved, LotConserved
  <2>5. remaining[l] \in Nat /\ reserved[l] \in Int /\ total[l] \in Nat /\ allocation[r][l] \in Nat
    BY DEF CreditsTypeOK
  <2>6. total' = total /\ expired' = expired
    OBVIOUS
  <2>7. remaining'[l] = remaining[l] + (IF confirm THEN 0 ELSE allocation[r][l])
    BY <1>1, <1>2
  <2>8. reserved'[l] = reserved[l] - allocation[r][l]
    BY <1>2
  <2> QED  BY <2>1, <2>2, <2>3, <2>4, <2>5, <2>6, <2>7, <2>8 DEF LotConserved
<1> QED  BY <1>3, <1>4 DEF CreditsConserved, LotConserved

LEMMA SummaryConserves ==
  ASSUME CreditsTypeOK, CreditsTypeOK', CreditsConserved, Summary
  PROVE  CreditsConserved'
<1> USE DEF Summary, holdVars
<1> DEFINE written == {l \in Lots : Due(l)}
<1>1. balance' = SumFunction(remaining')
  <2> DEFINE gone   == [l \in Lots |-> IF l \in written THEN remaining[l] ELSE 0]
             change == [l \in Lots |-> 0 - gone[l]]
             none   == [l \in Lots |-> 0]
  <2>1. SumFunctionOnSet(remaining, written) = SumFunctionOnSet(gone, Lots)
    <3>1. /\ \A l \in written : remaining[l] \in Int /\ gone[l] = remaining[l]
          /\ \A l \in Lots \ written : gone[l] = 0
          /\ written \subseteq Lots
      BY DEF CreditsTypeOK
    <3> HIDE DEF gone, written
    <3> QED  BY <3>1, SumWithin, Finite
  <2>2. /\ \A l \in Lots : gone[l] \in Int /\ change[l] \in Int /\ none[l] = gone[l] + change[l]
        /\ SumFunctionOnSet(none, Lots) = 0
    BY SumZero, Finite DEF CreditsTypeOK
  <2>3. \A l \in Lots : remaining'[l] = remaining[l] + change[l]
    BY DEF CreditsTypeOK
  <2> HIDE DEF change, none, gone, written
  <2>4. SumFunctionOnSet(none, Lots) = SumFunctionOnSet(gone, Lots) + SumFunctionOnSet(change, Lots)
    BY <2>2, SumAdd, Finite
  <2>5. SumFunctionOnSet(gone, Lots) \in Int /\ SumFunctionOnSet(change, Lots) \in Int
    BY <2>2, SumInt, Finite
  <2>6. balance' = balance - SumFunctionOnSet(remaining, written)
    BY DEF written
  <2>7. balance' = balance + SumFunctionOnSet(change, Lots)
    <3>1. \A b, s, c \in Int : 0 = s + c => b - s = b + c
      OBVIOUS
    <3>2. balance \in Int
      BY DEF CreditsTypeOK
    <3>3. 0 = SumFunctionOnSet(gone, Lots) + SumFunctionOnSet(change, Lots)
      BY <2>2, <2>4
    <3>4. balance' = balance - SumFunctionOnSet(gone, Lots)
      BY <2>1, <2>6
    <3> QED  BY <2>5, <3>1, <3>2, <3>3, <3>4
  <2> QED  BY <2>2, <2>3, <2>7, BalanceMoves DEF CreditsConserved
<1>2. ASSUME NEW l \in Lots PROVE LotConserved(l)'
  <2>1. \A status : Taken(l, status)' = Taken(l, status)
    BY TakenStays DEF TakenBy
  <2>2. Taken(l, "RESERVED") \in Nat /\ Taken(l, "CONFIRMED") \in Nat
    BY TakenTyped
  <2>3. LotConserved(l)
    BY DEF CreditsConserved, LotConserved
  <2>4. remaining[l] \in Nat /\ reserved[l] \in Int /\ total[l] \in Nat
    BY DEF CreditsTypeOK
  <2>5. reserved' = reserved /\ total' = total /\ expired' = expired \cup written
    OBVIOUS
  <2>6. remaining'[l] = IF l \in written THEN 0 ELSE remaining[l]
    OBVIOUS
  <2> HIDE DEF written
  <2> QED  BY <2>1, <2>2, <2>3, <2>4, <2>5, <2>6 DEF LotConserved
<1> QED  BY <1>1, <1>2 DEF CreditsConserved, LotConserved

\* The reservation of a refund that fails is released in the same step: it holds nothing.
LEMMA RefundFailsConserves ==
  ASSUME CreditsTypeOK, CreditsTypeOK', CreditsConserved,
         NEW r \in Refunds, held[r] = "NONE", RefundFails(r)
  PROVE  CreditsConserved'
<1> USE DEF RefundFails, lotVars
<1>1. ASSUME NEW l \in Lots, NEW status \in {"RESERVED", "CONFIRMED"}
      PROVE  Taken(l, status)' = Taken(l, status)
  <2>1. \A x \in Reservations : TakenBy(l, status)'[x] = TakenBy(l, status)[x]
    <3>1. held'[r] \in {"NONE", "RELEASED"} /\ r \in Reservations
      BY DEF CreditsTypeOK, Reservations
    <3>2. \A x \in Reservations \ {r} : held'[x] = held[x] /\ allocation'[x] = allocation[x]
      BY DEF CreditsTypeOK
    <3> QED  BY <3>1, <3>2 DEF TakenBy
  <2> QED  BY <2>1, TakenStays
<1> QED  BY <1>1 DEF CreditsConserved

\* No step loses or invents credits, if refunds without a request hold none.
LEMMA ConservedStep ==
  ASSUME TypeOK, TypeOK', CreditsConserved, CreditsStep,
         \A r \in Refunds : refund[r] = "NONE" => held[r] = "NONE"
  PROVE  CreditsConserved'
<1> USE DEF TypeOK, BillingTypeOK
<1>1. CASE UNCHANGED creditVars
  BY <1>1 DEF creditVars, lotVars, holdVars, CreditsConserved, Taken
<1>2. ASSUME NEW r \in Refunds, RefundFails(r)
      PROVE  CreditsConserved'
  BY <1>2, RefundFailsConserves DEF RefundFails, Refundable
<1> QED
  BY <1>1, <1>2, NewLotConserves, HoldConserves, SettleConserves, SummaryConserves DEF CreditsStep

-----------------------------------------------------------------------------
(* Orders are booked once *)

\* A success is only heard of when the provider has the money, for good, and of an order
\* that is known: by its event, or as an answer.  A checkout that is completed is told apart.
HeardOf ==
    /\ \A o \in Orders :
         /\ order[o] = "NONE" => posted[o] = 0 /\ remote[o] = "none"
         /\ <<o, "async_payment_succeeded">> \in sent => remote[o] = "paid"
         /\ <<o, "reconcile:SUCCEEDED">> \notin sent
    /\ \A c \in Callers :
         asked[c] # Idle /\ asked[c].answer = "SUCCEEDED" => remote[asked[c].order] = "paid"

\* BookedOnce of one order.
BookedOnceOf(o) ==
    IF posted[o] = 0
    THEN total[o] = 0 /\ order[o] \notin {"SUCCEEDED", "PARTIALLY_REFUNDED", "REFUNDED"}
    ELSE /\ posted[o] = 1
         /\ remote[o] = "paid" \/ <<o, "completed">> \in sent
         /\ purpose[o] = "CREDITS" => total[o] = Credits
         /\ order[o] \notin {"PENDING", "FAILED"}
         /\ attempt[o] \in {"SUCCEEDED", "NEEDS_REVIEW"}

\* A step that leaves what the two invariants are about, or ends a reconciliation.
LEMMA BookingsStay ==
  ASSUME BookedOnce, HeardOf,
         UNCHANGED <<order, attempt, posted, purpose, remote, sent>>,
         \A o \in Orders : total'[o] = total[o],
         \A c \in Callers : asked'[c] \in {asked[c], Idle}
  PROVE  BookedOnce' /\ HeardOf'
<1>1. BookedOnce'
  BY DEF BookedOnce
<1>2. HeardOf'
  BY DEF HeardOf, Idle
<1> QED  BY <1>1, <1>2

\* What the billing does on its own leaves the lots of orders.
LEMMA BillingLeavesOrders ==
  ASSUME TypeOK, BillingNext
  PROVE  /\ \A o \in Orders : total'[o] = total[o]
         /\ \A r \in Refunds : held'[r] = held[r]
<1> USE DEF TypeOK, BillingTypeOK, CreditsTypeOK
<1>1. CASE UNCHANGED <<total, held>>
  BY <1>1
<1>2. ASSUME NEW l \in Grants, Purchase(l) \/ AdministrativeGrant(l)
      PROVE  (\A o \in Orders : total'[o] = total[o]) /\ UNCHANGED held
  <2>1. \A o \in Orders : o # l /\ o \in Lots
    BY ServerBillingAssumption DEF Lots
  <2> QED  BY <1>2, <2>1 DEF Purchase, AdministrativeGrant, NewLot, holdVars
<1>3. ASSUME NEW u \in Uses, Reserve(u) \/ \E confirm \in BOOLEAN : Settle(u, confirm)
      PROVE  UNCHANGED total /\ \A r \in Refunds : held'[r] = held[r]
  <2>1. \A r \in Refunds : r # u /\ r \in Reservations
    BY ServerBillingAssumption DEF Reservations
  <2>2. CASE Reserve(u)
    BY <2>1, <2>2 DEF Reserve, Hold
  <2>3. ASSUME NEW confirm \in BOOLEAN, Settle(u, confirm)
        PROVE  UNCHANGED total /\ \A r \in Refunds : held'[r] = held[r]
    BY <2>1, <2>3 DEF Settle, SettleHold
  <2> QED  BY <1>3, <2>2, <2>3
<1> QED
  BY <1>1, <1>2, <1>3 DEF BillingNext, ArchivePrice, Summary, Tick, CreatePending, ScheduleCancellation,
     creditVars, lotVars, holdVars

\* An event is processed of which it is known that the provider has the money, if it says so.
LEMMA ProcessBooks ==
  ASSUME TypeOK, BookedOnce, HeardOf, NEW o \in Orders, NEW type \in Succeeds \cup Fails,
         Process(o, type), UNCHANGED <<purpose, remote, sent>>,
         type \in Succeeds => remote[o] = "paid" \/ <<o, "completed">> \in sent,
         \A c \in Callers : asked'[c] \in {asked[c], Idle}
  PROVE  BookedOnce' /\ HeardOf'
<1> USE DEF TypeOK, PaymentsTypeOK
<1>1. CASE UNCHANGED <<orderVars, creditVars, subVars>>
  BY <1>1, BookingsStay DEF orderVars, creditVars, lotVars
<1>2. CASE Fail(o)
  <2>1. /\ order' = [order EXCEPT ![o] = IF Payable(o) THEN "FAILED" ELSE @]
        /\ UNCHANGED <<attempt, posted, total>>
    BY <1>2 DEF Fail, creditVars, lotVars
  <2>2. order[o] # "NONE"
    BY DEF Process
  <2>3. BookedOnce'
    BY <2>1 DEF BookedOnce, Payable
  <2>4. HeardOf'
    BY <2>1, <2>2 DEF HeardOf, Idle
  <2> QED  BY <2>3, <2>4
<1>3. CASE type \in Succeeds /\ Book(o)
  <2>1. /\ order[o] = "PENDING"
        /\ order' = [order EXCEPT ![o] = "SUCCEEDED"]
        /\ attempt' = [attempt EXCEPT ![o] = "SUCCEEDED"]
        /\ posted' = [posted EXCEPT ![o] = @ + 1]
    BY <1>3 DEF Book, Payable
  <2>2. posted[o] = 0 /\ posted'[o] = 1
    BY <2>1 DEF BookedOnce
  <2>3. \A x \in Orders \ {o} : total'[x] = total[x]
    BY <1>3 DEF Book, Deliver, NewLot, creditVars, lotVars, BillingTypeOK, CreditsTypeOK, Lots
  <2>4. purpose[o] = "CREDITS" => total'[o] = Credits
    BY <1>3 DEF Book, Deliver, NewLot, BillingTypeOK, CreditsTypeOK, Lots
  <2>5. BookedOnce'
    <3>1. remote[o] = "paid" \/ <<o, "completed">> \in sent
      BY <1>3
    <3>2. \A x \in Orders \ {o} :
             order'[x] = order[x] /\ attempt'[x] = attempt[x] /\ posted'[x] = posted[x]
      BY <2>1
    <3>3. order'[o] = "SUCCEEDED" /\ attempt'[o] = "SUCCEEDED"
      BY <2>1
    <3>4. BookedOnceOf(o)'
      BY <2>2, <2>4, <3>1, <3>3 DEF BookedOnceOf
    <3>5. ASSUME NEW x \in Orders \ {o} PROVE BookedOnceOf(x)'
      <4>1. BookedOnceOf(x)
        BY DEF BookedOnce, BookedOnceOf
      <4> QED  BY <2>3, <3>2, <4>1 DEF BookedOnceOf
    <3> QED  BY <3>4, <3>5 DEF BookedOnce, BookedOnceOf
  <2>6. HeardOf'
    BY <2>1 DEF HeardOf, Idle
  <2> QED  BY <2>5, <2>6
<1> QED  BY <1>1, <1>2, <1>3 DEF Process

LEMMA BookedInit == Init => BookedOnce /\ HeardOf
BY DEF Init, BillingInit, BookedOnce, HeardOf, Idle, Lots

LEMMA BookedStep ==
  ASSUME TypeOK, BookedOnce, HeardOf, [Next]_vars,
         \A r \in Refunds : refund[r] # "NONE" => posted[OrderOf(r)] = 1
  PROVE  BookedOnce' /\ HeardOf'
<1> USE DEF TypeOK, PaymentsTypeOK
<1>1. CASE UNCHANGED vars
  BY <1>1, BookingsStay DEF vars, billingVars, creditVars, lotVars, paymentVars, orderVars, choiceVars, remoteVars
<1>2. CASE BillingNext /\ UNCHANGED paymentVars
  BY <1>2, BookingsStay, BillingLeavesOrders DEF paymentVars, orderVars, choiceVars, remoteVars
<1>3. ASSUME NEW o \in Orders, Checkout(o)
      PROVE  BookedOnce' /\ HeardOf'
  <2>1. /\ order[o] = "NONE"
        /\ order' = [order EXCEPT ![o] = "PENDING"]
        /\ attempt' = [attempt EXCEPT ![o] = "PENDING"]
        /\ remote' = [remote EXCEPT ![o] = "open"]
        /\ \A x \in Orders \ {o} : purpose'[x] = purpose[x]
        /\ UNCHANGED <<posted, sent, asked, total>>
    BY <1>3 DEF Checkout, creditVars, lotVars
  <2>2. posted[o] = 0 /\ remote[o] = "none"
    BY <2>1 DEF HeardOf
  <2>3. BookedOnce'
    BY <2>1, <2>2 DEF BookedOnce
  <2>4. HeardOf'
    BY <2>1, <2>2 DEF HeardOf, Idle
  <2> QED  BY <2>3, <2>4
<1>4. ASSUME NEW o \in Orders, ProviderMoves(o)
      PROVE  BookedOnce' /\ HeardOf'
  <2>1. UNCHANGED <<order, attempt, posted, purpose, total, asked>>
    BY <1>4 DEF ProviderMoves, billingVars, creditVars, lotVars, orderVars, choiceVars
  <2>2. /\ sent \subseteq sent' /\ remote[o] \notin {"paid", "none"}
        /\ \A x \in Orders \ {o} : remote'[x] = remote[x]
        /\ \A x \in Orders, type \in Succeeds :
             <<x, type>> \in sent' /\ <<x, type>> \notin sent =>
                x = o /\ \/ type = "completed"
                         \/ type = "async_payment_succeeded" /\ remote'[o] = "paid"
    BY <1>4 DEF ProviderMoves, StripeMoves, OrangeMoves, Succeeds
  <2>3. BookedOnce'
    BY <2>1, <2>2 DEF BookedOnce
  <2>4. HeardOf'
    <3>1. "async_payment_succeeded" \in Succeeds /\ "reconcile:SUCCEEDED" \in Succeeds
      BY DEF Succeeds
    <3> QED  BY <2>1, <2>2, <3>1 DEF HeardOf, Idle
  <2> QED  BY <2>3, <2>4
<1>5. ASSUME NEW o \in Orders, StripeWebhook(o)
      PROVE  BookedOnce' /\ HeardOf'
  <2>1. PICK type \in Succeeds \cup Fails : <<o, type>> \in sent /\ Process(o, type)
    BY <1>5 DEF StripeWebhook
  <2>2. type \in Succeeds => remote[o] = "paid" \/ <<o, "completed">> \in sent
    BY <2>1 DEF HeardOf, Succeeds
  <2>3. UNCHANGED <<purpose, remote, sent, asked>>
    BY <1>5 DEF StripeWebhook, choiceVars, remoteVars
  <2> QED  BY <2>1, <2>2, <2>3, ProcessBooks
<1>6. ASSUME NEW o \in Orders, FallsDue(o)
      PROVE  BookedOnce' /\ HeardOf'
  BY <1>6, BookingsStay DEF FallsDue, billingVars, creditVars, lotVars, orderVars, choiceVars, remoteVars
<1>7. ASSUME NEW c \in Callers, NEW o \in Orders, Ask(c, o)
      PROVE  BookedOnce' /\ HeardOf'
  <2>1. PICK answer \in AnswersOf(o) : asked' = [asked EXCEPT ![c] = [order |-> o, answer |-> answer]]
    BY <1>7 DEF Ask
  <2>2. answer = "SUCCEEDED" => remote[o] = "paid"
    BY <2>1 DEF AnswersOf
  <2>3. UNCHANGED <<order, attempt, posted, purpose, remote, sent, total>>
    BY <1>7 DEF Ask, billingVars, creditVars, lotVars, orderVars, choiceVars, remoteVars
  <2>4. BookedOnce'
    BY <2>3 DEF BookedOnce
  <2>5. HeardOf'
    BY <2>1, <2>2, <2>3 DEF HeardOf, Idle
  <2> QED  BY <2>4, <2>5
<1>8. ASSUME NEW c \in Callers, Review(c)
      PROVE  BookedOnce' /\ HeardOf'
  <2>1. /\ order' = [order EXCEPT ![asked[c].order] = "NEEDS_REVIEW"]
        /\ attempt' = [attempt EXCEPT ![asked[c].order] = "NEEDS_REVIEW"]
        /\ asked' = [asked EXCEPT ![c] = Idle]
    BY <1>8 DEF Review
  <2>2. UNCHANGED <<posted, purpose, remote, sent, total>>
    BY <1>8 DEF Review, billingVars, creditVars, lotVars, choiceVars, remoteVars
  <2>3. BookedOnce'
    BY <2>1, <2>2 DEF BookedOnce
  <2>4. HeardOf'
    BY <2>1, <2>2 DEF HeardOf, Idle
  <2> QED  BY <2>3, <2>4
<1>9. ASSUME NEW c \in Callers, Reconcile(c)
      PROVE  BookedOnce' /\ HeardOf'
  <2>1. asked[c].order \in Orders /\ asked[c] # Idle
    BY <1>9 DEF Reconcile, Answered, Idle
  <2>2. PICK type \in Succeeds \cup Fails :
           /\ Process(asked[c].order, type)
           /\ type \in Succeeds => asked[c].answer = "SUCCEEDED"
    BY <1>9 DEF Reconcile, Answered, Succeeds, Fails
  <2>3. type \in Succeeds => remote[asked[c].order] = "paid"
    BY <2>1, <2>2 DEF HeardOf
  <2>4. UNCHANGED <<purpose, remote, sent>> /\ \A d \in Callers : asked'[d] \in {asked[d], Idle}
    BY <1>9 DEF Reconcile, choiceVars, remoteVars
  <2> QED  BY <2>1, <2>2, <2>3, <2>4, ProcessBooks
<1>10. ASSUME NEW c \in Callers, ReconcileEnds(c)
       PROVE  BookedOnce' /\ HeardOf'
  BY <1>10, BookingsStay DEF ReconcileEnds, billingVars, creditVars, lotVars, orderVars, choiceVars, remoteVars
<1>11. CASE CollectOverdue \/ ExpiryDies
  BY <1>11, BookingsStay
     DEF CollectOverdue, ExpiryDies, billingVars, creditVars, lotVars, orderVars, choiceVars, remoteVars
<1>12. CASE WriteExpired
  <2>1. /\ \A o \in Orders : order'[o] \in {order[o], "EXPIRED"}
        /\ \A o \in Orders : attempt'[o] = attempt[o] \/ attempt[o] = "PENDING"
        /\ UNCHANGED <<posted, purpose, remote, sent, total, asked>>
    BY <1>12 DEF WriteExpired, billingVars, creditVars, lotVars, choiceVars, remoteVars
  <2>2. BookedOnce'
    BY <2>1 DEF BookedOnce
  <2>3. HeardOf'
    BY <2>1 DEF HeardOf, Idle
  <2> QED  BY <2>2, <2>3
<1>13. ASSUME NEW r \in Refunds, RequestRefund(r) \/ RefundFails(r) \/ RefundDies(r) \/ ConfirmFailed(r)
       PROVE  BookedOnce' /\ HeardOf'
  <2>1. UNCHANGED <<order, attempt, posted, purpose, remote, sent, asked>>
    BY <1>13 DEF RequestRefund, RefundFails, RefundDies, ConfirmFailed, orderVars, choiceVars
  <2>2. UNCHANGED total
    BY <1>13 DEF RequestRefund, RefundFails, RefundDies, ConfirmFailed, Hold, SettleOf, SettleHold,
       billingVars, creditVars, lotVars
  <2> QED  BY <2>1, <2>2, BookingsStay
<1>14. ASSUME NEW r \in Refunds, Confirm(r)
       PROVE  BookedOnce' /\ HeardOf'
  <2>1. posted[OrderOf(r)] = 1 /\ OrderOf(r) \in Orders
    BY <1>14, RefundTyped DEF Confirm
  <2>2. UNCHANGED <<attempt, posted, purpose, remote, sent, asked, total>>
    BY <1>14 DEF Confirm, SettleOf, SettleHold, creditVars, lotVars, choiceVars, remoteVars
  <2>3. \/ order' = [order EXCEPT ![OrderOf(r)] = "REFUNDED"]
        \/ order' = [order EXCEPT ![OrderOf(r)] = "PARTIALLY_REFUNDED"]
    BY <1>14 DEF Confirm
  <2>4. BookedOnce'
    <3>1. \A x \in Orders \ {OrderOf(r)} : order'[x] = order[x]
      BY <2>3
    <3>2. order'[OrderOf(r)] \in {"REFUNDED", "PARTIALLY_REFUNDED"}
      BY <2>1, <2>3
    <3>3. ASSUME NEW o \in Orders PROVE BookedOnceOf(o)'
      <4>1. BookedOnceOf(o)
        BY DEF BookedOnce, BookedOnceOf
      <4> QED  BY <2>1, <2>2, <3>1, <3>2, <4>1 DEF BookedOnceOf
    <3> QED  BY <3>3 DEF BookedOnce, BookedOnceOf
  <2>5. HeardOf'
    BY <2>1, <2>2, <2>3 DEF HeardOf, Idle
  <2> QED  BY <2>4, <2>5
<1> QED
  BY <1>1, <1>2, <1>3, <1>4, <1>5, <1>6, <1>7, <1>8, <1>9, <1>10, <1>11, <1>12, <1>13, <1>14 DEF Next, Expiry

-----------------------------------------------------------------------------
(* Refunds agree with the books *)

\* Refunds are of orders that were booked, and those that are open were accepted.
RefundsOfBooked ==
    \A r \in Refunds :
        /\ refund[r] # "NONE" => posted[OrderOf(r)] = 1
        /\ refund[r] = "PROCESSING" => r \in returned

\* What is confirmed of an order.
ConfirmedOf(o) == {r \in Refunds : OrderOf(r) = o /\ refund[r] = "CONFIRMED"}
ConfirmedPart(o) == [r \in Refunds |-> IF r \in ConfirmedOf(o) THEN Part(r) ELSE 0]

\* RefundsMatchBooks of one order and of one refund.
OrderMatches(o) ==
    /\ refunded[o] = SumFunctionOnSet(ConfirmedPart(o), Refunds)
    /\ refunded[o] <= Amount
    /\ ConfirmedOf(o) \subseteq returned
    /\ order[o] = "PARTIALLY_REFUNDED" => refunded[o] \in 1 .. Amount - 1
    /\ order[o] = "REFUNDED" => refunded[o] = Amount

HoldMatches(r) ==
    held[r] = IF refund[r] = "NONE" \/ CreditsOf(r) = 0 THEN "NONE"
              ELSE CASE refund[r] = "PROCESSING" -> "RESERVED"
                     [] refund[r] = "CONFIRMED"  -> "CONFIRMED"
                     [] refund[r] = "FAILED"     -> "RELEASED"

LEMMA MatchOneByOne ==
  RefundsMatchBooks <=> (\A o \in Orders : OrderMatches(o)) /\ (\A r \in Refunds : HoldMatches(r))
<1>1. ASSUME NEW o \in Orders
      PROVE  SumFunction([r \in ConfirmedOf(o) |-> Part(r)]) = SumFunctionOnSet(ConfirmedPart(o), Refunds)
  <2> DEFINE f == [r \in ConfirmedOf(o) |-> Part(r)]
             g == ConfirmedPart(o)
  <2>1. SumFunction(f) = SumFunctionOnSet(f, ConfirmedOf(o))
    BY SumIsOnDomain
  <2>2. /\ ConfirmedOf(o) \subseteq Refunds
        /\ \A r \in ConfirmedOf(o) : f[r] \in Int /\ g[r] = f[r]
        /\ \A r \in Refunds \ ConfirmedOf(o) : g[r] = 0
    BY RefundTyped DEF ConfirmedOf, ConfirmedPart
  <2> HIDE DEF f, g
  <2>3. SumFunctionOnSet(f, ConfirmedOf(o)) = SumFunctionOnSet(g, Refunds)
    BY <2>2, SumWithin, Finite
  <2> QED  BY <2>1, <2>3 DEF f, g
<1> QED  BY <1>1 DEF RefundsMatchBooks, OrderMatches, HoldMatches, ConfirmedOf

LEMMA MatchAfter ==
  ((\A o \in Orders : OrderMatches(o)) /\ (\A r \in Refunds : HoldMatches(r)))' => RefundsMatchBooks'
<1>1. (RefundsMatchBooks <=> (\A o \in Orders : OrderMatches(o)) /\ (\A r \in Refunds : HoldMatches(r)))'
  BY MatchOneByOne, PTL
<1> QED  BY <1>1

\* A step that leaves the refunds, and calls no order refunded.
LEMMA RefundsStay ==
  ASSUME TypeOK, TypeOK', RefundsOfBooked, RefundsMatchBooks,
         UNCHANGED <<refund, refunded>>, returned \subseteq returned',
         \A r \in Refunds : held'[r] = held[r],
         \A r \in Refunds : refund[r] # "NONE" => CreditsOf(r)' = CreditsOf(r),
         \A o \in Orders : posted[o] = 1 => posted'[o] = 1,
         \A o \in Orders : order'[o] \in {"PARTIALLY_REFUNDED", "REFUNDED"} => order'[o] = order[o]
  PROVE  RefundsOfBooked' /\ RefundsMatchBooks'
<1>1. RefundsOfBooked'
  BY RefundTyped DEF RefundsOfBooked, OrderOf
<1>2. ASSUME NEW o \in Orders PROVE OrderMatches(o)'
  <2>1. ConfirmedPart(o)' = ConfirmedPart(o) /\ ConfirmedOf(o)' = ConfirmedOf(o)
    BY DEF ConfirmedPart, ConfirmedOf, OrderOf, Part
  <2>2. OrderMatches(o)
    BY MatchOneByOne
  <2> QED  BY <2>1, <2>2 DEF OrderMatches
<1>3. ASSUME NEW r \in Refunds PROVE HoldMatches(r)'
  <2>1. HoldMatches(r)
    BY MatchOneByOne
  <2> QED  BY <2>1 DEF HoldMatches
<1> QED  BY <1>1, <1>2, <1>3, MatchAfter

\* What a request of a refund, or its outcome, leaves alone: the orders, or all but one part.
LEMMA RefundMoves ==
  ASSUME TypeOK, TypeOK', RefundsOfBooked, RefundsMatchBooks, NEW r \in Refunds,
         NEW to \in {"PROCESSING", "FAILED"},
         refund[r] # "CONFIRMED", refund' = [refund EXCEPT ![r] = to],
         posted[OrderOf(r)] = 1, to = "PROCESSING" => r \in returned',
         UNCHANGED <<orderVars, choiceVars>>, returned \ {r} \subseteq returned',
         \A x \in Refunds \ {r} : held'[x] = held[x],
         held'[r] = IF CreditsOf(r) = 0 THEN "NONE" ELSE IF to = "PROCESSING" THEN "RESERVED" ELSE "RELEASED"
  PROVE  RefundsOfBooked' /\ RefundsMatchBooks'
<1> USE DEF orderVars, choiceVars
<1>1. RefundsOfBooked'
  BY DEF RefundsOfBooked, TypeOK, PaymentsTypeOK, OrderOf
<1>2. ASSUME NEW o \in Orders PROVE OrderMatches(o)'
  <2>1. ConfirmedOf(o)' = ConfirmedOf(o) /\ r \notin ConfirmedOf(o)
    BY DEF ConfirmedOf, TypeOK, PaymentsTypeOK, OrderOf
  <2>2. ConfirmedPart(o)' = ConfirmedPart(o)
    BY <2>1 DEF ConfirmedPart, Part
  <2>3. OrderMatches(o)
    BY MatchOneByOne
  <2> QED  BY <2>1, <2>2, <2>3 DEF OrderMatches
<1>3. ASSUME NEW x \in Refunds PROVE HoldMatches(x)'
  <2>1. HoldMatches(x) /\ CreditsOf(x)' = CreditsOf(x)
    BY MatchOneByOne DEF CreditsOf, OrderOf, Part
  <2>2. refund'[r] = to /\ (x # r => refund'[x] = refund[x])
    BY DEF TypeOK, PaymentsTypeOK
  <2> QED  BY <2>1, <2>2 DEF HoldMatches
<1> QED  BY <1>1, <1>2, <1>3, MatchAfter

LEMMA ConfirmMatches ==
  ASSUME TypeOK, TypeOK', RefundsOfBooked, RefundsMatchBooks, NEW r \in Refunds, Confirm(r)
  PROVE  RefundsOfBooked' /\ RefundsMatchBooks'
<1> USE DEF TypeOK, PaymentsTypeOK
<1>0. PICK o \in Orders : OrderOf(r) = o
  BY RefundTyped
<1>1. o \in Orders /\ Part(r) \in 1..Amount /\ Amount \in Nat
  BY RefundTyped, ServerPaymentsAssumption
<1>2. /\ refund[r] = "PROCESSING" /\ refund' = [refund EXCEPT ![r] = "CONFIRMED"]
      /\ refunded[o] + Part(r) <= Amount /\ refunded' = [refunded EXCEPT ![o] = @ + Part(r)]
      /\ order' = [order EXCEPT ![o] = IF Completes(r) THEN "REFUNDED" ELSE "PARTIALLY_REFUNDED"]
      /\ UNCHANGED <<posted, purpose, returned>>
  BY <1>0 DEF Confirm, choiceVars, remoteVars
<1>3. \A x \in Refunds : OrderOf(x)' = OrderOf(x) /\ Part(x)' = Part(x) /\ CreditsOf(x)' = CreditsOf(x)
  BY <1>2 DEF OrderOf, Part, CreditsOf
<1>4. RefundsOfBooked'
  BY <1>2, <1>3 DEF RefundsOfBooked
<1>5. ASSUME NEW x \in Orders \ {o} PROVE OrderMatches(x)'
  <2>1. ConfirmedOf(x)' = ConfirmedOf(x)
    BY <1>0, <1>2, <1>3 DEF ConfirmedOf
  <2>2. ConfirmedPart(x)' = ConfirmedPart(x)
    BY <1>3, <2>1 DEF ConfirmedPart
  <2>3. OrderMatches(x)
    BY MatchOneByOne
  <2>4. refunded'[x] = refunded[x] /\ order'[x] = order[x] /\ returned' = returned
    BY <1>2
  <2> QED  BY <2>1, <2>2, <2>3, <2>4 DEF OrderMatches
<1>6. OrderMatches(o)'
  <2>1. ConfirmedOf(o)' = ConfirmedOf(o) \cup {r} /\ r \notin ConfirmedOf(o)
    BY <1>0, <1>2, <1>3 DEF ConfirmedOf
  <2>2. /\ \A x \in Refunds \ {r} : ConfirmedPart(o)'[x] = ConfirmedPart(o)[x]
        /\ ConfirmedPart(o)'[r] = Part(r) /\ ConfirmedPart(o)[r] = 0
    BY <1>3, <2>1 DEF ConfirmedPart
  <2>3. \A x \in Refunds : ConfirmedPart(o)[x] \in Int
    BY RefundTyped DEF ConfirmedPart
  <2>4. SumFunctionOnSet(ConfirmedPart(o)', Refunds) = SumFunctionOnSet(ConfirmedPart(o), Refunds) + (Part(r) - 0)
    <3>1. ConfirmedPart(o)'[r] \in Int
      BY <1>1, <2>2
    <3>2. SumFunctionOnSet(ConfirmedPart(o)', Refunds)
             = SumFunctionOnSet(ConfirmedPart(o), Refunds) + (ConfirmedPart(o)'[r] - ConfirmedPart(o)[r])
      BY <2>2, <2>3, <3>1, SumChange, Finite
    <3> QED  BY <2>2, <3>2
  <2>5. OrderMatches(o)
    BY <1>1, MatchOneByOne
  <2>6. refunded'[o] = refunded[o] + Part(r) /\ refunded[o] \in Nat
    BY <1>1, <1>2
  <2>7. Part(r) - 0 = Part(r)
    BY <1>1
  <2>8. refunded'[o] = SumFunctionOnSet(ConfirmedPart(o)', Refunds)
    BY <2>4, <2>5, <2>6, <2>7 DEF OrderMatches
  <2>9. order'[o] = IF refunded[o] + Part(r) = Amount THEN "REFUNDED" ELSE "PARTIALLY_REFUNDED"
    BY <1>0, <1>1, <1>2 DEF Completes
  <2>10. refunded'[o] <= Amount /\ refunded'[o] \in 1..Amount
    BY <1>1, <1>2, <2>6
  <2>11. ConfirmedOf(o)' \subseteq returned'
    BY <1>2, <2>1, <2>5 DEF OrderMatches, RefundsOfBooked
  <2>12. /\ order'[o] = "PARTIALLY_REFUNDED" => refunded'[o] \in 1 .. Amount - 1
         /\ order'[o] = "REFUNDED" => refunded'[o] = Amount
    <3> HIDE DEF TypeOK, PaymentsTypeOK
    <3>1. CASE refunded'[o] = Amount
      BY <2>6, <2>9, <3>1
    <3>2. CASE refunded'[o] # Amount
      <4>1. refunded'[o] \in 1 .. Amount - 1
        BY <1>1, <2>10, <3>2
      <4> QED  BY <2>6, <2>9, <3>2, <4>1
    <3> QED  BY <3>1, <3>2
  <2> HIDE DEF TypeOK, PaymentsTypeOK
  <2> QED  BY <2>8, <2>10, <2>11, <2>12 DEF OrderMatches
<1>7. ASSUME NEW x \in Refunds PROVE HoldMatches(x)'
  <2>1. HoldMatches(x) /\ HoldMatches(r)
    BY MatchOneByOne
  <2>2. CASE x # r
    <3>1. x \in Reservations /\ r \in Reservations
      BY DEF Reservations
    <3>2. refund'[x] = refund[x]
      BY <1>2, <2>2
    <3>3. held'[x] = held[x]
      <4>1. held' = held \/ held' = [held EXCEPT ![r] = "CONFIRMED"]
        BY DEF Confirm, SettleOf, SettleHold, creditVars, holdVars
      <4>2. held \in [Reservations -> {"NONE", "RESERVED", "CONFIRMED", "RELEASED"}]
        BY DEF BillingTypeOK, CreditsTypeOK
      <4> QED  BY <2>2, <3>1, <4>1, <4>2
    <3> QED  BY <1>3, <2>1, <3>2, <3>3 DEF HoldMatches
  <2>3. CASE x = r
    <3>1. refund'[r] = "CONFIRMED" /\ r \in Reservations
      BY <1>2 DEF Reservations
    <3>2. CASE CreditsOf(r) = 0
      <4>1. held[r] = "NONE"
        BY <2>1, <3>2 DEF HoldMatches
      <4>2. held'[r] = "NONE"
        BY <4>1 DEF Confirm, SettleOf, SettleHold, creditVars, holdVars
      <4> QED  BY <1>3, <2>3, <3>1, <3>2, <4>2 DEF HoldMatches
    <3>3. CASE CreditsOf(r) # 0
      <4>1. held[r] = "RESERVED"
        BY <1>2, <2>1, <3>3 DEF HoldMatches
      <4>2. held'[r] = "CONFIRMED"
        BY <3>1, <4>1 DEF Confirm, SettleOf, SettleHold, BillingTypeOK, CreditsTypeOK
      <4> QED  BY <1>3, <2>3, <3>1, <3>3, <4>2 DEF HoldMatches
    <3> QED  BY <3>2, <3>3
  <2> QED  BY <2>2, <2>3
<1>8. \A x \in Orders : OrderMatches(x)'
  BY <1>5, <1>6
<1> QED  BY <1>4, <1>7, <1>8, MatchAfter
\* What the processing of an event, whatever it brings, does to the refunds: nothing.
LEMMA ProcessStays ==
  ASSUME TypeOK, TypeOK', BookedOnce, RefundsOfBooked, RefundsMatchBooks,
         NEW o \in Orders, NEW type, Process(o, type), UNCHANGED <<refund, choiceVars, returned>>
  PROVE  RefundsOfBooked' /\ RefundsMatchBooks'
<1> USE DEF TypeOK, PaymentsTypeOK
<1>1. held' = held /\ refunded' = refunded
  <2>1. CASE Book(o)
    BY <2>1 DEF Book, Deliver, NewLot, creditVars, holdVars
  <2>2. CASE ~Book(o)
    BY <2>2 DEF Process, Fail, orderVars, creditVars, holdVars
  <2> QED  BY <2>1, <2>2
<1>2. \A x \in Orders : order'[x] \in {"PARTIALLY_REFUNDED", "REFUNDED"} => order'[x] = order[x]
  BY DEF Process, Book, Fail, orderVars
<1>3. \A x \in Orders : posted[x] = 1 => posted'[x] = 1
  <2>1. CASE Book(o)
    <3>1. order[o] = "PENDING" /\ posted' = [posted EXCEPT ![o] = @ + 1]
      BY <2>1 DEF Book, Payable
    <3>2. posted[o] = 0
      BY <3>1 DEF BookedOnce
    <3> QED  BY <3>1, <3>2
  <2>2. CASE ~Book(o)
    BY <2>2 DEF Process, Fail, orderVars
  <2> QED  BY <2>1, <2>2
<1>4. \A r \in Refunds : CreditsOf(r)' = CreditsOf(r)
  BY DEF CreditsOf, OrderOf, Part, choiceVars
<1> QED  BY <1>1, <1>2, <1>3, <1>4, RefundsStay

LEMMA RefundInit == Init => RefundsOfBooked /\ RefundsMatchBooks
<1> SUFFICES ASSUME Init PROVE RefundsOfBooked /\ RefundsMatchBooks
  OBVIOUS
<1>1. RefundsOfBooked
  BY DEF Init, RefundsOfBooked
<1>2. ASSUME NEW o \in Orders PROVE OrderMatches(o)
  <2>1. ConfirmedOf(o) = {}
    BY DEF Init, ConfirmedOf
  <2>2. \A r \in Refunds : ConfirmedPart(o)[r] = 0
    BY <2>1 DEF ConfirmedPart
  <2>3. SumFunctionOnSet(ConfirmedPart(o), Refunds) = 0
    BY <2>2, SumZero, Finite
  <2> QED  BY <2>1, <2>3, ServerPaymentsAssumption DEF OrderMatches, Init
<1>3. ASSUME NEW r \in Refunds PROVE HoldMatches(r)
  BY DEF HoldMatches, Init, BillingInit, Reservations
<1> QED  BY <1>1, <1>2, <1>3, MatchOneByOne

LEMMA RefundStep ==
  ASSUME TypeOK, TypeOK', HeardOf, BookedOnce, RefundsOfBooked, RefundsMatchBooks, [Next]_vars
  PROVE  RefundsOfBooked' /\ RefundsMatchBooks'
<1> USE DEF TypeOK, PaymentsTypeOK
<1>0. /\ purpose' = purpose => \A r \in Refunds : CreditsOf(r)' = CreditsOf(r)
      /\ \A r \in Refunds : HoldMatches(r)
  BY MatchOneByOne DEF CreditsOf, OrderOf, Part
<1>1. CASE UNCHANGED vars
  BY <1>0, <1>1, RefundsStay
     DEF vars, billingVars, creditVars, holdVars, paymentVars, orderVars, choiceVars, remoteVars
<1>2. CASE BillingNext /\ UNCHANGED paymentVars
  BY <1>0, <1>2, RefundsStay, BillingLeavesOrders DEF paymentVars, orderVars, choiceVars, remoteVars
<1>3. ASSUME NEW o \in Orders, Checkout(o)
      PROVE  RefundsOfBooked' /\ RefundsMatchBooks'
  <2>1. /\ order[o] = "NONE"
        /\ order' = [order EXCEPT ![o] = "PENDING"]
        /\ \A x \in Orders \ {o} : purpose'[x] = purpose[x]
        /\ UNCHANGED <<posted, held, refund, refunded, returned>>
    BY <1>3 DEF Checkout, creditVars, holdVars
  <2>2. posted[o] = 0
    BY <2>1 DEF HeardOf
  <2>3. \A r \in Refunds : refund[r] # "NONE" => OrderOf(r) # o /\ OrderOf(r) \in Orders
    BY <2>2, RefundTyped DEF RefundsOfBooked
  <2>4. \A r \in Refunds : refund[r] # "NONE" => CreditsOf(r)' = CreditsOf(r)
    BY <2>1, <2>3 DEF CreditsOf, OrderOf, Part
  <2>5. \A x \in Orders : order'[x] \in {"PARTIALLY_REFUNDED", "REFUNDED"} => order'[x] = order[x]
    BY <2>1
  <2> QED  BY <2>1, <2>4, <2>5, RefundsStay
<1>4. ASSUME NEW o \in Orders, ProviderMoves(o) \/ FallsDue(o)
      PROVE  RefundsOfBooked' /\ RefundsMatchBooks'
  BY <1>0, <1>4, RefundsStay
     DEF ProviderMoves, FallsDue, billingVars, creditVars, holdVars, orderVars, choiceVars, remoteVars
<1>5. ASSUME NEW o \in Orders, StripeWebhook(o)
      PROVE  RefundsOfBooked' /\ RefundsMatchBooks'
  BY <1>5, ProcessStays DEF StripeWebhook, choiceVars, remoteVars
<1>6. ASSUME NEW c \in Callers, NEW o \in Orders, Ask(c, o)
      PROVE  RefundsOfBooked' /\ RefundsMatchBooks'
  BY <1>0, <1>6, RefundsStay DEF Ask, billingVars, creditVars, holdVars, orderVars, choiceVars, remoteVars
<1>7. ASSUME NEW c \in Callers, Review(c)
      PROVE  RefundsOfBooked' /\ RefundsMatchBooks'
  <2>1. \A x \in Orders : order'[x] \in {"PARTIALLY_REFUNDED", "REFUNDED"} => order'[x] = order[x]
    BY <1>7 DEF Review
  <2>2. UNCHANGED <<held, posted, refund, refunded, returned, purpose>>
    BY <1>7 DEF Review, billingVars, creditVars, holdVars, choiceVars, remoteVars
  <2> QED  BY <1>0, <2>1, <2>2, RefundsStay
<1>8. ASSUME NEW c \in Callers, Reconcile(c)
      PROVE  RefundsOfBooked' /\ RefundsMatchBooks'
  <2>1. asked[c].order \in Orders
    BY <1>8 DEF Reconcile, Answered, Idle
  <2>2. \E type : Process(asked[c].order, type)
    BY <1>8 DEF Reconcile
  <2>3. UNCHANGED <<refund, choiceVars, returned>>
    BY <1>8 DEF Reconcile, remoteVars
  <2> QED  BY <2>1, <2>2, <2>3, ProcessStays
<1>9. ASSUME NEW c \in Callers, ReconcileEnds(c)
      PROVE  RefundsOfBooked' /\ RefundsMatchBooks'
  BY <1>0, <1>9, RefundsStay
     DEF ReconcileEnds, billingVars, creditVars, holdVars, orderVars, choiceVars, remoteVars
<1>10. CASE CollectOverdue \/ ExpiryDies
  BY <1>0, <1>10, RefundsStay
     DEF CollectOverdue, ExpiryDies, billingVars, creditVars, holdVars, orderVars, choiceVars, remoteVars
<1>11. CASE WriteExpired
  <2>1. \A x \in Orders : order'[x] \in {"PARTIALLY_REFUNDED", "REFUNDED"} => order'[x] = order[x]
    BY <1>11 DEF WriteExpired
  <2>2. UNCHANGED <<held, posted, refund, refunded, returned, purpose>>
    BY <1>11 DEF WriteExpired, billingVars, creditVars, holdVars, choiceVars, remoteVars
  <2> QED  BY <1>0, <2>1, <2>2, RefundsStay
<1>12. ASSUME NEW r \in Refunds, RequestRefund(r)
       PROVE  RefundsOfBooked' /\ RefundsMatchBooks'
  <2>1. posted[OrderOf(r)] = 1 /\ refund[r] = "NONE" /\ r \in Reservations
    BY <1>12, RefundTyped DEF RequestRefund, Refundable, BookedOnce, Reservations
  <2>2. /\ refund' = [refund EXCEPT ![r] = "PROCESSING"] /\ returned' = returned \cup {r}
        /\ UNCHANGED <<orderVars, choiceVars>>
    BY <1>12 DEF RequestRefund, Returns
  <2>3. held' = IF CreditsOf(r) = 0 THEN held ELSE [held EXCEPT ![r] = "RESERVED"]
    BY <1>12 DEF RequestRefund, Hold, creditVars, holdVars
  <2>4. held \in [Reservations -> {"NONE", "RESERVED", "CONFIRMED", "RELEASED"}] /\ Refunds \subseteq Reservations
    BY DEF BillingTypeOK, CreditsTypeOK, Reservations
  <2>5. held[r] = "NONE"
    BY <1>0, <2>1 DEF HoldMatches
  <2>6. held'[r] = IF CreditsOf(r) = 0 THEN "NONE" ELSE "RESERVED"
    BY <2>1, <2>3, <2>4, <2>5
  <2>7. \A x \in Refunds \ {r} : held'[x] = held[x]
    BY <2>3, <2>4
  <2> QED  BY <2>1, <2>2, <2>6, <2>7, RefundMoves
<1>13. ASSUME NEW r \in Refunds, RefundFails(r)
       PROVE  RefundsOfBooked' /\ RefundsMatchBooks'
  <2>1. posted[OrderOf(r)] = 1 /\ refund[r] = "NONE" /\ r \in Reservations
    BY <1>13, RefundTyped DEF RefundFails, Refundable, BookedOnce, Reservations
  <2>2. /\ refund' = [refund EXCEPT ![r] = "FAILED"] /\ returned \subseteq returned'
        /\ UNCHANGED <<orderVars, choiceVars>>
    BY <1>13 DEF RefundFails, Returns
  <2>3. held' = [held EXCEPT ![r] = IF CreditsOf(r) = 0 THEN @ ELSE "RELEASED"]
    BY <1>13 DEF RefundFails
  <2>4. held \in [Reservations -> {"NONE", "RESERVED", "CONFIRMED", "RELEASED"}] /\ Refunds \subseteq Reservations
    BY DEF BillingTypeOK, CreditsTypeOK, Reservations
  <2>5. held[r] = "NONE"
    BY <1>0, <2>1 DEF HoldMatches
  <2>6. held'[r] = IF CreditsOf(r) = 0 THEN "NONE" ELSE "RELEASED"
    BY <2>1, <2>3, <2>4, <2>5
  <2>7. \A x \in Refunds \ {r} : held'[x] = held[x]
    BY <2>3, <2>4
  <2> QED  BY <2>1, <2>2, <2>6, <2>7, RefundMoves
<1>14. ASSUME NEW r \in Refunds, RefundDies(r)
       PROVE  RefundsOfBooked' /\ RefundsMatchBooks'
  BY <1>0, <1>14, RefundsStay
     DEF RefundDies, Returns, billingVars, creditVars, holdVars, orderVars, choiceVars
<1>15. ASSUME NEW r \in Refunds, ConfirmFailed(r)
       PROVE  RefundsOfBooked' /\ RefundsMatchBooks'
  <2>1. refund[r] = "PROCESSING" /\ posted[OrderOf(r)] = 1 /\ r \in Reservations
    BY <1>15 DEF ConfirmFailed, RefundsOfBooked, Reservations
  <2>2. /\ refund' = [refund EXCEPT ![r] = "FAILED"] /\ returned' = returned \ {r}
        /\ UNCHANGED <<orderVars, choiceVars>>
    BY <1>15 DEF ConfirmFailed
  <2>3. held[r] = IF CreditsOf(r) = 0 THEN "NONE" ELSE "RESERVED"
    BY <1>0, <2>1 DEF HoldMatches
  <2>4. held' = IF CreditsOf(r) = 0 THEN held ELSE [held EXCEPT ![r] = "RELEASED"]
    BY <1>15, <2>3 DEF ConfirmFailed, SettleOf, SettleHold, creditVars, holdVars
  <2>5. held \in [Reservations -> {"NONE", "RESERVED", "CONFIRMED", "RELEASED"}] /\ Refunds \subseteq Reservations
    BY DEF BillingTypeOK, CreditsTypeOK, Reservations
  <2>6. held'[r] = IF CreditsOf(r) = 0 THEN "NONE" ELSE "RELEASED"
    BY <2>1, <2>3, <2>4, <2>5
  <2>7. \A x \in Refunds \ {r} : held'[x] = held[x]
    BY <2>4, <2>5
  <2> QED  BY <2>1, <2>2, <2>6, <2>7, RefundMoves
<1>16. ASSUME NEW r \in Refunds, Confirm(r)
       PROVE  RefundsOfBooked' /\ RefundsMatchBooks'
  BY <1>16, ConfirmMatches
<1> QED
  BY <1>1, <1>2, <1>3, <1>4, <1>5, <1>6, <1>7, <1>8, <1>9, <1>10, <1>11, <1>12, <1>13, <1>14, <1>15, <1>16
     DEF Next, Expiry
-----------------------------------------------------------------------------
(* Activations are paid *)

ActiveOnes == {s \in Subscriptions : state[s] \in {"ACTIVE", "CANCEL_AT_PERIOD_END"}}
BookedOnes == {o \in Orders : purpose[o] = "SUBSCRIPTION" /\ posted[o] > 0}

\* The induction needs the active subscriptions to be finitely many, for there is no bound
\* on those that are asked for.
ActivationsCounted == IsFiniteSet(ActiveOnes) /\ Cardinality(ActiveOnes) <= Cardinality(BookedOnes)

\* A step that activates nothing and forgets no booking.
LEMMA NothingActivated ==
  ASSUME ActivationsCounted, ActiveOnes' \subseteq ActiveOnes, BookedOnes \subseteq BookedOnes'
  PROVE  ActivationsCounted'
<1>1. IsFiniteSet(BookedOnes')
  BY FS_Subset, ServerBillingAssumption DEF BookedOnes
<1>2. Cardinality(BookedOnes) <= Cardinality(BookedOnes')
  BY <1>1, FS_Subset
<1>3. IsFiniteSet(ActiveOnes') /\ Cardinality(ActiveOnes') <= Cardinality(ActiveOnes)
  BY FS_Subset DEF ActivationsCounted
<1>4. /\ Cardinality(BookedOnes) \in Nat /\ Cardinality(BookedOnes') \in Nat
      /\ Cardinality(ActiveOnes) \in Nat /\ Cardinality(ActiveOnes') \in Nat
  BY <1>1, <1>3, FS_CardinalityType, FS_Subset DEF ActivationsCounted
<1> QED  BY <1>2, <1>3, <1>4 DEF ActivationsCounted

\* A step that activates one subscription at most, and books another order.
LEMMA OneActivated ==
  ASSUME ActivationsCounted, NEW s, NEW o,
         ActiveOnes' \subseteq ActiveOnes \cup {s},
         o \notin BookedOnes, BookedOnes \cup {o} \subseteq BookedOnes'
  PROVE  ActivationsCounted'
<1>1. IsFiniteSet(BookedOnes) /\ IsFiniteSet(BookedOnes')
  BY FS_Subset, ServerBillingAssumption DEF BookedOnes
<1>2. Cardinality(BookedOnes) + 1 <= Cardinality(BookedOnes')
  <2>1. Cardinality(BookedOnes \cup {o}) = Cardinality(BookedOnes) + 1
    BY <1>1, FS_AddElement
  <2>2. Cardinality(BookedOnes \cup {o}) <= Cardinality(BookedOnes')
    BY <1>1, FS_Subset
  <2> QED  BY <2>1, <2>2
<1>3. /\ IsFiniteSet(ActiveOnes \cup {s})
      /\ Cardinality(ActiveOnes \cup {s}) \in {Cardinality(ActiveOnes), Cardinality(ActiveOnes) + 1}
  BY FS_AddElement DEF ActivationsCounted
<1>4. IsFiniteSet(ActiveOnes') /\ Cardinality(ActiveOnes') <= Cardinality(ActiveOnes \cup {s})
  BY <1>3, FS_Subset
<1>5. /\ Cardinality(BookedOnes) \in Nat /\ Cardinality(BookedOnes') \in Nat
      /\ Cardinality(ActiveOnes) \in Nat /\ Cardinality(ActiveOnes') \in Nat
  BY <1>1, <1>4, FS_CardinalityType DEF ActivationsCounted
<1> QED  BY <1>2, <1>3, <1>4, <1>5 DEF ActivationsCounted

\* An event moves the latest subscription, or none if there is none.
LEMMA ProcessActivates ==
  ASSUME TypeOK, BookedOnce, ActivationsCounted, NEW o \in Orders, NEW type, Process(o, type), purpose' = purpose
  PROVE  ActivationsCounted'
<1> USE DEF TypeOK, PaymentsTypeOK
<1>1. CASE Book(o)
  <2>1. order[o] = "PENDING" /\ posted' = [posted EXCEPT ![o] = @ + 1]
    BY <1>1 DEF Book, Payable
  <2>2. posted[o] = 0
    BY <2>1 DEF BookedOnce
  <2>3. o \notin BookedOnes /\ BookedOnes \subseteq BookedOnes'
    BY <2>1, <2>2 DEF BookedOnes
  <2>4. CASE purpose[o] = "SUBSCRIPTION"
    <3>1. o \in BookedOnes'
      BY <2>1, <2>2, <2>4 DEF BookedOnes
    <3>2. state' = state \/ state' = [state EXCEPT ![Latest] = "ACTIVE"]
      BY <1>1, <2>4 DEF Book, Deliver, ApplyVerifiedEvent, subVars
    <3>3. ActiveOnes' \subseteq ActiveOnes \cup {Latest}
      BY <3>2 DEF ActiveOnes, BillingTypeOK, SubscriptionsTypeOK
    <3> QED  BY <2>3, <3>1, <3>3, OneActivated
  <2>5. CASE purpose[o] # "SUBSCRIPTION"
    <3>1. state' = state
      BY <1>1, <2>5 DEF Book, Deliver, subVars
    <3> QED  BY <2>3, <3>1, NothingActivated DEF ActiveOnes
  <2> QED  BY <2>4, <2>5
<1>2. CASE ~Book(o)
  BY <1>2, NothingActivated DEF Process, Fail, orderVars, subVars, ActiveOnes, BookedOnes
<1> QED  BY <1>1, <1>2

LEMMA ActivationsInit == Init => ActivationsCounted
<1> SUFFICES ASSUME Init PROVE ActivationsCounted
  OBVIOUS
<1>1. ActiveOnes = {} /\ BookedOnes = {}
  BY DEF Init, BillingInit, ActiveOnes, BookedOnes
<1> QED  BY <1>1, FS_EmptySet DEF ActivationsCounted

LEMMA ActivationsStep ==
  ASSUME TypeOK, HeardOf, BookedOnce, ActivationsCounted, [Next]_vars
  PROVE  ActivationsCounted'
<1> USE DEF TypeOK, PaymentsTypeOK
<1>1. ASSUME UNCHANGED <<state, purpose, posted>>
      PROVE  ActivationsCounted'
  BY <1>1, NothingActivated DEF ActiveOnes, BookedOnes
<1>2. CASE UNCHANGED vars
  BY <1>1, <1>2 DEF vars, billingVars, subVars, paymentVars, orderVars, choiceVars
<1>3. CASE BillingNext /\ UNCHANGED paymentVars
  <2>1. UNCHANGED <<purpose, posted>>
    BY <1>3 DEF paymentVars, orderVars, choiceVars
  <2>2. state \in [Subscriptions -> {"NONE"} \cup DOMAIN Transitions]
    BY DEF BillingTypeOK, SubscriptionsTypeOK
  <2>3. \A s \in Subscriptions :
           state'[s] \in {"ACTIVE", "CANCEL_AT_PERIOD_END"} => state[s] \in {"ACTIVE", "CANCEL_AT_PERIOD_END"}
    <3>1. CASE UNCHANGED subVars
      BY <3>1 DEF subVars
    <3>2. ASSUME NEW s \in Requests, CreatePending(s)
          PROVE  state' = [state EXCEPT ![s] = "PENDING"]
      BY <3>2 DEF CreatePending, Open
    <3>3. ASSUME NEW s \in Subscriptions, NEW immediate \in BOOLEAN, ScheduleCancellation(s, immediate)
          PROVE  \/ state' = [state EXCEPT ![s] = "CANCELLED"]
                 \/ state' = [state EXCEPT ![s] = "CANCEL_AT_PERIOD_END"] /\ state[s] = "ACTIVE"
      <4>1. /\ state[s] # "NONE"
            /\ IF immediate THEN state' = [state EXCEPT ![s] = "CANCELLED"]
               ELSE /\ "CANCEL_AT_PERIOD_END" \in Transitions[state[s]]
                    /\ state' = [state EXCEPT ![s] = "CANCEL_AT_PERIOD_END"]
        BY <3>3 DEF ScheduleCancellation, Allowed
      <4>2. state[s] \in DOMAIN Transitions
        BY <2>2, <4>1
      <4>3. \A from \in DOMAIN Transitions : "CANCEL_AT_PERIOD_END" \in Transitions[from] => from = "ACTIVE"
        BY DEF Transitions
      <4> QED  BY <4>1, <4>2, <4>3
    <3>4. \/ UNCHANGED subVars
          \/ \E s \in Requests : CreatePending(s)
          \/ \E s \in Subscriptions, immediate \in BOOLEAN : ScheduleCancellation(s, immediate)
      BY <1>3 DEF BillingNext, ArchivePrice, Summary, Tick, Purchase, AdministrativeGrant, Reserve, Settle
    <3> QED  BY <2>2, <3>1, <3>2, <3>3, <3>4
  <2> QED  BY <2>1, <2>3, NothingActivated DEF ActiveOnes, BookedOnes
<1>4. ASSUME NEW o \in Orders, Checkout(o)
      PROVE  ActivationsCounted'
  <2>1. /\ order[o] = "NONE" /\ posted' = posted
        /\ \A x \in Orders \ {o} : purpose'[x] = purpose[x]
        /\ state' = state \/ \E s \in Subscriptions : state' = [state EXCEPT ![s] = "PENDING"]
    BY <1>4 DEF Checkout, Open, subVars, Subscriptions
  <2>2. posted[o] = 0
    BY <2>1 DEF HeardOf
  <2>3. ActiveOnes' \subseteq ActiveOnes /\ BookedOnes \subseteq BookedOnes'
    BY <2>1, <2>2 DEF ActiveOnes, BookedOnes, BillingTypeOK, SubscriptionsTypeOK
  <2> QED  BY <2>3, NothingActivated
<1>5. ASSUME NEW o \in Orders, ProviderMoves(o) \/ FallsDue(o)
      PROVE  ActivationsCounted'
  BY <1>1, <1>5 DEF ProviderMoves, FallsDue, billingVars, subVars, orderVars, choiceVars
<1>6. ASSUME NEW o \in Orders, StripeWebhook(o)
      PROVE  ActivationsCounted'
  BY <1>6, ProcessActivates DEF StripeWebhook, choiceVars
<1>7. ASSUME NEW c \in Callers, (\E o \in Orders : Ask(c, o)) \/ Review(c) \/ ReconcileEnds(c)
      PROVE  ActivationsCounted'
  BY <1>1, <1>7 DEF Ask, Review, ReconcileEnds, billingVars, subVars, orderVars, choiceVars
<1>8. ASSUME NEW c \in Callers, Reconcile(c)
      PROVE  ActivationsCounted'
  <2>1. asked[c].order \in Orders
    BY <1>8 DEF Reconcile, Answered, Idle
  <2>2. \E type : Process(asked[c].order, type)
    BY <1>8 DEF Reconcile
  <2>3. purpose' = purpose
    BY <1>8 DEF Reconcile, choiceVars
  <2> QED  BY <2>1, <2>2, <2>3, ProcessActivates
<1>9. CASE Expiry \/ ExpiryDies
  BY <1>1, <1>9 DEF Expiry, CollectOverdue, WriteExpired, ExpiryDies, billingVars, subVars, orderVars, choiceVars
<1>10. ASSUME NEW r \in Refunds, RequestRefund(r) \/ RefundFails(r) \/ RefundDies(r) \/ ConfirmFailed(r)
       PROVE  ActivationsCounted'
  BY <1>1, <1>10
     DEF RequestRefund, RefundFails, RefundDies, ConfirmFailed, billingVars, subVars, orderVars, choiceVars
<1>11. ASSUME NEW r \in Refunds, Confirm(r)
       PROVE  ActivationsCounted'
  <2>1. UNCHANGED <<purpose, posted>>
    BY <1>11 DEF Confirm, choiceVars
  <2>2. state' = state \/ state' = [state EXCEPT ![Latest] = "CANCELLED"]
    BY <1>11 DEF Confirm, CancelRefunded, ApplyVerifiedEvent, subVars
  <2>3. ActiveOnes' \subseteq ActiveOnes
    BY <2>2 DEF ActiveOnes, BillingTypeOK, SubscriptionsTypeOK
  <2> QED  BY <2>1, <2>3, NothingActivated DEF BookedOnes
<1> QED  BY <1>2, <1>3, <1>4, <1>5, <1>6, <1>7, <1>8, <1>9, <1>10, <1>11 DEF Next

-----------------------------------------------------------------------------
(* The invariants of the module *)

\* What the steps preserve together: whether a payment was heard of, booked or refunded
\* depends on one another, and what a refund holds on all of them.
Inv ==
    /\ TypeOK /\ HeardOf /\ RefundsOfBooked /\ BookedOnce /\ RefundsMatchBooks
    /\ CreditsConserved /\ ActivationsCounted

LEMMA ConservedInit == Init => CreditsConserved
<1> SUFFICES ASSUME Init PROVE CreditsConserved
  OBVIOUS
<1>1. TypeOK
  BY TypedInit
<1>2. SumFunction(remaining) = 0
  <2>1. DOMAIN remaining = Lots /\ \A l \in Lots : remaining[l] = 0
    BY DEF Init, BillingInit
  <2> QED  BY <2>1, SumIsOnDomain, SumZero, Finite
<1>3. ASSUME NEW l \in Lots, NEW status \in {"RESERVED", "CONFIRMED"} PROVE Taken(l, status) = 0
  <2>1. \A r \in Reservations : TakenBy(l, status)[r] = 0
    BY DEF Init, BillingInit, TakenBy
  <2>2. SumFunctionOnSet(TakenBy(l, status), Reservations) = 0
    BY <2>1, SumZero, Finite
  <2> QED  BY <1>1, <2>2, TakenTyped DEF TypeOK, BillingTypeOK
<1> QED  BY <1>2, <1>3 DEF Init, BillingInit, CreditsConserved

LEMMA InvInit == Init => Inv
BY TypedInit, BookedInit, RefundInit, ConservedInit, ActivationsInit DEF Inv

LEMMA InvStep == Inv /\ [Next]_vars => Inv'
<1> SUFFICES ASSUME Inv, [Next]_vars PROVE Inv'
  OBVIOUS
<1> USE DEF Inv
<1>1. TypeOK'
  BY TypedStep
<1>2. BookedOnce' /\ HeardOf'
  BY BookedStep DEF RefundsOfBooked
<1>3. RefundsOfBooked' /\ RefundsMatchBooks'
  BY <1>1, RefundStep
<1>4. CreditsConserved'
  <2>1. \A r \in Refunds : refund[r] = "NONE" => held[r] = "NONE"
    BY MatchOneByOne DEF HoldMatches
  <2> QED  BY <1>1, <2>1, AnyStepCredits, ConservedStep
<1>5. ActivationsCounted'
  BY ActivationsStep
<1> QED  BY <1>1, <1>2, <1>3, <1>4, <1>5

LEMMA Invariant == Spec => []Inv
<1>1. Init => Inv
  BY InvInit
<1>2. Inv /\ [Next]_vars => Inv'
  BY InvStep
<1> QED  BY <1>1, <1>2, PTL DEF Spec

\* However events are repeated and reordered, and whatever is asked for, reviewed and expired
\* in between: one booking of an order, and only for a payment that a provider reported.
THEOREM BookedAtMostOnce == Spec => []BookedOnce
<1>1. Inv => BookedOnce
  BY DEF Inv
<1> QED  BY <1>1, Invariant, PTL

\* Released, confirmed and written off in any order, the credits of every lot add up, and
\* the ledger to what is left of the lots.
THEOREM NoCreditLost == Spec => []CreditsConserved
<1>1. Inv => CreditsConserved
  BY DEF Inv
<1> QED  BY <1>1, Invariant, PTL

\* However refunds overlap, fail and are confirmed, what is refunded of an order is the sum
\* of the confirmed refunds, within the payment, and the credits are held accordingly.
THEOREM RefundsAddUp == Spec => []RefundsMatchBooks
<1>1. Inv => RefundsMatchBooks
  BY DEF Inv
<1> QED  BY <1>1, Invariant, PTL

\* There are never more active subscriptions than orders for them that were booked.
THEOREM ActiveOnlyIfPaid == Spec => []ActivationsArePaid
<1>1. Inv => ActivationsArePaid
  BY DEF Inv, ActivationsCounted, ActiveOnes, BookedOnes, ActivationsArePaid
<1> QED  BY <1>1, Invariant, PTL
=============================================================================
