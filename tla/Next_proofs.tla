----------------------------- MODULE Next_proofs ----------------------------
(***************************************************************************)
(* Proofs about the Next.js backend, for any number of users, sessions,    *)
(* payments and servers: its payments, its identity, its organisations and *)
(* its wallet, each by itself, and that the router in front of the last    *)
(* three only does what these services allow, so that what is proved of a  *)
(* service holds of the API as a whole.                                    *)
(***************************************************************************)
EXTENDS NextRouter, NextPayments, SumLemmas

-----------------------------------------------------------------------------
(* Payments *)

Learnt == {Nothing, "PENDING", "SUCCEEDED", "FAILED", "NEEDS_REVIEW"}

\* What a server is doing on the store: a request that asks a provider is about an
\* order with Orange, known if its status is asked and unknown if it is created.
InService ==
    \A s \in Servers :
        /\ tx[s].answer \in Learnt
        /\ tx[s].op # "none" => /\ tx[s].payment \in Payments
                                /\ Provider[tx[s].payment] = "orange_money_ml"
        /\ tx[s].op = "checkout" => tx[s].key \in CheckoutKeys /\ payment[tx[s].payment] = "NONE"
        /\ tx[s].op = "status" => payment[tx[s].payment] # "NONE"

\* One request at a time.
Locked ==
    \A s, t \in Servers : tx[s].op # "none" /\ tx[t].op # "none" => s = t

PaymentsTyped == TypeOK /\ InService /\ Locked

-----------------------------------------------------------------------------
(* Types. *)

\* The store is empty and idle at first.
LEMMA PaymentsTypedInit == Init => PaymentsTyped
<1> SUFFICES ASSUME Init PROVE PaymentsTyped
  OBVIOUS
<1>1. TypeOK
  BY NextPaymentsAssumption DEF Init, TypeOK, NoTx, Remotes
<1>2. InService /\ Locked
  BY NextPaymentsAssumption DEF Init, InService, Locked, NoTx, Learnt
<1>3. QED
  BY <1>1, <1>2 DEF PaymentsTyped

\* A new payment has the type of one, and so have the records that come with it.
LEMMA CreateTyped ==
    ASSUME TypeOK, NEW p \in Payments, NEW k \in CheckoutKeys, NEW st \in Statuses, CreateRecord(p, k, st)
    PROVE  /\ payment' \in [Payments -> {"NONE"} \cup Statuses]
           /\ checkouts' \subseteq PaymentProviders \X CheckoutKeys \X Payments
           /\ outbox' \subseteq ({"payment.created"} \X Payments)
                                 \cup ({"payment.webhook.received"} \X events')
                                 \cup ({"payment.refunded"} \X refunds')
           /\ UNCHANGED <<refunded, refunds, events>>
<1>1. Provider[p] \in PaymentProviders
  BY NextPaymentsAssumption
<1>2. <<Provider[p], k, p>> \in PaymentProviders \X CheckoutKeys \X Payments
  BY <1>1
<1>3. checkouts' \subseteq PaymentProviders \X CheckoutKeys \X Payments
  BY <1>2, Zenon DEF CreateRecord, TypeOK
<1>4. <<"payment.created", p>> \in {"payment.created"} \X Payments
  OBVIOUS
<1>5. outbox' \subseteq ({"payment.created"} \X Payments)
                        \cup ({"payment.webhook.received"} \X events)
                        \cup ({"payment.refunded"} \X refunds)
  BY <1>4, Zenon DEF CreateRecord, TypeOK
<1>6. payment' \in [Payments -> {"NONE"} \cup Statuses]
  BY DEF CreateRecord, TypeOK
<1>7. QED
  BY <1>3, <1>5, <1>6 DEF CreateRecord

\* A request of one server leaves the others alone.
LEMMA PaymentsTypedStep == PaymentsTyped /\ [Next]_vars => PaymentsTyped'
<1> SUFFICES ASSUME TypeOK, InService, Locked, [Next]_vars
             PROVE  TypeOK' /\ InService' /\ Locked'
  BY DEF PaymentsTyped
<1> USE DEF vars, books, external
<1>1. ASSUME NEW s \in Servers, NEW p \in Payments, NEW k \in CheckoutKeys, CheckoutDirect(s, p, k)
      PROVE  TypeOK' /\ InService' /\ Locked'
  <2>1. TypeOK'
    <3>1. PICK st \in Statuses : CreateRecord(p, k, st)
      BY <1>1 DEF CheckoutDirect, Statuses
    <3>2. QED
      BY <1>1, <3>1, CreateTyped DEF CheckoutDirect, TypeOK
  <2>2. InService' /\ Locked'
    BY <1>1 DEF CheckoutDirect, CreateRecord, StoreFree, InService, Locked, TypeOK, Statuses
  <2>3. QED
    BY <2>1, <2>2
<1>2. ASSUME NEW s \in Servers, NEW p \in Payments, NEW k \in CheckoutKeys, CheckoutBegin(s, p, k)
      PROVE  TypeOK' /\ InService' /\ Locked'
  <2>1. TypeOK'
    BY <1>2, NextPaymentsAssumption DEF CheckoutBegin, NoTx, TypeOK
  <2>2. InService' /\ Locked'
    BY <1>2, NextPaymentsAssumption
    DEF CheckoutBegin, Fresh, StoreFree, NoTx, InService, Locked, TypeOK, Learnt
  <2>3. QED
    BY <2>1, <2>2
<1>3. ASSUME NEW s \in Servers, CheckoutAsk(s)
      PROVE  TypeOK' /\ InService' /\ Locked'
  <2>1. PICK r \in {"pending", "success", "failed"}, a \in {"PENDING", "SUCCEEDED", "FAILED", "NEEDS_REVIEW"} :
          /\ remote' = [remote EXCEPT ![tx[s].payment] = r]
          /\ tx' = [tx EXCEPT ![s].answer = a]
    BY <1>3 DEF CheckoutAsk, Learns, Normalized
  <2>2. TypeOK'
    <3>1. tx[s].payment \in Payments
      BY <1>3 DEF CheckoutAsk, InService
    <3>2. remote' \in [Payments -> Remotes]
      BY <2>1, <3>1 DEF TypeOK, Remotes
    <3>3. tx' \in [Servers -> [op : {"none", "checkout", "status"}, payment : Payments \cup {Nothing},
                              key : CheckoutKeys \cup {Nothing}, event : Bodies \cup {Nothing},
                              answer : Statuses \cup {Nothing}]]
      BY <2>1 DEF TypeOK, Statuses
    <3>4. QED
      BY <1>3, <3>2, <3>3 DEF CheckoutAsk, TypeOK
  <2>3. InService' /\ Locked'
    BY <1>3, <2>1 DEF CheckoutAsk, InService, Locked, TypeOK, Learnt
  <2>4. QED
    BY <2>2, <2>3
<1>4. ASSUME NEW s \in Servers, CheckoutCommit(s)
      PROVE  TypeOK' /\ InService' /\ Locked'
  <2>1. /\ tx[s].payment \in Payments
        /\ tx[s].key \in CheckoutKeys
        /\ tx[s].answer \in {"PENDING", "SUCCEEDED", "FAILED", "NEEDS_REVIEW"}
    BY <1>4 DEF CheckoutCommit, InService, Learnt
  <2>2. TypeOK'
    <3>1. tx[s].answer \in Statuses
      BY <2>1 DEF Statuses
    <3>2. CreateRecord(tx[s].payment, tx[s].key, tx[s].answer)
      BY <1>4 DEF CheckoutCommit
    <3>3. tx' \in [Servers -> [op : {"none", "checkout", "status"}, payment : Payments \cup {Nothing},
                              key : CheckoutKeys \cup {Nothing}, event : Bodies \cup {Nothing},
                              answer : Statuses \cup {Nothing}]]
      BY <1>4 DEF CheckoutCommit, NoTx, TypeOK
    <3>4. QED
      BY <1>4, <2>1, <3>1, <3>2, <3>3, CreateTyped DEF CheckoutCommit, TypeOK
  <2>3. InService' /\ Locked'
    BY <1>4, <2>1, NextPaymentsAssumption
    DEF CheckoutCommit, CreateRecord, NoTx, InService, Locked, TypeOK, Learnt, Statuses
  <2>4. QED
    BY <2>2, <2>3
<1>5. ASSUME NEW s \in Servers, NEW p \in Payments, NEW e \in Bodies \cup {Nothing},
             StatusBegin(s, p, e)
      PROVE  TypeOK' /\ InService' /\ Locked'
  <2>1. TypeOK'
    BY <1>5, NextPaymentsAssumption DEF StatusBegin, NoTx, TypeOK
  <2>2. InService' /\ Locked'
    BY <1>5, NextPaymentsAssumption
    DEF StatusBegin, StoreFree, NoTx, InService, Locked, TypeOK, Learnt
  <2>3. QED
    BY <2>1, <2>2
<1>6. ASSUME NEW s \in Servers, StatusAsk(s)
      PROVE  TypeOK' /\ InService' /\ Locked'
  <2>1. PICK a \in {"PENDING", "SUCCEEDED", "FAILED", "NEEDS_REVIEW"} :
          tx' = [tx EXCEPT ![s].answer = a]
    BY <1>6 DEF StatusAsk, Learns, Normalized
  <2>2. TypeOK'
    BY <1>6, <2>1 DEF StatusAsk, TypeOK, Statuses
  <2>3. InService' /\ Locked'
    BY <1>6, <2>1 DEF StatusAsk, InService, Locked, TypeOK, Learnt
  <2>4. QED
    BY <2>2, <2>3
<1>7. ASSUME NEW s \in Servers, StatusCommit(s)
      PROVE  TypeOK' /\ InService' /\ Locked'
  <2>1. /\ tx[s].payment \in Payments
        /\ tx[s].answer \in {"PENDING", "SUCCEEDED", "FAILED", "NEEDS_REVIEW"}
    BY <1>7 DEF StatusCommit, InService, Learnt
  <2>2. PICK seen \in SUBSET (Payments \X Bodies) :
          /\ events' = events \cup seen
          /\ outbox' = outbox \cup {<<"payment.webhook.received", e>> : e \in seen}
    <3> DEFINE one == {e \in {<<tx[s].payment, tx[s].event>>} : tx[s].event # Nothing}
    <3>1. tx[s].event \in Bodies \cup {Nothing}
      BY DEF TypeOK
    <3>2. one \in SUBSET (Payments \X Bodies)
      BY <2>1, <3>1
    <3>3. QED
      BY <1>7, <3>2 DEF StatusCommit
  <2>3. TypeOK'
    BY <1>7, <2>1, <2>2, NextPaymentsAssumption DEF StatusCommit, NoTx, TypeOK, Statuses
  <2>4. InService' /\ Locked'
    BY <1>7, <2>1, NextPaymentsAssumption
    DEF StatusCommit, NoTx, InService, Locked, TypeOK, Learnt, Statuses
  <2>5. QED
    BY <2>3, <2>4
<1>8. ASSUME NEW s \in Servers, NEW p \in Payments, NEW e \in Bodies, NEW c \in BOOLEAN,
             StripeWebhook(s, p, e, c)
      PROVE  TypeOK' /\ InService' /\ Locked'
  <2>1. payment' \in [Payments -> {"NONE"} \cup Statuses] /\ vouched' \subseteq Payments
    BY <1>8 DEF StripeWebhook, TypeOK, Statuses
  <2>2. TypeOK'
    BY <1>8, <2>1 DEF StripeWebhook, TypeOK
  <2>3. InService' /\ Locked'
    BY <1>8 DEF StripeWebhook, StoreFree, InService, Locked, TypeOK, Statuses
  <2>4. QED
    BY <2>2, <2>3
<1>9. ASSUME NEW s \in Servers, NEW p \in Payments, NEW a \in 1..Amount, NEW r \in RefundKeys,
             Refund(s, p, a, r)
      PROVE  TypeOK' /\ InService' /\ Locked'
  <2> DEFINE record == [provider |-> Provider[p], key |-> r, payment |-> p, amount |-> a]
  <2>1. record \in [provider : PaymentProviders, key : RefundKeys, payment : Payments, amount : 1..Amount]
    BY NextPaymentsAssumption
  <2>2. /\ refunds' = refunds \cup {record}
        /\ outbox' = outbox \cup {<<"payment.refunded", record>>}
    BY <1>9 DEF Refund
  <2>3. refunded' \in [Payments -> 0..Amount]
    <3>1. refunded[p] + a \in 0..Amount
      BY <1>9, NextPaymentsAssumption DEF Refund, Refundable, TypeOK
    <3>2. QED
      BY <1>9, <3>1 DEF Refund, TypeOK
  <2>4. payment' \in [Payments -> {"NONE"} \cup Statuses]
    BY <1>9 DEF Refund, TypeOK, Statuses
  <2> HIDE DEF record
  <2>5. TypeOK'
    BY <1>9, <2>1, <2>2, <2>3, <2>4 DEF Refund, TypeOK
  <2>6. InService' /\ Locked'
    BY <1>9 DEF Refund, StoreFree, InService, Locked
  <2>7. QED
    BY <2>5, <2>6
<1>10. ASSUME NEW p \in Payments, Settle(p)
       PROVE  TypeOK' /\ InService' /\ Locked'
  <2>1. TypeOK'
    BY <1>10 DEF Settle, TypeOK, Remotes
  <2>2. InService' /\ Locked'
    BY <1>10 DEF Settle, InService, Locked
  <2>3. QED
    BY <2>1, <2>2
<1>11. ASSUME NEW s \in Servers, Rollback(s)
       PROVE  TypeOK' /\ InService' /\ Locked'
  <2>1. TypeOK'
    BY <1>11 DEF Rollback, NoTx, TypeOK
  <2>2. InService' /\ Locked'
    BY <1>11 DEF Rollback, NoTx, InService, Locked, TypeOK, Learnt
  <2>3. QED
    BY <2>1, <2>2
<1>12. CASE UNCHANGED vars
  BY <1>12 DEF TypeOK, InService, Locked
<1>13. QED
  BY <1>1, <1>2, <1>3, <1>4, <1>5, <1>6, <1>7, <1>8, <1>9, <1>10, <1>11, <1>12
  DEF Next, Checkout, Confirmation

LEMMA PaymentsTypedInvariant == Spec => []PaymentsTyped
  BY PaymentsTypedInit, PaymentsTypedStep, PTL DEF Spec

\* Every record of the state and every request has its type in every reachable state.
THEOREM PaymentsTypeCorrect == Spec => []TypeOK
<1>1. PaymentsTyped => TypeOK
  BY DEF PaymentsTyped
<1>2. QED
  BY <1>1, PaymentsTypedInvariant, PTL
-----------------------------------------------------------------------------
(* What the backend takes for true is true of the provider.  Because a     *)
(* request holds the store while it asks, its answer is never older than   *)
(* the status it replaces.                                                 *)

\* What a status says was so when it was written, and still is.
Faithful ==
    /\ PaidIsCollected
    /\ \A p \in Payments :
          /\ payment[p] = "FAILED" => Provider[p] = "orange_money_ml" /\ remote[p] = "failed"
          /\ payment[p] = "NONE" => refunded[p] = 0

\* So is what a request has learnt; PENDING is learnt only of a payment nobody knows
\* to be collected or failed, whatever Stripe said of it.
Truthful ==
    \A s \in Servers : tx[s].op # "none" =>
        /\ tx[s].answer = "SUCCEEDED" => remote[tx[s].payment] = "success"
        /\ tx[s].answer = "FAILED" => remote[tx[s].payment] = "failed"
        /\ tx[s].answer = "PENDING" =>
              /\ payment[tx[s].payment] # "FAILED"
              /\ payment[tx[s].payment] \in {"SUCCEEDED", "REFUNDED"} => tx[s].payment \in vouched

Informed == PaymentsTyped /\ Faithful /\ Truthful

LEMMA InformedInit == Init => Faithful /\ Truthful
  BY DEF Init, Faithful, PaidIsCollected, Truthful, NoTx

LEMMA InformedStep == Informed /\ [Next]_vars => Informed'
<1> SUFFICES ASSUME PaymentsTyped, TypeOK, InService, Locked, Faithful, Truthful, [Next]_vars
             PROVE  Faithful' /\ Truthful'
  BY PaymentsTypedStep DEF Informed, PaymentsTyped
<1> USE DEF vars, books, external
<1>1. ASSUME NEW s \in Servers, NEW p \in Payments, NEW k \in CheckoutKeys, CheckoutDirect(s, p, k)
      PROVE  Faithful' /\ Truthful'
  BY <1>1 DEF CheckoutDirect, CreateRecord, Fresh, StoreFree, Faithful, PaidIsCollected, Truthful, TypeOK
<1>2. ASSUME NEW s \in Servers, NEW p \in Payments, NEW k \in CheckoutKeys, CheckoutBegin(s, p, k)
      PROVE  Faithful' /\ Truthful'
  <2>1. Faithful'
    BY <1>2 DEF CheckoutBegin, Faithful, PaidIsCollected
  <2>2. Truthful'
    BY <1>2, NextPaymentsAssumption DEF CheckoutBegin, NoTx, StoreFree, Truthful, TypeOK, Statuses
  <2>3. QED
    BY <2>1, <2>2
<1>3. ASSUME NEW s \in Servers, CheckoutAsk(s)
      PROVE  Faithful' /\ Truthful'
  <2>1. PICK r \in {"pending", "success", "failed"} :
          /\ remote' = [remote EXCEPT ![tx[s].payment] = r]
          /\ \E a \in {Normalized(r), "NEEDS_REVIEW"} : tx' = [tx EXCEPT ![s].answer = a]
    BY <1>3 DEF CheckoutAsk, Learns
  <2>2. tx[s].payment \in Payments /\ payment[tx[s].payment] = "NONE"
    BY <1>3 DEF CheckoutAsk, InService
  <2>3. Faithful'
    BY <1>3, <2>1, <2>2 DEF CheckoutAsk, Faithful, PaidIsCollected, TypeOK
  <2>4. Truthful'
    BY <1>3, <2>1, <2>2 DEF CheckoutAsk, Normalized, Locked, Truthful, TypeOK
  <2>5. QED
    BY <2>3, <2>4
<1>4. ASSUME NEW s \in Servers, CheckoutCommit(s)
      PROVE  Faithful' /\ Truthful'
  <2>1. /\ tx[s].payment \in Payments
        /\ Provider[tx[s].payment] = "orange_money_ml"
        /\ payment[tx[s].payment] = "NONE"
        /\ tx[s].answer \in {"PENDING", "SUCCEEDED", "FAILED", "NEEDS_REVIEW"}
    BY <1>4 DEF CheckoutCommit, InService, Learnt
  <2>2. Faithful'
    BY <1>4, <2>1 DEF CheckoutCommit, CreateRecord, Faithful, PaidIsCollected, Truthful, TypeOK
  <2>3. Truthful'
    BY <1>4, <2>1 DEF CheckoutCommit, CreateRecord, NoTx, Locked, Truthful, TypeOK
  <2>4. QED
    BY <2>2, <2>3
<1>5. ASSUME NEW s \in Servers, NEW p \in Payments, NEW e \in Bodies \cup {Nothing},
             StatusBegin(s, p, e)
      PROVE  Faithful' /\ Truthful'
  <2>1. Faithful'
    BY <1>5 DEF StatusBegin, Faithful, PaidIsCollected
  <2>2. Truthful'
    BY <1>5, NextPaymentsAssumption DEF StatusBegin, NoTx, StoreFree, Truthful, TypeOK, Statuses
  <2>3. QED
    BY <2>1, <2>2
<1>6. ASSUME NEW s \in Servers, StatusAsk(s)
      PROVE  Faithful' /\ Truthful'
  <2>1. PICK a \in {Normalized(remote[tx[s].payment]), "NEEDS_REVIEW"} :
          tx' = [tx EXCEPT ![s].answer = a]
    BY <1>6 DEF StatusAsk, Learns
  <2>2. tx[s].payment \in Payments /\ Provider[tx[s].payment] = "orange_money_ml"
    BY <1>6 DEF StatusAsk, InService
  <2>3. Faithful'
    BY <1>6 DEF StatusAsk, Faithful, PaidIsCollected
  <2>4. Truthful'
    BY <1>6, <2>1, <2>2
    DEF StatusAsk, Normalized, Faithful, PaidIsCollected, Truthful, TypeOK
  <2>5. QED
    BY <2>3, <2>4
<1>7. ASSUME NEW s \in Servers, StatusCommit(s)
      PROVE  Faithful' /\ Truthful'
  <2>1. /\ tx[s].payment \in Payments
        /\ Provider[tx[s].payment] = "orange_money_ml"
        /\ payment[tx[s].payment] # "NONE"
        /\ tx[s].answer \in {"PENDING", "SUCCEEDED", "FAILED", "NEEDS_REVIEW"}
    BY <1>7 DEF StatusCommit, InService, Learnt
  <2>2. Faithful'
    BY <1>7, <2>1 DEF StatusCommit, Faithful, PaidIsCollected, Truthful, TypeOK
  <2>3. Truthful'
    BY <1>7, <2>1 DEF StatusCommit, NoTx, Locked, Truthful, TypeOK
  <2>4. QED
    BY <2>2, <2>3
<1>8. ASSUME NEW s \in Servers, NEW p \in Payments, NEW e \in Bodies, NEW c \in BOOLEAN,
             StripeWebhook(s, p, e, c)
      PROVE  Faithful' /\ Truthful'
  BY <1>8 DEF StripeWebhook, StoreFree, Faithful, PaidIsCollected, Truthful, TypeOK
<1>9. ASSUME NEW s \in Servers, NEW p \in Payments, NEW a \in 1..Amount, NEW r \in RefundKeys,
             Refund(s, p, a, r)
      PROVE  Faithful' /\ Truthful'
  <2>1. Provider[p] = "local" \/ remote[p] = "success" \/ p \in vouched
    BY <1>9 DEF Refund, Refundable, Faithful, PaidIsCollected
  <2>2. Faithful'
    BY <1>9, <2>1 DEF Refund, Refundable, Faithful, PaidIsCollected, TypeOK
  <2>3. Truthful'
    BY <1>9 DEF Refund, StoreFree, Truthful
  <2>4. QED
    BY <2>2, <2>3
<1>10. ASSUME NEW p \in Payments, Settle(p)
       PROVE  Faithful' /\ Truthful'
  <2>1. PICK r \in {"success", "failed"} : remote' = [remote EXCEPT ![p] = r]
    BY <1>10 DEF Settle
  <2>2. remote[p] \notin {"success", "failed"} /\ UNCHANGED <<books, tx, vouched>>
    BY <1>10 DEF Settle
  <2>3. Faithful'
    BY <2>1, <2>2 DEF Faithful, PaidIsCollected, TypeOK
  <2>4. Truthful'
    BY <2>1, <2>2 DEF Truthful, InService, TypeOK
  <2>5. QED
    BY <2>3, <2>4
<1>11. ASSUME NEW s \in Servers, Rollback(s)
       PROVE  Faithful' /\ Truthful'
  BY <1>11 DEF Rollback, NoTx, Faithful, PaidIsCollected, Truthful, TypeOK
<1>12. CASE UNCHANGED vars
  BY <1>12 DEF Faithful, PaidIsCollected, Truthful
<1>13. QED
  BY <1>1, <1>2, <1>3, <1>4, <1>5, <1>6, <1>7, <1>8, <1>9, <1>10, <1>11, <1>12
  DEF Next, Checkout, Confirmation

LEMMA InformedInvariant == Spec => []Informed
<1>1. Init => Informed
  BY PaymentsTypedInit, InformedInit DEF Informed
<1>2. QED
  BY <1>1, InformedStep, PTL DEF Spec

\* An order is taken for paid, or refunded, only if Orange collected it, unless a completed
\* session of Stripe has named it.
THEOREM PaidWasCollected == Spec => []PaidIsCollected
<1>1. Informed => PaidIsCollected
  BY DEF Informed, Faithful
<1>2. QED
  BY <1>1, InformedInvariant, PTL

\* What is known of a payment is never replaced by an older answer of Orange.
THEOREM NoAnswerIsStale == Spec => NoStaleAnswer
<1> DEFINE Forward(p) ==
      /\ payment[p] \in {"SUCCEEDED", "REFUNDED"} => payment'[p] \notin {"PENDING", "FAILED"}
      /\ payment[p] = "FAILED" => payment'[p] \notin {"PENDING", "SUCCEEDED"}
<1>1. Informed /\ [Next]_vars => [\A p \in Payments \ vouched' : Forward(p)]_payment
  <2> SUFFICES ASSUME TypeOK, InService, Faithful, Truthful, [Next]_vars,
                      NEW q \in Payments, q \notin vouched'
               PROVE  Forward(q)
    BY DEF Informed, PaymentsTyped
  <2> USE DEF vars, books, external
  <2>1. ASSUME NEW s \in Servers, NEW p \in Payments, NEW k \in CheckoutKeys, CheckoutDirect(s, p, k)
        PROVE  Forward(q)
    BY <2>1 DEF CheckoutDirect, CreateRecord, Fresh, TypeOK
  <2>2. ASSUME NEW s \in Servers, CheckoutCommit(s)
        PROVE  Forward(q)
    <3>1. tx[s].payment \in Payments /\ payment[tx[s].payment] = "NONE"
      BY <2>2 DEF CheckoutCommit, InService
    <3>2. QED
      BY <2>2, <3>1 DEF CheckoutCommit, CreateRecord, TypeOK
  <2>3. ASSUME NEW s \in Servers, StatusCommit(s)
        PROVE  Forward(q)
    <3>1. /\ tx[s].payment \in Payments
          /\ Provider[tx[s].payment] = "orange_money_ml"
          /\ tx[s].answer \in {"PENDING", "SUCCEEDED", "FAILED", "NEEDS_REVIEW"}
      BY <2>3 DEF StatusCommit, InService, Learnt
    <3>2. QED
      BY <2>3, <3>1 DEF StatusCommit, Faithful, PaidIsCollected, Truthful, TypeOK
  <2>4. ASSUME NEW s \in Servers, NEW p \in Payments, NEW e \in Bodies, NEW c \in BOOLEAN,
               StripeWebhook(s, p, e, c)
        PROVE  Forward(q)
    BY <2>4 DEF StripeWebhook, Faithful, TypeOK
  <2>5. ASSUME NEW s \in Servers, NEW p \in Payments, NEW a \in 1..Amount, NEW r \in RefundKeys,
               Refund(s, p, a, r)
        PROVE  Forward(q)
    BY <2>5 DEF Refund, Refundable, TypeOK
  <2>6. CASE UNCHANGED payment
    BY <2>6 DEF TypeOK
  <2>7. QED
    BY <2>1, <2>2, <2>3, <2>4, <2>5, <2>6
    DEF Next, Checkout, Confirmation, CheckoutBegin, CheckoutAsk, StatusBegin, StatusAsk,
        Settle, Rollback
<1>2. QED
  BY <1>1, InformedInvariant, PTL DEF Spec, NoStaleAnswer
-----------------------------------------------------------------------------
(* One payment for each key: a checkout in progress has a key nobody used, *)
(* and nobody can use it before it commits.                                *)

Unused ==
    \A s \in Servers : tx[s].op = "checkout" => ~KeyUsed(Provider[tx[s].payment], tx[s].key)

\* A checkout is recorded under its payment's provider.
Sources == \A c \in checkouts : c[1] = Provider[c[3]]

Recorded == PaymentsTyped /\ RecordsAgree /\ Sources /\ Unused

\* A new payment under a key nobody used keeps payments and records in step.
LEMMA CreateRecorded ==
    ASSUME TypeOK, RecordsAgree, Sources, NEW p \in Payments, NEW k \in CheckoutKeys,
           NEW st \in Statuses, CreateRecord(p, k, st), payment[p] = "NONE", ~KeyUsed(Provider[p], k)
    PROVE  RecordsAgree' /\ Sources'
<1> DEFINE new == <<Provider[p], k, p>>
<1>1. checkouts' = checkouts \cup {new}
  BY DEF CreateRecord
<1>2. \A c \in checkouts : c = <<c[1], c[2], c[3]>> /\ c[2] \in CheckoutKeys /\ c[3] \in Payments
  BY DEF TypeOK
<1>3. ASSUME NEW c \in checkouts
      PROVE  c[3] # p /\ (c[1] = new[1] => c[2] # new[2])
  <2>1. c[3] # p
    <3> SUFFICES ASSUME c[3] = p PROVE FALSE
      OBVIOUS
    <3>1. c[1] = Provider[p]
      BY DEF Sources
    <3>2. <<Provider[p], c[2], p>> \in checkouts /\ c[2] \in CheckoutKeys
      BY <1>2, <3>1
    <3>3. QED
      BY <3>2 DEF RecordsAgree
  <2>2. c[1] = new[1] => c[2] # new[2]
    BY <1>2 DEF KeyUsed
  <2>3. QED
    BY <2>1, <2>2
<1>4. \A c, d \in checkouts' : c[1] = d[1] /\ (c[2] = d[2] \/ c[3] = d[3]) => c = d
  BY <1>1, <1>3 DEF RecordsAgree
<1>5. Sources'
  BY <1>1 DEF Sources
<1>6. ASSUME NEW q \in Payments
      PROVE  /\ payment'[q] # "NONE" <=> \E j \in CheckoutKeys : <<Provider[q], j, q>> \in checkouts'
             /\ payment'[q] # "NONE" <=> <<"payment.created", q>> \in outbox'
  <2>1. CASE q = p
    <3>1. payment'[q] # "NONE"
      BY <2>1 DEF CreateRecord, TypeOK, Statuses
    <3>2. <<Provider[q], k, q>> \in checkouts'
      BY <1>1, <2>1
    <3>3. <<"payment.created", q>> \in outbox'
      BY <2>1 DEF CreateRecord
    <3>4. QED
      BY <3>1, <3>2, <3>3
  <2>2. CASE q # p
    <3>1. payment'[q] = payment[q]
      BY <2>2 DEF CreateRecord, TypeOK
    <3>2. \A j \in CheckoutKeys : <<Provider[q], j, q>> \in checkouts' <=> <<Provider[q], j, q>> \in checkouts
      BY <1>1, <2>2
    <3>3. <<"payment.created", q>> \in outbox' <=> <<"payment.created", q>> \in outbox
      BY <2>2 DEF CreateRecord
    <3>4. QED
      BY <3>1, <3>2, <3>3 DEF RecordsAgree
  <2>3. QED
    BY <2>1, <2>2
<1>7. /\ \A e \in events' : <<"payment.webhook.received", e>> \in outbox'
      /\ \A x \in refunds' : <<"payment.refunded", x>> \in outbox'
  BY DEF CreateRecord, RecordsAgree
<1>8. QED
  BY <1>4, <1>5, <1>6, <1>7 DEF RecordsAgree

\* Requests that create nothing keep payments known and announced as they are.
LEMMA KeptRecorded ==
    ASSUME RecordsAgree, Sources, UNCHANGED checkouts,
           \A p \in Payments : payment'[p] # "NONE" <=> payment[p] # "NONE",
           \A p \in Payments :
              <<"payment.created", p>> \in outbox' <=> <<"payment.created", p>> \in outbox,
           \A e \in events' : <<"payment.webhook.received", e>> \in outbox',
           \A x \in refunds' : <<"payment.refunded", x>> \in outbox'
    PROVE  RecordsAgree' /\ Sources'
  BY DEF RecordsAgree, Sources

LEMMA RecordedStep == Recorded /\ [Next]_vars => Recorded'
<1> SUFFICES ASSUME PaymentsTyped, TypeOK, InService, Locked, RecordsAgree, Sources, Unused, [Next]_vars
             PROVE  RecordsAgree' /\ Sources' /\ Unused'
  BY PaymentsTypedStep DEF Recorded, PaymentsTyped
<1> USE DEF vars, books, external
<1>1. ASSUME NEW s \in Servers, NEW p \in Payments, NEW k \in CheckoutKeys, CheckoutDirect(s, p, k)
      PROVE  RecordsAgree' /\ Sources' /\ Unused'
  <2>1. PICK st \in Statuses : CreateRecord(p, k, st)
    BY <1>1 DEF CheckoutDirect, Statuses
  <2>2. RecordsAgree' /\ Sources'
    BY <1>1, <2>1, CreateRecorded DEF CheckoutDirect, Fresh
  <2>3. Unused'
    BY <1>1 DEF CheckoutDirect, StoreFree, Unused
  <2>4. QED
    BY <2>2, <2>3
<1>2. ASSUME NEW s \in Servers, NEW p \in Payments, NEW k \in CheckoutKeys, CheckoutBegin(s, p, k)
      PROVE  RecordsAgree' /\ Sources' /\ Unused'
  <2>1. RecordsAgree' /\ Sources'
    BY <1>2 DEF CheckoutBegin, RecordsAgree, Sources
  <2>2. Unused'
    BY <1>2 DEF CheckoutBegin, NoTx, StoreFree, Unused, KeyUsed, TypeOK
  <2>3. QED
    BY <2>1, <2>2
<1>3. ASSUME NEW s \in Servers, CheckoutAsk(s)
      PROVE  RecordsAgree' /\ Sources' /\ Unused'
  <2>1. PICK a : tx' = [tx EXCEPT ![s].answer = a]
    BY <1>3 DEF CheckoutAsk, Learns
  <2>2. Unused'
    <3>1. \A t \in Servers : /\ tx'[t].op = tx[t].op
                             /\ tx'[t].payment = tx[t].payment
                             /\ tx'[t].key = tx[t].key
      BY <2>1 DEF TypeOK
    <3>2. QED
      BY <1>3, <3>1 DEF CheckoutAsk, Unused, KeyUsed
  <2>3. RecordsAgree' /\ Sources'
    BY <1>3 DEF CheckoutAsk, RecordsAgree, Sources
  <2>4. QED
    BY <2>2, <2>3
<1>4. ASSUME NEW s \in Servers, CheckoutCommit(s)
      PROVE  RecordsAgree' /\ Sources' /\ Unused'
  <2>1. /\ tx[s].payment \in Payments
        /\ tx[s].key \in CheckoutKeys
        /\ tx[s].answer \in Statuses
        /\ payment[tx[s].payment] = "NONE"
    BY <1>4 DEF CheckoutCommit, InService, Learnt, Statuses
  <2>2. CreateRecord(tx[s].payment, tx[s].key, tx[s].answer)
    BY <1>4 DEF CheckoutCommit
  <2>3. ~KeyUsed(Provider[tx[s].payment], tx[s].key)
    BY <1>4 DEF CheckoutCommit, Unused
  <2>4. RecordsAgree' /\ Sources'
    BY <2>1, <2>2, <2>3, CreateRecorded
  <2>5. Unused'
    BY <1>4 DEF CheckoutCommit, NoTx, Locked, Unused, TypeOK
  <2>6. QED
    BY <2>4, <2>5
<1>5. ASSUME NEW s \in Servers, NEW p \in Payments, NEW e \in Bodies \cup {Nothing},
             StatusBegin(s, p, e)
      PROVE  RecordsAgree' /\ Sources' /\ Unused'
  <2>1. RecordsAgree' /\ Sources'
    BY <1>5 DEF StatusBegin, RecordsAgree, Sources
  <2>2. Unused'
    BY <1>5 DEF StatusBegin, NoTx, StoreFree, Unused, TypeOK
  <2>3. QED
    BY <2>1, <2>2
<1>6. ASSUME NEW s \in Servers, StatusAsk(s)
      PROVE  RecordsAgree' /\ Sources' /\ Unused'
  <2>1. PICK a : tx' = [tx EXCEPT ![s].answer = a]
    BY <1>6 DEF StatusAsk, Learns
  <2>2. Unused'
    <3>1. \A t \in Servers : /\ tx'[t].op = tx[t].op
                             /\ tx'[t].payment = tx[t].payment
                             /\ tx'[t].key = tx[t].key
      BY <2>1 DEF TypeOK
    <3>2. QED
      BY <1>6, <3>1 DEF StatusAsk, Unused, KeyUsed
  <2>3. RecordsAgree' /\ Sources'
    BY <1>6 DEF StatusAsk, RecordsAgree, Sources
  <2>4. QED
    BY <2>2, <2>3
<1>7. ASSUME NEW s \in Servers, StatusCommit(s)
      PROVE  RecordsAgree' /\ Sources' /\ Unused'
  <2>1. PICK seen :
          /\ events' = events \cup seen
          /\ outbox' = outbox \cup {<<"payment.webhook.received", e>> : e \in seen}
    BY <1>7 DEF StatusCommit
  <2>2. \A q \in Payments : payment'[q] # "NONE" <=> payment[q] # "NONE"
    BY <1>7 DEF StatusCommit, InService, Learnt, TypeOK
  <2>3. /\ \A q \in Payments :
              <<"payment.created", q>> \in outbox' <=> <<"payment.created", q>> \in outbox
        /\ \A e \in events' : <<"payment.webhook.received", e>> \in outbox'
        /\ \A x \in refunds' : <<"payment.refunded", x>> \in outbox'
    BY <1>7, <2>1 DEF StatusCommit, RecordsAgree
  <2>4. RecordsAgree' /\ Sources'
    BY <1>7, <2>2, <2>3, KeptRecorded DEF StatusCommit
  <2>5. Unused'
    BY <1>7 DEF StatusCommit, NoTx, Unused, KeyUsed, TypeOK
  <2>6. QED
    BY <2>4, <2>5
<1>8. ASSUME NEW s \in Servers, NEW p \in Payments, NEW e \in Bodies, NEW c \in BOOLEAN,
             StripeWebhook(s, p, e, c)
      PROVE  RecordsAgree' /\ Sources' /\ Unused'
  <2>1. \A q \in Payments : payment'[q] # "NONE" <=> payment[q] # "NONE"
    BY <1>8 DEF StripeWebhook, TypeOK
  <2>2. /\ \A q \in Payments :
              <<"payment.created", q>> \in outbox' <=> <<"payment.created", q>> \in outbox
        /\ \A f \in events' : <<"payment.webhook.received", f>> \in outbox'
        /\ \A x \in refunds' : <<"payment.refunded", x>> \in outbox'
    BY <1>8 DEF StripeWebhook, RecordsAgree
  <2>3. RecordsAgree' /\ Sources'
    BY <1>8, <2>1, <2>2, KeptRecorded DEF StripeWebhook
  <2>4. Unused'
    BY <1>8 DEF StripeWebhook, Unused, KeyUsed
  <2>5. QED
    BY <2>3, <2>4
<1>9. ASSUME NEW s \in Servers, NEW p \in Payments, NEW a \in 1..Amount, NEW r \in RefundKeys,
             Refund(s, p, a, r)
      PROVE  RecordsAgree' /\ Sources' /\ Unused'
  <2>1. \A q \in Payments : payment'[q] # "NONE" <=> payment[q] # "NONE"
    BY <1>9 DEF Refund, Refundable, TypeOK
  <2>2. PICK record :
          /\ refunds' = refunds \cup {record}
          /\ outbox' = outbox \cup {<<"payment.refunded", record>>}
    BY <1>9 DEF Refund
  <2>3. /\ \A q \in Payments :
              <<"payment.created", q>> \in outbox' <=> <<"payment.created", q>> \in outbox
        /\ \A e \in events' : <<"payment.webhook.received", e>> \in outbox'
        /\ \A x \in refunds' : <<"payment.refunded", x>> \in outbox'
    BY <1>9, <2>2 DEF Refund, RecordsAgree
  <2>4. RecordsAgree' /\ Sources'
    BY <1>9, <2>1, <2>3, KeptRecorded DEF Refund
  <2>5. Unused'
    BY <1>9 DEF Refund, Unused, KeyUsed
  <2>6. QED
    BY <2>4, <2>5
<1>10. ASSUME NEW p \in Payments, Settle(p)
       PROVE  RecordsAgree' /\ Sources' /\ Unused'
  BY <1>10 DEF Settle, RecordsAgree, Sources, Unused, KeyUsed
<1>11. ASSUME NEW s \in Servers, Rollback(s)
       PROVE  RecordsAgree' /\ Sources' /\ Unused'
  <2>1. RecordsAgree' /\ Sources'
    BY <1>11 DEF Rollback, RecordsAgree, Sources
  <2>2. Unused'
    BY <1>11 DEF Rollback, NoTx, Unused, KeyUsed, TypeOK
  <2>3. QED
    BY <2>1, <2>2
<1>12. CASE UNCHANGED vars
  BY <1>12 DEF RecordsAgree, Sources, Unused, KeyUsed
<1>13. QED
  BY <1>1, <1>2, <1>3, <1>4, <1>5, <1>6, <1>7, <1>8, <1>9, <1>10, <1>11, <1>12
  DEF Next, Checkout, Confirmation

\* Repeated and abandoned checkouts leave one payment for each key, and everything that
\* was committed is announced.
THEOREM OnePaymentPerKey == Spec => []RecordsAgree
<1>1. Init => RecordsAgree /\ Sources /\ Unused
  BY DEF Init, RecordsAgree, Sources, Unused, NoTx
<1>2. Init => Recorded
  BY <1>1, PaymentsTypedInit DEF Recorded
<1>3. Recorded => RecordsAgree
  BY DEF Recorded
<1>4. QED
  BY <1>2, <1>3, RecordedStep, PTL DEF Spec

-----------------------------------------------------------------------------
(* Refunds and their idempotency records. *)

\* What the idempotency records of a payment say.
RefundsOf(p) == {y \in refunds : y.payment = p}

\* The requests that refund nothing leave the books of the refunds alone, and none of
\* them makes a payment REFUNDED.
LEMMA RefundsKept ==
    ASSUME PaymentsTyped, [Next]_vars,
           ~ \E s \in Servers, p \in Payments, a \in 1..Amount, r \in RefundKeys : Refund(s, p, a, r)
    PROVE  /\ UNCHANGED <<refunded, refunds>>
           /\ \A p \in Payments : payment'[p] = "REFUNDED" => payment[p] = "REFUNDED"
<1> USE DEF PaymentsTyped
<1>1. ASSUME NEW s \in Servers, Checkout(s)
      PROVE  /\ UNCHANGED <<refunded, refunds>>
             /\ \A p \in Payments : payment'[p] = "REFUNDED" => payment[p] = "REFUNDED"
  <2>1. ASSUME NEW p \in Payments, NEW k \in CheckoutKeys, CheckoutDirect(s, p, k)
        PROVE  /\ UNCHANGED <<refunded, refunds>>
               /\ \A q \in Payments : payment'[q] = "REFUNDED" => payment[q] = "REFUNDED"
    BY <2>1 DEF CheckoutDirect, CreateRecord, TypeOK
  <2>2. ASSUME NEW p \in Payments, NEW k \in CheckoutKeys, CheckoutBegin(s, p, k)
        PROVE  UNCHANGED books
    BY <2>2 DEF CheckoutBegin
  <2>3. CheckoutAsk(s) => UNCHANGED books
    BY DEF CheckoutAsk
  <2>4. ASSUME CheckoutCommit(s)
        PROVE  /\ UNCHANGED <<refunded, refunds>>
               /\ \A q \in Payments : payment'[q] = "REFUNDED" => payment[q] = "REFUNDED"
    <3>1. tx[s].answer # "REFUNDED"
      BY <2>4 DEF InService, Learnt, CheckoutCommit
    <3> QED
      BY <2>4, <3>1 DEF CheckoutCommit, CreateRecord, TypeOK
  <2> QED
    BY <1>1, <2>1, <2>2, <2>3, <2>4 DEF Checkout, books
<1>2. ASSUME NEW s \in Servers, Confirmation(s)
      PROVE  /\ UNCHANGED <<refunded, refunds>>
             /\ \A p \in Payments : payment'[p] = "REFUNDED" => payment[p] = "REFUNDED"
  <2>1. ASSUME NEW p \in Payments, NEW e \in Bodies \cup {Nothing}, StatusBegin(s, p, e)
        PROVE  UNCHANGED books
    BY <2>1 DEF StatusBegin
  <2>2. StatusAsk(s) => UNCHANGED books
    BY DEF StatusAsk
  <2>3. ASSUME StatusCommit(s)
        PROVE  /\ UNCHANGED <<refunded, refunds>>
               /\ \A q \in Payments : payment'[q] = "REFUNDED" => payment[q] = "REFUNDED"
    <3>1. tx[s].answer # "REFUNDED"
      BY <2>3 DEF InService, Learnt, StatusCommit
    <3> QED
      BY <2>3, <3>1 DEF StatusCommit, TypeOK
  <2>4. ASSUME NEW p \in Payments, NEW e \in Bodies, NEW completed \in BOOLEAN,
               StripeWebhook(s, p, e, completed)
        PROVE  /\ UNCHANGED <<refunded, refunds>>
               /\ \A q \in Payments : payment'[q] = "REFUNDED" => payment[q] = "REFUNDED"
    BY <2>4 DEF StripeWebhook, TypeOK
  <2> QED
    BY <1>2, <2>1, <2>2, <2>3, <2>4 DEF Confirmation, books
<1>3. ASSUME NEW s \in Servers, Rollback(s) PROVE UNCHANGED books
  BY <1>3 DEF Rollback
<1>4. ASSUME NEW p \in Payments, Settle(p) PROVE UNCHANGED books
  BY <1>4 DEF Settle
<1>5. UNCHANGED vars => UNCHANGED books
  BY DEF vars
<1> QED
  BY <1>1, <1>2, <1>3, <1>4, <1>5 DEF Next, books

\* A sum over records of refunds is a natural number.
LEMMA RefundedOfIsNat ==
    ASSUME TypeOK, IsFiniteSet(refunds), NEW p \in Payments
    PROVE  /\ IsFiniteSet(RefundsOf(p))
           /\ \A x \in RefundsOf(p) : x.amount \in Int
           /\ RefundedOf(p) = SumFunctionOnSet([x \in RefundsOf(p) |-> x.amount], RefundsOf(p))
<1>1. IsFiniteSet(RefundsOf(p))
  BY FS_Subset DEF RefundsOf
<1>2. \A x \in RefundsOf(p) : x.amount \in Int
  BY NextPaymentsAssumption DEF RefundsOf, TypeOK
<1>3. RefundedOf(p) = SumFunction([x \in RefundsOf(p) |-> x.amount])
  BY DEF RefundedOf, RefundsOf
<1> DEFINE f == [x \in RefundsOf(p) |-> x.amount]
<1>4. DOMAIN f = RefundsOf(p)
  OBVIOUS
<1> HIDE DEF f
<1>5. SumFunction(f) = SumFunctionOnSet(f, RefundsOf(p))
  BY <1>4, SumIsOnDomain
<1> QED
  BY <1>1, <1>2, <1>3, <1>5 DEF f

\* A refund adds one record, which its key did not have before, and its amount.
LEMMA RefundStep ==
    ASSUME TypeOK, IsFiniteSet(refunds), NEW s \in Servers, NEW p \in Payments,
           NEW a \in 1..Amount, NEW r \in RefundKeys, Refund(s, p, a, r), NEW q \in Payments
    PROVE  /\ IsFiniteSet(refunds')
           /\ RefundedOf(q)' = IF q = p THEN RefundedOf(q) + a ELSE RefundedOf(q)
<1>1. PICK x : /\ x = [provider |-> Provider[p], key |-> r, payment |-> p, amount |-> a]
               /\ refunds' = refunds \cup {x}
  BY DEF Refund
<1>2. x \notin refunds /\ x.payment = p /\ x.amount = a
  BY <1>1 DEF Refund, Replayed
<1>3. IsFiniteSet(refunds')
  BY <1>1, FS_AddElement
<1>4. PICK S, T, f, g :
        /\ S = RefundsOf(q) /\ T = RefundsOf(q)'
        /\ f = [y \in S |-> y.amount] /\ g = [y \in T |-> y.amount]
  OBVIOUS
<1>5. IsFiniteSet(S) /\ (\A y \in S : f[y] \in Int) /\ RefundedOf(q) = SumFunctionOnSet(f, S)
  BY <1>4, RefundedOfIsNat
<1>6. RefundedOf(q)' = SumFunctionOnSet(g, T)
  <2>1. DOMAIN g = T
    BY <1>4
  <2>2. RefundedOf(q)' = SumFunction(g)
    BY <1>4 DEF RefundedOf, RefundsOf
  <2> QED
    BY <2>1, <2>2, SumIsOnDomain
<1>7. CASE q = p
  <2>1. T = S \cup {x} /\ x \notin S
    BY <1>1, <1>2, <1>4, <1>7 DEF RefundsOf
  <2>2. g[x] = a /\ a \in Int /\ \A y \in S : g[y] = f[y]
    BY <1>2, <1>4, <2>1, NextPaymentsAssumption
  <2>3. SumFunctionOnSet(g, T) = SumFunctionOnSet(f, S) + g[x]
    <3>1. g[x] \in Int /\ \A y \in S : f[y] \in Int /\ g[y] = f[y]
      BY <1>5, <2>2
    <3>2. IsFiniteSet(S)
      BY <1>5
    <3> QED
      BY <2>1, <3>1, <3>2, SumInsert
  <2> QED
    BY <1>3, <1>5, <1>6, <1>7, <2>1, <2>2, <2>3
<1>8. CASE q # p
  <2>1. T = S
    BY <1>1, <1>2, <1>4, <1>8 DEF RefundsOf
  <2> QED
    BY <1>3, <1>4, <1>5, <1>6, <1>8, <2>1
<1> QED
  BY <1>7, <1>8

\* Only so many refunds were recorded.
FewRefunds == IsFiniteSet(refunds)

LEMMA RefundsMatchStep ==
    /\ PaymentsTyped /\ FewRefunds /\ RefundsMatchRecords /\ [Next]_vars
    => FewRefunds' /\ RefundsMatchRecords'
<1> SUFFICES ASSUME PaymentsTyped, FewRefunds, RefundsMatchRecords, [Next]_vars
             PROVE  FewRefunds' /\ RefundsMatchRecords'
  OBVIOUS
<1>1. ASSUME NEW s \in Servers, NEW p \in Payments, NEW a \in 1..Amount, NEW r \in RefundKeys,
             Refund(s, p, a, r)
      PROVE  FewRefunds' /\ RefundsMatchRecords'
  <2>1. TypeOK
    BY DEF PaymentsTyped
  <2>2. FewRefunds'
    BY <1>1, <2>1, RefundStep DEF FewRefunds
  <2>3. ASSUME NEW q \in Payments
        PROVE  /\ refunded'[q] = RefundedOf(q)'
               /\ refunded'[q] <= Amount
               /\ payment'[q] = "REFUNDED" => refunded'[q] = Amount
    <3>1. RefundedOf(q)' = IF q = p THEN RefundedOf(q) + a ELSE RefundedOf(q)
      BY <1>1, <2>1, RefundStep DEF FewRefunds
    <3>2. /\ refunded[q] = RefundedOf(q)
          /\ refunded[q] <= Amount
          /\ payment[q] = "REFUNDED" => refunded[q] = Amount
      BY DEF RefundsMatchRecords
    <3>3. refunded'[q] = IF q = p THEN refunded[q] + a ELSE refunded[q]
      BY <1>1, <2>1 DEF Refund, TypeOK
    <3>4. refunded'[q] <= Amount
      BY <1>1, <3>2, <3>3 DEF Refund, Refundable
    <3>5. payment'[q] = "REFUNDED" => refunded'[q] = Amount
      BY <1>1, <2>1, <3>2, <3>3 DEF Refund, Refundable, TypeOK
    <3> QED
      BY <3>1, <3>2, <3>3, <3>4, <3>5
  <2> QED
    BY <2>2, <2>3 DEF RefundsMatchRecords
<1>2. CASE ~ \E s \in Servers, p \in Payments, a \in 1..Amount, r \in RefundKeys : Refund(s, p, a, r)
  <2>1. /\ UNCHANGED <<refunded, refunds>>
        /\ \A p \in Payments : payment'[p] = "REFUNDED" => payment[p] = "REFUNDED"
    BY <1>2, RefundsKept
  <2>2. \A p \in Payments : RefundedOf(p)' = RefundedOf(p)
    BY <2>1 DEF RefundedOf
  <2> QED
    BY <2>1, <2>2 DEF RefundsMatchRecords, FewRefunds
<1> QED
  BY <1>1, <1>2

\* payments.ts: what is refunded of a payment is what its records of refunds add up to, and
\* never more than the payment.
THEOREM RefundsProved == Spec => []RefundsMatchRecords
<1>1. Init => FewRefunds /\ RefundsMatchRecords
  <2> SUFFICES ASSUME Init PROVE FewRefunds /\ RefundsMatchRecords
    OBVIOUS
  <2>1. refunds = {}
    BY DEF Init
  <2>2. ASSUME NEW p \in Payments
        PROVE  refunded[p] = 0 /\ RefundedOf(p) = 0 /\ payment[p] = "NONE"
    <3>1. PICK f : f = [x \in {y \in refunds : y.payment = p} |-> x.amount]
      OBVIOUS
    <3>2. DOMAIN f = {}
      BY <2>1, <3>1
    <3>3. RefundedOf(p) = SumFunction(f) /\ SumFunction(f) = SumFunctionOnSet(f, {})
      BY <3>1, <3>2, SumIsOnDomain DEF RefundedOf
    <3> QED
      BY <3>3, SumEmpty DEF Init
  <2> QED
    BY <2>1, <2>2, FS_EmptySet, NextPaymentsAssumption DEF RefundsMatchRecords, FewRefunds
<1> QED
  BY <1>1, PaymentsTypedInvariant, RefundsMatchStep, PTL DEF Spec

-----------------------------------------------------------------------------
(* Identity and sessions *)

\* Rows in use belong to somebody.
Rows ==
    /\ \A s \in Sessions : Known(s) => session[s].user \in Users /\ session[s].token \in Tokens
    /\ \A o \in Links : Open(o) /\ link[o].purpose \in Purposes => link[o].user \in Users

Typed == IdentityTypeOK /\ Rows

\* A login, or the end of a login with Google: it opens session s.
Opens(u, s, t) ==
    /\ Active(u)'
    /\ session[s].state = "unused"
    /\ t \notin issued
    /\ issued' = issued \cup {t}
    /\ session' = [session EXCEPT ![s] = [state |-> "live", user |-> u, token |-> t,
                                          previous |-> {}, proof |-> password'[u]]]

\* A step that ends some sessions at most.
Ends ==
    /\ \E ended \in SUBSET Sessions : EndSessions(ended)
    /\ UNCHANGED issued

-----------------------------------------------------------------------------
(* What a step does to the sessions, and what to the one-time tokens. *)

\* The sessions are opened, rotated, ended, removed or left alone.
LEMMA SessionSteps ==
    ASSUME Typed, [IdentityNext]_identityVars
    PROVE  \/ \E u \in Users, s \in Sessions, t \in Tokens : Opens(u, s, t)
           \/ \E t, n \in Tokens : Refresh(t, n)
           \/ Cleanup
           \/ Ends
           \/ UNCHANGED sessionVars
<1>1. CASE AccountNext
  <2>1. PICK u \in Users :
           \/ \E p \in Passwords, o \in Links : Register(u, p, o)
           \/ \E p, q \in Passwords : ChangePassword(u, p, q)
           \/ \E p \in Passwords, s \in Sessions, t \in Tokens : Login(u, p, s, t)
           \/ \E purpose \in Purposes, o \in Links : RequestOneTimeToken(u, purpose, o)
           \/ \E purpose \in Purposes : WindowPasses(u, purpose)
           \/ \E a \in {None, "ACTIVE", "SUSPENDED"}, r \in {None, "USER", "ADMIN", "SUPERADMIN"} :
                 UpdateUserStatus(u, a, r)
           \/ LogoutAll(u)
           \/ \E o \in Links, s \in Sessions, t \in Tokens : FinishGoogle(o, u, s, t)
    BY <1>1 DEF AccountNext
  <2>2. CASE \E p \in Passwords, o \in Links : Register(u, p, o)
    BY <2>2 DEF Register
  <2>3. CASE \E p, q \in Passwords : ChangePassword(u, p, q)
    BY <2>3 DEF ChangePassword, Ends, SessionsOf
  <2>4. CASE \E p \in Passwords, s \in Sessions, t \in Tokens : Login(u, p, s, t)
    BY <2>4 DEF Login, IssueSession, Opens, Active, accountVars
  <2>5. CASE \E purpose \in Purposes, o \in Links : RequestOneTimeToken(u, purpose, o)
    BY <2>5 DEF RequestOneTimeToken
  <2>6. CASE \E purpose \in Purposes : WindowPasses(u, purpose)
    BY <2>6 DEF WindowPasses
  <2>7. CASE \E a \in {None, "ACTIVE", "SUSPENDED"}, r \in {None, "USER", "ADMIN", "SUPERADMIN"} :
                 UpdateUserStatus(u, a, r)
    BY <2>7 DEF UpdateUserStatus, Ends, SessionsOf
  <2>8. CASE LogoutAll(u)
    BY <2>8 DEF LogoutAll, Ends, SessionsOf
  <2>9. CASE \E o \in Links, s \in Sessions, t \in Tokens : FinishGoogle(o, u, s, t)
    <3>1. PICK o \in Links, s \in Sessions, t \in Tokens : FinishGoogle(o, u, s, t)
      BY <2>9
    <3>2. Active(u)'
      BY <3>1 DEF FinishGoogle, Active, Typed, IdentityTypeOK, accountVars
    <3>3. Opens(u, s, t)
      BY <3>1, <3>2 DEF FinishGoogle, Opens
    <3>4. QED
      BY <3>3
  <2>10. QED
    BY <2>1, <2>2, <2>3, <2>4, <2>5, <2>6, <2>7, <2>8, <2>9
<1>2. CASE TokenNext
  <2>1. CASE \E o \in Links : ConfirmEmail(o) \/ StartGoogle(o) \/ LinkExpires(o)
    BY <2>1 DEF ConfirmEmail, StartGoogle, LinkExpires
  <2>2. CASE \E o \in Links, p \in Passwords : ResetPassword(o, p)
    BY <2>2 DEF ResetPassword, Ends, SessionsOf
  <2>3. CASE \E t \in Tokens : Replay(t) \/ Logout(t)
    BY <2>3 DEF Replay, Logout, Ends
  <2>4. CASE \E s \in Sessions : SessionExpires(s)
    BY <2>4 DEF SessionExpires, Ends
  <2>5. QED
    BY <1>2, <2>1, <2>2, <2>3, <2>4 DEF TokenNext
<1>3. CASE UNCHANGED identityVars
  BY <1>3 DEF identityVars
<1>4. QED
  BY <1>1, <1>2, <1>3 DEF IdentityNext

\* A one-time token is issued, or some change their state, or none does.
LEMMA LinkSteps ==
    ASSUME Typed, [IdentityNext]_identityVars
    PROVE  \/ \E u \in Users, purpose \in Purposes, o \in Links : IssueLink(u, purpose, o)
           \/ \E o \in Links : StartGoogle(o)
           \/ \E o \in Links : Open(o) /\ link' = [link EXCEPT ![o].state = "spent"]
           \/ Cleanup
           \/ UNCHANGED link
<1>1. CASE AccountNext
  BY <1>1 DEF AccountNext, Register, ChangePassword, Login, RequestOneTimeToken, WindowPasses,
     UpdateUserStatus, LogoutAll, FinishGoogle, ConsumeLink, linkVars, Purposes
<1>2. CASE TokenNext
  BY <1>2 DEF TokenNext, ConfirmEmail, LinkExpires, ResetPassword, Replay, Logout, Refresh,
     SessionExpires, ConsumeLink, linkVars
<1>3. CASE UNCHANGED identityVars
  BY <1>3 DEF identityVars, linkVars
<1>4. QED
  BY <1>1, <1>2, <1>3 DEF IdentityNext

-----------------------------------------------------------------------------
(* Types. *)

\* At first there is no account, session or token.
LEMMA TypedInit == IdentityInit => Typed
BY NextCommonAssumption, NextIdentityAssumption
DEF IdentityInit, Typed, IdentityTypeOK, Rows, SessionType, LinkType, UnusedSession, UnusedLink,
    Known, Open

\* Accounts and the requests counted for them keep their types.
LEMMA AccountsTyped ==
    ASSUME Typed, [IdentityNext]_identityVars
    PROVE  /\ status' \in [Users -> {"none", "ACTIVE", "SUSPENDED"}]
           /\ role' \in [Users -> {"USER", "ADMIN", "SUPERADMIN"}]
           /\ password' \in [Users -> Passwords \cup {None}]
           /\ linked' \subseteq Users
           /\ attempts' \in [Purposes \X Users -> 0..RateLimit]
<1> USE NextIdentityAssumption DEF Typed, IdentityTypeOK
<1>1. CASE AccountNext
  <2>1. PICK u \in Users :
           \/ \E p \in Passwords, o \in Links : Register(u, p, o)
           \/ \E p, q \in Passwords : ChangePassword(u, p, q)
           \/ \E p \in Passwords, s \in Sessions, t \in Tokens : Login(u, p, s, t)
           \/ \E purpose \in Purposes, o \in Links : RequestOneTimeToken(u, purpose, o)
           \/ \E purpose \in Purposes : WindowPasses(u, purpose)
           \/ \E a \in {None, "ACTIVE", "SUSPENDED"}, r \in {None, "USER", "ADMIN", "SUPERADMIN"} :
                 UpdateUserStatus(u, a, r)
           \/ LogoutAll(u)
           \/ \E o \in Links, s \in Sessions, t \in Tokens : FinishGoogle(o, u, s, t)
    BY <1>1 DEF AccountNext
  <2>2. CASE \E p \in Passwords, o \in Links : Register(u, p, o)
    BY <2>2 DEF Register
  <2>3. CASE \E p, q \in Passwords : ChangePassword(u, p, q)
    BY <2>3 DEF ChangePassword, linkVars
  <2>4. CASE \E p \in Passwords, s \in Sessions, t \in Tokens : Login(u, p, s, t)
    BY <2>4 DEF Login, accountVars, linkVars
  <2>5. CASE \E purpose \in Purposes, o \in Links : RequestOneTimeToken(u, purpose, o)
    <3>1. PICK purpose \in Purposes : ConsumeRateLimit(u, purpose)
      BY <2>5 DEF RequestOneTimeToken
    <3> DEFINE k == <<purpose, u>>
    <3>2. k \in Purposes \X Users /\ attempts[k] < RateLimit /\ attempts' = [attempts EXCEPT ![k] = @ + 1]
      BY <3>1 DEF ConsumeRateLimit
    <3> HIDE DEF k
    <3>3. attempts[k] + 1 \in 0..RateLimit
      BY <3>2
    <3>4. attempts' \in [Purposes \X Users -> 0..RateLimit]
      BY <3>2, <3>3
    <3>5. QED
      BY <2>5, <3>4 DEF RequestOneTimeToken, accountVars
  <2>6. CASE \E purpose \in Purposes : WindowPasses(u, purpose)
    BY <2>6 DEF WindowPasses, accountVars
  <2>7. CASE \E a \in {None, "ACTIVE", "SUSPENDED"}, r \in {None, "USER", "ADMIN", "SUPERADMIN"} :
                 UpdateUserStatus(u, a, r)
    BY <2>7 DEF UpdateUserStatus, linkVars
  <2>8. CASE LogoutAll(u)
    BY <2>8 DEF LogoutAll, accountVars, linkVars
  <2>9. CASE \E o \in Links, s \in Sessions, t \in Tokens : FinishGoogle(o, u, s, t)
    BY <2>9 DEF FinishGoogle, accountVars
  <2>10. QED
    BY <2>1, <2>2, <2>3, <2>4, <2>5, <2>6, <2>7, <2>8, <2>9
<1>2. CASE TokenNext
  <2>1. CASE \E o \in Links, p \in Passwords : ResetPassword(o, p)
    BY <2>1 DEF ResetPassword, ConsumeLink, Rows, Purposes
  <2>2. CASE ~\E o \in Links, p \in Passwords : ResetPassword(o, p)
    BY <1>2, <2>2 DEF TokenNext, ConfirmEmail, StartGoogle, LinkExpires, Replay, Logout, Refresh,
       SessionExpires, Cleanup, accountVars, linkVars
  <2>3. QED
    BY <2>1, <2>2
<1>3. CASE UNCHANGED identityVars
  BY <1>3 DEF identityVars, accountVars, linkVars
<1>4. QED
  BY <1>1, <1>2, <1>3 DEF IdentityNext

\* Sessions keep their types, and the used ones have a user and a token.
LEMMA SessionsTyped ==
    ASSUME Typed, [IdentityNext]_identityVars
    PROVE  /\ session' \in [Sessions -> SessionType]
           /\ issued' \subseteq Tokens
           /\ \A s \in Sessions : Known(s)' => session'[s].user \in Users /\ session'[s].token \in Tokens
<1> USE DEF Typed, IdentityTypeOK, Rows, Known
<1>1. CASE \E u \in Users, s \in Sessions, t \in Tokens : Opens(u, s, t)
  <2>1. PICK u \in Users, s \in Sessions, t \in Tokens : Opens(u, s, t)
    BY <1>1
  <2>2. password'[u] \in Passwords \cup {None}
    BY AccountsTyped
  <2>3. [state |-> "live", user |-> u, token |-> t, previous |-> {}, proof |-> password'[u]] \in SessionType
    BY <2>2 DEF SessionType
  <2>4. QED
    BY <2>1, <2>3 DEF Opens
<1>2. CASE \E t, n \in Tokens : Refresh(t, n)
  <2>1. PICK t \in Tokens, n \in Tokens : Refresh(t, n)
    BY <1>2
  <2>2. PICK s \in Sessions :
           /\ CanRotate(s)
           /\ issued' = issued \cup {n}
           /\ session' = [session EXCEPT ![s] = [state |-> "live", user |-> session[s].user,
                          token |-> n, previous |-> Previous(s), proof |-> session[s].proof]]
    BY <2>1 DEF Refresh
  <2>3. Previous(s) \subseteq Tokens
    BY <2>2 DEF CanRotate, Live, Previous, SessionType
  <2>4. [state |-> "live", user |-> session[s].user, token |-> n, previous |-> Previous(s),
         proof |-> session[s].proof] \in SessionType
    BY <2>3 DEF SessionType
  <2>5. session[s].user \in Users
    BY <2>2 DEF CanRotate, Live
  <2>6. QED
    BY <2>2, <2>4, <2>5
<1>3. CASE Cleanup
  <2>1. session' = [s \in Sessions |-> IF session[s].state = "ended"
                                        THEN [UnusedSession EXCEPT !.state = "removed"]
                                        ELSE session[s]]
    BY <1>3 DEF Cleanup
  <2>2. [UnusedSession EXCEPT !.state = "removed"] \in SessionType
    BY DEF UnusedSession, SessionType
  <2>3. [UnusedSession EXCEPT !.state = "removed"].state = "removed"
    BY DEF UnusedSession
  <2>4. QED
    BY <1>3, <2>1, <2>2, <2>3 DEF Cleanup
<1>4. CASE Ends
  <2>1. PICK ended \in SUBSET Sessions : EndSessions(ended)
    BY <1>4 DEF Ends
  <2>2. \A s \in Sessions : /\ [session[s] EXCEPT !.state = "ended"] \in SessionType
                            /\ [session[s] EXCEPT !.state = "ended"].user = session[s].user
                            /\ [session[s] EXCEPT !.state = "ended"].token = session[s].token
    BY DEF SessionType
  <2>3. QED
    BY <1>4, <2>1, <2>2 DEF Ends, EndSessions, Live
<1>5. CASE UNCHANGED sessionVars
  BY <1>5 DEF sessionVars
<1>6. QED
  BY <1>1, <1>2, <1>3, <1>4, <1>5, SessionSteps

\* One-time tokens keep their types, and the open ones that were sent have a user.
LEMMA LinksTyped ==
    ASSUME Typed, [IdentityNext]_identityVars
    PROVE  /\ link' \in [Links -> LinkType]
           /\ \A o \in Links : Open(o)' /\ link'[o].purpose \in Purposes => link'[o].user \in Users
<1> USE DEF Typed, IdentityTypeOK, Rows, Open
<1>1. \A o \in Links, x \in {"spent", "removed"} :
         /\ [link[o] EXCEPT !.state = x] \in LinkType
         /\ [link[o] EXCEPT !.state = x].state = x
  BY DEF LinkType
<1>2. CASE \E u \in Users, purpose \in Purposes, o \in Links : IssueLink(u, purpose, o)
  <2>1. PICK u \in Users, purpose \in Purposes, o \in Links : IssueLink(u, purpose, o)
    BY <1>2
  <2>2. [state |-> "open", user |-> u, purpose |-> purpose] \in LinkType
    BY DEF LinkType
  <2>3. QED
    BY <1>1, <2>1, <2>2 DEF IssueLink
<1>3. CASE \E o \in Links : StartGoogle(o)
  <2>1. [state |-> "open", user |-> None, purpose |-> "oauth_state"] \in LinkType
    BY DEF LinkType
  <2>2. QED
    BY <1>3, <2>1 DEF StartGoogle, Purposes
<1>4. CASE \E o \in Links : Open(o) /\ link' = [link EXCEPT ![o].state = "spent"]
  BY <1>1, <1>4
<1>5. CASE Cleanup
  <2>1. [UnusedLink EXCEPT !.state = "removed"] \in LinkType
    BY DEF UnusedLink, LinkType
  <2>2. [UnusedLink EXCEPT !.state = "removed"].state = "removed"
    BY DEF UnusedLink
  <2>3. QED
    BY <1>5, <2>1, <2>2 DEF Cleanup
<1>6. CASE UNCHANGED link
  BY <1>6
<1>7. QED
  BY <1>2, <1>3, <1>4, <1>5, <1>6, LinkSteps

\* Each step keeps the types.
LEMMA TypedStep == Typed /\ [IdentityNext]_identityVars => Typed'
BY AccountsTyped, SessionsTyped, LinksTyped DEF Typed, IdentityTypeOK, Rows

LEMMA TypedInvariant == IdentitySpec => []Typed
BY TypedInit, TypedStep, PTL DEF IdentitySpec

\* Accounts, sessions and one-time tokens of identity.ts always have their types, and no
\* address was sent more tokens in a window than the limit allows.
THEOREM TypeCorrect == IdentitySpec => []IdentityTypeOK
BY TypedInvariant, PTL DEF Typed

-----------------------------------------------------------------------------
(* Sessions and their accounts. *)

\* A session that is valid after a step was valid before, for the same user and with the
\* same proof, or was just opened.
LEMMA LiveBefore ==
    ASSUME Typed, [IdentityNext]_identityVars, NEW s \in Sessions, Live(s)'
    PROVE  \/ /\ Live(s)
              /\ session'[s].user = session[s].user
              /\ session'[s].proof = session[s].proof
           \/ \E u \in Users, t \in Tokens : Opens(u, s, t)
<1> USE DEF Typed, IdentityTypeOK, Live
<1>1. CASE \E u \in Users, q \in Sessions, t \in Tokens : Opens(u, q, t)
  BY <1>1 DEF Opens
<1>2. CASE \E t, n \in Tokens : Refresh(t, n)
  BY <1>2 DEF Refresh, CanRotate
<1>3. CASE Cleanup
  BY <1>3 DEF Cleanup, UnusedSession
<1>4. CASE Ends
  BY <1>4 DEF Ends, EndSessions, SessionType
<1>5. CASE UNCHANGED sessionVars
  BY <1>5 DEF sessionVars
<1>6. QED
  BY <1>1, <1>2, <1>3, <1>4, <1>5, SessionSteps

\* An active account stays active and keeps its password, or loses its sessions.
LEMMA ActiveAfter ==
    ASSUME Typed, [IdentityNext]_identityVars, NEW v \in Users, Active(v)
    PROVE  \/ Active(v)' /\ password'[v] = password[v]
           \/ \A s \in Sessions : session'[s].user = v => ~Live(s)'
<1> USE DEF Typed, IdentityTypeOK, Active
<1>1. \A s \in Sessions : /\ [session[s] EXCEPT !.state = "ended"].state = "ended"
                          /\ [session[s] EXCEPT !.state = "ended"].user = session[s].user
  BY DEF SessionType
<1>2. ASSUME NEW u \in Users, EndSessions(SessionsOf(u)), u = v
      PROVE  \A s \in Sessions : session'[s].user = v => ~Live(s)'
  BY <1>1, <1>2 DEF EndSessions, SessionsOf, Live
<1>3. CASE AccountNext
  <2>1. PICK u \in Users :
           \/ \E p \in Passwords, o \in Links : Register(u, p, o)
           \/ \E p, q \in Passwords : ChangePassword(u, p, q)
           \/ \E p \in Passwords, s \in Sessions, t \in Tokens : Login(u, p, s, t)
           \/ \E purpose \in Purposes, o \in Links : RequestOneTimeToken(u, purpose, o)
           \/ \E purpose \in Purposes : WindowPasses(u, purpose)
           \/ \E a \in {None, "ACTIVE", "SUSPENDED"}, r \in {None, "USER", "ADMIN", "SUPERADMIN"} :
                 UpdateUserStatus(u, a, r)
           \/ LogoutAll(u)
           \/ \E o \in Links, s \in Sessions, t \in Tokens : FinishGoogle(o, u, s, t)
    BY <1>3 DEF AccountNext
  <2>2. CASE \E p \in Passwords, o \in Links : Register(u, p, o)
    BY <2>2 DEF Register, Registered
  <2>3. CASE \E p, q \in Passwords : ChangePassword(u, p, q)
    BY <1>2, <2>3 DEF ChangePassword
  <2>4. CASE \E a \in {None, "ACTIVE", "SUSPENDED"}, r \in {None, "USER", "ADMIN", "SUPERADMIN"} :
                 UpdateUserStatus(u, a, r)
    BY <1>2, <2>4 DEF UpdateUserStatus
  <2>5. CASE \E o \in Links, s \in Sessions, t \in Tokens : FinishGoogle(o, u, s, t)
    BY <2>5 DEF FinishGoogle, Registered, accountVars
  <2>6. CASE UNCHANGED accountVars
    BY <2>6 DEF accountVars
  <2>7. QED
    BY <2>1, <2>2, <2>3, <2>4, <2>5, <2>6 DEF Login, RequestOneTimeToken, WindowPasses, LogoutAll
<1>4. CASE TokenNext
  <2>1. CASE \E o \in Links, p \in Passwords : ResetPassword(o, p)
    BY <1>2, <2>1 DEF ResetPassword, ConsumeLink, Rows, Purposes
  <2>2. CASE UNCHANGED accountVars
    BY <2>2 DEF accountVars
  <2>3. QED
    BY <1>4, <2>1, <2>2 DEF TokenNext, ConfirmEmail, StartGoogle, LinkExpires, Replay, Logout,
       Refresh, SessionExpires, Cleanup
<1>5. CASE UNCHANGED identityVars
  BY <1>5 DEF identityVars, accountVars
<1>6. QED
  BY <1>3, <1>4, <1>5 DEF IdentityNext

LEMMA FollowStep ==
    Typed /\ SessionsFollowAccount /\ [IdentityNext]_identityVars => SessionsFollowAccount'
<1> SUFFICES ASSUME Typed, SessionsFollowAccount, [IdentityNext]_identityVars,
                    NEW s \in Sessions, Live(s)'
             PROVE  Active(session[s].user)' /\ (session[s].proof = password[session[s].user])'
  BY DEF SessionsFollowAccount
<1>1. CASE \E u \in Users, t \in Tokens : Opens(u, s, t)
  BY <1>1 DEF Opens, Typed, IdentityTypeOK
<1>2. CASE Live(s) /\ session'[s].user = session[s].user /\ session'[s].proof = session[s].proof
  <2>1. /\ session[s].user \in Users
        /\ Active(session[s].user)
        /\ session[s].proof = password[session[s].user]
    BY <1>2 DEF Typed, Rows, Known, Live, SessionsFollowAccount
  <2>2. \/ Active(session[s].user)' /\ password'[session[s].user] = password[session[s].user]
        \/ \A q \in Sessions : session'[q].user = session[s].user => ~Live(q)'
    BY <1>2, <2>1, ActiveAfter
  <2>3. QED
    BY <1>2, <2>1, <2>2 DEF Active
<1>3. QED
  BY <1>1, <1>2, LiveBefore

\* identity.ts: whoever has a session that opens requests belongs to an active account whose
\* password is the one the session was opened under, after any order of suspensions, changes
\* and resets of passwords, refreshes and replays.
THEOREM SessionsProved == IdentitySpec => []SessionsFollowAccount
<1>1. IdentityInit => SessionsFollowAccount
  BY DEF IdentityInit, SessionsFollowAccount, Live, UnusedSession
<1>2. QED
  BY <1>1, TypedInvariant, FollowStep, PTL DEF IdentitySpec

-----------------------------------------------------------------------------
(* One-time tokens. *)

LEMMA OneOpenLinkStep ==
    Typed /\ OneOpenLink /\ [IdentityNext]_identityVars => OneOpenLink'
<1> SUFFICES ASSUME Typed, OneOpenLink, [IdentityNext]_identityVars
             PROVE  OneOpenLink'
  OBVIOUS
<1> USE DEF Typed, IdentityTypeOK, OneOpenLink, Open
<1>1. \A o \in Links : [link[o] EXCEPT !.state = "spent"].state = "spent"
  BY DEF LinkType
<1>2. CASE \E u \in Users, purpose \in Purposes, o \in Links : IssueLink(u, purpose, o)
  BY <1>1, <1>2 DEF IssueLink, Superseded
<1>3. CASE \E o \in Links : StartGoogle(o)
  BY <1>3 DEF StartGoogle, Purposes
<1>4. CASE \E o \in Links : Open(o) /\ link' = [link EXCEPT ![o].state = "spent"]
  BY <1>1, <1>4
<1>5. CASE Cleanup
  <2>1. [UnusedLink EXCEPT !.state = "removed"].state = "removed"
    BY DEF UnusedLink
  <2>2. \A o \in Links : Open(o)' => link'[o] = link[o]
    BY <1>5, <2>1 DEF Cleanup
  <2>3. QED
    BY <2>2
<1>6. CASE UNCHANGED link
  BY <1>6
<1>7. QED
  BY <1>2, <1>3, <1>4, <1>5, <1>6, LinkSteps

\* issueOneTimeToken: a new token takes back the one that was sent before, so one token at
\* most verifies an address or resets a password.
THEOREM OneLinkProved == IdentitySpec => []OneOpenLink
<1>1. IdentityInit => OneOpenLink
  BY DEF IdentityInit, OneOpenLink, Open, UnusedLink
<1>2. QED
  BY <1>1, TypedInvariant, OneOpenLinkStep, PTL DEF IdentitySpec

-----------------------------------------------------------------------------
(* Superadmins. *)

\* Without updateUserStatus nobody is demoted or suspended.
LEMMA SuperadminsStay ==
    ASSUME Typed, [IdentityNext]_identityVars,
           ~\E u \in Users, a \in {None, "ACTIVE", "SUSPENDED"},
               r \in {None, "USER", "ADMIN", "SUPERADMIN"} : UpdateUserStatus(u, a, r)
    PROVE  Superadmins \subseteq Superadmins'
<1> USE DEF Typed, IdentityTypeOK, Superadmins, Active
<1>1. CASE \E u \in Users, p \in Passwords, o \in Links : Register(u, p, o)
  BY <1>1 DEF Register, Registered
<1>2. CASE \E u \in Users, o \in Links, s \in Sessions, t \in Tokens : FinishGoogle(o, u, s, t)
  BY <1>2 DEF FinishGoogle, Registered, accountVars
<1>3. CASE UNCHANGED <<status, role>>
  BY <1>3
<1>4. QED
  BY <1>1, <1>2, <1>3 DEF IdentityNext, AccountNext, TokenNext, ChangePassword, Login,
     RequestOneTimeToken, WindowPasses, LogoutAll, ConfirmEmail, StartGoogle, LinkExpires,
     ResetPassword, Replay, Logout, Refresh, SessionExpires, Cleanup, accountVars, identityVars

\* updateUserStatus takes a superadmin away only if there is another one.
LEMMA SuperadminLeft ==
    ASSUME Typed, NEW u \in Users, NEW a \in {None, "ACTIVE", "SUSPENDED"},
           NEW r \in {None, "USER", "ADMIN", "SUPERADMIN"}, UpdateUserStatus(u, a, r),
           Superadmins # {}
    PROVE  Superadmins' # {}
<1> USE DEF Typed, IdentityTypeOK, Superadmins, Active
<1>1. \A v \in Users \ {u} : v \in Superadmins => v \in Superadmins'
  BY DEF UpdateUserStatus
<1>2. CASE SomeoneElseRules(u)
  <2>1. IsFiniteSet(Superadmins)
    BY FS_Subset, NextIdentityAssumption
  <2>2. Superadmins # {u}
    <3>1. Cardinality({u}) = 1
      BY FS_Singleton
    <3>2. Cardinality(Superadmins) > 1
      BY <1>2 DEF SomeoneElseRules
    <3>3. QED
      BY ONLY <3>1, <3>2
  <2>3. PICK v \in Superadmins : v # u
    BY <2>2
  <2>4. QED
    BY <1>1, <2>3
<1>3. CASE ~SomeoneElseRules(u)
  <2>1. role[u] # "SUPERADMIN" \/ (r \in {None, "SUPERADMIN"} /\ a # "SUSPENDED")
    BY <1>3 DEF UpdateUserStatus
  <2>2. u \in Superadmins => u \in Superadmins'
    BY <2>1 DEF UpdateUserStatus
  <2>3. QED
    BY <1>1, <2>2
<1>4. QED
  BY <1>2, <1>3

\* updateUserStatus: two superadmins who demote or suspend each other, or themselves, in any
\* order never leave the platform without one.
THEOREM SuperadminStays == IdentitySpec => KeepsSuperadmin
<1>1. Typed /\ [IdentityNext]_identityVars => [Superadmins # {} => Superadmins' # {}]_identityVars
  BY SuperadminsStay, SuperadminLeft
<1>2. QED
  BY <1>1, TypedInvariant, PTL DEF IdentitySpec, KeepsSuperadmin

-----------------------------------------------------------------------------
(* Families of tokens. *)

Opened == {s \in Sessions : session[s].state # "unused"}

Valid == [s \in Sessions |-> IF Live(s) THEN {session[s].token} ELSE {}]

\* A step that only ends sessions is an end of their families.
LEMMA EndRefines ==
    ASSUME UNCHANGED <<issued, Opened>>,
           \A s \in Sessions : Live(s)' => Live(s) /\ session'[s].token = session[s].token
    PROVE  Families!End
BY DEF Families!End, Opened, Live

LEMMA FamilyStep ==
    ASSUME Typed, [IdentityNext]_identityVars
    PROVE  [Families!Next]_<<issued, Opened, Valid>>
<1> USE DEF Typed, IdentityTypeOK
<1>1. CASE \E u \in Users, s \in Sessions, t \in Tokens : Opens(u, s, t)
  <2>1. PICK u \in Users, s \in Sessions, t \in Tokens : Opens(u, s, t)
    BY <1>1
  <2>2. s \notin Opened /\ Opened' = Opened \cup {s}
    BY <2>1 DEF Opens, Opened
  <2>3. Valid' = [Valid EXCEPT ![s] = {t}]
    BY <2>1 DEF Opens, Valid, Live
  <2>4. Families!Open(s, t)
    BY <2>1, <2>2, <2>3 DEF Opens, Families!Open, Families!Issue, Opened, Valid
  <2>5. QED
    BY <2>4 DEF Families!Next, Opened, Valid
<1>2. CASE \E t, n \in Tokens : Refresh(t, n)
  <2>1. PICK t \in Tokens, n \in Tokens, s \in Sessions :
           /\ CanRotate(s)
           /\ n \notin issued
           /\ issued' = issued \cup {n}
           /\ session' = [session EXCEPT ![s] = [state |-> "live", user |-> session[s].user,
                          token |-> n, previous |-> Previous(s), proof |-> session[s].proof]]
    BY <1>2 DEF Refresh
  <2>2. Opened' = Opened
    BY <2>1 DEF Opened, CanRotate, Live
  <2>3. Valid[s] # {} /\ Valid' = [Valid EXCEPT ![s] = {n}]
    BY <2>1 DEF Valid, Live, CanRotate
  <2>4. Families!Rotate(s, n)
    BY <2>1, <2>2, <2>3 DEF Families!Rotate, Families!Issue, Opened, Valid
  <2>5. QED
    BY <2>4 DEF Families!Next, Opened, Valid
<1>3. CASE Cleanup
  <2>1. [UnusedSession EXCEPT !.state = "removed"].state = "removed"
    BY DEF UnusedSession
  <2>2. /\ \A s \in Sessions : Live(s)' => Live(s) /\ session'[s].token = session[s].token
        /\ UNCHANGED <<issued, Opened>>
    BY <1>3, <2>1 DEF Cleanup, Live, Opened
  <2>3. QED
    BY <2>2, EndRefines DEF Families!Next
<1>4. CASE Ends
  <2>1. \A s \in Sessions : [session[s] EXCEPT !.state = "ended"].state = "ended"
    BY DEF SessionType
  <2>2. /\ \A s \in Sessions : Live(s)' => Live(s) /\ session'[s].token = session[s].token
        /\ UNCHANGED <<issued, Opened>>
    BY <1>4, <2>1 DEF Ends, EndSessions, Live, Opened
  <2>3. QED
    BY <2>2, EndRefines DEF Families!Next
<1>5. CASE UNCHANGED sessionVars
  BY <1>5 DEF sessionVars, Opened, Valid, Live
<1>6. QED
  BY <1>1, <1>2, <1>3, <1>4, <1>5, SessionSteps

\* refresh, logout and cleanup: one refresh token of a session is valid at most, it was never
\* handed out before, and a session that ended has none again.
THEOREM FamiliesKept == IdentitySpec => SessionFamilies
<1>1. IdentityInit => Families!Init
  BY DEF IdentityInit, Families!Init, Live, UnusedSession
<1>2. QED
  BY <1>1, TypedInvariant, FamilyStep, PTL
  DEF IdentitySpec, SessionFamilies, Families!Spec, Opened, Valid

-----------------------------------------------------------------------------
(* The identity of the API *)

LEMMA IdentityRequests ==
    AccountRequest \/ SessionRequest \/ LinkRequest => IdentityNext
<1>1. AccountRequest => IdentityNext
  BY DEF AccountRequest, IdentityNext, AccountNext
<1>2. SessionRequest => IdentityNext
  BY DEF SessionRequest, IdentityNext, AccountNext, TokenNext
<1>3. LinkRequest => IdentityNext
  BY DEF LinkRequest, IdentityNext, AccountNext, TokenNext, Purposes
<1> QED
  BY <1>1, <1>2, <1>3

LEMMA IdentityElsewhere ==
    OrganizationRequest \/ BillingRequest \/ WithdrawalRequest \/ Spend => UNCHANGED identityVars
BY DEF OrganizationRequest, BillingRequest, WithdrawalRequest, Spend, Only

LEMMA IdentityStep == [RouterNext]_routerVars => [IdentityNext]_identityVars
<1>1. AdminRequest => [IdentityNext]_identityVars
  BY DEF AdminRequest, IdentityNext, AccountNext, Only
<1>2. TimePasses => [IdentityNext]_identityVars
  BY DEF TimePasses, IdentityNext, AccountNext, TokenNext, Only
<1>3. RunScheduler => IdentityNext
  BY DEF RunScheduler, IdentityNext, TokenNext
<1>4. UNCHANGED routerVars => UNCHANGED identityVars
  BY DEF routerVars, serviceVars
<1> QED
  BY <1>1, <1>2, <1>3, <1>4, IdentityRequests, IdentityElsewhere DEF RouterNext

\* router.ts, identity.ts: whatever the clients do, accounts, sessions and tokens behave as
\* the identity service specifies.
THEOREM RouterKeepsIdentity == RouterSpec => IdentitySpec
<1>1. RouterInit => IdentityInit
  BY DEF RouterInit
<1> QED
  BY <1>1, IdentityStep, PTL DEF RouterSpec, IdentitySpec

-----------------------------------------------------------------------------
(* Organisations, for any users, organisations and invitations *)

\* Invitations that are open name an organisation and a role other than the owner's.
OpenInvitations ==
    \A i \in Invitations : invitation[i].state = "open" =>
        invitation[i].org \in Orgs /\ invitation[i].role \in {"ADMIN", "MEMBER"}

\* An organisation has members only once it exists.
MembersExist ==
    \A o \in Orgs : orgStatus[o] = "none" =>
        /\ \A u \in Users : member[o][u] = "none"
        /\ \A i \in Invitations : invitation[i].state = "open" => invitation[i].org # o

OrgTyped == OrganizationTypeOK /\ OpenInvitations

\* A step of an administrator or a member sets the role of w, who is no owner, or leaves all
\* members alone.
SetsOther(o, w, r) == o \in Orgs /\ w \in Users /\ Other(o, w) /\ SetMember(o, w, r)

-----------------------------------------------------------------------------
(* What a step does to the members, and what to the invitations. *)

LEMMA MemberSteps ==
    ASSUME [OrganizationNext]_organizationVars
    PROVE  \/ \E u \in Users, o \in Orgs, n \in OrgNames : Create(u, o, n)
           \/ \E u \in Users, i \in Invitations : RespondInvitation(u, i, TRUE)
           \/ \E o \in Orgs, w \in Users, r \in {"ADMIN", "MEMBER", "none"} : SetsOther(o, w, r)
           \/ UNCHANGED member
BY DEF OrganizationNext, Update, ChangeMember, Invite, RemoveMember, Leave, RespondInvitation,
   InvitationExpires, UpdateOrganizationStatus, SetsOther, organizationVars

LEMMA InvitationSteps ==
    ASSUME [OrganizationNext]_organizationVars
    PROVE  \/ \E u, w \in Users, o \in Orgs, r \in {"ADMIN", "MEMBER"}, i \in Invitations :
                 Invite(u, o, w, r, i)
           \/ \E i \in Invitations :
                 invitation[i].state = "open" /\ invitation' = [invitation EXCEPT ![i].state = "closed"]
           \/ UNCHANGED invitation
BY DEF OrganizationNext, Create, Update, ChangeMember, RemoveMember, Leave, RespondInvitation,
   InvitationExpires, Addressed, UpdateOrganizationStatus, organizationVars

LEMMA StatusSteps ==
    ASSUME [OrganizationNext]_organizationVars
    PROVE  \/ \E u \in Users, o \in Orgs, n \in OrgNames : Create(u, o, n)
           \/ \E o \in Orgs, s \in {"ACTIVE", "SUSPENDED"} : UpdateOrganizationStatus(o, s)
           \/ UNCHANGED orgStatus
BY DEF OrganizationNext, Update, ChangeMember, Invite, RemoveMember, Leave, RespondInvitation,
   InvitationExpires, organizationVars

-----------------------------------------------------------------------------
(* Types of the organisations. *)

LEMMA OrgTypedInit == OrganizationInit => OrgTyped
BY DEF OrganizationInit, OrgTyped, OrganizationTypeOK, OpenInvitations, Nobody

LEMMA InvitationsTyped ==
    ASSUME OrgTyped, [OrganizationNext]_organizationVars
    PROVE  /\ invitation' \in [Invitations -> [state : {"unused", "open", "closed"},
                                               org : Orgs \cup {None}, email : Users \cup {None},
                                               role : {"ADMIN", "MEMBER", "none"}]]
           /\ OpenInvitations'
<1> USE DEF OrgTyped, OrganizationTypeOK, OpenInvitations
<1> DEFINE Invited == [state : {"unused", "open", "closed"}, org : Orgs \cup {None},
                       email : Users \cup {None}, role : {"ADMIN", "MEMBER", "none"}]
<1>0. \A i \in Invitations : /\ [invitation[i] EXCEPT !.state = "closed"] \in Invited
                             /\ [invitation[i] EXCEPT !.state = "closed"].state = "closed"
  OBVIOUS
<1>1. CASE \E u, w \in Users, o \in Orgs, r \in {"ADMIN", "MEMBER"}, i \in Invitations :
              Invite(u, o, w, r, i)
  <2>1. PICK w \in Users, o \in Orgs, r \in {"ADMIN", "MEMBER"}, i \in Invitations :
           \E u \in Users : Invite(u, o, w, r, i)
    BY <1>1
  <2>2. [state |-> "open", org |-> o, email |-> w, role |-> r] \in Invited
    OBVIOUS
  <2>3. QED
    BY <1>0, <2>1, <2>2 DEF Invite
<1>2. CASE \E i \in Invitations :
              invitation[i].state = "open" /\ invitation' = [invitation EXCEPT ![i].state = "closed"]
  BY <1>0, <1>2
<1>3. CASE UNCHANGED invitation
  BY <1>3
<1>4. QED
  BY <1>1, <1>2, <1>3, InvitationSteps

LEMMA MembersTyped ==
    ASSUME OrgTyped, [OrganizationNext]_organizationVars
    PROVE  member' \in [Orgs -> [Users -> Roles \cup {"none"}]]
<1> USE DEF OrgTyped, OrganizationTypeOK, Roles
<1>1. CASE \E u \in Users, o \in Orgs, n \in OrgNames : Create(u, o, n)
  BY <1>1 DEF Create, SetMember
<1>2. CASE \E u \in Users, i \in Invitations : RespondInvitation(u, i, TRUE)
  <2>1. PICK u \in Users, i \in Invitations : RespondInvitation(u, i, TRUE)
    BY <1>2
  <2>2. invitation[i].org \in Orgs /\ invitation[i].role \in {"ADMIN", "MEMBER"}
    BY <2>1 DEF RespondInvitation, Addressed, OpenInvitations
  <2>3. member' = [member EXCEPT ![invitation[i].org][u] = invitation[i].role]
    BY <2>1 DEF RespondInvitation, SetMember
  <2>4. QED
    BY <2>2, <2>3
<1>3. CASE \E o \in Orgs, w \in Users, r \in {"ADMIN", "MEMBER", "none"} : SetsOther(o, w, r)
  BY <1>3 DEF SetsOther, SetMember
<1>4. CASE UNCHANGED member
  BY <1>4
<1>5. QED
  BY <1>1, <1>2, <1>3, <1>4, MemberSteps

LEMMA OrgTypedStep == OrgTyped /\ [OrganizationNext]_organizationVars => OrgTyped'
<1> SUFFICES ASSUME OrgTyped, [OrganizationNext]_organizationVars
             PROVE  OrgTyped'
  OBVIOUS
<1>1. orgStatus' \in [Orgs -> {"none", "ACTIVE", "SUSPENDED"}]
  BY StatusSteps DEF Create, UpdateOrganizationStatus, OrgTyped, OrganizationTypeOK
<1>2. orgName' \in [Orgs -> OrgNames \cup {None}]
  BY DEF OrganizationNext, Create, Update, ChangeMember, Invite, RemoveMember, Leave,
     RespondInvitation, InvitationExpires, UpdateOrganizationStatus, organizationVars,
     OrgTyped, OrganizationTypeOK
<1>3. answered' \subseteq Invitations
  BY DEF OrganizationNext, Create, Update, ChangeMember, Invite, RemoveMember, Leave,
     RespondInvitation, InvitationExpires, UpdateOrganizationStatus, organizationVars,
     NothingAccepted, OrgTyped, OrganizationTypeOK
<1>4. QED
  BY <1>1, <1>2, <1>3, InvitationsTyped, MembersTyped DEF OrgTyped, OrganizationTypeOK

LEMMA OrgTypedInvariant == OrganizationSpec => []OrgTyped
BY OrgTypedInit, OrgTypedStep, PTL DEF OrganizationSpec

\* organizations.ts: organisations, members and invitations always have their types; in
\* particular nobody is invited as an owner.
THEOREM OrganizationsTyped == OrganizationSpec => []OrganizationTypeOK
BY OrgTypedInvariant, PTL DEF OrgTyped

-----------------------------------------------------------------------------
(* Owners. *)

\* An owner who is no longer one after a step has accepted an invitation in it.
LEMMA OwnerLeaves ==
    ASSUME OrgTyped, [OrganizationNext]_organizationVars, NEW o \in Orgs, NEW u \in Users,
           u \in Owners(o), u \notin Owners(o)'
    PROVE  \E i \in answered' : invitation[i].org = o /\ invitation[i].email = u
<1> USE DEF OrgTyped, OrganizationTypeOK, Owners
<1>1. CASE \E v \in Users, p \in Orgs, n \in OrgNames : Create(v, p, n)
  BY <1>1 DEF Create, SetMember
<1>2. CASE \E v \in Users, i \in Invitations : RespondInvitation(v, i, TRUE)
  BY <1>2 DEF RespondInvitation, Addressed, SetMember, OpenInvitations
<1>3. CASE \E p \in Orgs, w \in Users, r \in {"ADMIN", "MEMBER", "none"} : SetsOther(p, w, r)
  BY <1>3 DEF SetsOther, SetMember, Other
<1>4. CASE UNCHANGED member
  BY <1>4
<1>5. QED
  BY <1>1, <1>2, <1>3, <1>4, MemberSteps

\* Only its creation gives an organisation an owner.
LEMMA OwnerComes ==
    ASSUME OrgTyped, [OrganizationNext]_organizationVars, NEW o \in Orgs, NEW u \in Users,
           u \in Owners(o)', u \notin Owners(o)
    PROVE  orgStatus[o] = "none"
<1> USE DEF OrgTyped, OrganizationTypeOK, Owners
<1>1. CASE \E v \in Users, p \in Orgs, n \in OrgNames : Create(v, p, n)
  BY <1>1 DEF Create, SetMember
<1>2. CASE \E v \in Users, i \in Invitations : RespondInvitation(v, i, TRUE)
  BY <1>2 DEF RespondInvitation, Addressed, SetMember, OpenInvitations
<1>3. CASE \E p \in Orgs, w \in Users, r \in {"ADMIN", "MEMBER", "none"} : SetsOther(p, w, r)
  BY <1>3 DEF SetsOther, SetMember
<1>4. CASE UNCHANGED member
  BY <1>4
<1>5. QED
  BY <1>1, <1>2, <1>3, <1>4, MemberSteps

\* changeMember, removeMember, leave and respondInvitation: an owner stays the owner unless
\* that very person accepts an invitation to another role, and nobody becomes one later.
THEOREM OwnersDecide == OrganizationSpec => OwnerDecides
<1>1. OrgTyped /\ [OrganizationNext]_organizationVars =>
         [\A o \in Orgs, u \in Users :
             /\ u \in Owners(o) /\ u \notin Owners(o)' =>
                   \E i \in answered' : invitation[i].org = o /\ invitation[i].email = u
             /\ u \in Owners(o)' /\ u \notin Owners(o) => orgStatus[o] = "none"]_organizationVars
  BY OwnerLeaves, OwnerComes
<1>2. QED
  BY <1>1, OrgTypedInvariant, PTL DEF OrganizationSpec, OwnerDecides

-----------------------------------------------------------------------------
(* One owner. *)

\* An organisation has one owner at most.
OneOwner == \A o \in Orgs : \A u, v \in Owners(o) : u = v

LEMMA MembersExistStep ==
    OrgTyped /\ MembersExist /\ [OrganizationNext]_organizationVars => MembersExist'
<1> SUFFICES ASSUME OrgTyped, MembersExist, [OrganizationNext]_organizationVars
             PROVE  MembersExist'
  OBVIOUS
<1> USE DEF OrgTyped, OrganizationTypeOK, MembersExist, May
<1>1. \A o \in Orgs : orgStatus'[o] = "none" => orgStatus[o] = "none"
  BY StatusSteps DEF Create, UpdateOrganizationStatus
<1>2. ASSUME NEW o \in Orgs, orgStatus'[o] = "none", NEW u \in Users
      PROVE  member'[o][u] = "none"
  <2>1. orgStatus[o] = "none" /\ member[o][u] = "none"
    BY <1>1, <1>2
  <2>2. CASE \E v \in Users, p \in Orgs, n \in OrgNames : Create(v, p, n)
    BY <1>2, <2>1, <2>2 DEF Create, SetMember
  <2>3. CASE \E v \in Users, i \in Invitations : RespondInvitation(v, i, TRUE)
    BY <2>1, <2>3 DEF RespondInvitation, Addressed, SetMember, OpenInvitations
  <2>4. CASE \E p \in Orgs, w \in Users, r \in {"ADMIN", "MEMBER", "none"} : SetsOther(p, w, r)
    BY <2>1, <2>4 DEF SetsOther, SetMember, Other
  <2>5. CASE UNCHANGED member
    BY <2>1, <2>5
  <2>6. QED
    BY <2>2, <2>3, <2>4, <2>5, MemberSteps
<1>3. ASSUME NEW o \in Orgs, orgStatus'[o] = "none",
             NEW i \in Invitations, invitation'[i].state = "open"
      PROVE  invitation'[i].org # o
  <2>1. orgStatus[o] = "none"
    BY <1>1, <1>3
  <2>2. CASE \E u, w \in Users, p \in Orgs, r \in {"ADMIN", "MEMBER"}, j \in Invitations :
                Invite(u, p, w, r, j)
    BY <1>3, <2>1, <2>2 DEF Invite
  <2>3. CASE \E j \in Invitations :
                invitation[j].state = "open" /\ invitation' = [invitation EXCEPT ![j].state = "closed"]
    BY <1>3, <2>1, <2>3
  <2>4. CASE UNCHANGED invitation
    BY <1>3, <2>1, <2>4
  <2>5. QED
    BY <2>2, <2>3, <2>4, InvitationSteps
<1>4. QED
  BY <1>2, <1>3

LEMMA OneOwnerStep ==
    OrgTyped /\ MembersExist /\ OneOwner /\ [OrganizationNext]_organizationVars => OneOwner'
<1> SUFFICES ASSUME OrgTyped, MembersExist, OneOwner, [OrganizationNext]_organizationVars,
                    NEW o \in Orgs, NEW u \in Owners(o)', NEW v \in Owners(o)'
             PROVE  u = v
  BY DEF OneOwner
<1>1. CASE u \in Owners(o) /\ v \in Owners(o)
  BY <1>1 DEF OneOwner
<1>2. CASE u \notin Owners(o) \/ v \notin Owners(o)
  <2>1. orgStatus[o] = "none"
    BY <1>2, OwnerComes DEF Owners
  <2>2. \A w \in Users : member[o][w] = "none"
    BY <2>1 DEF MembersExist
  <2>3. CASE \E w \in Users, p \in Orgs, n \in OrgNames : Create(w, p, n)
    BY <2>2, <2>3 DEF Create, SetMember, Owners, OrgTyped, OrganizationTypeOK
  <2>4. CASE \E w \in Users, i \in Invitations : RespondInvitation(w, i, TRUE)
    BY <2>2, <2>4 DEF RespondInvitation, Addressed, SetMember, Owners, OrgTyped, OrganizationTypeOK,
       OpenInvitations
  <2>5. CASE \E p \in Orgs, w \in Users, r \in {"ADMIN", "MEMBER", "none"} : SetsOther(p, w, r)
    BY <2>2, <2>5 DEF SetsOther, SetMember, Owners, OrgTyped, OrganizationTypeOK
  <2>6. CASE UNCHANGED member
    BY <2>2, <2>6 DEF Owners
  <2>7. QED
    BY <2>3, <2>4, <2>5, <2>6, MemberSteps
<1>3. QED
  BY <1>1, <1>2

\* create gives an organisation its one owner; no later request makes a second one.
THEOREM OneOwnerProved == OrganizationSpec => []OneOwner
<1>1. OrganizationInit => MembersExist /\ OneOwner
  BY DEF OrganizationInit, MembersExist, OneOwner, Owners, Nobody
<1>2. QED
  BY <1>1, OrgTypedInvariant, MembersExistStep, OneOwnerStep, PTL DEF OrganizationSpec

-----------------------------------------------------------------------------
(* The organisations of the API *)

LEMMA OrganizationElsewhere ==
    \/ AccountRequest \/ SessionRequest \/ LinkRequest \/ BillingRequest
    \/ WithdrawalRequest \/ Spend \/ RunScheduler
    => UNCHANGED organizationVars
BY DEF AccountRequest, SessionRequest, LinkRequest, BillingRequest, WithdrawalRequest,
       Spend, RunScheduler, Only

LEMMA OrganizationStep == [RouterNext]_routerVars => [OrganizationNext]_organizationVars
<1>1. OrganizationRequest => OrganizationNext
  BY DEF OrganizationRequest, OrganizationNext
<1>2. AdminRequest => [OrganizationNext]_organizationVars
  BY DEF AdminRequest, OrganizationNext, Only
<1>3. TimePasses => [OrganizationNext]_organizationVars
  BY DEF TimePasses, OrganizationNext, Only
<1>4. UNCHANGED routerVars => UNCHANGED organizationVars
  BY DEF routerVars, serviceVars
<1> QED
  BY <1>1, <1>2, <1>3, <1>4, OrganizationElsewhere DEF RouterNext

\* router.ts, organizations.ts: organisations, members and invitations behave as their
\* service specifies.
THEOREM RouterKeepsOrganizations == RouterSpec => OrganizationSpec
<1>1. RouterInit => OrganizationInit
  BY DEF RouterInit
<1> QED
  BY <1>1, OrganizationStep, PTL DEF RouterSpec, OrganizationSpec

-----------------------------------------------------------------------------
(* Billing and withdrawals *)

WalletNext == WithdrawalNext \/ (BillingNext /\ UNCHANGED withdrawalVars)

walletVars == <<billingVars, withdrawalVars>>

LEMMA WalletElsewhere ==
    AccountRequest \/ SessionRequest \/ LinkRequest \/ OrganizationRequest => UNCHANGED walletVars
BY DEF AccountRequest, SessionRequest, LinkRequest, OrganizationRequest, walletVars, Only

LEMMA WalletStep == [RouterNext]_routerVars => [WalletNext]_walletVars
<1>1. BillingRequest => WalletNext
  BY DEF BillingRequest, WalletNext, BillingNext, CreditNext, PlanNext, Only
<1>2. WithdrawalRequest => WalletNext
  BY DEF WithdrawalRequest, WalletNext, WithdrawalNext
<1>3. AdminRequest => [WalletNext]_walletVars
  BY DEF AdminRequest, WalletNext, WithdrawalNext, BillingNext, CreditNext, PlanNext, walletVars, Only
<1>4. RunScheduler => WalletNext
  BY DEF RunScheduler, WalletNext, WithdrawalNext
<1>5. Spend => WalletNext
  BY DEF Spend, WalletNext, BillingNext, CreditNext, Only
<1>6. TimePasses => [WalletNext]_walletVars
  BY DEF TimePasses, WalletNext, BillingNext, CreditNext, walletVars, Only
<1>7. UNCHANGED routerVars => UNCHANGED walletVars
  BY DEF routerVars, serviceVars, walletVars
<1> QED
  BY <1>1, <1>2, <1>3, <1>4, <1>5, <1>6, <1>7, WalletElsewhere DEF RouterNext

\* router.ts, billing.ts, withdrawals.ts: credits, subscriptions and withdrawals behave as
\* their services specify.
THEOREM RouterKeepsWallet == RouterSpec => WalletSpec
<1>1. RouterInit => BillingInit /\ WithdrawalInit
  BY DEF RouterInit
<1> QED
  BY <1>1, WalletStep, PTL DEF RouterSpec, WalletSpec, WalletNext, walletVars

-----------------------------------------------------------------------------
(* Types *)

LEMMA BillingTyped == BillingTypeOK /\ [WalletNext]_walletVars => BillingTypeOK'
<1> SUFFICES ASSUME BillingTypeOK, [WalletNext]_walletVars
             PROVE  BillingTypeOK'
  OBVIOUS
<1> USE DEF BillingTypeOK
<1>1. CASE UNCHANGED <<price, planVars, today>>
  BY <1>1 DEF planVars
<1>2. WithdrawalNext => UNCHANGED <<price, planVars, today>>
  BY DEF WithdrawalNext, AddAccount, RequestWithdrawal, CancelWithdrawal, Verify, Approve,
         ProcessBatch, Callback, billingVars, creditVars
<1>3. CreditNext => BillingTypeOK'
  <2>1. NextDay => BillingTypeOK'
    BY NextBillingAssumption DEF NextDay, planVars
  <2>2. CreditNext => NextDay \/ UNCHANGED <<price, planVars, today>>
    BY DEF CreditNext, PurchaseCredits, Grant, Consume
  <2> QED
    BY <1>1, <2>1, <2>2
<1>4. ASSUME NEW p \in Prices, ArchivePrice(p) \/ \E a \in Amounts : CreatePrice(p, a)
      PROVE  BillingTypeOK'
  BY <1>4 DEF ArchivePrice, CreatePrice, creditVars, planVars
<1>5. ASSUME NEW u \in Users, NEW s \in Subscriptions,
             CancelSubscription(u, s) \/ \E p \in Prices, k \in Keys : CreateSubscription(u, p, s, k)
      PROVE  BillingTypeOK'
  <2>1. CASE CancelSubscription(u, s)
    <3>1. subscription[s] \in [status : {"none", "ACTIVE", "CANCELLED"},
                               owner : Users \cup {None}, price : Prices \cup {None}]
      OBVIOUS
    <3>2. [subscription[s] EXCEPT !.status = "CANCELLED"] \in
              [status : {"none", "ACTIVE", "CANCELLED"},
               owner : Users \cup {None}, price : Prices \cup {None}]
      BY <3>1
    <3> QED
      BY <2>1, <3>2 DEF CancelSubscription, creditVars
  <2>2. ASSUME NEW p \in Prices, NEW k \in Keys, CreateSubscription(u, p, s, k)
        PROVE  BillingTypeOK'
    BY <2>2 DEF CreateSubscription, creditVars
  <2> QED
    BY <1>5, <2>1, <2>2
<1>6. PlanNext => BillingTypeOK'
  BY <1>4, <1>5 DEF PlanNext
<1>7. UNCHANGED walletVars => UNCHANGED <<price, planVars, today>>
  BY DEF walletVars, billingVars, creditVars
<1> QED
  BY <1>1, <1>2, <1>3, <1>6, <1>7 DEF WalletNext, BillingNext

\* A withdrawal that exists has a payout account.
Accounted == \A w \in Withdrawals : withdrawal[w].status # "none" => withdrawal[w].account \in Accounts

LEMMA WithdrawalTyped ==
    WithdrawalTypeOK /\ Accounted /\ [WalletNext]_walletVars => WithdrawalTypeOK' /\ Accounted'
<1> SUFFICES ASSUME WithdrawalTypeOK, Accounted, [WalletNext]_walletVars
             PROVE  WithdrawalTypeOK' /\ Accounted'
  OBVIOUS
<1> USE DEF WithdrawalTypeOK, Accounted, Reserving
<1>1. CASE UNCHANGED withdrawalVars
  BY <1>1 DEF withdrawalVars
<1>2. ASSUME NEW u \in Users, NEW a \in Accounts, NEW v \in Providers, AddAccount(u, a, v)
      PROVE  WithdrawalTypeOK' /\ Accounted'
  BY <1>2 DEF AddAccount
<1>3. ASSUME NEW u \in Users, NEW a \in Accounts, NEW n \in Amounts, NEW w \in Withdrawals,
             NEW k \in Keys, RequestWithdrawal(u, a, n, w, k)
      PROVE  WithdrawalTypeOK' /\ Accounted'
  BY <1>3 DEF RequestWithdrawal
<1>4. ASSUME NEW w \in Withdrawals, (\E u \in Users : CancelWithdrawal(u, w)) \/ Approve(w)
      PROVE  WithdrawalTypeOK' /\ Accounted'
  BY <1>4 DEF CancelWithdrawal, Approve
<1>5. ASSUME NEW w \in Withdrawals, Verify(w)
      PROVE  WithdrawalTypeOK' /\ Accounted'
  BY <1>5 DEF Verify
<1>6. ASSUME NEW w \in Withdrawals, NEW v \in Providers, NEW e \in Events,
             NEW outcome \in {"COMPLETED", "FAILED"}, Callback(v, e, w, outcome)
      PROVE  WithdrawalTypeOK' /\ Accounted'
  BY <1>6 DEF Callback
<1>7. ProcessBatch => WithdrawalTypeOK' /\ Accounted'
  BY DEF ProcessBatch
<1> QED
  BY <1>1, <1>2, <1>3, <1>4, <1>5, <1>6, <1>7
  DEF WalletNext, WithdrawalNext, walletVars

\* billing.ts, withdrawals.ts: catalogue, subscriptions, payout accounts and withdrawals
\* always have their types.
THEOREM WalletTyped == WalletSpec => [](BillingTypeOK /\ WithdrawalTypeOK)
<1>1. BillingInit /\ WithdrawalInit => BillingTypeOK /\ WithdrawalTypeOK /\ Accounted
  BY NextBillingAssumption
  DEF BillingInit, WithdrawalInit, BillingTypeOK, WithdrawalTypeOK, Accounted
<1> QED
  BY <1>1, BillingTyped, WithdrawalTyped, PTL DEF WalletSpec, WalletNext, walletVars

-----------------------------------------------------------------------------
(* Subscriptions and what they entitle to *)

LEMMA SubscriptionStep ==
    ASSUME NEW u \in Users, NEW p \in Prices, NEW s \in Subscriptions, NEW k \in Keys,
           BillingTypeOK, EntitlementsBacked, CreateSubscription(u, p, s, k)
    PROVE  EntitlementsBacked'
<1> DEFINE row == [status |-> "ACTIVE", owner |-> u, price |-> p]
<1>1. /\ subscription[s].status = "none"
      /\ subscription' = [subscription EXCEPT ![s] = row]
      /\ entitlements' = [entitlements EXCEPT ![u] = @ \cup {p}]
  BY DEF CreateSubscription
<1>2. ASSUME NEW v \in Users, NEW q \in entitlements'[v]
      PROVE  \E r \in Subscriptions : subscription'[r] = [status |-> "ACTIVE", owner |-> v, price |-> q]
  <2>1. CASE v = u /\ q = p
    BY <1>1, <2>1 DEF BillingTypeOK
  <2>2. CASE ~(v = u /\ q = p)
    <3>1. q \in entitlements[v]
      BY <1>1, <1>2, <2>2 DEF BillingTypeOK
    <3>2. PICK r \in Subscriptions : subscription[r] = [status |-> "ACTIVE", owner |-> v, price |-> q]
      BY <3>1 DEF EntitlementsBacked
    <3>3. r # s
      BY <1>1, <3>2
    <3> QED
      BY <1>1, <3>2, <3>3 DEF BillingTypeOK
  <2> QED
    BY <2>1, <2>2
<1> QED
  BY <1>2 DEF EntitlementsBacked

LEMMA CancellationStep ==
    ASSUME NEW u \in Users, NEW s \in Subscriptions, BillingTypeOK,
           EntitlementsBacked, CancelSubscription(u, s)
    PROVE  EntitlementsBacked'
<1>1. /\ subscription[s].owner = u
      /\ subscription' = [subscription EXCEPT ![s].status = "CANCELLED"]
      /\ entitlements' = [entitlements EXCEPT ![u] = @ \ {subscription[s].price}]
  BY DEF CancelSubscription, Forfeits
<1>2. ASSUME NEW v \in Users, NEW q \in entitlements'[v]
      PROVE  \E r \in Subscriptions : subscription'[r] = [status |-> "ACTIVE", owner |-> v, price |-> q]
  <2>1. q \in entitlements[v] /\ (v = u => q # subscription[s].price)
    BY <1>1, <1>2 DEF BillingTypeOK
  <2>2. PICK r \in Subscriptions : subscription[r] = [status |-> "ACTIVE", owner |-> v, price |-> q]
    BY <2>1 DEF EntitlementsBacked
  <2>3. r # s
    BY <1>1, <2>1, <2>2
  <2> QED
    BY <1>1, <2>2, <2>3 DEF BillingTypeOK
<1> QED
  BY <1>2 DEF EntitlementsBacked

LEMMA PlansStep ==
    BillingTypeOK /\ EntitlementsBacked /\ [WalletNext]_walletVars => EntitlementsBacked'
<1> SUFFICES ASSUME BillingTypeOK, EntitlementsBacked, [WalletNext]_walletVars
             PROVE  EntitlementsBacked'
  OBVIOUS
<1>1. CASE UNCHANGED planVars
  BY <1>1 DEF planVars, EntitlementsBacked
<1>2. WithdrawalNext => UNCHANGED planVars
  BY DEF WithdrawalNext, AddAccount, RequestWithdrawal, CancelWithdrawal, Verify, Approve,
         ProcessBatch, Callback, billingVars
<1>3. CreditNext => UNCHANGED planVars
  BY DEF CreditNext, PurchaseCredits, Grant, Consume, NextDay
<1>4. PlanNext => EntitlementsBacked'
  <2>1. ASSUME NEW p \in Prices, ArchivePrice(p) \/ \E a \in Amounts : CreatePrice(p, a)
        PROVE  UNCHANGED planVars
    BY <2>1 DEF ArchivePrice, CreatePrice
  <2> QED
    BY <1>1, <2>1, SubscriptionStep, CancellationStep DEF PlanNext
<1>5. UNCHANGED walletVars => UNCHANGED planVars
  BY DEF walletVars, billingVars
<1> QED
  BY <1>1, <1>2, <1>3, <1>4, <1>5 DEF WalletNext, BillingNext

\* billing.ts: nobody is entitled without an active subscription to that price.
THEOREM EntitlementsProved == WalletSpec => []EntitlementsBacked
<1>1. BillingInit => EntitlementsBacked
  BY DEF BillingInit, EntitlementsBacked
<1>2. WalletSpec => []BillingTypeOK
  BY WalletTyped, PTL
<1> QED
  BY <1>1, <1>2, PlansStep, PTL DEF WalletSpec, WalletNext, walletVars

-----------------------------------------------------------------------------
(* Credits: what a consumption takes from the lots *)

\* A lot has an owner and a day, an entry of the ledger an amount; there are only so many.
CreditsTyped ==
    /\ lots \in Seq([owner : Users, remaining : Nat, expiry : 0..Never])
    /\ IsFiniteSet(ledger)
    /\ \A e \in ledger : e.amount \in Nat

LotsOf(u) == {i \in DOMAIN lots : lots[i].owner = u}

LEMMA MaxOfTwo == ASSUME NEW a \in Int, NEW b \in Int PROVE Max({a, b}) = IF a >= b THEN a ELSE b
BY DEF Max

LEMMA MinOfTwo == ASSUME NEW a \in Int, NEW b \in Int PROVE Min({a, b}) = IF a <= b THEN a ELSE b
BY DEF Min

LEMMA LotTyped ==
    ASSUME CreditsTyped
    PROVE  /\ IsFiniteSet(DOMAIN lots) /\ DOMAIN lots \subseteq Nat
           /\ \A i \in DOMAIN lots : /\ lots[i].owner \in Users
                                     /\ lots[i].remaining \in Nat
                                     /\ lots[i].expiry \in Int
<1>1. Len(lots) \in Nat /\ DOMAIN lots = 1..Len(lots)
  BY DEF CreditsTyped
<1>2. IsFiniteSet(1..Len(lots))
  BY <1>1, FS_Interval
<1>3. \A i \in DOMAIN lots : lots[i] \in [owner : Users, remaining : Nat, expiry : 0..Never]
  <2>1. PICK Lot : Lot = [owner : Users, remaining : Nat, expiry : 0..Never]
    OBVIOUS
  <2>2. lots \in Seq(Lot)
    BY <2>1 DEF CreditsTyped
  <2>3. \A i \in 1..Len(lots) : lots[i] \in Lot
    BY <2>2
  <2> QED
    BY <1>1, <2>1, <2>3
<1>4. 0..Never \subseteq Int
  BY NextBillingAssumption DEF Never
<1> QED
  BY <1>1, <1>2, <1>3, <1>4

\* The lots are used in a total order.
LEMMA BeforeOrders ==
    ASSUME CreditsTyped, NEW i \in DOMAIN lots, NEW j \in DOMAIN lots, NEW k \in DOMAIN lots
    PROVE  /\ ~Before(i, i)
           /\ Before(i, j) => ~Before(j, i)
           /\ i # j => Before(i, j) \/ Before(j, i)
           /\ Before(i, j) /\ Before(j, k) => Before(i, k)
BY LotTyped DEF Before

\* Of some lots, one comes after all others.
LEMMA LastLot ==
    ASSUME CreditsTyped, NEW S, S \subseteq DOMAIN lots, S # {}
    PROVE  \E m \in S : \A j \in S \ {m} : Before(j, m)
<1> DEFINE HasLast(T) == \E m \in T : \A j \in T \ {m} : Before(j, m)
           B == {T \in SUBSET S : T # {} /\ ~HasLast(T)}
<1>1. SUFFICES ASSUME B # {} PROVE FALSE
  OBVIOUS
<1>2. PICK T \in B : \A U \in B : U \subseteq T => U = T
  <2>1. B \subseteq SUBSET S /\ IsFiniteSet(S)
    BY LotTyped, FS_Subset
  <2> HIDE DEF B
  <2> QED  BY <1>1, <2>1, Minimal
<1>3. PICK x \in T : TRUE
  BY <1>2
<1>4. PICK R : R = T \ {x}
  OBVIOUS
<1>5. R # {} /\ R \subseteq T /\ R # T /\ R \subseteq S
  BY <1>2, <1>3, <1>4
<1>6. PICK m \in R : \A j \in R \ {m} : Before(j, m)
  BY <1>2, <1>5
<1>7. m \in DOMAIN lots /\ x \in DOMAIN lots /\ m # x /\ T \subseteq DOMAIN lots
  BY <1>2, <1>3, <1>4, <1>6
<1>8. CASE Before(m, x)
  <2>1. \A j \in T \ {x} : Before(j, x)
    BY <1>4, <1>6, <1>7, <1>8, BeforeOrders
  <2> QED
    BY <1>2, <1>3, <2>1
<1>9. CASE Before(x, m)
  <2>1. \A j \in T \ {m} : Before(j, m)
    BY <1>4, <1>6, <1>9
  <2> QED
    BY <1>2, <1>5, <1>6, <2>1
<1> QED
  BY <1>7, <1>8, <1>9, BeforeOrders

\* A consumption takes from a lot what the earlier ones leave to be paid, if it has as much.
LEMMA UsedOfLot ==
    ASSUME CreditsTyped, NEW u \in Users, NEW a \in Nat, NEW i \in DOMAIN lots
    PROVE  /\ i \notin Usable(u) => Used(u, a, i) = 0
           /\ i \in Usable(u) =>
                 LET left == a - Remaining({j \in Usable(u) : Before(j, i)})
                     r    == lots[i].remaining
                 IN  Used(u, a, i) = IF left <= 0 THEN 0 ELSE IF r <= left THEN r ELSE left
           /\ Remaining({j \in Usable(u) : Before(j, i)}) \in Nat
           /\ Used(u, a, i) \in 0..lots[i].remaining
<1>1. PICK s, S : S = {j \in Usable(u) : Before(j, i)} /\ s = Remaining(S)
  OBVIOUS
<1>2. lots[i].remaining \in Nat
  BY LotTyped
<1>3. s \in Nat
  <2>1. PICK f : f = [j \in DOMAIN lots |-> lots[j].remaining]
    OBVIOUS
  <2>2. S \subseteq DOMAIN lots
    BY <1>1 DEF Usable
  <2>3. IsFiniteSet(S) /\ \A j \in S : f[j] \in Nat
    BY <2>1, <2>2, LotTyped, FS_Subset
  <2>4. s = SumFunctionOnSet(f, S)
    BY <1>1, <2>1 DEF Remaining
  <2> QED
    BY <2>3, <2>4, SumNat
<1>4. PICK r, left : r = lots[i].remaining /\ left = a - s
  OBVIOUS
<1>5. r \in Nat /\ left \in Int
  BY <1>2, <1>3, <1>4
<1>6. PICK n : n = Min({r, left})
  OBVIOUS
<1>7. n = (IF r <= left THEN r ELSE left) /\ n \in Int
  BY <1>5, <1>6, MinOfTwo
<1>8. PICK n0 : n0 = Max({0, n})
  OBVIOUS
<1>9. n0 = IF 0 >= n THEN 0 ELSE n
  BY <1>7, <1>8, MaxOfTwo
<1>10. i \in Usable(u) => Used(u, a, i) = IF left <= 0 THEN 0 ELSE IF r <= left THEN r ELSE left
  <2>1. ASSUME i \in Usable(u)
        PROVE  Used(u, a, i) = Max({0, Min({lots[i].remaining, a - Remaining(S)})})
    BY <1>1, <2>1 DEF Used
  <2>2. i \in Usable(u) => Used(u, a, i) = n0
    BY <1>1, <1>4, <1>6, <1>8, <2>1
  <2>3. n0 = IF left <= 0 THEN 0 ELSE IF r <= left THEN r ELSE left
    BY <1>5, <1>7, <1>9
  <2> QED
    BY <2>2, <2>3
<1>11. i \notin Usable(u) => Used(u, a, i) = 0
  BY DEF Used
<1> QED
  BY <1>1, <1>3, <1>4, <1>5, <1>10, <1>11

\* From the lots that come first, a consumption takes all they have, or all it needs.
LEMMA Spread ==
    ASSUME CreditsTyped, NEW u \in Users, NEW a \in Nat,
           NEW f, f = [i \in DOMAIN lots |-> lots[i].remaining],
           NEW g, g = [i \in DOMAIN lots |-> Used(u, a, i)],
           NEW S, S \subseteq Usable(u),
           \A i \in S, j \in Usable(u) : Before(j, i) => j \in S
    PROVE  SumFunctionOnSet(g, S) = IF SumFunctionOnSet(f, S) <= a THEN SumFunctionOnSet(f, S) ELSE a
<1> DEFINE First(T) == \A i \in T, j \in Usable(u) : Before(j, i) => j \in T
           Spent(T) == SumFunctionOnSet(g, T) = IF SumFunctionOnSet(f, T) <= a
                                                 THEN SumFunctionOnSet(f, T) ELSE a
           B == {T \in SUBSET S : First(T) /\ ~Spent(T)}
<1>1. SUFFICES ASSUME B # {} PROVE FALSE
  OBVIOUS
<1>2. Usable(u) \subseteq DOMAIN lots
  BY DEF Usable
<1>3. PICK T \in B : \A U \in B : U \subseteq T => U = T
  <2>1. B \subseteq SUBSET S /\ IsFiniteSet(S)
    BY <1>2, LotTyped, FS_Subset
  <2> HIDE DEF B
  <2> QED  BY <1>1, <2>1, Minimal
<1>4. T \subseteq Usable(u) /\ T \subseteq DOMAIN lots /\ First(T) /\ ~Spent(T)
  BY <1>2, <1>3
<1>5. T # {}
  <2>1. SumFunctionOnSet(f, {}) = 0 /\ SumFunctionOnSet(g, {}) = 0
    BY SumEmpty
  <2>2. Spent({})
    BY <2>1
  <2> QED
    BY <1>4, <2>2
<1>6. PICK m \in T : \A j \in T \ {m} : Before(j, m)
  BY <1>4, <1>5, LastLot
<1>7. PICK R : R = T \ {m}
  OBVIOUS
<1>8. R = {j \in Usable(u) : Before(j, m)}
  BY <1>4, <1>6, <1>7, BeforeOrders
<1>9. First(R)
  BY <1>2, <1>4, <1>6, <1>8, BeforeOrders
<1>10. Spent(R)
  BY <1>3, <1>6, <1>7, <1>9
<1>11. /\ IsFiniteSet(T) /\ IsFiniteSet(R)
       /\ \A i \in T : f[i] \in Int /\ g[i] \in Int
       /\ \A i \in R : f[i] \in Nat
  <2>1. \A i \in DOMAIN lots : lots[i].remaining \in Nat
    BY LotTyped
  <2>2. \A i \in DOMAIN lots : Used(u, a, i) \in 0..lots[i].remaining
    BY UsedOfLot
  <2>3. IsFiniteSet(T)
    BY <1>4, LotTyped, FS_Subset
  <2> QED
    BY <1>4, <1>7, <2>1, <2>2, <2>3, FS_Subset
<1>12. SumFunctionOnSet(f, T) = f[m] + SumFunctionOnSet(f, R)
  BY <1>7, <1>11, SumTake
<1>13. SumFunctionOnSet(g, T) = g[m] + SumFunctionOnSet(g, R)
  BY <1>7, <1>11, SumTake
<1>14. SumFunctionOnSet(f, R) \in Nat
  BY <1>11, SumNat
<1>15. Remaining(R) = SumFunctionOnSet(f, R)
  BY DEF Remaining
<1>16. PICK left, r : left = a - SumFunctionOnSet(f, R) /\ r = f[m]
  OBVIOUS
<1>17. g[m] = IF left <= 0 THEN 0 ELSE IF r <= left THEN r ELSE left
  BY <1>4, <1>6, <1>8, <1>15, <1>16, UsedOfLot
<1>18. r \in Nat
  BY <1>4, <1>6, <1>16, LotTyped
<1> QED
  <2>1. PICK sf, sg, tf, tg : /\ sf = SumFunctionOnSet(f, R) /\ sg = SumFunctionOnSet(g, R)
                              /\ tf = SumFunctionOnSet(f, T) /\ tg = SumFunctionOnSet(g, T)
    OBVIOUS
  <2>2. sf \in Nat /\ sg = IF sf <= a THEN sf ELSE a
    BY <1>10, <1>14, <2>1
  <2>3. tf = r + sf /\ tg = g[m] + sg /\ left = a - sf
    BY <1>12, <1>13, <1>16, <2>1
  <2>4. tg = IF tf <= a THEN tf ELSE a
    BY <1>17, <1>18, <2>2, <2>3
  <2> QED
    BY <1>4, <2>1, <2>4

-----------------------------------------------------------------------------
(* Credits: the lots and the ledger *)

\* What a user has is a sum of natural numbers, and so is what the ledger says.
LEMMA TotalIsNat ==
    ASSUME CreditsTyped, NEW u, NEW kinds
    PROVE  Total(u, kinds) \in Nat
<1>1. PICK f, E : f = [e \in ledger |-> e.amount] /\ E = {e \in ledger : e.owner = u /\ e.kind \in kinds}
  OBVIOUS
<1>2. IsFiniteSet(E) /\ \A e \in E : f[e] \in Nat
  BY <1>1, FS_Subset DEF CreditsTyped
<1>3. Total(u, kinds) = SumFunctionOnSet(f, E)
  BY <1>1 DEF Total
<1> QED
  BY <1>2, <1>3, SumNat

LEMMA RemainingIsNat ==
    ASSUME CreditsTyped, NEW u
    PROVE  Remaining(LotsOf(u)) \in Nat
<1>1. PICK f : f = [i \in DOMAIN lots |-> lots[i].remaining]
  OBVIOUS
<1>2. LotsOf(u) \subseteq DOMAIN lots
  BY DEF LotsOf
<1>3. IsFiniteSet(LotsOf(u)) /\ \A i \in LotsOf(u) : f[i] \in Nat
  BY <1>1, <1>2, LotTyped, FS_Subset
<1>4. Remaining(LotsOf(u)) = SumFunctionOnSet(f, LotsOf(u))
  BY <1>1 DEF Remaining
<1> QED
  BY <1>3, <1>4, SumNat

\* An entry counts for its owner and its kind.
LEMMA EntryStep ==
    ASSUME CreditsTyped, NEW u, NEW kind, NEW a \in Nat, NEW ref, AppendLedger(u, kind, a, ref),
           NEW v, NEW kinds
    PROVE  /\ IsFiniteSet(ledger') /\ \A e \in ledger' : e.amount \in Nat
           /\ Total(v, kinds)' = Total(v, kinds) + (IF v = u /\ kind \in kinds THEN a ELSE 0)
<1>1. PICK x : x = Entry(u, kind, a, ref) /\ ledger' = ledger \cup {x}
  BY DEF AppendLedger
<1>2. x.owner = u /\ x.kind = kind /\ x.amount = a /\ x \notin ledger
  BY <1>1 DEF Entry, AppendLedger
<1>3. IsFiniteSet(ledger') /\ \A e \in ledger' : e.amount \in Nat
  BY <1>1, <1>2, FS_AddElement DEF CreditsTyped
<1>4. PICK f, g, E, F :
        /\ f = [e \in ledger |-> e.amount] /\ E = {e \in ledger : e.owner = v /\ e.kind \in kinds}
        /\ g = [e \in ledger' |-> e.amount] /\ F = {e \in ledger' : e.owner = v /\ e.kind \in kinds}
  OBVIOUS
<1>5. Total(v, kinds) = SumFunctionOnSet(f, E) /\ Total(v, kinds)' = SumFunctionOnSet(g, F)
  BY <1>4 DEF Total
<1>6. IsFiniteSet(E) /\ \A e \in E : f[e] \in Int /\ g[e] = f[e]
  BY <1>1, <1>4, FS_Subset DEF CreditsTyped
<1>7. SumFunctionOnSet(f, E) \in Int
  BY <1>6, SumInt
<1>8. CASE v = u /\ kind \in kinds
  <2>1. F = E \cup {x} /\ x \notin E
    BY <1>1, <1>2, <1>4, <1>8
  <2>2. g[x] = a /\ g[x] \in Int
    BY <1>1, <1>2, <1>4
  <2>3. SumFunctionOnSet(g, F) = SumFunctionOnSet(f, E) + g[x]
    <3>1. IsFiniteSet(E)
      BY <1>6
    <3>2. g[x] \in Int /\ \A e \in E : f[e] \in Int /\ g[e] = f[e]
      BY <1>6, <2>2
    <3> QED
      BY <2>1, <3>1, <3>2, SumInsert
  <2> QED
    BY <1>3, <1>5, <1>8, <2>2, <2>3
<1>9. CASE ~(v = u /\ kind \in kinds)
  <2>1. F = E
    BY <1>1, <1>2, <1>4, <1>9
  <2>2. SumFunctionOnSet(g, F) = SumFunctionOnSet(f, E)
    BY <1>6, <2>1, SumSame
  <2> QED
    BY <1>3, <1>5, <1>7, <1>9, <2>2
<1> QED
  BY <1>8, <1>9

\* A new lot counts for its owner.
LEMMA LotStep ==
    ASSUME CreditsTyped, NEW u \in Users, NEW a \in Nat, NEW d \in 0..Never, AddLot(u, a, d),
           NEW v \in Users
    PROVE  /\ CreditsTyped'
           /\ Remaining(LotsOf(v))' = Remaining(LotsOf(v)) + (IF v = u THEN a ELSE 0)
<1>1. PICK n, lot : /\ n = Len(lots) + 1
                    /\ lot = [owner |-> u, remaining |-> a, expiry |-> d]
                    /\ lots' = Append(lots, lot)
  BY DEF AddLot
<1>2. PICK Lot : Lot = [owner : Users, remaining : Nat, expiry : 0..Never]
  OBVIOUS
<1>3. lots \in Seq(Lot) /\ lot \in Lot
  BY <1>1, <1>2 DEF CreditsTyped
<1>4. /\ lots' \in Seq(Lot)
      /\ DOMAIN lots' = DOMAIN lots \cup {n} /\ n \notin DOMAIN lots
      /\ lots'[n] = lot /\ \A i \in DOMAIN lots : lots'[i] = lots[i]
  BY <1>1, <1>3
<1>5. CreditsTyped'
  <2>1. AppendLedger(u, "CREDIT", a, <<"lot", Len(lots) + 1>>)
    BY DEF AddLot
  <2>2. IsFiniteSet(ledger') /\ \A e \in ledger' : e.amount \in Nat
    BY <2>1, EntryStep
  <2>3. lots' \in Seq([owner : Users, remaining : Nat, expiry : 0..Never])
    BY <1>2, <1>4
  <2> QED
    BY <2>2, <2>3 DEF CreditsTyped, Never
<1>6. PICK f, g, S, T :
        /\ f = [i \in DOMAIN lots |-> lots[i].remaining] /\ S = LotsOf(v)
        /\ g = [i \in DOMAIN lots' |-> lots'[i].remaining] /\ T = LotsOf(v)'
  OBVIOUS
<1>7. Remaining(LotsOf(v)) = SumFunctionOnSet(f, S) /\ Remaining(LotsOf(v))' = SumFunctionOnSet(g, T)
  BY <1>6 DEF Remaining
<1>8. S \subseteq DOMAIN lots
  BY <1>6 DEF LotsOf
<1>9. IsFiniteSet(S) /\ \A i \in S : f[i] \in Int /\ g[i] = f[i]
  BY <1>4, <1>6, <1>8, LotTyped, FS_Subset
<1>10. SumFunctionOnSet(f, S) \in Int
  BY <1>9, SumInt
<1>11. lot.owner = u /\ lot.remaining = a
  BY <1>1
<1>12. CASE v = u
  <2>1. T = S \cup {n} /\ n \notin S
    BY <1>4, <1>6, <1>11, <1>12 DEF LotsOf
  <2>2. g[n] = a /\ g[n] \in Int
    BY <1>4, <1>6, <1>11
  <2>3. SumFunctionOnSet(g, T) = SumFunctionOnSet(f, S) + g[n]
    BY <1>9, <2>1, <2>2, SumInsert
  <2> QED
    BY <1>5, <1>7, <1>12, <2>2, <2>3
<1>13. CASE v # u
  <2>1. T = S
    BY <1>4, <1>6, <1>11, <1>13 DEF LotsOf
  <2>2. SumFunctionOnSet(g, T) = SumFunctionOnSet(f, S)
    BY <1>9, <2>1, SumSame
  <2> QED
    BY <1>5, <1>7, <1>10, <1>13, <2>2
<1> QED
  BY <1>12, <1>13

\* A consumption takes what is asked for, no more and no less, from the lots of the user.
LEMMA ConsumeStep ==
    ASSUME CreditsTyped, NEW u \in Users, NEW a \in Nat, NEW ref, Consume(u, a, ref), NEW v \in Users
    PROVE  /\ CreditsTyped'
           /\ Remaining(LotsOf(v))' = Remaining(LotsOf(v)) - (IF v = u THEN a ELSE 0)
<1>1. PICK f, g, h, S :
        /\ f = [i \in DOMAIN lots |-> lots[i].remaining]
        /\ g = [i \in DOMAIN lots |-> Used(u, a, i)]
        /\ h = [i \in DOMAIN lots |-> f[i] - g[i]]
        /\ S = LotsOf(v)
  OBVIOUS
<1>2. /\ DOMAIN lots' = DOMAIN lots
      /\ \A i \in DOMAIN lots : /\ lots'[i].owner = lots[i].owner
                                /\ lots'[i].expiry = lots[i].expiry
                                /\ lots'[i].remaining = h[i]
  BY <1>1 DEF Consume
<1>3. \A i \in DOMAIN lots : f[i] \in Nat /\ g[i] \in 0..f[i] /\ h[i] \in Nat /\ f[i] = g[i] + h[i]
  <2>1. \A i \in DOMAIN lots : f[i] \in Nat /\ g[i] \in 0..f[i]
    BY <1>1, LotTyped, UsedOfLot
  <2> QED
    BY <1>1, <2>1
<1>4. CreditsTyped'
  <2>1. AppendLedger(u, "DEBIT", a, <<"use", ref>>)
    BY DEF Consume
  <2>2. IsFiniteSet(ledger') /\ \A e \in ledger' : e.amount \in Nat
    BY <2>1, EntryStep
  <2>3. PICK Lot : Lot = [owner : Users, remaining : Nat, expiry : 0..Never]
    OBVIOUS
  <2>4. lots \in Seq(Lot)
    BY <2>3 DEF CreditsTyped
  <2>5. DOMAIN lots = 1..Len(lots) /\ \A i \in DOMAIN lots : lots[i] \in Lot
    BY <2>4
  <2>6. \A i \in DOMAIN lots :
          [owner |-> lots[i].owner, expiry |-> lots[i].expiry,
           remaining |-> lots[i].remaining - Used(u, a, i)] \in Lot
    BY <1>1, <1>3, <2>3, <2>5
  <2>7. lots' \in [1..Len(lots) -> Lot] /\ Len(lots) \in Nat
    BY <2>4, <2>5, <2>6 DEF Consume
  <2>8. lots' \in Seq(Lot)
    BY <2>7
  <2> QED
    BY <2>2, <2>3, <2>8 DEF CreditsTyped, Never
<1>5. S \subseteq DOMAIN lots
  BY <1>1 DEF LotsOf
<1>6. IsFiniteSet(S) /\ \A i \in S : f[i] \in Int /\ g[i] \in Int /\ h[i] \in Int /\ f[i] = g[i] + h[i]
  BY <1>3, <1>5, LotTyped, FS_Subset
<1>7. Remaining(LotsOf(v)) = SumFunctionOnSet(f, S)
  BY <1>1 DEF Remaining
<1>8. Remaining(LotsOf(v))' = SumFunctionOnSet(h, S)
  <2>1. PICK k : k = [i \in DOMAIN lots' |-> lots'[i].remaining]
    OBVIOUS
  <2>2. LotsOf(v)' = S
    BY <1>1, <1>2 DEF LotsOf
  <2>3. Remaining(LotsOf(v))' = SumFunctionOnSet(k, S)
    BY <2>1, <2>2 DEF Remaining
  <2>4. \A i \in S : k[i] = h[i]
    BY <1>2, <1>5, <2>1
  <2> QED
    BY <1>6, <2>3, <2>4, SumSame
<1>9. SumFunctionOnSet(f, S) = SumFunctionOnSet(g, S) + SumFunctionOnSet(h, S)
  BY <1>6, SumAdd
<1>10. SumFunctionOnSet(g, S) = IF v = u THEN a ELSE 0
  <2>1. CASE v # u
    <3>1. \A i \in S : g[i] = 0
      BY <1>1, <1>5, <2>1, UsedOfLot DEF LotsOf, Usable
    <3> QED
      BY <1>6, <2>1, <3>1, SumZero
  <2>2. CASE v = u
    <3>1. PICK U : U = Usable(u)
      OBVIOUS
    <3>2. U \subseteq S /\ \A i \in S \ U : g[i] = 0
      BY <1>1, <1>5, <2>2, <3>1, UsedOfLot DEF LotsOf, Usable
    <3>3. SumFunctionOnSet(g, U) = SumFunctionOnSet(g, S)
      <4>1. \A i \in U : g[i] \in Int /\ g[i] = g[i]
        BY <1>6, <3>2
      <4> QED
        BY <1>6, <3>2, <4>1, SumWithin
    <3>4. SumFunctionOnSet(g, U) = IF SumFunctionOnSet(f, U) <= a THEN SumFunctionOnSet(f, U) ELSE a
      <4>1. U \subseteq Usable(u) /\ \A i \in U, j \in Usable(u) : Before(j, i) => j \in U
        BY <3>1
      <4> QED
        BY <1>1, <4>1, Spread
    <3>5. SumFunctionOnSet(f, U) >= a
      BY <1>1, <3>1 DEF Consume, Remaining
    <3>6. SumFunctionOnSet(f, U) \in Int
      <4>1. IsFiniteSet(U) /\ \A i \in U : f[i] \in Int
        BY <1>6, <3>2, FS_Subset
      <4> QED
        BY <4>1, SumInt
    <3> QED
      BY <2>2, <3>3, <3>4, <3>5, <3>6
  <2> QED
    BY <2>1, <2>2
<1>11. SumFunctionOnSet(f, S) \in Int /\ SumFunctionOnSet(g, S) \in Int /\ SumFunctionOnSet(h, S) \in Int
  BY <1>6, SumInt
<1> QED
  BY <1>4, <1>7, <1>8, <1>9, <1>10, <1>11

\* The books are right if nobody touches them, or if they add up.
BooksAgree == \A v \in Users : Remaining(LotsOf(v)) = Total(v, {"CREDIT"}) - Total(v, {"DEBIT"})

LEMMA BooksAddUp == CreditsTyped /\ BooksAgree => LotsMatchLedger
<1> SUFFICES ASSUME CreditsTyped, BooksAgree PROVE LotsMatchLedger
  OBVIOUS
<1>1. \A i \in DOMAIN lots : lots[i].remaining >= 0
  BY LotTyped
<1> QED
  BY <1>1 DEF LotsMatchLedger, BooksAgree, LotsOf

LEMMA GrantStep ==
    ASSUME CreditsTyped, LotsMatchLedger, NEW u \in Users, NEW a \in Nat, NEW d \in 0..Never, AddLot(u, a, d)
    PROVE  CreditsTyped' /\ LotsMatchLedger'
<1>1. CreditsTyped'
  BY LotStep
<1>2. AppendLedger(u, "CREDIT", a, <<"lot", Len(lots) + 1>>)
  BY DEF AddLot
<1>3. ASSUME NEW v \in Users
      PROVE  Remaining(LotsOf(v))' = Total(v, {"CREDIT"})' - Total(v, {"DEBIT"})'
  <2>1. Remaining(LotsOf(v))' = Remaining(LotsOf(v)) + (IF v = u THEN a ELSE 0)
    BY LotStep
  <2>2. /\ Total(v, {"CREDIT"})' = Total(v, {"CREDIT"}) + (IF v = u THEN a ELSE 0)
        /\ Total(v, {"DEBIT"})' = Total(v, {"DEBIT"})
    <3>0. ASSUME NEW kinds
          PROVE  Total(v, kinds)' = Total(v, kinds) + (IF v = u /\ "CREDIT" \in kinds THEN a ELSE 0)
      BY <1>2, EntryStep
    <3>1. Total(v, {"CREDIT"})' = Total(v, {"CREDIT"})
                                + (IF v = u /\ "CREDIT" \in {"CREDIT"} THEN a ELSE 0)
      BY <3>0
    <3>2. Total(v, {"DEBIT"})' = Total(v, {"DEBIT"})
                               + (IF v = u /\ "CREDIT" \in {"DEBIT"} THEN a ELSE 0)
      BY <3>0
    <3> QED
      BY <3>1, <3>2, TotalIsNat
  <2>3. Remaining(LotsOf(v)) = Total(v, {"CREDIT"}) - Total(v, {"DEBIT"})
    BY DEF LotsMatchLedger, LotsOf
  <2>4. Total(v, {"CREDIT"}) \in Nat /\ Total(v, {"DEBIT"}) \in Nat
    BY TotalIsNat
  <2> QED
    BY <2>1, <2>2, <2>3, <2>4
<1>4. BooksAgree'
  BY <1>3 DEF BooksAgree
<1>5. LotsMatchLedger'
  BY <1>1, <1>4, BooksAddUp, PTL
<1> QED
  BY <1>1, <1>5

LEMMA SpendStep ==
    ASSUME CreditsTyped, LotsMatchLedger, NEW u \in Users, NEW a \in Nat, NEW ref, Consume(u, a, ref)
    PROVE  CreditsTyped' /\ LotsMatchLedger'
<1>1. CreditsTyped'
  BY ConsumeStep
<1>2. AppendLedger(u, "DEBIT", a, <<"use", ref>>)
  BY DEF Consume
<1>3. ASSUME NEW v \in Users
      PROVE  Remaining(LotsOf(v))' = Total(v, {"CREDIT"})' - Total(v, {"DEBIT"})'
  <2>1. Remaining(LotsOf(v))' = Remaining(LotsOf(v)) - (IF v = u THEN a ELSE 0)
    BY ConsumeStep
  <2>2. /\ Total(v, {"CREDIT"})' = Total(v, {"CREDIT"})
        /\ Total(v, {"DEBIT"})' = Total(v, {"DEBIT"}) + (IF v = u THEN a ELSE 0)
    <3>0. ASSUME NEW kinds
          PROVE  Total(v, kinds)' = Total(v, kinds) + (IF v = u /\ "DEBIT" \in kinds THEN a ELSE 0)
      BY <1>2, EntryStep
    <3>1. Total(v, {"CREDIT"})' = Total(v, {"CREDIT"})
                                + (IF v = u /\ "DEBIT" \in {"CREDIT"} THEN a ELSE 0)
      BY <3>0
    <3>2. Total(v, {"DEBIT"})' = Total(v, {"DEBIT"})
                               + (IF v = u /\ "DEBIT" \in {"DEBIT"} THEN a ELSE 0)
      BY <3>0
    <3> QED
      BY <3>1, <3>2, TotalIsNat
  <2>3. Remaining(LotsOf(v)) = Total(v, {"CREDIT"}) - Total(v, {"DEBIT"})
    BY DEF LotsMatchLedger, LotsOf
  <2>4. Total(v, {"CREDIT"}) \in Nat /\ Total(v, {"DEBIT"}) \in Nat
    BY TotalIsNat
  <2> QED
    BY <2>1, <2>2, <2>3, <2>4
<1>4. BooksAgree'
  BY <1>3 DEF BooksAgree
<1>5. LotsMatchLedger'
  BY <1>1, <1>4, BooksAddUp, PTL
<1> QED
  BY <1>1, <1>5

\* Nothing else touches the lots or the ledger.
LEMMA CreditsStep ==
    BillingTypeOK /\ CreditsTyped /\ LotsMatchLedger /\ [WalletNext]_walletVars
    => CreditsTyped' /\ LotsMatchLedger'
<1> SUFFICES ASSUME BillingTypeOK, CreditsTyped, LotsMatchLedger, [WalletNext]_walletVars
             PROVE  CreditsTyped' /\ LotsMatchLedger'
  OBVIOUS
<1>1. CASE UNCHANGED <<lots, ledger>>
  BY <1>1 DEF CreditsTyped, Never, LotsMatchLedger, Remaining, Total
<1>2. Amounts \subseteq Nat /\ Never \in 0..Never
  BY NextBillingAssumption DEF Never
<1>3. CreditNext => UNCHANGED <<lots, ledger>> \/ (CreditsTyped' /\ LotsMatchLedger')
  <2>1. ASSUME NEW p \in Prices, NEW u \in Users, NEW k \in Keys, PurchaseCredits(u, p, k)
        PROVE  CreditsTyped' /\ LotsMatchLedger'
    <3>1. price[p] \in [state : {"none", "offered", "archived"}, amount : Amounts \cup {0}]
      BY DEF BillingTypeOK
    <3>2. price[p].amount \in Nat
      <4>1. price[p].amount \in Amounts \cup {0}
        BY <3>1
      <4>2. \A x \in Amounts \cup {0} : x \in Nat
        BY <1>2
      <4> QED
        BY <4>1, <4>2
    <3> QED
      BY <1>2, <2>1, <3>2, GrantStep DEF PurchaseCredits
  <2>2. ASSUME NEW admin \in Users, NEW u \in Users, NEW a \in Amounts, NEW d \in 0..Never,
               NEW k \in Keys, Grant(admin, u, a, d, k)
        PROVE  CreditsTyped' /\ LotsMatchLedger'
    BY <1>2, <2>2, GrantStep DEF Grant
  <2>3. ASSUME NEW u \in Users, NEW a \in Amounts, NEW k \in Keys, Consume(u, a, k)
        PROVE  CreditsTyped' /\ LotsMatchLedger'
    BY <1>2, <2>3, SpendStep
  <2>4. NextDay => UNCHANGED <<lots, ledger>>
    BY DEF NextDay
  <2> QED
    BY <2>1, <2>2, <2>3, <2>4 DEF CreditNext
<1>4. PlanNext => UNCHANGED <<lots, ledger>>
  BY DEF PlanNext, ArchivePrice, CreatePrice, CancelSubscription, CreateSubscription, creditVars
<1>5. WithdrawalNext => UNCHANGED <<lots, ledger>>
  BY DEF WithdrawalNext, AddAccount, RequestWithdrawal, CancelWithdrawal, Verify, Approve,
         ProcessBatch, Callback, billingVars, creditVars
<1>6. UNCHANGED walletVars => UNCHANGED <<lots, ledger>>
  BY DEF walletVars, billingVars, creditVars
<1> QED
  BY <1>1, <1>3, <1>4, <1>5, <1>6 DEF WalletNext, BillingNext

LEMMA CreditsInit == BillingInit => CreditsTyped /\ LotsMatchLedger
<1> SUFFICES ASSUME BillingInit PROVE CreditsTyped /\ LotsMatchLedger
  OBVIOUS
<1>1. lots = <<>> /\ ledger = {} /\ DOMAIN lots = {}
  BY DEF BillingInit
<1>2. CreditsTyped
  BY <1>1, FS_EmptySet DEF CreditsTyped
<1>3. ASSUME NEW v \in Users
      PROVE  Remaining(LotsOf(v)) = Total(v, {"CREDIT"}) - Total(v, {"DEBIT"})
  <2>1. LotsOf(v) = {}
    BY <1>1 DEF LotsOf
  <2>2. Remaining(LotsOf(v)) = 0
    BY <2>1, SumEmpty DEF Remaining
  <2>3. ASSUME NEW kinds PROVE Total(v, kinds) = 0
    <3>1. {e \in ledger : e.owner = v /\ e.kind \in kinds} = {}
      BY <1>1
    <3> QED
      BY <3>1, SumEmpty DEF Total
  <2>4. Total(v, {"CREDIT"}) = 0 /\ Total(v, {"DEBIT"}) = 0
    BY <2>3
  <2> QED
    BY <2>2, <2>4
<1> QED
  BY <1>2, <1>3, BooksAddUp DEF BooksAgree

LEMMA CreditsInvariant == WalletSpec => [](CreditsTyped /\ LotsMatchLedger)
<1>1. WalletSpec => []BillingTypeOK
  BY WalletTyped, PTL
<1> QED
  BY <1>1, CreditsInit, CreditsStep, PTL DEF WalletSpec, WalletNext, walletVars

\* billing.ts: what is left in a user's lots is what the ledger credits less what it debits.
THEOREM LotsAddUp == WalletSpec => []LotsMatchLedger
BY CreditsInvariant, PTL

-----------------------------------------------------------------------------
(* Withdrawals: what is paid or promised to a user *)

\* What a withdrawal that no callback overturned takes of what a user earned.
Claim(u, w) ==
    IF withdrawal[w].status \in Reserving \cup {"COMPLETED"} /\ Owner(w) = u /\ w \notin overturned
      THEN withdrawal[w].amount ELSE 0

Claimed(u) == SumFunctionOnSet([w \in Withdrawals |-> Claim(u, w)], Withdrawals)

\* A withdrawal that exists has an owner.
Owned == \A w \in Withdrawals : withdrawal[w].status # "none" => Owner(w) \in Users

OverturnedExists == \A w \in overturned : withdrawal[w].status # "none"

OwnersKnown == WithdrawalTypeOK /\ Accounted /\ Owned /\ OverturnedExists

Covered == \A u \in Users : Claimed(u) <= Earned(u)

LEMMA ClaimIsNat ==
    ASSUME WithdrawalTypeOK, NEW u, NEW w \in Withdrawals
    PROVE  withdrawal[w].amount \in Nat /\ Claim(u, w) \in Nat
<1>1. withdrawal[w].amount \in Amounts \cup {0}
  BY DEF WithdrawalTypeOK
<1>2. \A n \in Amounts \cup {0} : n \in Nat
  BY NextBillingAssumption
<1>3. withdrawal[w].amount \in Nat
  BY <1>1, <1>2
<1> QED
  BY <1>3 DEF Claim

\* What is claimed is one sum over all withdrawals, and the balance subtracts at least that.
LEMMA ClaimsAddUp ==
    ASSUME WithdrawalTypeOK, NEW u
    PROVE  /\ Sum(WithdrawalsOf(u, Reserving \cup {"COMPLETED"}) \ overturned) = Claimed(u)
           /\ Claimed(u) <= Completed(u) + Reserved(u)
           /\ Completed(u) \in Nat /\ Reserved(u) \in Nat /\ Claimed(u) \in Nat
<1>1. PICK f, g, C, R, A :
        /\ f = [w \in Withdrawals |-> withdrawal[w].amount]
        /\ g = [w \in Withdrawals |-> Claim(u, w)]
        /\ C = WithdrawalsOf(u, {"COMPLETED"}) /\ R = WithdrawalsOf(u, Reserving)
        /\ A = WithdrawalsOf(u, Reserving \cup {"COMPLETED"}) \ overturned
  OBVIOUS
<1>2. Completed(u) = SumFunctionOnSet(f, C) /\ Reserved(u) = SumFunctionOnSet(f, R)
  BY <1>1 DEF Completed, Reserved, Sum
<1>3. Claimed(u) = SumFunctionOnSet(g, Withdrawals)
  BY <1>1 DEF Claimed
<1>4. C \subseteq Withdrawals /\ R \subseteq Withdrawals /\ A \subseteq C \cup R /\ C \cap R = {}
  BY <1>1 DEF WithdrawalsOf, Reserving
<1>5. IsFiniteSet(Withdrawals) /\ IsFiniteSet(C) /\ IsFiniteSet(R) /\ IsFiniteSet(C \cup R)
  <2>1. C \cup R \subseteq Withdrawals
    BY <1>4
  <2> QED
    BY <1>4, <2>1, NextWithdrawalsAssumption, FS_Subset
<1>6. \A w \in Withdrawals : f[w] \in Nat /\ g[w] \in Nat
  BY <1>1, ClaimIsNat
<1>7. /\ \A w \in A : f[w] \in Int /\ g[w] = f[w]
      /\ \A w \in Withdrawals \ A : g[w] = 0
  BY <1>1, <1>4, <1>6 DEF WithdrawalsOf, Claim
<1>8. SumFunctionOnSet(f, A) = SumFunctionOnSet(g, Withdrawals)
  <2>1. A \subseteq Withdrawals
    BY <1>4
  <2> QED
    BY <1>5, <1>7, <2>1, SumWithin
<1>9. SumFunctionOnSet(f, C \cup R) = SumFunctionOnSet(f, C) + SumFunctionOnSet(f, R)
  <2>1. \A w \in C \cup R : f[w] \in Int
    BY <1>4, <1>6
  <2> QED
    BY <1>4, <1>5, <2>1, SumDisjoint
<1>10. SumFunctionOnSet(f, C) \in Nat /\ SumFunctionOnSet(f, R) \in Nat
  BY <1>4, <1>5, <1>6, SumNat
<1>11. SumFunctionOnSet(g, Withdrawals) \in Nat
  BY <1>5, <1>6, SumNat
<1>12. SumFunctionOnSet(g, Withdrawals) <= SumFunctionOnSet(f, C \cup R)
  <2>1. PICK h : h = [w \in Withdrawals |-> IF w \in C \cup R THEN f[w] ELSE 0]
    OBVIOUS
  <2>2. SumFunctionOnSet(f, C \cup R) = SumFunctionOnSet(h, Withdrawals)
    <3>1. C \cup R \subseteq Withdrawals
      BY <1>4
    <3>2. /\ \A w \in C \cup R : f[w] \in Int /\ h[w] = f[w]
          /\ \A w \in Withdrawals \ (C \cup R) : h[w] = 0
      BY <1>4, <1>6, <2>1
    <3> QED
      BY <1>5, <3>1, <3>2, SumWithin
  <2>3. \A w \in Withdrawals : g[w] \in Int /\ h[w] \in Int /\ g[w] <= h[w]
    BY <1>4, <1>6, <1>7, <2>1
  <2> QED
    BY <1>5, <2>2, <2>3, SumAtMost
<1> QED
  BY <1>1, <1>2, <1>3, <1>8, <1>9, <1>10, <1>11, <1>12 DEF Sum

\* The owner of a withdrawal never changes, for no account is given to somebody else.
LEMMA OwnersStay ==
    OwnersKnown /\ [WalletNext]_walletVars
    => /\ \A w \in Withdrawals : withdrawal[w].status # "none" =>
             withdrawal'[w].status # "none" /\ Owner(w)' = Owner(w)
       /\ overturned \subseteq overturned' /\ Owned' /\ OverturnedExists'
<1> SUFFICES ASSUME OwnersKnown, [WalletNext]_walletVars
             PROVE  /\ \A w \in Withdrawals : withdrawal[w].status # "none" =>
                          withdrawal'[w].status # "none" /\ Owner(w)' = Owner(w)
                    /\ overturned \subseteq overturned' /\ Owned' /\ OverturnedExists'
  OBVIOUS
<1> DEFINE Stay == /\ \A w \in Withdrawals : withdrawal[w].status # "none" =>
                         withdrawal'[w].status # "none" /\ Owner(w)' = Owner(w)
                   /\ overturned \subseteq overturned' /\ Owned' /\ OverturnedExists'
<1> USE DEF OwnersKnown, WithdrawalTypeOK, Accounted, Owned, OverturnedExists, Owner, Reserving
<1>1. UNCHANGED withdrawalVars => Stay
  BY DEF withdrawalVars
<1>2. ASSUME NEW u \in Users, NEW a \in Accounts, NEW v \in Providers, AddAccount(u, a, v)
      PROVE  Stay
  BY <1>2, NextCommonAssumption DEF AddAccount
<1>3. ASSUME NEW u \in Users, NEW a \in Accounts, NEW n \in Amounts, NEW w \in Withdrawals,
             NEW k \in Keys, RequestWithdrawal(u, a, n, w, k)
      PROVE  Stay
  BY <1>3 DEF RequestWithdrawal
<1>4. ASSUME NEW w \in Withdrawals, (\E u \in Users : CancelWithdrawal(u, w)) \/ Approve(w)
      PROVE  Stay
  BY <1>4 DEF CancelWithdrawal, Approve
<1>5. ASSUME NEW w \in Withdrawals, Verify(w)
      PROVE  Stay
  BY <1>5 DEF Verify
<1>6. ASSUME NEW w \in Withdrawals, NEW v \in Providers, NEW e \in Events,
             NEW outcome \in {"COMPLETED", "FAILED"}, Callback(v, e, w, outcome)
      PROVE  Stay
  BY <1>6 DEF Callback
<1>7. ProcessBatch => Stay
  BY DEF ProcessBatch
<1> QED
  BY <1>1, <1>2, <1>3, <1>4, <1>5, <1>6, <1>7 DEF WalletNext, WithdrawalNext, walletVars

\* A step claims no more of what v earned, or as much as the balance allows.
LEMMA ClaimsStep ==
    ASSUME OwnersKnown, [WalletNext]_walletVars, NEW v \in Users
    PROVE  \/ \A x \in Withdrawals : Claim(v, x)' <= Claim(v, x)
           \/ \E w \in Withdrawals, n \in Amounts :
                 /\ Balance(v) >= n
                 /\ UNCHANGED ledger
                 /\ Claim(v, w) = 0 /\ Claim(v, w)' = n
                 /\ \A x \in Withdrawals \ {w} : Claim(v, x)' = Claim(v, x)
<1> DEFINE Fewer == \A x \in Withdrawals : Claim(v, x)' <= Claim(v, x)
<1>0. \A x \in Withdrawals : withdrawal[x].amount \in Nat /\ Claim(v, x) \in Nat
  BY ClaimIsNat DEF OwnersKnown
<1>1. UNCHANGED withdrawalVars => Fewer
  BY <1>0 DEF withdrawalVars, Claim, Owner
<1>2. ASSUME NEW u \in Users, NEW a \in Accounts, NEW p \in Providers, AddAccount(u, a, p)
      PROVE  Fewer
  <2>1. \A x \in Withdrawals : withdrawal[x].status # "none" => Owner(x)' = Owner(x)
    BY OwnersStay
  <2>2. \A x \in Withdrawals : Claim(v, x)' = Claim(v, x)
    BY <1>2, <2>1 DEF AddAccount, Claim, Reserving
  <2> QED
    BY <1>0, <2>2
<1>3. ASSUME NEW u \in Users, NEW a \in Accounts, NEW n \in Amounts, NEW w \in Withdrawals,
             NEW k \in Keys, RequestWithdrawal(u, a, n, w, k)
      PROVE  \/ Fewer
             \/ /\ Balance(v) >= n
                /\ UNCHANGED ledger
                /\ Claim(v, w) = 0 /\ Claim(v, w)' = n
                /\ \A x \in Withdrawals \ {w} : Claim(v, x)' = Claim(v, x)
  <2>1. /\ withdrawal[w].status = "none" /\ account[a].owner = u /\ Balance(u) >= n
        /\ withdrawal' = [withdrawal EXCEPT ![w] = [status |-> "PENDING", account |-> a, amount |-> n]]
        /\ UNCHANGED <<account, ledger, overturned>>
    BY <1>3 DEF RequestWithdrawal, creditVars
  <2>2. \A x \in Withdrawals \ {w} : withdrawal'[x] = withdrawal[x]
    BY <2>1 DEF OwnersKnown, WithdrawalTypeOK
  <2>3. withdrawal'[w] = [status |-> "PENDING", account |-> a, amount |-> n]
    BY <2>1 DEF OwnersKnown, WithdrawalTypeOK
  <2>4. \A x \in Withdrawals \ {w} : Claim(v, x)' = Claim(v, x)
    BY <2>1, <2>2 DEF Claim, Owner
  <2>5. Claim(v, w) = 0
    BY <2>1 DEF Claim, Reserving
  <2>6. Owner(w)' = u
    BY <2>1, <2>3 DEF Owner
  <2>7. Claim(v, w)' = IF u = v THEN n ELSE 0
    <3>1. w \notin overturned'
      BY <2>1 DEF OwnersKnown, OverturnedExists
    <3> QED
      BY <2>3, <2>6, <3>1 DEF Claim, Reserving
  <2>8. CASE u = v
    BY <2>1, <2>4, <2>5, <2>7, <2>8
  <2>9. CASE u # v
    BY <1>0, <2>4, <2>5, <2>7, <2>9
  <2> QED
    BY <2>8, <2>9
<1>4. ASSUME NEW w \in Withdrawals, (\E u \in Users : CancelWithdrawal(u, w)) \/ Approve(w)
      PROVE  Fewer
  <2>1. PICK st \in {"CANCELLED", "APPROVED"} :
          /\ withdrawal[w].status = "PENDING"
          /\ withdrawal' = [withdrawal EXCEPT ![w].status = st]
          /\ UNCHANGED <<account, overturned>>
    BY <1>4 DEF CancelWithdrawal, Approve
  <2>2. /\ \A x \in Withdrawals \ {w} : withdrawal'[x] = withdrawal[x]
        /\ withdrawal'[w].status = st
        /\ withdrawal'[w].account = withdrawal[w].account /\ withdrawal'[w].amount = withdrawal[w].amount
    BY <2>1 DEF OwnersKnown, WithdrawalTypeOK
  <2> QED
    BY <1>0, <2>1, <2>2 DEF Claim, Owner, Reserving
<1>5. ASSUME NEW w \in Withdrawals, Verify(w)
      PROVE  Fewer
  <2>1. \A x \in Withdrawals : withdrawal[x].status # "none" => Owner(x)' = Owner(x)
    BY OwnersStay
  <2>2. \A x \in Withdrawals : Claim(v, x)' = Claim(v, x)
    BY <1>5, <2>1 DEF Verify, Claim, Reserving
  <2> QED
    BY <1>0, <2>2
<1>6. ASSUME NEW w \in Withdrawals, NEW p \in Providers, NEW e \in Events,
             NEW outcome \in {"COMPLETED", "FAILED"}, Callback(p, e, w, outcome)
      PROVE  Fewer
  <2>1. /\ withdrawal[w].status # "none"
        /\ withdrawal' = [withdrawal EXCEPT ![w].status = outcome]
        /\ UNCHANGED account
    BY <1>6 DEF Callback
  <2>2. /\ \A x \in Withdrawals \ {w} : withdrawal'[x] = withdrawal[x]
        /\ withdrawal'[w].status = outcome
        /\ withdrawal'[w].account = withdrawal[w].account /\ withdrawal'[w].amount = withdrawal[w].amount
    BY <2>1 DEF OwnersKnown, WithdrawalTypeOK
  <2>3. overturned \subseteq overturned'
    BY <1>6 DEF Callback
  <2>4. Owner(w)' = Owner(w) /\ \A x \in Withdrawals \ {w} : Claim(v, x)' <= Claim(v, x)
    BY <1>0, <2>1, <2>2, <2>3 DEF Claim, Owner
  <2>5. CASE <<withdrawal[w].status, outcome>> \in Overturning \/ outcome = "FAILED"
    <3>1. Claim(v, w)' = 0
      BY <1>6, <2>2, <2>5 DEF Callback, Claim, Reserving
    <3> QED
      BY <1>0, <2>4, <3>1
  <2>6. CASE outcome = "COMPLETED" /\ withdrawal[w].status \in Reserving \cup {"COMPLETED"}
    <3>1. Claim(v, w)' <= Claim(v, w)
      BY <1>0, <2>2, <2>3, <2>4, <2>6 DEF Claim
    <3> QED
      BY <2>4, <3>1
  <2>7. withdrawal[w].status \in {"COMPLETED", "FAILED", "CANCELLED"} \cup Reserving
    BY <2>1 DEF OwnersKnown, WithdrawalTypeOK
  <2> QED
    BY <2>5, <2>6, <2>7 DEF Overturning
<1>7. ProcessBatch => Fewer
  <2> SUFFICES ASSUME ProcessBatch, NEW x \in Withdrawals PROVE Claim(v, x)' = Claim(v, x)
    BY <1>0
  <2>1. CASE withdrawal'[x] = withdrawal[x]
    BY <2>1 DEF ProcessBatch, Claim, Owner
  <2>2. CASE withdrawal[x].status = "APPROVED" /\ withdrawal'[x] = [withdrawal[x] EXCEPT !.status = "COMPLETED"]
    <3>1. /\ withdrawal'[x].status = "COMPLETED" /\ withdrawal'[x].account = withdrawal[x].account
          /\ withdrawal'[x].amount = withdrawal[x].amount
      BY <2>2 DEF OwnersKnown, WithdrawalTypeOK
    <3> QED
      BY <2>2, <3>1 DEF ProcessBatch, Claim, Owner, Reserving
  <2> QED
    BY <2>1, <2>2 DEF ProcessBatch
<1> HIDE DEF Fewer
<1>8. WithdrawalNext => \/ Fewer
                        \/ \E w \in Withdrawals, n \in Amounts :
                              /\ Balance(v) >= n
                              /\ UNCHANGED ledger
                              /\ Claim(v, w) = 0 /\ Claim(v, w)' = n
                              /\ \A x \in Withdrawals \ {w} : Claim(v, x)' = Claim(v, x)
  BY <1>2, <1>3, <1>4, <1>5, <1>6, <1>7 DEF WithdrawalNext
<1>9. BillingNext /\ UNCHANGED withdrawalVars => Fewer
  BY <1>1
<1>10. UNCHANGED walletVars => Fewer
  BY <1>1 DEF walletVars
<1> QED
  BY <1>8, <1>9, <1>10 DEF WalletNext, Fewer

LEMMA EntryEarned ==
    ASSUME CreditsTyped, NEW u, NEW kind, NEW a \in Nat, NEW ref, AppendLedger(u, kind, a, ref), NEW v
    PROVE  Earned(v)' \in Nat /\ Earned(v)' >= Earned(v)
<1>1. PICK K : K = {"CREDIT"}
  OBVIOUS
<1>2. Total(v, K)' = Total(v, K) + (IF v = u /\ kind \in K THEN a ELSE 0)
  BY EntryStep
<1>3. Total(v, K) \in Nat
  BY TotalIsNat
<1>4. Total(v, K)' \in Nat /\ Total(v, K)' >= Total(v, K)
  BY <1>2, <1>3
<1> QED
  BY <1>1, <1>4 DEF Earned

\* What was earned stays earned.
LEMMA EarnedGrows ==
    ASSUME BillingTypeOK, CreditsTyped, [WalletNext]_walletVars, NEW v \in Users
    PROVE  Earned(v) \in Nat /\ Earned(v)' \in Nat /\ Earned(v)' >= Earned(v)
<1>1. Earned(v) \in Nat
  BY TotalIsNat DEF Earned
<1>2. CASE UNCHANGED ledger
  BY <1>1, <1>2 DEF Earned, Total
<1>3. ASSUME NEW u \in Users, NEW kind, NEW a \in Nat, NEW ref, AppendLedger(u, kind, a, ref)
      PROVE  Earned(v)' \in Nat /\ Earned(v)' >= Earned(v)
  BY <1>3, EntryEarned
<1>4. CreditNext => \/ UNCHANGED ledger
                    \/ \E u \in Users, kind \in {"CREDIT", "DEBIT"}, a \in Nat :
                          \E ref : AppendLedger(u, kind, a, ref)
  <2>1. \A a \in Amounts \cup {0} : a \in Nat
    BY NextBillingAssumption
  <2>2. ASSUME NEW p \in Prices, NEW u \in Users, NEW k \in Keys, PurchaseCredits(u, p, k)
        PROVE  \E a \in Nat : \E ref : AppendLedger(u, "CREDIT", a, ref)
    <3>1. price[p] \in [state : {"none", "offered", "archived"}, amount : Amounts \cup {0}]
      BY DEF BillingTypeOK
    <3>2. price[p].amount \in Amounts \cup {0}
      BY <3>1
    <3> QED
      BY <2>1, <2>2, <3>2 DEF PurchaseCredits, AddLot
  <2>3. ASSUME NEW admin \in Users, NEW u \in Users, NEW a \in Amounts, NEW d \in 0..Never,
               NEW k \in Keys, Grant(admin, u, a, d, k)
        PROVE  \E ref : AppendLedger(u, "CREDIT", a, ref)
    BY <2>3 DEF Grant, AddLot
  <2>4. ASSUME NEW u \in Users, NEW a \in Amounts, NEW k \in Keys, Consume(u, a, k)
        PROVE  \E ref : AppendLedger(u, "DEBIT", a, ref)
    BY <2>4 DEF Consume
  <2>5. NextDay => UNCHANGED ledger
    BY DEF NextDay
  <2> QED
    BY <2>1, <2>2, <2>3, <2>4, <2>5 DEF CreditNext
<1>5. PlanNext => UNCHANGED ledger
  BY DEF PlanNext, ArchivePrice, CreatePrice, CancelSubscription, CreateSubscription, creditVars
<1>6. WithdrawalNext => UNCHANGED ledger
  BY DEF WithdrawalNext, AddAccount, RequestWithdrawal, CancelWithdrawal, Verify, Approve,
         ProcessBatch, Callback, billingVars, creditVars
<1>7. UNCHANGED walletVars => UNCHANGED ledger
  BY DEF walletVars, billingVars, creditVars
<1> QED
  BY <1>1, <1>2, <1>3, <1>4, <1>5, <1>6, <1>7 DEF WalletNext, BillingNext

\* If nothing is claimed more, the sum is not more; if one withdrawal is new, its amount is.
LEMMA ClaimedStep ==
    ASSUME WithdrawalTypeOK, WithdrawalTypeOK', NEW v
    PROVE  /\ Claimed(v)' \in Nat
           /\ (\A x \in Withdrawals : Claim(v, x)' <= Claim(v, x)) => Claimed(v)' <= Claimed(v)
           /\ \A w \in Withdrawals, n \in Nat :
                 /\ Claim(v, w) = 0 /\ Claim(v, w)' = n
                 /\ \A x \in Withdrawals \ {w} : Claim(v, x)' = Claim(v, x)
                 => Claimed(v)' = Claimed(v) + n
<1>1. PICK f, g : /\ f = [x \in Withdrawals |-> Claim(v, x)]
                  /\ g = [x \in Withdrawals |-> Claim(v, x)']
  OBVIOUS
<1>2. \A x \in Withdrawals : Claim(v, x) \in Nat
  BY ClaimIsNat
<1>3. \A x \in Withdrawals : Claim(v, x)' \in Nat
  <2>1. \A x \in Withdrawals : withdrawal'[x].amount \in Amounts \cup {0}
    BY DEF WithdrawalTypeOK
  <2>2. \A n \in Amounts \cup {0} : n \in Nat
    BY NextBillingAssumption
  <2> QED
    BY <2>1, <2>2 DEF Claim
<1>4. \A x \in Withdrawals : f[x] = Claim(v, x) /\ g[x] = Claim(v, x)' /\ f[x] \in Int /\ g[x] \in Int
  BY <1>1, <1>2, <1>3
<1>5. IsFiniteSet(Withdrawals)
  BY NextWithdrawalsAssumption
<1>6. Claimed(v) = SumFunctionOnSet(f, Withdrawals) /\ Claimed(v)' = SumFunctionOnSet(g, Withdrawals)
  BY <1>1 DEF Claimed
<1>7. ASSUME \A x \in Withdrawals : Claim(v, x)' <= Claim(v, x)
      PROVE  Claimed(v)' <= Claimed(v)
  <2>1. \A x \in Withdrawals : g[x] \in Int /\ f[x] \in Int /\ g[x] <= f[x]
    BY <1>4, <1>7
  <2> QED
    BY <1>5, <1>6, <2>1, SumAtMost
<1>8. ASSUME NEW w \in Withdrawals, NEW n \in Nat, Claim(v, w) = 0, Claim(v, w)' = n,
             \A x \in Withdrawals \ {w} : Claim(v, x)' = Claim(v, x)
      PROVE  Claimed(v)' = Claimed(v) + n
  <2>1. g[w] = n /\ f[w] = 0 /\ \A x \in Withdrawals \ {w} : g[x] = f[x]
    BY <1>4, <1>8
  <2>2. SumFunctionOnSet(g, Withdrawals) = SumFunctionOnSet(f, Withdrawals) + (g[w] - f[w])
    <3>1. /\ \A x \in Withdrawals : f[x] \in Int
          /\ g[w] \in Int /\ \A x \in Withdrawals \ {w} : g[x] = f[x]
      BY <1>4, <2>1
    <3> QED
      BY <1>5, <3>1, SumChange
  <2> QED
    BY <1>6, <2>1, <2>2
<1>9. Claimed(v)' \in Nat
  <2>1. \A x \in Withdrawals : g[x] \in Nat
    BY <1>3, <1>4
  <2> QED
    BY <1>5, <1>6, <2>1, SumNat
<1> QED
  BY <1>7, <1>8, <1>9

\* The balance is never promised twice, in any order of the steps.
LEMMA CoveredStep ==
    /\ BillingTypeOK /\ CreditsTyped /\ OwnersKnown /\ WithdrawalTypeOK' /\ Covered
    /\ [WalletNext]_walletVars
    => Covered'
<1> SUFFICES ASSUME BillingTypeOK, CreditsTyped, OwnersKnown, WithdrawalTypeOK', Covered,
                    [WalletNext]_walletVars, NEW v \in Users
             PROVE  Claimed(v)' <= Earned(v)'
  BY DEF Covered
<1>1. WithdrawalTypeOK
  BY DEF OwnersKnown
<1>2. Earned(v) \in Nat /\ Earned(v)' \in Nat /\ Earned(v)' >= Earned(v)
  BY EarnedGrows
<1>3. Claimed(v) \in Nat
  BY <1>1, ClaimsAddUp
<1>4. Claimed(v)' \in Nat
  BY <1>1, ClaimedStep
<1>5. CASE \A x \in Withdrawals : Claim(v, x)' <= Claim(v, x)
  <2>1. Claimed(v)' <= Claimed(v)
    BY <1>1, <1>5, ClaimedStep
  <2>2. Claimed(v) <= Earned(v)
    BY DEF Covered
  <2> QED
    BY <1>2, <1>3, <1>4, <2>1, <2>2
<1>6. ASSUME NEW w \in Withdrawals, NEW n \in Amounts, Balance(v) >= n, UNCHANGED ledger,
             Claim(v, w) = 0, Claim(v, w)' = n,
             \A x \in Withdrawals \ {w} : Claim(v, x)' = Claim(v, x)
      PROVE  Claimed(v)' <= Earned(v)'
  <2>1. n \in Nat /\ n >= 1
    BY NextBillingAssumption
  <2>2. Claimed(v)' = Claimed(v) + n
    BY <1>1, <1>6, <2>1, ClaimedStep
  <2>3. PICK c, r, e : /\ c = Completed(v) /\ r = Reserved(v) /\ e = Earned(v)
                       /\ Balance(v) = Max({0, e - c - r})
    BY DEF Balance
  <2>4. c \in Nat /\ r \in Nat /\ c + r >= Claimed(v)
    BY <1>1, <2>3, ClaimsAddUp
  <2>5. PICK rest : rest = e - c - r
    OBVIOUS
  <2>6. rest \in Int /\ Max({0, rest}) = IF 0 >= rest THEN 0 ELSE rest
    BY <1>2, <2>3, <2>4, <2>5, MaxOfTwo
  <2>7. rest >= n
    BY <1>6, <2>1, <2>3, <2>5, <2>6
  <2>8. Earned(v)' = e
    BY <1>6, <2>3 DEF Earned, Total
  <2> QED
    BY <1>2, <1>3, <2>1, <2>2, <2>3, <2>4, <2>5, <2>7, <2>8
<1> QED
  BY <1>5, <1>6, ClaimsStep

LEMMA CoveredInit == BillingInit /\ WithdrawalInit => OwnersKnown /\ Covered
<1> SUFFICES ASSUME BillingInit, WithdrawalInit PROVE OwnersKnown /\ Covered
  OBVIOUS
<1>1. OwnersKnown
  BY DEF WithdrawalInit, OwnersKnown, WithdrawalTypeOK, Accounted, Owned, OverturnedExists
<1>2. ASSUME NEW v \in Users PROVE Claimed(v) <= Earned(v)
  <2>1. PICK g : g = [w \in Withdrawals |-> Claim(v, w)]
    OBVIOUS
  <2>2. \A w \in Withdrawals : g[w] = 0
    BY <2>1 DEF WithdrawalInit, Claim, Reserving
  <2>3. Claimed(v) = 0
    BY <2>1, <2>2, NextWithdrawalsAssumption, SumZero DEF Claimed
  <2>4. Earned(v) \in Nat
    BY CreditsInit, TotalIsNat DEF Earned
  <2> QED
    BY <2>3, <2>4
<1> QED
  BY <1>1, <1>2 DEF Covered

LEMMA CoveredInvariant == WalletSpec => [](OwnersKnown /\ Covered)
<1>1. WalletSpec => [](BillingTypeOK /\ CreditsTyped)
  BY WalletTyped, CreditsInvariant, PTL
<1>2. OwnersKnown /\ [WalletNext]_walletVars => OwnersKnown'
  <2>1. OwnersKnown /\ [WalletNext]_walletVars => WithdrawalTypeOK' /\ Accounted'
    BY WithdrawalTyped DEF OwnersKnown
  <2> QED
    BY <2>1, OwnersStay DEF OwnersKnown
<1>3. /\ BillingTypeOK /\ CreditsTyped /\ OwnersKnown /\ Covered /\ [WalletNext]_walletVars
      => OwnersKnown' /\ Covered'
  <2>1. OwnersKnown' => WithdrawalTypeOK'
    BY DEF OwnersKnown
  <2> QED
    BY <1>2, <2>1, CoveredStep
<1> QED
  BY <1>1, <1>3, CoveredInit, PTL DEF WalletSpec, WalletNext, walletVars

\* withdrawals.ts: a user is never paid, or promised, more than was earned, but for the
\* withdrawals whose outcome a callback overturned.
THEOREM NeverPromisedTwice == WalletSpec => []WalletCovered
<1>1. OwnersKnown /\ Covered => WalletCovered
  BY ClaimsAddUp DEF OwnersKnown, Covered, WalletCovered
<1> QED
  BY <1>1, CoveredInvariant, PTL

-----------------------------------------------------------------------------
\* router.ts: what the services guarantee, the API guarantees its clients, with requests to
\* all of them, scheduler runs and time in any order.
THEOREM RouterGuarantees ==
    RouterSpec => /\ [](SessionsFollowAccount /\ OneOpenLink /\ EntitlementsBacked)
                  /\ [](LotsMatchLedger /\ WalletCovered)
                  /\ KeepsSuperadmin /\ SessionFamilies /\ OwnerDecides
BY RouterKeepsIdentity, RouterKeepsOrganizations, RouterKeepsWallet, SessionsProved, OneLinkProved,
   SuperadminStays, FamiliesKept, OwnersDecide, EntitlementsProved, LotsAddUp, NeverPromisedTwice, PTL
=============================================================================
