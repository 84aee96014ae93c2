--------------------------- MODULE Payouts_proofs ---------------------------
(***************************************************************************)
(* Proofs about Payouts, for any number of withdrawals, workers and        *)
(* reconciliation runs and any set of hazards unless a theorem says        *)
(* otherwise.                                                              *)
(***************************************************************************)
EXTENDS Payouts, SumLemmas

Busy == {"markSent", "call", "apply", "catch"}

\* A worker past Read has an item, a reconciliation run past its poll too.
InFocus ==
    /\ \A k \in Workers :
        /\ pc[k] \in Busy => cur[k] \in Withdrawals
        /\ pc[k] = "apply" => reply[k] \in Results
    /\ \A r \in Reconcilers : recon[r].step # "idle" => recon[r].item \in Withdrawals

Typed == TypeOK /\ InFocus

-----------------------------------------------------------------------------
(* ApplyResult keeps the types of the database columns. *)

\* Whatever the provider answered, the columns it writes keep their types.
LEMMA ApplyResultTyped ==
    ASSUME TypeOK, NEW w \in Withdrawals, NEW r \in Results, ApplyResult(w, r)
    PROVE  /\ status' \in [Withdrawals -> Statuses]
           /\ ledger' \subseteq Withdrawals \X Kinds
           /\ outbox' \subseteq Withdrawals \X Results
           /\ leased' \in [Withdrawals -> BOOLEAN]
           /\ reference' \in [Withdrawals -> BOOLEAN]
           /\ UNCHANGED <<attempts, ready, approved>>
<1>1. Postings(w, r) \subseteq Withdrawals \X Kinds
  BY DEF Postings, Release, PaidEntry, Kinds, Results
<1>2. r \in Statuses
  BY DEF Results, Statuses, Open, Final
<1>3. CASE Applies(w, r)
  <2>1. status' \in [Withdrawals -> Statuses]
    BY <1>2, <1>3 DEF ApplyResult, TypeOK
  <2>2. ledger' \subseteq Withdrawals \X Kinds
    BY <1>1, <1>3 DEF ApplyResult, TypeOK
  <2>3. outbox' \subseteq Withdrawals \X Results
    BY <1>3 DEF ApplyResult, TypeOK
  <2>4. QED
    BY <1>3, <2>1, <2>2, <2>3 DEF ApplyResult, TypeOK
<1>4. CASE ~Applies(w, r)
  BY <1>4 DEF ApplyResult, TypeOK
<1>5. QED
  BY <1>3, <1>4

\* Before the first request every column has its type and no process has an item.
LEMMA TypedInit == Init => Typed
<1> SUFFICES ASSUME Init PROVE Typed
  OBVIOUS
<1>1. TypeOK
  BY PayoutsAssumption DEF Init, TypeOK, Statuses, Open, Final, ReconSteps, NoReading
<1>2. InFocus
  BY DEF Init, InFocus, Busy, NoReading
<1>3. QED
  BY <1>1, <1>2 DEF Typed

\* Every step keeps the types and leaves each busy process with an item.
LEMMA TypedStep == Typed /\ [Next]_vars => Typed'
<1> SUFFICES ASSUME TypeOK, InFocus, [Next]_vars
             PROVE  TypeOK' /\ InFocus'
  BY DEF Typed
<1> USE DEF vars, dbVars, ownerVars, providerVars, workerVars, reconVars, history, Mishap
<1>1. ASSUME NEW w \in Withdrawals, Request(w)
      PROVE  TypeOK' /\ InFocus'
  BY <1>1 DEF Request, TypeOK, InFocus, Statuses, Open, Reserve, Kinds
<1>2. ASSUME NEW w \in Withdrawals, Cancel(w)
      PROVE  TypeOK' /\ InFocus'
  BY <1>2 DEF Cancel, TypeOK, InFocus, Statuses, Final, Release, Kinds
<1>3. ASSUME NEW w \in Withdrawals, StartVerification(w)
      PROVE  TypeOK' /\ InFocus'
  BY <1>3 DEF StartVerification, AdminTransition, TypeOK, InFocus, Statuses, Open
<1>4. ASSUME NEW w \in Withdrawals, Approve(w)
      PROVE  TypeOK' /\ InFocus'
  BY <1>4 DEF Approve, AdminTransition, TypeOK, InFocus, Statuses, Open
<1>5. ASSUME NEW s \in {"VERIFIED", "SUSPENDED"}, SetAccountStatus(s)
      PROVE  TypeOK' /\ InFocus'
  BY <1>5 DEF SetAccountStatus, TypeOK, InFocus
<1>6. ASSUME SetOwnerActive
      PROVE  TypeOK' /\ InFocus'
  BY <1>6 DEF SetOwnerActive, TypeOK, InFocus
<1>7. ASSUME SwitchProvider
      PROVE  TypeOK' /\ InFocus'
  BY <1>7 DEF SwitchProvider, TypeOK, InFocus
<1>8. ASSUME NEW w \in Withdrawals, Settle(w)
      PROVE  TypeOK' /\ InFocus'
  BY <1>8 DEF Settle, TypeOK, InFocus
<1>9. ASSUME NEW w \in Withdrawals, NEW r \in Results, Callback(w, r)
      PROVE  TypeOK' /\ InFocus'
  BY <1>9, ApplyResultTyped DEF Callback, TypeOK, InFocus
<1>10. ASSUME NEW k \in Workers, Claim(k)
       PROVE  TypeOK' /\ InFocus'
  <2>1. PICK batch \in SUBSET Withdrawals :
          /\ todo' = [todo EXCEPT ![k] = batch]
          /\ leased' = [w \in Withdrawals |-> w \in batch \/ leased[w]]
          /\ attempts' = [w \in Withdrawals |->
                            IF w \in batch /\ attempts[w] < MaxAttempts
                            THEN attempts[w] + 1 ELSE attempts[w]]
    BY <1>10 DEF Claim, Batches, Eligible
  <2>2. attempts' \in [Withdrawals -> 0..MaxAttempts]
    BY <2>1, PayoutsAssumption DEF TypeOK
  <2>3. leased' \in [Withdrawals -> BOOLEAN]
    BY <2>1 DEF TypeOK
  <2>4. QED
    BY <1>10, <2>1, <2>2, <2>3 DEF Claim, TypeOK, InFocus, Busy
<1>11. ASSUME NEW k \in Workers, Read(k)
       PROVE  TypeOK' /\ InFocus'
  <2>1. PICK w \in Withdrawals :
          /\ cur' = [cur EXCEPT ![k] = w]
          /\ todo' = [todo EXCEPT ![k] = @ \ {w}]
          /\ pc' = [pc EXCEPT ![k] = IF ~providerUp THEN "catch"
                                     ELSE IF status[w] = "APPROVED" THEN "markSent"
                                     ELSE "call"]
    BY <1>11 DEF Read, TypeOK
  <2>2. QED
    BY <1>11, <2>1 DEF Read, TypeOK, InFocus, Busy
<1>12. ASSUME NEW k \in Workers, MarkSent(k)
       PROVE  TypeOK' /\ InFocus'
  BY <1>12 DEF MarkSent, TypeOK, InFocus, Busy, Statuses, Open
<1>13. ASSUME NEW k \in Workers, Call(k)
       PROVE  TypeOK' /\ InFocus'
  BY <1>13 DEF Call, Accept, ResultOf, Results, TypeOK, InFocus, Busy
<1>14. ASSUME NEW k \in Workers, CallFails(k)
       PROVE  TypeOK' /\ InFocus'
  BY <1>14 DEF CallFails, Accept, TypeOK, InFocus, Busy
<1>15. ASSUME NEW k \in Workers, Apply(k)
       PROVE  TypeOK' /\ InFocus'
  BY <1>15, ApplyResultTyped DEF Apply, ItemDone, TypeOK, InFocus, Busy
<1>16. ASSUME NEW k \in Workers, Catch(k)
       PROVE  TypeOK' /\ InFocus'
  BY <1>16 DEF Catch, ItemDone, TypeOK, InFocus, Busy, Statuses, Final, Release, Kinds
<1>17. ASSUME NEW k \in Workers, Crash(k)
       PROVE  TypeOK' /\ InFocus'
  BY <1>17, PayoutsAssumption DEF Crash, TypeOK, InFocus, Busy
<1>18. ASSUME NEW w \in Withdrawals, LeaseExpires(w)
       PROVE  TypeOK' /\ InFocus'
  BY <1>18 DEF LeaseExpires, TypeOK, InFocus
<1>19. ASSUME NEW w \in Withdrawals, BackoffElapses(w)
       PROVE  TypeOK' /\ InFocus'
  BY <1>19 DEF BackoffElapses, TypeOK, InFocus
<1>20. ASSUME NEW r \in Reconcilers, NEW w \in Withdrawals, ReconPoll(r, w)
       PROVE  TypeOK' /\ InFocus'
  <2>1. PICK a \in Results \cup {None, "QUERY_FAILED"} :
          recon' = [recon EXCEPT ![r] = [step |-> "apply", item |-> w,
                                         answer |-> a, fresh |-> None]]
    BY <1>20 DEF ReconPoll, PollAnswers, ResultOf, Results
  <2>2. QED
    BY <1>20, <2>1 DEF ReconPoll, TypeOK, InFocus, ReconSteps
<1>21. ASSUME NEW r \in Reconcilers, ReconApply(r)
       PROVE  TypeOK' /\ InFocus'
  <2>1. /\ status' \in [Withdrawals -> Statuses]
        /\ ledger' \subseteq Withdrawals \X Kinds
        /\ outbox' \subseteq Withdrawals \X Results
        /\ leased' \in [Withdrawals -> BOOLEAN]
        /\ reference' \in [Withdrawals -> BOOLEAN]
        /\ UNCHANGED <<attempts, ready, approved>>
    BY <1>21, ApplyResultTyped DEF ReconApply, TypeOK, InFocus
  <2>2. QED
    BY <1>21, <2>1 DEF ReconApply, TypeOK, InFocus, ReconSteps
<1>22. ASSUME NEW r \in Reconcilers, ReconFresh(r)
       PROVE  TypeOK' /\ InFocus'
  BY <1>22 DEF ReconFresh, TypeOK, InFocus, ReconSteps
<1>23. ASSUME NEW r \in Reconcilers, ReconCompare(r)
       PROVE  TypeOK' /\ InFocus'
  <2>1. \A c : c = Discrepancy(recon[r].item, recon[r].fresh, recon[r].answer)
                 => c = None \/ c \in Codes
    BY DEF Discrepancy, Codes
  <2>2. anomalies' \subseteq Withdrawals \X Codes
    BY <1>23, <2>1 DEF ReconCompare, TypeOK, InFocus
  <2>3. QED
    BY <1>23, <2>2 DEF ReconCompare, TypeOK, InFocus, ReconSteps, NoReading
<1>24. ASSUME IncomeBooked \/ RefundConfirmed
       PROVE  TypeOK' /\ InFocus'
  <2>1. income' \in 0..MaxIncome
    BY <1>24, PayoutsAssumption DEF IncomeBooked, RefundConfirmed, TypeOK
  <2>2. QED
    BY <1>24, <2>1 DEF IncomeBooked, RefundConfirmed, TypeOK, InFocus
<1>25. CASE UNCHANGED vars
  BY <1>25 DEF TypeOK, InFocus
<1>26. QED
  BY <1>1, <1>2, <1>3, <1>4, <1>5, <1>6, <1>7, <1>8, <1>9, <1>10, <1>11, <1>12,
     <1>13, <1>14, <1>15, <1>16, <1>17, <1>18, <1>19, <1>20, <1>21, <1>22, <1>23, <1>24, <1>25
  DEF Next, OwnerStep, AdminStep, ProviderStep, WorkerStep, ReconStep

\* Type correctness of the whole system, with what each process is working on.
THEOREM TypeCorrect == Spec => []TypeOK
<1>1. Typed => TypeOK
  BY DEF Typed
<1>2. QED
  BY <1>1, TypedInit, TypedStep, PTL DEF Spec

-----------------------------------------------------------------------------
(* What the processes know is true, and stays true while they act on it. *)

\* The provider said r of w, or could have said it.
Truthful(w, r) ==
    /\ payout[w] # "none"
    /\ r = "PAID" => payout[w] = "paid"
    /\ r = "FAILED" => payout[w] = "failed"

Informed ==
    /\ \A k \in Workers : pc[k] = "apply" => Truthful(cur[k], reply[k])
    /\ \A r \in Reconcilers :
        recon[r].step = "apply" /\ recon[r].answer \in Results
            => Truthful(recon[r].item, recon[r].answer)
    /\ \A w \in Withdrawals : reference[w] => payout[w] # "none"

\* An outcome the provider settled is never unsettled.
PayoutGrows ==
    \A w \in Withdrawals :
        /\ payout[w] # "none" => payout'[w] # "none"
        /\ payout[w] \in {"paid", "failed"} => payout'[w] = payout[w]

\* An answer that was true when it was given stays true while it is in flight.
LEMMA TruthStays ==
    ASSUME PayoutGrows, NEW w \in Withdrawals, NEW r, Truthful(w, r)
    PROVE  Truthful(w, r)'
  BY DEF PayoutGrows, Truthful

\* No step makes the provider forget a payout or change a settled one.
LEMMA PayoutStep == Typed /\ [Next]_vars => PayoutGrows
<1> SUFFICES ASSUME TypeOK, InFocus, [Next]_vars PROVE PayoutGrows
  BY DEF Typed
<1> USE DEF vars, dbVars, ownerVars, providerVars, workerVars, reconVars, history, Mishap
<1>1. ASSUME NEW w \in Withdrawals, Settle(w)
      PROVE  PayoutGrows
  BY <1>1 DEF Settle, PayoutGrows, TypeOK
<1>2. ASSUME NEW k \in Workers, Call(k) \/ CallFails(k)
      PROVE  PayoutGrows
  BY <1>2 DEF Call, CallFails, Accept, PayoutGrows, TypeOK
<1>3. CASE UNCHANGED payout
  BY <1>3 DEF PayoutGrows
<1>4. QED
  BY <1>1, <1>2, <1>3
  DEF Next, OwnerStep, AdminStep, ProviderStep, WorkerStep, ReconStep, Request, Cancel,
      StartVerification, Approve, SetAccountStatus, SetOwnerActive, IncomeBooked,
      RefundConfirmed, SwitchProvider, Callback, Claim, Read, MarkSent, Apply, Catch, Crash,
      LeaseExpires, BackoffElapses, ReconPoll, ReconApply, ReconFresh, ReconCompare

\* provider_reference is only written for a payout the provider knows.
LEMMA ApplyResultReference ==
    ASSUME TypeOK, NEW w \in Withdrawals, NEW r \in Results, ApplyResult(w, r),
           payout[w] # "none", UNCHANGED payout,
           \A v \in Withdrawals : reference[v] => payout[v] # "none"
    PROVE  \A v \in Withdrawals : reference'[v] => payout'[v] # "none"
  BY DEF ApplyResult, TypeOK

\* The answers workers and reconciliation runs carry between a call and
\* applyResult stay true, whatever the others do in between.
LEMMA InformedStep == Typed /\ Informed /\ [Next]_vars => Informed'
<1> SUFFICES ASSUME TypeOK, InFocus, Informed, [Next]_vars PROVE Informed'
  BY DEF Typed
<1> USE DEF vars, dbVars, ownerVars, providerVars, workerVars, reconVars, history, Mishap
<1>0. PayoutGrows
  BY PayoutStep DEF Typed
<1>1. ASSUME UNCHANGED <<pc, cur, reply, recon, reference>>
      PROVE  Informed'
  BY <1>0, <1>1, TruthStays DEF Informed, InFocus, Busy, PayoutGrows
<1>2. ASSUME NEW w \in Withdrawals, NEW r \in Results, Callback(w, r)
      PROVE  Informed'
  BY <1>2, ApplyResultReference DEF Callback, Informed, Truthful
<1>3. ASSUME NEW k \in Workers, Claim(k) \/ Read(k) \/ MarkSent(k) \/ Crash(k)
      PROVE  Informed'
  BY <1>3 DEF Claim, Read, MarkSent, Crash, Informed, Truthful, TypeOK
<1>4. ASSUME NEW k \in Workers, Call(k)
      PROVE  Informed'
  <2>1. cur[k] \in Withdrawals
    BY <1>4 DEF Call, InFocus, Busy
  <2>2. /\ payout'[cur[k]] # "none"
        /\ ResultOf(payout'[cur[k]]) = "PAID" => payout'[cur[k]] = "paid"
        /\ ResultOf(payout'[cur[k]]) = "FAILED" => payout'[cur[k]] = "failed"
    BY <1>4, <2>1 DEF Call, Accept, ResultOf, TypeOK
  <2>3. ASSUME NEW j \in Workers, pc'[j] = "apply"
        PROVE  Truthful(cur[j], reply[j])'
    <3>1. CASE j = k
      BY <1>4, <2>2, <3>1 DEF Call, TypeOK, Truthful
    <3>2. CASE j # k
      BY <1>4, <1>0, <2>3, <3>2, TruthStays
      DEF Call, TypeOK, Informed, InFocus, Busy, Truthful, PayoutGrows
    <3>3. QED
      BY <3>1, <3>2
  <2>4. ASSUME NEW r \in Reconcilers, recon'[r].step = "apply", recon'[r].answer \in Results
        PROVE  Truthful(recon[r].item, recon[r].answer)'
    BY <1>4, <1>0, <2>4 DEF Call, Informed, InFocus, Truthful, PayoutGrows
  <2>5. \A w \in Withdrawals : reference'[w] => payout'[w] # "none"
    BY <1>4, <1>0 DEF Call, Informed, PayoutGrows
  <2>6. QED
    BY <2>3, <2>4, <2>5 DEF Informed
<1>5. ASSUME NEW k \in Workers, CallFails(k)
      PROVE  Informed'
  BY <1>5, <1>0 DEF CallFails, Informed, InFocus, Busy, Truthful, PayoutGrows, TypeOK
<1>6. ASSUME NEW k \in Workers, Apply(k)
      PROVE  Informed'
  <2>1. /\ cur[k] \in Withdrawals /\ reply[k] \in Results
        /\ payout[cur[k]] # "none"
    BY <1>6 DEF Apply, InFocus, Busy, Informed, Truthful
  <2>2. \A w \in Withdrawals : reference'[w] => payout'[w] # "none"
    BY <1>6, <2>1, ApplyResultReference DEF Apply, Informed
  <2>3. QED
    BY <1>6, <2>2 DEF Apply, ItemDone, Informed, Truthful, TypeOK
<1>7. ASSUME NEW k \in Workers, Catch(k)
      PROVE  Informed'
  BY <1>7 DEF Catch, ItemDone, Informed, Truthful, TypeOK
<1>8. ASSUME NEW r \in Reconcilers, NEW w \in Withdrawals, ReconPoll(r, w)
      PROVE  Informed'
  <2>1. PICK a \in PollAnswers(w) :
          recon' = [recon EXCEPT ![r] = [step |-> "apply", item |-> w,
                                         answer |-> a, fresh |-> None]]
    BY <1>8 DEF ReconPoll
  <2>2. a \in Results => Truthful(w, a)
    BY <2>1, PayoutsAssumption DEF PollAnswers, ResultOf, Results, Informed, Truthful, TypeOK
  <2>3. QED
    BY <1>8, <2>1, <2>2 DEF ReconPoll, Informed, Truthful, TypeOK
<1>9. ASSUME NEW r \in Reconcilers, ReconApply(r)
      PROVE  Informed'
  <2>1. \A w \in Withdrawals : reference'[w] => payout'[w] # "none"
    <3>1. CASE recon[r].answer \in Results
      BY <1>9, <3>1, ApplyResultReference DEF ReconApply, Informed, InFocus, Truthful
    <3>2. CASE recon[r].answer \notin Results
      BY <1>9, <3>2 DEF ReconApply, Informed
    <3>3. QED
      BY <3>1, <3>2
  <2>2. QED
    BY <1>9, <2>1 DEF ReconApply, Informed, Truthful, TypeOK
<1>10. ASSUME NEW r \in Reconcilers, ReconFresh(r) \/ ReconCompare(r)
       PROVE  Informed'
  BY <1>10 DEF ReconFresh, ReconCompare, NoReading, Informed, Truthful, TypeOK
<1>11. QED
  BY <1>1, <1>2, <1>3, <1>4, <1>5, <1>6, <1>7, <1>8, <1>9, <1>10
  DEF Next, OwnerStep, AdminStep, ProviderStep, WorkerStep, ReconStep, Request, Cancel,
      StartVerification, Approve, SetAccountStatus, SetOwnerActive, IncomeBooked,
      RefundConfirmed, SwitchProvider, Settle, LeaseExpires, BackoffElapses
-----------------------------------------------------------------------------
(* The books: status, ledger, outbox and the provider agree. *)

Books == LedgerMatchesStatus /\ PaidOnlyByProvider /\ OutboxTellsOutcome

\* Applying a true answer keeps status, ledger, outbox and provider in agreement.
LEMMA ApplyResultBooks ==
    ASSUME TypeOK, Books, NEW w \in Withdrawals, NEW r \in Results,
           Truthful(w, r), ApplyResult(w, r), UNCHANGED payout
    PROVE  Books'
<1> USE DEF Reserve, Release, PaidEntry
<1>1. CASE Applies(w, r)
  <2>1. status' = [status EXCEPT ![w] = r] /\ status[w] \in {"APPROVED", "SENT", "PENDING"}
    BY <1>1 DEF ApplyResult, Applies
  <2>2. ledger' = ledger \cup Postings(w, r) /\ outbox' = outbox \cup {<<w, r>>}
    BY <1>1 DEF ApplyResult
  <2>3. CASE r = "PAID"
    BY <2>1, <2>2, <2>3 DEF Postings, Books, LedgerMatchesStatus, PaidOnlyByProvider,
                            OutboxTellsOutcome, TypeOK, Truthful
  <2>4. CASE r = "FAILED"
    BY <2>1, <2>2, <2>4 DEF Postings, Books, LedgerMatchesStatus, PaidOnlyByProvider,
                            OutboxTellsOutcome, TypeOK
  <2>5. CASE r = "PENDING"
    BY <2>1, <2>2, <2>5 DEF Postings, Books, LedgerMatchesStatus, PaidOnlyByProvider,
                            OutboxTellsOutcome, TypeOK
  <2>6. QED
    BY <2>3, <2>4, <2>5 DEF Results
<1>2. CASE ~Applies(w, r)
  BY <1>2 DEF ApplyResult, Books, LedgerMatchesStatus, PaidOnlyByProvider, OutboxTellsOutcome
<1>3. QED
  BY <1>1, <1>2

\* Every step keeps status, ledger, outbox and provider in agreement.
LEMMA BooksStep == Typed /\ Informed /\ Books /\ [Next]_vars => Books'
<1> SUFFICES ASSUME TypeOK, InFocus, Informed, Books, [Next]_vars PROVE Books'
  BY DEF Typed
<1> USE DEF vars, dbVars, ownerVars, providerVars, workerVars, reconVars, history, Mishap,
            Books, LedgerMatchesStatus, PaidOnlyByProvider, OutboxTellsOutcome
<1>0. PayoutGrows
  BY PayoutStep DEF Typed
<1>1. CASE UNCHANGED <<status, ledger, outbox>>
  BY <1>0, <1>1 DEF PayoutGrows, Reserve, Release, PaidEntry
<1>2. ASSUME NEW w \in Withdrawals, Request(w)
      PROVE  Books'
  BY <1>2 DEF Request, TypeOK, Reserve, Release, PaidEntry
<1>3. ASSUME NEW w \in Withdrawals, Cancel(w)
      PROVE  Books'
  BY <1>3 DEF Cancel, Transitions, TypeOK, Statuses, Open, Final, Reserve, Release, PaidEntry
<1>4. ASSUME NEW w \in Withdrawals, StartVerification(w) \/ Approve(w)
      PROVE  Books'
  BY <1>4 DEF StartVerification, Approve, AdminTransition, Transitions, TypeOK,
              Statuses, Open, Final, Reserve, Release, PaidEntry
<1>5. ASSUME NEW w \in Withdrawals, NEW r \in Results, Callback(w, r)
      PROVE  Books'
  <2>1. Truthful(w, r)
    BY <1>5 DEF Callback, ResultOf, Truthful
  <2>2. QED
    BY <1>5, <2>1, ApplyResultBooks DEF Callback
<1>6. ASSUME NEW k \in Workers, MarkSent(k)
      PROVE  Books'
  BY <1>6 DEF MarkSent, Transitions, TypeOK, InFocus, Busy, Statuses, Open, Final,
              Reserve, Release, PaidEntry
<1>7. ASSUME NEW k \in Workers, Apply(k)
      PROVE  Books'
  BY <1>7, ApplyResultBooks DEF Apply, InFocus, Busy, Informed
<1>8. ASSUME NEW k \in Workers, Catch(k)
      PROVE  Books'
  BY <1>8 DEF Catch, Exhausted, TypeOK, InFocus, Busy, Reserve, Release, PaidEntry
<1>9. ASSUME NEW r \in Reconcilers, ReconApply(r)
      PROVE  Books'
  <2>1. CASE recon[r].answer \in Results
    BY <1>9, <2>1, ApplyResultBooks DEF ReconApply, InFocus, Informed
  <2>2. CASE recon[r].answer \notin Results
    BY <1>9, <2>2, <1>1 DEF ReconApply
  <2>3. QED
    BY <2>1, <2>2
<1>10. QED
  BY <1>1, <1>2, <1>3, <1>4, <1>5, <1>6, <1>7, <1>8, <1>9
  DEF Next, OwnerStep, AdminStep, ProviderStep, WorkerStep, ReconStep, SetAccountStatus,
      SetOwnerActive, IncomeBooked, RefundConfirmed, SwitchProvider, Settle, Claim, Read, Call,
      CallFails, Crash, LeaseExpires, BackoffElapses, ReconPoll, ReconFresh, ReconCompare

BooksInv == Typed /\ Informed /\ Books

\* The inductive invariant behind the theorems on the books.
LEMMA BooksInvariant == Spec => []BooksInv
<1>1. Init => Informed /\ Books
  BY DEF Init, Informed, Books, LedgerMatchesStatus, PaidOnlyByProvider,
         OutboxTellsOutcome, NoReading
<1>2. BooksInv /\ [Next]_vars => BooksInv'
  BY TypedStep, InformedStep, BooksStep DEF BooksInv
<1>3. QED
  BY <1>1, <1>2, TypedInit, PTL DEF Spec, BooksInv

\* One reservation for each withdrawal, released exactly when it is closed and
\* debited exactly when it is paid, however the processes interleave.
THEOREM LedgerConsistency == Spec => []LedgerMatchesStatus
<1>1. BooksInv => LedgerMatchesStatus
  BY DEF BooksInv, Books
<1>2. QED
  BY <1>1, BooksInvariant, PTL

\* No withdrawal is PAID unless the provider paid it.
THEOREM PaidByProvider == Spec => []PaidOnlyByProvider
<1>1. BooksInv => PaidOnlyByProvider
  BY DEF BooksInv, Books
<1>2. QED
  BY <1>1, BooksInvariant, PTL

\* The outbox announces final outcomes that stay true, and every payment.
THEOREM OutboxIsRight == Spec => []OutboxTellsOutcome
<1>1. BooksInv => OutboxTellsOutcome
  BY DEF BooksInv, Books
<1>2. QED
  BY <1>1, BooksInvariant, PTL

\* No step changes the status of a closed withdrawal.
LEMMA FinalStep ==
    ASSUME Typed, [Next]_vars, NEW w \in Withdrawals, status[w] \in Final
    PROVE  status'[w] = status[w]
<1> USE DEF Typed, vars, dbVars, ownerVars, providerVars, workerVars, reconVars, history, Mishap
<1>1. ASSUME NEW v, NEW r, ApplyResult(v, r)
      PROVE  status'[w] = status[w]
  BY <1>1 DEF ApplyResult, Applies, TypeOK, Final
<1>2. ASSUME NEW v \in Withdrawals,
             Request(v) \/ Cancel(v) \/ StartVerification(v) \/ Approve(v)
      PROVE  status'[w] = status[w]
  BY <1>2 DEF Request, Cancel, StartVerification, Approve, AdminTransition,
              Transitions, TypeOK, Final
<1>3. ASSUME NEW k \in Workers, MarkSent(k) \/ Catch(k)
      PROVE  status'[w] = status[w]
  BY <1>3 DEF MarkSent, Catch, Exhausted, Transitions, TypeOK, Final
<1>4. ASSUME NEW r \in Reconcilers, ReconApply(r)
      PROVE  status'[w] = status[w]
  BY <1>1, <1>4 DEF ReconApply
<1>5. QED
  BY <1>1, <1>2, <1>3, <1>4
  DEF Next, OwnerStep, AdminStep, ProviderStep, WorkerStep, ReconStep, Callback, Apply,
      SetAccountStatus, SetOwnerActive, IncomeBooked, RefundConfirmed, SwitchProvider, Settle,
      Claim, Read, Call, CallFails, Crash, LeaseExpires, BackoffElapses, ReconPoll, ReconFresh,
      ReconCompare

\* A closed withdrawal keeps its status for ever.
THEOREM Finality == Spec => FinalIsFinal
<1>1. Typed /\ [Next]_vars =>
        [\A w \in Withdrawals : status[w] \in Final => status'[w] = status[w]]_status
  BY FinalStep
<1>2. QED
  BY <1>1, TypedInit, TypedStep, PTL DEF Spec, FinalIsFinal
-----------------------------------------------------------------------------
(* What a reconciliation run compares *)

\* A run that has read a final status reads the entries of a withdrawal that still has it.
Compared ==
    \A r \in Reconcilers :
        recon[r].step = "compare" /\ recon[r].fresh \in Final => status[recon[r].item] = recon[r].fresh

\* What was read of a final status stays true until the entries are read.
LEMMA ComparedStep == Typed /\ Compared /\ [Next]_vars => Compared'
<1> SUFFICES ASSUME Typed, TypeOK, InFocus, Compared, [Next]_vars, NEW r \in Reconcilers,
                    recon'[r].step = "compare", recon'[r].fresh \in Final
             PROVE  status'[recon'[r].item] = recon'[r].fresh
  BY DEF Typed, Compared
<1> USE DEF vars, dbVars, ownerVars, providerVars, workerVars, reconVars, history, Mishap
<1>1. CASE recon'[r] = recon[r]
  <2>1. recon[r].item \in Withdrawals /\ status[recon[r].item] = recon[r].fresh
    BY <1>1 DEF InFocus, Compared
  <2>2. QED
    BY <1>1, <2>1, FinalStep
<1>2. CASE recon'[r] # recon[r]
  <2>1. PICK x \in Reconcilers : ReconStep(x)
    BY <1>2
    DEF Next, OwnerStep, AdminStep, ProviderStep, WorkerStep, Request, Cancel, StartVerification,
        Approve, SetAccountStatus, SetOwnerActive, IncomeBooked, RefundConfirmed, SwitchProvider,
        Settle, Callback, Claim, Read, MarkSent, Call, CallFails, Apply, Catch, Crash,
        LeaseExpires, BackoffElapses
  <2>2. ReconFresh(r)
    BY <1>2, <2>1 DEF ReconStep, ReconPoll, ReconApply, ReconFresh, ReconCompare, NoReading, TypeOK
  <2>3. QED
    BY <2>2 DEF ReconFresh, TypeOK
<1>3. QED
  BY <1>1, <1>2

\* With books that agree, what is compared has no discrepancy of the ledger.
LEMMA NoAnomalyStep ==
    BooksInv /\ Compared /\ NoLedgerAnomaly /\ [Next]_vars => NoLedgerAnomaly'
<1> SUFFICES ASSUME TypeOK, LedgerMatchesStatus, InFocus, Compared, NoLedgerAnomaly, [Next]_vars
             PROVE  NoLedgerAnomaly'
  BY DEF BooksInv, Books, Typed
<1> USE DEF vars, dbVars, ownerVars, providerVars, workerVars, reconVars, history, Mishap
<1>1. CASE anomalies' = anomalies
  BY <1>1 DEF NoLedgerAnomaly
<1>2. ASSUME NEW r \in Reconcilers, ReconCompare(r)
      PROVE  NoLedgerAnomaly'
  <2> DEFINE w == recon[r].item
             code == Discrepancy(w, recon[r].fresh, recon[r].answer)
  <2>1. w \in Withdrawals /\ (recon[r].fresh \in Final => status[w] = recon[r].fresh)
    BY <1>2 DEF ReconCompare, InFocus, Compared
  <2>2. code \in {None, "PROVIDER_QUERY_FAILED"}
    BY <2>1 DEF Discrepancy, LedgerMatchesStatus, Final
  <2>3. anomalies' = IF code = None THEN anomalies ELSE anomalies \cup {<<w, code>>}
    BY <1>2 DEF ReconCompare
  <2>4. QED
    BY <2>2, <2>3 DEF NoLedgerAnomaly
<1>3. QED
  BY <1>1, <1>2
  DEF Next, OwnerStep, AdminStep, ProviderStep, WorkerStep, ReconStep, Request, Cancel,
      StartVerification, Approve, SetAccountStatus, SetOwnerActive, IncomeBooked,
      RefundConfirmed, SwitchProvider, Settle, Callback, Claim, Read, MarkSent, Call,
      CallFails, Apply, Catch, Crash, LeaseExpires, BackoffElapses, ReconPoll, ReconApply,
      ReconFresh

\* Reconciliation never reports a discrepancy of the ledger, although workers and callbacks
\* write between its two readings.
THEOREM NothingToReport == Spec => []NoLedgerAnomaly
<1>1. Init => Compared /\ NoLedgerAnomaly
  BY DEF Init, Compared, NoLedgerAnomaly, NoReading
<1>2. BooksInv => Typed
  BY DEF BooksInv
<1>3. QED
  BY <1>1, <1>2, BooksInvariant, ComparedStep, NoAnomalyStep, PTL DEF Spec
-----------------------------------------------------------------------------
(* The administrators' approval precedes everything the workers do. *)

AfterApproval == {"APPROVED", "SENT", "PENDING", "PAID", "FAILED"}

Approvals ==
    /\ \A w \in Withdrawals : status[w] \in AfterApproval => approved[w]
    /\ \A k \in Workers : \A w \in todo[k] : approved[w]
    /\ \A k \in Workers : pc[k] \in Busy => approved[cur[k]]
    /\ ContactOnlyAfterApproval

\* An approval is never withdrawn.
LEMMA ApprovalStays ==
    Typed /\ [Next]_vars => \A w \in Withdrawals : approved[w] => approved'[w]
<1> SUFFICES ASSUME TypeOK, InFocus, [Next]_vars
             PROVE  \A w \in Withdrawals : approved[w] => approved'[w]
  BY DEF Typed
<1> USE DEF vars, dbVars, ownerVars, providerVars, workerVars, reconVars, history, Mishap
<1>1. ASSUME NEW v \in Withdrawals, Approve(v)
      PROVE  \A w \in Withdrawals : approved[w] => approved'[w]
  BY <1>1 DEF Approve, TypeOK
<1>2. CASE UNCHANGED approved
  BY <1>2
<1>3. QED
  BY <1>1, <1>2
  DEF Next, OwnerStep, AdminStep, ProviderStep, WorkerStep, ReconStep, Request, Cancel,
      StartVerification, SetAccountStatus, SetOwnerActive, IncomeBooked, RefundConfirmed,
      SwitchProvider, Settle, Callback, Claim, Read, MarkSent, Call, CallFails, Apply, Catch,
      Crash, LeaseExpires, BackoffElapses, ReconPoll, ReconApply, ReconFresh, ReconCompare,
      ApplyResult

\* Whatever a step writes, it writes to a withdrawal that is approved by then.
LEMMA ApprovalsStep == Typed /\ Approvals /\ [Next]_vars => Approvals'
<1> SUFFICES ASSUME TypeOK, InFocus, Approvals, [Next]_vars PROVE Approvals'
  BY DEF Typed
<1> USE DEF vars, dbVars, ownerVars, providerVars, workerVars, reconVars, history, Mishap
<1>0. \A w \in Withdrawals : approved[w] => approved'[w]
  BY ApprovalStays DEF Typed
<1>1. CASE UNCHANGED <<status, todo, pc, cur, payout>>
  BY <1>0, <1>1 DEF Approvals, ContactOnlyAfterApproval, TypeOK, InFocus, Busy
<1>2. ASSUME NEW w \in Withdrawals, Request(w) \/ Cancel(w) \/ StartVerification(w)
      PROVE  Approvals'
  BY <1>2 DEF Request, Cancel, StartVerification, AdminTransition, Approvals, AfterApproval,
              ContactOnlyAfterApproval, TypeOK
<1>3. ASSUME NEW w \in Withdrawals, Approve(w)
      PROVE  Approvals'
  BY <1>3, <1>0 DEF Approve, AdminTransition, Approvals, AfterApproval,
                    ContactOnlyAfterApproval, TypeOK, InFocus, Busy
<1>4. ASSUME NEW w \in Withdrawals, Settle(w)
      PROVE  Approvals'
  BY <1>4 DEF Settle, Approvals, ContactOnlyAfterApproval, TypeOK
<1>5. ASSUME NEW w \in Withdrawals, NEW r \in Results, ApplyResult(w, r),
             UNCHANGED payout
      PROVE  /\ \A v \in Withdrawals : status'[v] \in AfterApproval => approved'[v]
             /\ ContactOnlyAfterApproval'
             /\ UNCHANGED approved
  BY <1>5 DEF ApplyResult, Applies, Approvals, AfterApproval, ContactOnlyAfterApproval, TypeOK
<1>6. ASSUME NEW w \in Withdrawals, NEW r \in Results, Callback(w, r)
      PROVE  Approvals'
  BY <1>5, <1>6 DEF Callback, Approvals
<1>7. ASSUME NEW k \in Workers, Claim(k)
      PROVE  Approvals'
  <2>1. PICK batch \in SUBSET Eligible : todo' = [todo EXCEPT ![k] = batch]
    BY <1>7 DEF Claim, Batches
  <2>2. \A w \in batch : approved[w]
    BY DEF Eligible, Approvals, AfterApproval
  <2>3. QED
    BY <1>7, <2>1, <2>2 DEF Claim, Approvals, ContactOnlyAfterApproval, TypeOK, Busy
<1>8. ASSUME NEW k \in Workers, Read(k)
      PROVE  Approvals'
  <2>1. PICK w \in todo[k] :
          /\ cur' = [cur EXCEPT ![k] = w]
          /\ todo' = [todo EXCEPT ![k] = @ \ {w}]
    BY <1>8 DEF Read
  <2>2. QED
    BY <1>8, <2>1 DEF Read, Approvals, ContactOnlyAfterApproval, TypeOK, Busy
<1>9. ASSUME NEW k \in Workers, MarkSent(k)
      PROVE  Approvals'
  BY <1>9 DEF MarkSent, Approvals, ContactOnlyAfterApproval, AfterApproval, TypeOK, InFocus, Busy
<1>10. ASSUME NEW k \in Workers, Call(k) \/ CallFails(k)
       PROVE  Approvals'
  BY <1>10 DEF Call, CallFails, Accept, Approvals, ContactOnlyAfterApproval, TypeOK, InFocus, Busy
<1>11. ASSUME NEW k \in Workers, Apply(k)
       PROVE  Approvals'
  <2>1. cur[k] \in Withdrawals /\ reply[k] \in Results
    BY <1>11 DEF Apply, InFocus, Busy
  <2>2. /\ \A v \in Withdrawals : status'[v] \in AfterApproval => approved'[v]
        /\ ContactOnlyAfterApproval'
        /\ UNCHANGED approved
    BY <1>5, <1>11, <2>1 DEF Apply
  <2>3. QED
    BY <1>11, <2>2 DEF Apply, ItemDone, Approvals, TypeOK, Busy
<1>12. ASSUME NEW k \in Workers, Catch(k)
       PROVE  Approvals'
  <2>1. cur[k] \in Withdrawals /\ approved[cur[k]]
    BY <1>12 DEF Catch, InFocus, Busy, Approvals
  <2>2. \A v \in Withdrawals : status'[v] \in AfterApproval => approved[v]
    BY <1>12, <2>1 DEF Catch, Approvals, TypeOK
  <2>3. QED
    BY <1>12, <2>2 DEF Catch, ItemDone, Approvals, ContactOnlyAfterApproval, TypeOK, Busy
<1>13. ASSUME NEW k \in Workers, Crash(k)
       PROVE  Approvals'
  BY <1>13 DEF Crash, Approvals, ContactOnlyAfterApproval, TypeOK, Busy
<1>14. ASSUME NEW r \in Reconcilers, ReconApply(r)
       PROVE  Approvals'
  <2>1. CASE recon[r].answer \in Results
    BY <1>5, <1>14, <2>1 DEF ReconApply, InFocus, Approvals
  <2>2. CASE recon[r].answer \notin Results
    BY <1>1, <1>14, <2>2 DEF ReconApply
  <2>3. QED
    BY <2>1, <2>2
<1>15. QED
  BY <1>1, <1>2, <1>3, <1>4, <1>6, <1>7, <1>8, <1>9, <1>10, <1>11, <1>12, <1>13, <1>14
  DEF Next, OwnerStep, AdminStep, ProviderStep, WorkerStep, ReconStep, SetAccountStatus,
      SetOwnerActive, IncomeBooked, RefundConfirmed, SwitchProvider, LeaseExpires,
      BackoffElapses, ReconPoll, ReconFresh, ReconCompare

\* The provider only hears of withdrawals an administrator approved.
THEOREM ContactAfterApproval == Spec => []ContactOnlyAfterApproval
<1>1. Init => Approvals
  BY DEF Init, Approvals, AfterApproval, Busy, ContactOnlyAfterApproval
<1>2. Typed /\ Approvals /\ [Next]_vars => (Typed /\ Approvals)'
  BY TypedStep, ApprovalsStep
<1>3. Approvals => ContactOnlyAfterApproval
  BY DEF Approvals
<1>4. QED
  BY <1>1, <1>2, <1>3, TypedInit, PTL DEF Spec

-----------------------------------------------------------------------------
(* The refinement: every step holds, returns or spends one amount, or stutters. *)

\* The entries of a withdrawal add up to what it weighs in the contract.
LEMMA NetIsWeight ==
    ASSUME TypeOK, LedgerMatchesStatus, NEW w \in Withdrawals
    PROVE  NetOf(w) = Contract!Weight(w)
<1>1. Amount[w] \in Int
  BY PayoutsAssumption
<1>2. status[w] \in Statuses
  BY DEF TypeOK
<1>3. QED
  BY <1>1, <1>2 DEF NetOf, Contract!Weight, Fund, FundOf, LedgerMatchesStatus, Statuses, Open, Final

\* The balance the code computes from the ledger is the contract's free amount.
LEMMA AvailableIsFree ==
    ASSUME TypeOK, LedgerMatchesStatus
    PROVE  Available = Contract!Free
<1>1. \A w \in Withdrawals : NetOf(w) = Contract!Weight(w)
  BY NetIsWeight
<1>2. [w \in Withdrawals |-> NetOf(w)] = [w \in Withdrawals |-> Contract!Weight(w)]
  BY <1>1
<1>3. ASSUME NEW f
      PROVE  SumFunction(f) = Contract!SumFunction(f)
  BY DEF SumFunction, SumFunctionOnSet, FoldFunctionOnSet, MapThenFoldSet,
         Contract!SumFunction, Contract!SumFunctionOnSet, Contract!FoldFunctionOnSet,
         Contract!MapThenFoldSet
<1>4. QED
  BY <1>2, <1>3 DEF Available, Contract!Free

\* A step that gives one withdrawal a new status gives one fund a new state.
LEMMA FundStep ==
    ASSUME TypeOK, NEW w \in Withdrawals, NEW s, status' = [status EXCEPT ![w] = s]
    PROVE  Fund' = [Fund EXCEPT ![w] = FundOf(s)]
  BY DEF TypeOK, Fund

\* Between two open statuses nothing happens to the money.
LEMMA OpenToOpen ==
    ASSUME TypeOK, NEW w \in Withdrawals, NEW s \in Open, status[w] \in Open,
           status' = [status EXCEPT ![w] = s], UNCHANGED income
    PROVE  [Contract!Next]_<<income, Fund>>
<1>1. FundOf(s) = "held" /\ FundOf(status[w]) = "held"
  BY DEF FundOf, Open
<1>2. QED
  BY <1>1, FundStep DEF Fund

\* Closing an open withdrawal returns or spends its amount.
LEMMA OpenToFinal ==
    ASSUME TypeOK, NEW w \in Withdrawals, NEW s \in {"FAILED", "CANCELLED", "PAID"},
           status[w] \in Open, status' = [status EXCEPT ![w] = s], UNCHANGED income
    PROVE  [Contract!Next]_<<income, Fund>>
<1>1. FundOf(status[w]) = "held"
  BY DEF FundOf, Open
<1>2. FundOf(s) = IF s = "PAID" THEN "spent" ELSE "returned"
  BY DEF FundOf, Open
<1>3. CASE s = "PAID"
  <2>1. Contract!Spend(w)
    BY <1>1, <1>2, <1>3, FundStep DEF Fund, Contract!Spend, Contract!Moves
  <2>2. QED
    BY <2>1 DEF Contract!Next
<1>4. CASE s # "PAID"
  <2>1. Contract!Return(w)
    BY <1>1, <1>2, <1>4, FundStep DEF Fund, Contract!Return, Contract!Moves
  <2>2. QED
    BY <2>1 DEF Contract!Next
<1>5. QED
  BY <1>3, <1>4

\* A result of the provider is a stutter, a return or a spending.
LEMMA ApplyResultRefines ==
    ASSUME TypeOK, NEW w \in Withdrawals, NEW r \in Results, ApplyResult(w, r), UNCHANGED income
    PROVE  [Contract!Next]_<<income, Fund>>
<1>1. CASE Applies(w, r)
  <2>1. status[w] \in Open /\ status' = [status EXCEPT ![w] = r]
    BY <1>1 DEF ApplyResult, Applies, Open
  <2>2. r \in Open \/ r \in {"FAILED", "CANCELLED", "PAID"}
    BY DEF Results, Open
  <2>3. QED
    BY <2>1, <2>2, OpenToOpen, OpenToFinal
<1>2. CASE ~Applies(w, r)
  BY <1>2 DEF ApplyResult, Fund
<1>3. QED
  BY <1>1, <1>2

\* Every step of the withdrawals is a step of the contract or leaves the funds alone.
LEMMA RefinementStep ==
    Typed /\ Books /\ [Next]_vars
        => [Contract!Next]_<<income, Fund>>
<1> SUFFICES ASSUME TypeOK, InFocus, LedgerMatchesStatus, [Next]_vars
             PROVE  [Contract!Next]_<<income, Fund>>
  BY DEF Typed, Books
<1> USE DEF vars, dbVars, ownerVars, providerVars, workerVars, reconVars, history, Mishap
<1>1. CASE UNCHANGED <<status, income>>
  BY <1>1 DEF Fund
<1>2. ASSUME NEW w \in Withdrawals, Request(w)
      PROVE  [Contract!Next]_<<income, Fund>>
  <2>1. status' = [status EXCEPT ![w] = "REQUESTED"] /\ status[w] = "NONE" /\ UNCHANGED income
    BY <1>2 DEF Request
  <2>2. FundOf("REQUESTED") = "held" /\ FundOf("NONE") = "idle"
    BY DEF FundOf, Open
  <2>3. Amount[w] <= Contract!Free
    BY <1>2, AvailableIsFree DEF Request
  <2>4. Contract!Hold(w)
    BY <2>1, <2>2, <2>3, FundStep DEF Fund, Contract!Hold, Contract!Moves
  <2>5. QED
    BY <2>4 DEF Contract!Next
<1>3. ASSUME NEW w \in Withdrawals, Cancel(w)
      PROVE  [Contract!Next]_<<income, Fund>>
  <2>1. status' = [status EXCEPT ![w] = "CANCELLED"] /\ status[w] \in Open /\ UNCHANGED income
    BY <1>3 DEF Cancel, Transitions, TypeOK, Statuses, Open, Final
  <2>2. QED
    BY <2>1, OpenToFinal
<1>4. ASSUME NEW w \in Withdrawals, StartVerification(w) \/ Approve(w)
      PROVE  [Contract!Next]_<<income, Fund>>
  <2>1. PICK s \in {"VERIFYING", "APPROVED"} :
          /\ status' = [status EXCEPT ![w] = s] /\ s \in Transitions[status[w]]
          /\ UNCHANGED income
    BY <1>4 DEF StartVerification, Approve, AdminTransition
  <2>2. status[w] \in Open /\ s \in Open
    BY <2>1 DEF Transitions, TypeOK, Statuses, Open, Final
  <2>3. QED
    BY <2>1, <2>2, OpenToOpen
<1>5. ASSUME NEW w \in Withdrawals, NEW r \in Results, Callback(w, r)
      PROVE  [Contract!Next]_<<income, Fund>>
  BY <1>5, ApplyResultRefines DEF Callback
<1>6. ASSUME NEW k \in Workers, MarkSent(k)
      PROVE  [Contract!Next]_<<income, Fund>>
  <2>1. CASE "SENT" \in Transitions[status[cur[k]]]
    <3>1. /\ cur[k] \in Withdrawals
          /\ status' = [status EXCEPT ![cur[k]] = "SENT"] /\ UNCHANGED income
      BY <1>6, <2>1 DEF MarkSent, InFocus, Busy
    <3>2. status[cur[k]] \in Open /\ "SENT" \in Open
      BY <2>1, <3>1 DEF Transitions, TypeOK, Statuses, Open, Final
    <3>3. QED
      BY <3>1, <3>2, OpenToOpen
  <2>2. CASE "SENT" \notin Transitions[status[cur[k]]]
    BY <1>6, <2>2 DEF MarkSent, Fund
  <2>3. QED
    BY <2>1, <2>2
<1>7. ASSUME NEW k \in Workers, Apply(k)
      PROVE  [Contract!Next]_<<income, Fund>>
  BY <1>7, ApplyResultRefines DEF Apply, InFocus, Busy
<1>8. ASSUME NEW k \in Workers, Catch(k)
      PROVE  [Contract!Next]_<<income, Fund>>
  <2>1. CASE Exhausted(cur[k])
    <3>1. /\ cur[k] \in Withdrawals
          /\ status' = [status EXCEPT ![cur[k]] = "FAILED"]
          /\ status[cur[k]] \in Open
          /\ UNCHANGED income
      BY <1>8, <2>1 DEF Catch, Exhausted, InFocus, Busy, Open
    <3>2. QED
      BY <3>1, OpenToFinal
  <2>2. CASE ~Exhausted(cur[k])
    BY <1>8, <2>2 DEF Catch, Fund
  <2>3. QED
    BY <2>1, <2>2
<1>9. ASSUME NEW r \in Reconcilers, ReconApply(r)
      PROVE  [Contract!Next]_<<income, Fund>>
  <2>1. CASE recon[r].answer \in Results
    BY <1>9, <2>1, ApplyResultRefines DEF ReconApply, InFocus
  <2>2. CASE recon[r].answer \notin Results
    BY <1>9, <2>2 DEF ReconApply, Fund
  <2>3. QED
    BY <2>1, <2>2
<1>10. ASSUME IncomeBooked \/ RefundConfirmed
       PROVE  [Contract!Next]_<<income, Fund>>
  <2>1. income' \in Nat
    BY <1>10, PayoutsAssumption DEF IncomeBooked, RefundConfirmed, TypeOK
  <2>2. Contract!Earn
    BY <1>10, <2>1 DEF IncomeBooked, RefundConfirmed, Fund, Contract!Earn
  <2>3. QED
    BY <2>2 DEF Contract!Next
<1>11. QED
  BY <1>1, <1>2, <1>3, <1>4, <1>5, <1>6, <1>7, <1>8, <1>9, <1>10
  DEF Next, OwnerStep, AdminStep, ProviderStep, WorkerStep, ReconStep,
      SetAccountStatus, SetOwnerActive, SwitchProvider, Settle, Claim, Read, Call,
      CallFails, Crash, LeaseExpires, BackoffElapses, ReconPoll, ReconFresh, ReconCompare

\* The withdrawals implement the contract: an amount is held only out of what is
\* free, and then returned or spent once and for ever.
THEOREM Refinement == Spec => KeepsContract
<1>1. Init => Contract!Init
  BY DEF Init, Contract!Init, Fund, FundOf, Open
<1>2. BooksInv /\ [Next]_vars
        => [Contract!Next]_<<income, Fund>>
  BY RefinementStep DEF BooksInv
<1>3. QED
  BY <1>1, <1>2, BooksInvariant, PTL DEF Spec, KeepsContract, Contract!Spec

-----------------------------------------------------------------------------
(* The balance, which is the free amount of the contract. *)

Weights == [w \in Withdrawals |-> Contract!Weight(w)]

\* The balance is the income and what the withdrawals weigh.
LEMMA AvailableIsWeighed ==
    ASSUME TypeOK, LedgerMatchesStatus
    PROVE  /\ Available = income + SumFunctionOnSet(Weights, Withdrawals)
           /\ Contract!Free = Available
           /\ Available \in Int
           /\ \A w \in Withdrawals : Weights[w] \in Int
<1>1. \A w \in Withdrawals : Weights[w] \in Int
  BY PayoutsAssumption DEF Weights, Contract!Weight
<1>2. \A w \in Withdrawals : NetOf(w) = Contract!Weight(w)
  BY NetIsWeight
<1>3. [w \in Withdrawals |-> NetOf(w)] = Weights
  BY <1>2 DEF Weights
<1>4. SumFunction(Weights) = SumFunctionOnSet(Weights, Withdrawals)
  BY SumIsOnDomain DEF Weights
<1>5. SumFunctionOnSet(Weights, Withdrawals) \in Int
  BY <1>1, SumInt, PayoutsAssumption
<1>6. income \in Int
  BY PayoutsAssumption DEF TypeOK
<1>7. QED
  BY <1>1, <1>3, <1>4, <1>5, <1>6, AvailableIsFree DEF Available

\* A step of the contract that is not a refund takes no more than is free.
LEMMA SolventStep ==
    ASSUME TypeOK, LedgerMatchesStatus, TypeOK', LedgerMatchesStatus',
           [Contract!Next]_<<income, Fund>>
    PROVE  Available' < 0 => Available' >= Available \/ income' < income
<1> DEFINE sum == SumFunctionOnSet(Weights, Withdrawals)
<1>1. (TypeOK /\ LedgerMatchesStatus)'
        => (/\ Available = income + sum /\ Available \in Int
            /\ \A w \in Withdrawals : Weights[w] \in Int)'
  BY AvailableIsWeighed, PTL
<1>2. /\ Available = income + sum /\ Available' = income' + sum'
      /\ Available \in Int /\ Available' \in Int
      /\ \A w \in Withdrawals : Weights[w] \in Int /\ Weights'[w] \in Int
  BY <1>1, AvailableIsWeighed
<1>3. sum \in Int /\ sum' \in Int /\ income \in Int /\ income' \in Int
  BY <1>2, SumInt, PayoutsAssumption DEF TypeOK
<1>4. CASE UNCHANGED Fund
  <2>1. Weights' = Weights
    BY <1>4 DEF Weights, Contract!Weight
  <2>2. sum' = sum
    BY <2>1
  <2>3. Available' = Available + (income' - income)
    BY <1>2, <1>3, <2>2
  <2>4. QED
    BY <1>2, <1>3, <2>3
<1>5. ASSUME NEW v \in Withdrawals, Contract!Hold(v) \/ Contract!Return(v) \/ Contract!Spend(v)
      PROVE  Available' < 0 => Available' >= Available
  <2> USE DEF Contract!Hold, Contract!Return, Contract!Spend, Contract!Moves
  <2>1. \A w \in Withdrawals \ {v} : Weights'[w] = Weights[w]
    BY <1>5 DEF Weights, Contract!Weight, Fund
  <2>2. sum' = sum + (Weights'[v] - Weights[v])
    <3> HIDE DEF Weights
    <3>1. QED
      BY <1>2, <2>1, SumChange, PayoutsAssumption
  <2>3. Amount[v] \in Nat /\ income' = income
    BY <1>5, PayoutsAssumption
  <2>4. v \in DOMAIN Fund
    BY DEF Fund
  <2>5. CASE Contract!Hold(v)
    <3>1. Amount[v] <= Available
      BY <2>5, AvailableIsWeighed
    <3>2. Fund[v] = "idle" /\ Fund'[v] = "held"
      BY <2>4, <2>5
    <3>3. Weights[v] = 0 /\ Weights'[v] = -Amount[v]
      BY <3>2 DEF Weights, Contract!Weight
    <3>4. QED
      BY <1>2, <1>3, <2>2, <2>3, <3>1, <3>3
  <2>6. CASE Contract!Return(v) \/ Contract!Spend(v)
    <3>1. Fund[v] = "held" /\ Fund'[v] \in {"returned", "spent"}
      BY <2>4, <2>6
    <3>2. Weights[v] = -Amount[v] /\ Weights'[v] \in {0, -Amount[v]}
      BY <3>1 DEF Weights, Contract!Weight
    <3>3. QED
      BY <1>2, <1>3, <2>2, <2>3, <3>2
  <2>7. QED
    BY <1>5, <2>5, <2>6
<1>6. QED
  BY <1>4, <1>5 DEF Contract!Next, Contract!Earn

\* Whichever requests, cancellations and payouts race, and whatever is paid and refunded in
\* between, only a refund takes the balance below zero or further below it.
THEOREM Solvency == Spec => OnlyRefundsOverdraw
<1>1. BooksInv /\ BooksInv' /\ [Next]_vars
        => [Available' < 0 => Available' >= Available \/ income' < income]_<<ledger, income>>
  BY RefinementStep, SolventStep DEF BooksInv, Books, Typed
<1>2. QED
  BY <1>1, BooksInvariant, PTL DEF Spec, OnlyRefundsOverdraw

-----------------------------------------------------------------------------
(* A withdrawal without a mishap: its calls failed only by a refusal, its   *)
(* lease outlived its holders, it was not cancelled while claimed and was   *)
(* read with the contract on.  One worker at a time has it in hand and what *)
(* the worker knows of it is never stale.                                   *)

Hand(k) == todo[k] \cup {cur[k]}

\* One worker has w in its batch, once, and w is leased until it has an answer.
Exclusive(w) ==
    /\ \A k \in Workers : ~(cur[k] = w /\ w \in todo[k])
    /\ \A j, k \in Workers : w \in Hand(j) /\ w \in Hand(k) => j = k
    /\ \A k \in Workers : w \in Hand(k) => leased[w] \/ status[w] \in {"PENDING"} \cup Final

\* A payout the provider knows of was sent, and money given back is not with it.
Known(w) ==
    /\ payout[w] # "none" => status[w] \in {"SENT", "PENDING", "PAID", "FAILED"}
    /\ status[w] \in {"FAILED", "CANCELLED"} => payout[w] \in {"none", "failed"}

\* What each worker read of w is still true, or has an answer.
Current(w) ==
    \A k \in Workers :
        /\ cur[k] = w =>
             /\ pc[k] = "markSent" => status[w] = "APPROVED"
             /\ pc[k] = "call" => status[w] = "SENT" \/ payout[w] # "none"
             /\ pc[k] = "catch" => payout[w] = "none"
        /\ w \in todo[k] => status[w] \in {"APPROVED", "SENT"} \/ payout[w] # "none"

Sound(w) == Exclusive(w) /\ Known(w) /\ Current(w)

Reliable == \A w \in Withdrawals \ mishap : Sound(w)

\* No worker takes w up or goes on with it, though one may let it go.
Letting(w) ==
    \A k \in Workers :
        /\ w \in todo'[k] => w \in todo[k]
        /\ cur'[k] = w => cur[k] = w /\ pc'[k] \in {pc[k], "idle", "next", "apply"}

\* A step that leaves the columns of w alone and puts it in no hand.
LEMMA SoundElsewhere ==
    ASSUME NEW w \in Withdrawals, Sound(w), Letting(w),
           status'[w] = status[w], payout'[w] = payout[w], leased[w] => leased'[w]
    PROVE  Sound(w)'
<1>1. Exclusive(w)'
  BY DEF Sound, Letting, Exclusive, Hand
<1>2. Known(w)' /\ Current(w)'
  BY DEF Sound, Letting, Known, Current
<1>3. QED
  BY <1>1, <1>2 DEF Sound

\* An answer only changes a withdrawal the provider knows, and ends its processing.
LEMMA SoundAnswer ==
    ASSUME TypeOK, NEW w \in Withdrawals, Sound(w), Letting(w),
           NEW v \in Withdrawals, NEW r \in Results,
           Truthful(v, r), ApplyResult(v, r), UNCHANGED payout
    PROVE  Sound(w)'
<1>1. CASE Applies(v, r) /\ v = w
  <2>1. /\ status'[w] = r
        /\ payout[w] # "none"
        /\ r = "FAILED" => payout[w] = "failed"
        /\ r \in {"PENDING", "PAID", "FAILED"}
    BY <1>1 DEF ApplyResult, Truthful, TypeOK, Results
  <2>2. Exclusive(w)'
    BY <2>1 DEF Sound, Letting, Exclusive, Hand, Final
  <2>3. Known(w)'
    BY <2>1 DEF Known
  <2>4. Current(w)'
    BY <2>1 DEF Sound, Letting, Known, Current
  <2>5. QED
    BY <2>2, <2>3, <2>4 DEF Sound
<1>2. CASE ~(Applies(v, r) /\ v = w)
  <2>1. status'[w] = status[w] /\ leased'[w] = leased[w]
    BY <1>2 DEF ApplyResult, TypeOK
  <2>2. QED
    BY <2>1, SoundElsewhere
<1>3. QED
  BY <1>1, <1>2

\* No step lets two workers hold a withdrawal, or makes what one of them read of it false
\* before it has an answer, unless something goes wrong with this withdrawal.
LEMMA ReliableStep == Typed /\ Informed /\ Reliable /\ [Next]_vars => Reliable'
<1> SUFFICES ASSUME TypeOK, InFocus, Informed, [Next]_vars,
                    NEW w \in Withdrawals, w \notin mishap', w \notin mishap => Sound(w)
             PROVE  Sound(w)'
  BY DEF Typed, Reliable
<1> USE DEF vars, dbVars, ownerVars, providerVars, workerVars, reconVars, history, Mishap
<1>0. w \notin mishap /\ Sound(w)
  BY DEF Next, OwnerStep, AdminStep, ProviderStep, WorkerStep, ReconStep, Request, Cancel,
         StartVerification, Approve, SetAccountStatus, SetOwnerActive, IncomeBooked,
         RefundConfirmed, SwitchProvider, Settle, Callback, Claim, Read, MarkSent, Call,
         CallFails, Apply, Catch, Crash, LeaseExpires, BackoffElapses, ReconPoll,
         ReconApply, ReconFresh, ReconCompare
<1>1. CASE UNCHANGED <<status, leased, payout, pc, todo, cur>>
  BY <1>0, <1>1, SoundElsewhere DEF Letting
<1>2. ASSUME NEW v \in Withdrawals, Request(v)
      PROVE  Sound(w)'
  <2>1. CASE v = w
    BY <1>0, <1>2, <2>1 DEF Request, Sound, Exclusive, Hand, Known, Current, TypeOK, Final
  <2>2. CASE v # w
    BY <1>0, <1>2, <2>2, SoundElsewhere DEF Request, Letting, TypeOK
  <2>3. QED
    BY <2>1, <2>2
<1>3. ASSUME NEW v \in Withdrawals, Cancel(v)
      PROVE  Sound(w)'
  <2>1. CASE v = w
    <3>1. ~InHand(w)
      BY <1>3, <2>1 DEF Cancel
    <3>2. status[w] \in {"REQUESTED", "VERIFYING", "APPROVED"} /\ status'[w] = "CANCELLED"
      BY <1>3, <2>1 DEF Cancel, Transitions, TypeOK, Statuses, Open, Final
    <3>3. QED
      BY <1>0, <1>3, <3>1, <3>2 DEF Cancel, InHand, Sound, Exclusive, Hand, Known, Current
  <2>2. CASE v # w
    BY <1>0, <1>3, <2>2, SoundElsewhere DEF Cancel, Letting, TypeOK
  <2>3. QED
    BY <2>1, <2>2
<1>4. ASSUME NEW v \in Withdrawals, StartVerification(v) \/ Approve(v)
      PROVE  Sound(w)'
  <2>1. PICK s \in {"VERIFYING", "APPROVED"} :
          /\ status' = [status EXCEPT ![v] = s]
          /\ s \in Transitions[status[v]]
          /\ UNCHANGED <<leased, payout, pc, todo, cur>>
    BY <1>4 DEF StartVerification, Approve, AdminTransition
  <2>2. CASE v = w
    <3>1. status[w] \in {"REQUESTED", "VERIFYING"} /\ status'[w] = s
      BY <2>1, <2>2 DEF Transitions, TypeOK, Statuses, Open, Final
    <3>2. QED
      BY <1>0, <2>1, <3>1 DEF Sound, Exclusive, Hand, Known, Current, Final
  <2>3. CASE v # w
    BY <1>0, <2>1, <2>3, SoundElsewhere DEF Letting, TypeOK
  <2>4. QED
    BY <2>2, <2>3
<1>5. ASSUME NEW v \in Withdrawals, Settle(v)
      PROVE  Sound(w)'
  <2>1. CASE v = w
    BY <1>0, <1>5, <2>1 DEF Settle, Sound, Exclusive, Hand, Known, Current, TypeOK
  <2>2. CASE v # w
    BY <1>0, <1>5, <2>2, SoundElsewhere DEF Settle, Letting, TypeOK
  <2>3. QED
    BY <2>1, <2>2
<1>6. ASSUME NEW v \in Withdrawals, NEW r \in Results, Callback(v, r)
      PROVE  Sound(w)'
  <2>1. Truthful(v, r)
    BY <1>6 DEF Callback, ResultOf, Truthful
  <2>2. QED
    BY <1>0, <1>6, <2>1, SoundAnswer DEF Callback, Letting
<1>7. ASSUME NEW k \in Workers, Claim(k)
      PROVE  Sound(w)'
  <2>1. PICK batch \in SUBSET Eligible :
          /\ todo' = [todo EXCEPT ![k] = batch]
          /\ leased' = [v \in Withdrawals |-> v \in batch \/ leased[v]]
    BY <1>7 DEF Claim, Batches
  <2>2. /\ pc' = [pc EXCEPT ![k] = "next"]
        /\ UNCHANGED <<status, payout, cur>>
    BY <1>7 DEF Claim
  <2>3. CASE w \in batch
    <3>1. status[w] \in {"APPROVED", "SENT"} /\ ~leased[w] /\ leased'[w]
      BY <2>1, <2>3 DEF Eligible
    <3>2. \A j \in Workers : w \notin Hand(j)
      BY <1>0, <3>1 DEF Sound, Exclusive, Final
    <3>3. \A j \in Workers : cur'[j] # w /\ (w \in todo'[j] => j = k)
      BY <2>1, <2>2, <3>2 DEF Hand, TypeOK
    <3>4. QED
      BY <1>0, <2>2, <3>1, <3>3 DEF Sound, Exclusive, Hand, Known, Current
  <2>4. CASE w \notin batch
    BY <1>0, <2>1, <2>2, <2>4, SoundElsewhere DEF Letting, TypeOK
  <2>5. QED
    BY <2>3, <2>4
<1>8. ASSUME NEW k \in Workers, Read(k)
      PROVE  Sound(w)'
  <2>1. PICK v \in todo[k] :
          /\ cur' = [cur EXCEPT ![k] = v]
          /\ todo' = [todo EXCEPT ![k] = @ \ {v}]
          /\ pc' = [pc EXCEPT ![k] = IF ~providerUp THEN "catch"
                                     ELSE IF status[v] = "APPROVED" THEN "markSent"
                                     ELSE "call"]
          /\ ~providerUp => v \in mishap'
          /\ UNCHANGED <<status, leased, payout>>
    BY <1>8 DEF Read
  <2>2. CASE v = w
    <3>1. /\ \A j \in Workers : w \in Hand(j) => j = k
          /\ cur[k] # w
      BY <1>0, <2>1, <2>2 DEF Sound, Exclusive, Hand
    <3>2. \A j \in Workers : w \notin todo'[j] /\ (cur'[j] = w => j = k)
      BY <2>1, <2>2, <3>1 DEF Hand, TypeOK
    <3>3. pc'[k] = IF status[w] = "APPROVED" THEN "markSent" ELSE "call"
      BY <2>1, <2>2 DEF TypeOK
    <3>4. Exclusive(w)' /\ Known(w)'
      BY <1>0, <2>1, <2>2, <3>2 DEF Sound, Exclusive, Hand, Known
    <3>5. Current(w)'
      BY <1>0, <2>1, <2>2, <3>2, <3>3 DEF Sound, Current
    <3>6. QED
      BY <3>4, <3>5 DEF Sound
  <2>3. CASE v # w
    BY <1>0, <2>1, <2>3, SoundElsewhere DEF Letting, TypeOK
  <2>4. QED
    BY <2>2, <2>3
<1>9. ASSUME NEW k \in Workers, MarkSent(k)
      PROVE  Sound(w)'
  <2>1. cur[k] \in Withdrawals /\ UNCHANGED <<leased, payout, todo, cur>>
    BY <1>9 DEF MarkSent, InFocus, Busy
  <2>2. CASE cur[k] = w
    <3>1. status[w] = "APPROVED" /\ payout[w] = "none"
      BY <1>0, <1>9, <2>2 DEF MarkSent, Sound, Known, Current
    <3>2. status' = [status EXCEPT ![w] = "SENT"] /\ pc' = [pc EXCEPT ![k] = "call"]
      BY <1>9, <2>2, <3>1 DEF MarkSent, Transitions
    <3>3. \A j \in Workers : cur[j] = w => j = k
      BY <1>0, <2>2 DEF Sound, Exclusive, Hand
    <3>4. \A j \in Workers : w \notin todo[j]
      BY <1>0, <2>2 DEF Sound, Exclusive, Hand
    <3>5. QED
      BY <1>0, <2>1, <3>1, <3>2, <3>3, <3>4
      DEF Sound, Exclusive, Hand, Known, Current, TypeOK, Final
  <2>3. CASE cur[k] # w
    BY <1>0, <1>9, <2>1, <2>3, SoundElsewhere DEF MarkSent, Letting, TypeOK
  <2>4. QED
    BY <2>2, <2>3
<1>10. ASSUME NEW k \in Workers, Call(k) \/ CallFails(k)
       PROVE  Sound(w)'
  <2>1. /\ cur[k] \in Withdrawals
        /\ pc[k] = "call"
        /\ UNCHANGED <<status, leased, todo, cur>>
    BY <1>10 DEF Call, CallFails, InFocus, Busy
  <2>2. CASE cur[k] = w
    <3>1. \A j \in Workers : w \notin todo[j] /\ (cur[j] = w => j = k)
      BY <1>0, <2>2 DEF Sound, Exclusive, Hand
    <3>2. status[w] = "SENT" \/ payout[w] # "none"
      BY <1>0, <2>1, <2>2 DEF Sound, Current
    <3>3. CASE Call(k)
      <4>1. /\ payout'[w] = IF payout[w] = "none" THEN "accepted" ELSE payout[w]
            /\ pc'[k] = "apply"
        BY <3>3, <2>1, <2>2 DEF Call, Accept, TypeOK
      <4>2. QED
        BY <1>0, <2>1, <3>1, <3>2, <4>1 DEF Sound, Exclusive, Hand, Known, Current
    <3>4. CASE CallFails(k)
      <4>1. payout[w] = "none" /\ UNCHANGED payout /\ pc'[k] = "catch"
        BY <3>4, <2>1, <2>2 DEF CallFails, TypeOK
      <4>2. QED
        BY <1>0, <2>1, <3>1, <4>1 DEF Sound, Exclusive, Hand, Known, Current
    <3>5. QED
      BY <1>10, <3>3, <3>4
  <2>3. CASE cur[k] # w
    <3>1. payout'[w] = payout[w]
      BY <1>10, <2>3 DEF Call, CallFails, Accept, TypeOK
    <3>2. Letting(w)
      BY <1>10, <2>1, <2>3 DEF Call, CallFails, Letting, TypeOK
    <3>3. QED
      BY <1>0, <2>1, <3>1, <3>2, SoundElsewhere
  <2>4. QED
    BY <2>2, <2>3
<1>11. ASSUME NEW k \in Workers, Apply(k)
       PROVE  Sound(w)'
  <2>1. /\ cur[k] \in Withdrawals /\ reply[k] \in Results
        /\ Truthful(cur[k], reply[k])
        /\ ApplyResult(cur[k], reply[k])
        /\ UNCHANGED payout
    BY <1>11 DEF Apply, InFocus, Busy, Informed
  <2>2. Letting(w)
    BY <1>11, PayoutsAssumption DEF Apply, ItemDone, Letting, TypeOK
  <2>3. QED
    BY <1>0, <2>1, <2>2, SoundAnswer
<1>12. ASSUME NEW k \in Workers, Catch(k)
       PROVE  Sound(w)'
  <2>1. cur[k] \in Withdrawals /\ pc[k] = "catch" /\ UNCHANGED <<payout, todo>>
    BY <1>12 DEF Catch, ItemDone, InFocus, Busy
  <2>2. /\ \A v \in Withdrawals : v # cur[k] => status'[v] = status[v] /\ leased'[v] = leased[v]
        /\ status'[cur[k]] \in {status[cur[k]], "FAILED"}
        /\ cur' = [cur EXCEPT ![k] = None]
        /\ pc'[k] \in {"idle", "next"}
        /\ \A j \in Workers \ {k} : pc'[j] = pc[j]
    BY <1>12, <2>1 DEF Catch, ItemDone, TypeOK
  <2>3. CASE cur[k] = w
    <3>1. payout[w] = "none"
      BY <1>0, <2>1, <2>3 DEF Sound, Current
    <3>2. \A j \in Workers : w \notin todo[j] /\ (cur[j] = w => j = k)
      BY <1>0, <2>3 DEF Sound, Exclusive, Hand
    <3>3. \A j \in Workers : w \notin todo'[j] /\ cur'[j] # w
      BY <2>1, <2>2, <3>2, PayoutsAssumption DEF TypeOK
    <3>4. QED
      BY <1>0, <2>1, <3>1, <3>3 DEF Sound, Exclusive, Hand, Known, Current
  <2>4. CASE cur[k] # w
    <3>1. Letting(w)
      BY <2>1, <2>2, PayoutsAssumption DEF Letting, TypeOK
    <3>2. QED
      BY <1>0, <2>1, <2>2, <2>4, <3>1, SoundElsewhere
  <2>5. QED
    BY <2>3, <2>4
<1>13. ASSUME NEW k \in Workers, Crash(k)
       PROVE  Sound(w)'
  <2>1. Letting(w)
    BY <1>13, PayoutsAssumption DEF Crash, Letting, TypeOK
  <2>2. QED
    BY <1>0, <1>13, <2>1, SoundElsewhere DEF Crash
<1>14. ASSUME NEW v \in Withdrawals, LeaseExpires(v)
       PROVE  Sound(w)'
  <2>1. CASE v = w
    <3>1. ~InHand(w)
      BY <1>14, <2>1 DEF LeaseExpires
    <3>2. QED
      BY <1>0, <1>14, <3>1
      DEF LeaseExpires, InHand, Sound, Exclusive, Hand, Known, Current
  <2>2. CASE v # w
    BY <1>0, <1>14, <2>2, SoundElsewhere DEF LeaseExpires, Letting, TypeOK
  <2>3. QED
    BY <2>1, <2>2
<1>15. ASSUME NEW r \in Reconcilers, ReconApply(r)
       PROVE  Sound(w)'
  <2>1. CASE recon[r].answer \in Results
    <3>1. /\ recon[r].item \in Withdrawals
          /\ Truthful(recon[r].item, recon[r].answer)
          /\ ApplyResult(recon[r].item, recon[r].answer)
          /\ UNCHANGED <<payout, pc, todo, cur>>
      BY <1>15, <2>1 DEF ReconApply, InFocus, Informed
    <3>2. QED
      BY <1>0, <2>1, <3>1, SoundAnswer DEF Letting
  <2>2. CASE recon[r].answer \notin Results
    BY <1>1, <1>15, <2>2 DEF ReconApply
  <2>3. QED
    BY <2>1, <2>2
<1>16. QED
  BY <1>1, <1>2, <1>3, <1>4, <1>5, <1>6, <1>7, <1>8, <1>9, <1>10, <1>11, <1>12, <1>13,
     <1>14, <1>15
  DEF Next, OwnerStep, AdminStep, ProviderStep, WorkerStep, ReconStep, SetAccountStatus,
      SetOwnerActive, IncomeBooked, RefundConfirmed, SwitchProvider, BackoffElapses,
      ReconPoll, ReconFresh, ReconCompare

\* Money that went back to the owner is not with the provider, nor on its way to it, unless
\* one of the four mishaps befell that very withdrawal.
THEOREM ReturnedStaysHome == Spec => []ReturnedIsNotPaid
<1>1. Init => Reliable
  BY PayoutsAssumption
  DEF Init, Reliable, Sound, Exclusive, Hand, Known, Current
<1>2. BooksInv /\ Reliable /\ [Next]_vars => Reliable'
  BY ReliableStep DEF BooksInv
<1>3. Reliable => ReturnedIsNotPaid
  BY DEF Reliable, Sound, Known, ReturnedIsNotPaid
<1>4. QED
  BY <1>1, <1>2, <1>3, BooksInvariant, PTL DEF Spec
=============================================================================
