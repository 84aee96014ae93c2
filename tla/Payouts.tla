------------------------------ MODULE Payouts ------------------------------
(***************************************************************************)
(* Withdrawals of one owner in the Laravel backend: the owner requests and *)
(* cancels them, administrators verify and approve them, PayoutWorker      *)
(* processes send them to the payout provider, and the provider's answer   *)
(* comes back through the worker, a signed callback or reconciliation.     *)
(*                                                                         *)
(* Every DB::transaction of the code is one step, since it locks the row   *)
(* it updates; what the code does between two transactions is interleaved. *)
(* The payout provider is external: it is idempotent on the key            *)
(* 'withdrawal:<id>' and settles an accepted payout once.                  *)
(***************************************************************************)
EXTENDS Integers, FiniteSets, Functions

CONSTANTS
    Withdrawals,   \* withdrawal requests, each with its own idempotency key
    Workers,       \* payout-worker processes (scheduled runs and daemons)
    Reconcilers,   \* reconciliation runs that may be active (command, admin)
    Amount,        \* Amount[w]: amount of w in minor units
    MaxIncome,     \* bound on the owner's income
    MaxAttempts,   \* fangabase.withdrawals.max_attempts
    BatchLimit,    \* the --limit option of fangabase:payout-worker
    MaxCrashes,    \* bound on the worker crashes of a behaviour
    Hazards,       \* what may go wrong around the code (see HazardKinds)
    None           \* no withdrawal, no reply

(***************************************************************************)
(* lost_reply      a call fails although the provider accepted the payout  *)
(* refusal         a call fails and the provider accepted nothing          *)
(* deactivation    the provider's contract is switched off and on          *)
(* slow_worker     a lease expires while its holder is still running       *)
(* cancel_claimed  the owner cancels a withdrawal a worker has claimed     *)
(* suspension      administrators suspend the account or the owner         *)
(***************************************************************************)
HazardKinds == {"lost_reply", "refusal", "deactivation", "slow_worker",
                "cancel_claimed", "suspension"}

\* What the provider can answer.
Results == {"PENDING", "PAID", "FAILED"}

ASSUME PayoutsAssumption ==
    /\ IsFiniteSet(Withdrawals)
    /\ Amount \in [Withdrawals -> Nat]
    /\ MaxIncome \in Nat
    /\ MaxAttempts \in Nat \ {0}
    /\ BatchLimit \in Nat \ {0}
    /\ MaxCrashes \in Nat
    /\ Hazards \subseteq HazardKinds
    /\ None \notin Withdrawals \cup Results

VARIABLES
    status,        \* withdrawals.status, "NONE" before the request
    ledger,        \* money_ledger_entries of the withdrawals: <<w, kind>>
    outbox,        \* outbox_events: <<w, status announced>>
    attempts,      \* withdrawals.attempts, counted up to MaxAttempts
    leased,        \* withdrawals.claimed_until is in the future
    ready,         \* withdrawals.available_at <= now()
    approved,      \* withdrawals.approved_by is set
    reference,     \* withdrawals.provider_reference is set
    account,       \* payout_accounts.status, of the one account requests are made from
    ownerActive,   \* the owner's status is ACTIVE
    income,        \* the owner's other entries: PAYMENT and ADJUSTMENT_CREDIT less REFUND
    callbacks,     \* payout_callbacks: the events already inserted
    payout,        \* what the provider did with the payout (external)
    providerUp,    \* activation() of the provider is the implemented one
    pc,            \* where each worker is in runOnce / process
    todo,          \* claimed withdrawals the worker has still to process
    cur,           \* the withdrawal the worker is processing
    reply,         \* the PayoutResult of initiate
    crashes,       \* crashes so far
    recon,         \* each reconciliation run: its step, item and readings
    anomalies,     \* reconciliation_anomalies: <<w, code>>
    mishap         \* history: withdrawals something went wrong with outside the database

dbVars == <<status, ledger, outbox, attempts, leased, ready, approved, reference>>
ownerVars    == <<account, ownerActive, income>>
providerVars == <<payout, providerUp>>
workerVars   == <<pc, todo, cur, reply>>
reconVars    == <<recon, anomalies>>
history      == <<crashes, mishap>>
vars == <<dbVars, ownerVars, callbacks, providerVars, workerVars, history, reconVars>>

Open     == {"REQUESTED", "VERIFYING", "APPROVED", "SENT", "PENDING"}
Final    == {"PAID", "FAILED", "CANCELLED", "RECONCILED"}
Statuses == {"NONE"} \cup Open \cup Final
Kinds    == {"WITHDRAWAL_RESERVE", "WITHDRAWAL_RESERVE_RELEASE", "WITHDRAWAL_PAID"}

Reserve(w)   == <<w, "WITHDRAWAL_RESERVE">>
Release(w)   == <<w, "WITHDRAWAL_RESERVE_RELEASE">>
PaidEntry(w) == <<w, "WITHDRAWAL_PAID">>

\* Mutant: a payout that was sent can still be cancelled.
Transitions_CancelSent ==
    [REQUESTED |-> {"VERIFYING", "CANCELLED"}, VERIFYING |-> {"APPROVED", "CANCELLED"},
     APPROVED  |-> {"SENT", "CANCELLED"},
     SENT      |-> {"PENDING", "PAID", "FAILED", "CANCELLED"},
     PENDING   |-> {"PAID", "FAILED"},         FAILED    |-> {"RECONCILED"},
     PAID      |-> {"RECONCILED"},             CANCELLED |-> {},
     RECONCILED |-> {},                        NONE      |-> {}]

Transitions ==
    [REQUESTED |-> {"VERIFYING", "CANCELLED"}, VERIFYING |-> {"APPROVED", "CANCELLED"},
     APPROVED  |-> {"SENT", "CANCELLED"},      SENT      |-> {"PENDING", "PAID", "FAILED"},
     PENDING   |-> {"PAID", "FAILED"},         FAILED    |-> {"RECONCILED"},
     PAID      |-> {"RECONCILED"},             CANCELLED |-> {},
     RECONCILED |-> {},                        NONE      |-> {}]

-----------------------------------------------------------------------------
(* The owner's balance is recomputed from the ledger at each request. *)

\* Mutant: WITHDRAWAL_PAID missing from the negative kinds.
NetOf_IgnoresPaid(w) ==
    (IF Release(w) \in ledger THEN Amount[w] ELSE 0)
    - (IF Reserve(w) \in ledger THEN Amount[w] ELSE 0)

NetOf(w) ==
    (IF Release(w) \in ledger THEN Amount[w] ELSE 0)
    - (IF Reserve(w) \in ledger THEN Amount[w] ELSE 0)
    - (IF PaidEntry(w) \in ledger THEN Amount[w] ELSE 0)

Available == income + SumFunction([w \in Withdrawals |-> NetOf(w)])

\* Something went wrong with w, or with none, that the database does not show.
Mishap(W) == mishap' = mishap \cup W /\ UNCHANGED crashes

\* A worker has w in its batch.
InHand(w) == \E k \in Workers : w \in todo[k] \/ cur[k] = w

-----------------------------------------------------------------------------
(* Requests of the owner and of the administrators. *)

\* Mutant: the balance is checked before the amount is taken off it.
Request_UncheckedAmount(w) ==
    /\ status[w] = "NONE"
    /\ account = "VERIFIED"
    /\ 0 <= Available
    /\ status' = [status EXCEPT ![w] = "REQUESTED"]
    /\ ledger' = ledger \cup {Reserve(w)}
    /\ UNCHANGED <<outbox, attempts, leased, ready, approved, reference, ownerVars,
                   callbacks, providerVars, workerVars, history, reconVars>>

Request(w) ==
    /\ status[w] = "NONE"
    /\ account = "VERIFIED"
    /\ Amount[w] <= Available
    /\ status' = [status EXCEPT ![w] = "REQUESTED"]
    /\ ledger' = ledger \cup {Reserve(w)}
    /\ UNCHANGED <<outbox, attempts, leased, ready, approved, reference, ownerVars,
                   callbacks, providerVars, workerVars, history, reconVars>>

Cancel(w) ==
    /\ "CANCELLED" \in Transitions[status[w]]
    /\ InHand(w) => "cancel_claimed" \in Hazards
    /\ status' = [status EXCEPT ![w] = "CANCELLED"]
    /\ ledger' = ledger \cup {Release(w)}
    /\ Mishap({x \in {w} : InHand(x)})
    /\ UNCHANGED <<outbox, attempts, leased, ready, approved, reference, ownerVars,
                   callbacks, providerVars, workerVars, reconVars>>

AdminTransition(w, to) ==
    /\ to \in Transitions[status[w]]
    /\ ownerActive
    /\ account = "VERIFIED"
    /\ status' = [status EXCEPT ![w] = to]

StartVerification(w) ==
    /\ AdminTransition(w, "VERIFYING")
    /\ UNCHANGED <<ledger, outbox, attempts, leased, ready, approved, reference, ownerVars,
                   callbacks, providerVars, workerVars, history, reconVars>>

Approve(w) ==
    /\ providerUp
    /\ AdminTransition(w, "APPROVED")
    /\ ready' = [ready EXCEPT ![w] = TRUE]
    /\ approved' = [approved EXCEPT ![w] = TRUE]
    /\ UNCHANGED <<ledger, outbox, attempts, leased, reference, ownerVars,
                   callbacks, providerVars, workerVars, history, reconVars>>

SetAccountStatus(s) ==
    /\ s = "SUSPENDED" => "suspension" \in Hazards
    /\ account # s
    /\ account' = s
    /\ UNCHANGED <<dbVars, ownerActive, income, callbacks, providerVars, workerVars,
                   history, reconVars>>

SetOwnerActive ==
    /\ "suspension" \in Hazards
    /\ ownerActive' = ~ownerActive
    /\ UNCHANGED <<dbVars, account, income, callbacks, providerVars, workerVars,
                   history, reconVars>>

\* The owner is paid for an order or given an adjustment: a PAYMENT or ADJUSTMENT_CREDIT.
IncomeBooked ==
    /\ \E a \in 1 .. MaxIncome - income : income' = income + a
    /\ UNCHANGED <<dbVars, account, ownerActive, callbacks, providerVars, workerVars,
                   history, reconVars>>

\* RefundService::confirm returns what was paid, without a look at the balance: a REFUND.
RefundConfirmed ==
    /\ \E a \in 1..income : income' = income - a
    /\ UNCHANGED <<dbVars, account, ownerActive, callbacks, providerVars, workerVars,
                   history, reconVars>>

-----------------------------------------------------------------------------
(* Applying a result of the provider, in one transaction on the locked row. *)

\* Mutant: the early return on a final status is lost.
Applies_FinalToo(w, r) == status[w] # "NONE" /\ status[w] # r

Applies(w, r) == status[w] \in {"APPROVED", "SENT", "PENDING"} /\ status[w] # r

\* Mutants: a failed payout keeps its reserve, a paid one is not debited.
Postings_FailedKeepsReserve(w, r) ==
    IF r = "PAID" THEN {Release(w), PaidEntry(w)} ELSE {}

Postings_PaidNotDebited(w, r) ==
    IF r \in {"PAID", "FAILED"} THEN {Release(w)} ELSE {}

Postings(w, r) ==
    CASE r = "FAILED" -> {Release(w)}
      [] r = "PAID"   -> {Release(w), PaidEntry(w)}
      [] OTHER        -> {}

ApplyResult(w, r) ==
    /\ UNCHANGED <<attempts, ready, approved>>
    /\ IF Applies(w, r)
       THEN /\ status'    = [status EXCEPT ![w] = r]
            /\ reference' = [reference EXCEPT ![w] = TRUE]
            /\ leased'    = [leased EXCEPT ![w] = FALSE]
            /\ ledger'    = ledger \cup Postings(w, r)
            /\ outbox'    = outbox \cup {<<w, r>>}
       ELSE UNCHANGED <<status, reference, leased, ledger, outbox>>

-----------------------------------------------------------------------------
(* The provider (external). *)

\* Mutant: accepted is taken for paid.
ResultOf_Optimistic(p) == IF p = "failed" THEN "FAILED" ELSE "PAID"

ResultOf(p) ==
    CASE p = "paid"   -> "PAID"
      [] p = "failed" -> "FAILED"
      [] OTHER        -> "PENDING"

\* An accepted payout is settled.
Settle(w) ==
    /\ payout[w] = "accepted"
    /\ \E p \in {"paid", "failed"} : payout' = [payout EXCEPT ![w] = p]
    /\ UNCHANGED <<dbVars, ownerVars, callbacks, providerUp, workerVars,
                   history, reconVars>>

SwitchProvider ==
    /\ "deactivation" \in Hazards
    /\ providerUp' = ~providerUp
    /\ UNCHANGED <<dbVars, ownerVars, callbacks, payout, workerVars,
                   history, reconVars>>

\* A notification the provider could have signed is delivered: at any time
\* after it became true, late, repeated or never.  One event for each status:
\* a second event with the same status would find nothing left to change.
Callback(w, r) ==
    /\ providerUp
    /\ payout[w] # "none"
    /\ r \in {"PENDING", ResultOf(payout[w])}
    /\ <<w, r>> \notin callbacks
    /\ callbacks' = callbacks \cup {<<w, r>>}
    /\ ApplyResult(w, r)
    /\ UNCHANGED <<ownerVars, providerVars, workerVars, history, reconVars>>

-----------------------------------------------------------------------------
(* PayoutWorker *)

\* Mutants: withdrawals still under verification are claimed, or those a crashed
\* worker left SENT are not.
Eligible_Unapproved ==
    {w \in Withdrawals : /\ status[w] \in {"VERIFYING", "APPROVED", "SENT"}
                        /\ ready[w]
                        /\ ~leased[w]}

Eligible_ApprovedOnly ==
    {w \in Withdrawals : status[w] = "APPROVED" /\ ready[w] /\ ~leased[w]}

Eligible ==
    {w \in Withdrawals : /\ status[w] \in {"APPROVED", "SENT"}
                        /\ ready[w]
                        /\ ~leased[w]}

\* As many of them as the limit allows, in any order.
Batches ==
    {b \in SUBSET Eligible :
        /\ b # {}
        /\ \/ Cardinality(b) = BatchLimit
           \/ b = Eligible /\ Cardinality(b) < BatchLimit}

\* The claim transaction of runOnce.
Claim(k) ==
    /\ pc[k] = "idle"
    /\ \E batch \in Batches :
         /\ todo' = [todo EXCEPT ![k] = batch]
         /\ leased' = [w \in Withdrawals |-> w \in batch \/ leased[w]]
         /\ attempts' = [w \in Withdrawals |-> IF w \in batch /\ attempts[w] < MaxAttempts
                                              THEN attempts[w] + 1 ELSE attempts[w]]
    /\ pc' = [pc EXCEPT ![k] = "next"]
    /\ UNCHANGED <<status, ledger, outbox, ready, approved, reference, ownerVars, callbacks,
                   providerVars, cur, reply, history, reconVars>>

\* process() reads the row without a lock and decides on what it read.
Read(k) ==
    /\ pc[k] = "next"
    /\ \E w \in todo[k] :
         /\ cur' = [cur EXCEPT ![k] = w]
         /\ todo' = [todo EXCEPT ![k] = @ \ {w}]
         /\ pc' = [pc EXCEPT ![k] = IF ~providerUp THEN "catch"
                                    ELSE IF status[w] = "APPROVED" THEN "markSent"
                                    ELSE "call"]
         /\ Mishap(IF providerUp THEN {} ELSE {w})
    /\ UNCHANGED <<dbVars, ownerVars, callbacks, providerVars, reply, reconVars>>

\* The transaction to SENT works on the locked row: its status may have changed
\* since it was read, and then it throws.
MarkSent(k) ==
    /\ pc[k] = "markSent"
    /\ IF "SENT" \in Transitions[status[cur[k]]]
       THEN /\ status' = [status EXCEPT ![cur[k]] = "SENT"]
            /\ pc' = [pc EXCEPT ![k] = "call"]
       ELSE /\ pc' = [pc EXCEPT ![k] = "catch"]
            /\ UNCHANGED status
    /\ UNCHANGED <<ledger, outbox, attempts, leased, ready, approved, reference, ownerVars,
                   callbacks, providerVars, todo, cur, reply, history, reconVars>>

\* provider->initiate answers; a payout it did not know is accepted now.
Accept(w) ==
    payout' = [payout EXCEPT ![w] = IF @ = "none" THEN "accepted" ELSE @]

Call(k) ==
    /\ pc[k] = "call"
    /\ Accept(cur[k])
    /\ reply' = [reply EXCEPT ![k] = ResultOf(payout'[cur[k]])]
    /\ pc' = [pc EXCEPT ![k] = "apply"]
    /\ UNCHANGED <<dbVars, ownerVars, callbacks, providerUp, todo, cur, history, reconVars>>

\* provider->initiate throws: nothing was accepted, or only the reply was lost.
CallFails(k) ==
    /\ pc[k] = "call"
    /\ \/ /\ "refusal" \in Hazards /\ payout[cur[k]] = "none"
          /\ UNCHANGED <<payout, history>>
       \/ /\ "lost_reply" \in Hazards
          /\ Accept(cur[k]) /\ Mishap({cur[k]})
    /\ pc' = [pc EXCEPT ![k] = "catch"]
    /\ UNCHANGED <<dbVars, ownerVars, callbacks, providerUp, todo, cur, reply, reconVars>>

\* The worker goes on with the rest of its batch, or the run ends.
ItemDone(k) ==
    /\ pc' = [pc EXCEPT ![k] = IF todo[k] = {} THEN "idle" ELSE "next"]
    /\ cur' = [cur EXCEPT ![k] = None]
    /\ UNCHANGED todo

Apply(k) ==
    /\ pc[k] = "apply"
    /\ ApplyResult(cur[k], reply[k])
    /\ reply' = [reply EXCEPT ![k] = None]
    /\ ItemDone(k)
    /\ UNCHANGED <<ownerVars, callbacks, providerVars, history, reconVars>>

\* Mutant: the catch block does not look at the status it locked.
Exhausted_AnyStatus(w) == attempts[w] >= MaxAttempts

\* The catch block: give up after the last attempt, or back off.
Exhausted(w) == attempts[w] >= MaxAttempts /\ status[w] \in {"SENT", "APPROVED"}

Catch(k) ==
    /\ pc[k] = "catch"
    /\ LET w == cur[k] IN
         /\ IF Exhausted(w)
            THEN /\ status' = [status EXCEPT ![w] = "FAILED"]
                 /\ ledger' = ledger \cup {Release(w)}
            ELSE UNCHANGED <<status, ledger>>
         /\ leased' = [leased EXCEPT ![w] = FALSE]
         /\ ready' = [ready EXCEPT ![w] = FALSE]
    /\ ItemDone(k)
    /\ UNCHANGED <<outbox, attempts, approved, reference, ownerVars, callbacks, providerVars,
                   reply, history, reconVars>>

\* The process is killed; what it had claimed waits for the lease to expire.
Crash(k) ==
    /\ pc[k] # "idle"
    /\ crashes < MaxCrashes
    /\ crashes' = crashes + 1
    /\ pc' = [pc EXCEPT ![k] = "idle"]
    /\ todo' = [todo EXCEPT ![k] = {}]
    /\ cur' = [cur EXCEPT ![k] = None]
    /\ reply' = [reply EXCEPT ![k] = None]
    /\ UNCHANGED <<dbVars, ownerVars, callbacks, providerVars, mishap, reconVars>>

\* Time passes claimed_until.
LeaseExpires(w) ==
    /\ leased[w]
    /\ InHand(w) => "slow_worker" \in Hazards
    /\ leased' = [leased EXCEPT ![w] = FALSE]
    /\ Mishap({x \in {w} : InHand(x)})
    /\ UNCHANGED <<status, ledger, outbox, attempts, ready, approved, reference, ownerVars,
                   callbacks, providerVars, workerVars, reconVars>>

\* Time passes available_at.
BackoffElapses(w) ==
    /\ ~ready[w]
    /\ status[w] \in {"APPROVED", "SENT"}
    /\ ready' = [ready EXCEPT ![w] = TRUE]
    /\ UNCHANGED <<status, ledger, outbox, attempts, leased, approved, reference, ownerVars,
                   callbacks, providerVars, workerVars, history, reconVars>>
-----------------------------------------------------------------------------
(* WithdrawalReconciliationService::run, one item at a time. *)

NoReading == [step |-> "idle", item |-> None, answer |-> None, fresh |-> None]

\* poll() reads the row without a lock and asks the provider.
PollAnswers(w) ==
    IF ~reference[w] \/ status[w] \notin {"SENT", "PENDING"} THEN {None}
    ELSE (IF providerUp THEN {ResultOf(payout[w])} ELSE {"QUERY_FAILED"})
         \cup (IF "lost_reply" \in Hazards THEN {"QUERY_FAILED"} ELSE {})

\* The run lists the SENT, PENDING and PAID withdrawals first: one of them may
\* have FAILED by the time the loop reaches it.
ReconPoll(r, w) ==
    /\ recon[r].step = "idle"
    /\ status[w] \in {"SENT", "PENDING", "PAID", "FAILED"}
    /\ \E a \in PollAnswers(w) :
         recon' = [recon EXCEPT ![r] = [step |-> "apply", item |-> w,
                                        answer |-> a, fresh |-> None]]
    /\ UNCHANGED <<dbVars, ownerVars, callbacks, providerVars, workerVars, history, anomalies>>

\* ... and applies the answer, which may be stale by then.
ReconApply(r) ==
    /\ recon[r].step = "apply"
    /\ IF recon[r].answer \in Results
       THEN ApplyResult(recon[r].item, recon[r].answer)
       ELSE UNCHANGED dbVars
    /\ recon' = [recon EXCEPT ![r].step = "fresh"]
    /\ UNCHANGED <<ownerVars, callbacks, providerVars, workerVars, history, anomalies>>

ReconFresh(r) ==
    /\ recon[r].step = "fresh"
    /\ recon' = [recon EXCEPT ![r] = [step |-> "compare", item |-> @.item,
                                      answer |-> @.answer, fresh |-> status[@.item]]]
    /\ UNCHANGED <<dbVars, ownerVars, callbacks, providerVars, workerVars, history, anomalies>>

\* The code of the discrepancy between the status read and the entries read after it.
Discrepancy(w, fresh, answer) ==
    IF fresh = "PAID" /\ ~({PaidEntry(w), Release(w)} \subseteq ledger)
    THEN "PAID_LEDGER_MISMATCH"
    ELSE IF fresh \in {"CANCELLED", "FAILED"} /\ Release(w) \notin ledger
    THEN "RESERVE_NOT_RELEASED"
    ELSE IF answer = "QUERY_FAILED" THEN "PROVIDER_QUERY_FAILED"
    ELSE None

ReconCompare(r) ==
    /\ recon[r].step = "compare"
    /\ LET w    == recon[r].item
           code == Discrepancy(w, recon[r].fresh, recon[r].answer)
       IN anomalies' = IF code = None THEN anomalies ELSE anomalies \cup {<<w, code>>}
    /\ recon' = [recon EXCEPT ![r] = NoReading]
    /\ UNCHANGED <<dbVars, ownerVars, callbacks, providerVars, workerVars, history>>

-----------------------------------------------------------------------------
Init ==
    /\ status = [w \in Withdrawals |-> "NONE"]
    /\ ledger = {}
    /\ outbox = {}
    /\ attempts = [w \in Withdrawals |-> 0]
    /\ leased = [w \in Withdrawals |-> FALSE]
    /\ ready = [w \in Withdrawals |-> TRUE]
    /\ approved = [w \in Withdrawals |-> FALSE]
    /\ reference = [w \in Withdrawals |-> FALSE]
    /\ account = "PENDING_VERIFICATION"
    /\ ownerActive = TRUE
    /\ income = 0
    /\ callbacks = {}
    /\ payout = [w \in Withdrawals |-> "none"]
    /\ providerUp = TRUE
    /\ pc = [k \in Workers |-> "idle"]
    /\ todo = [k \in Workers |-> {}]
    /\ cur = [k \in Workers |-> None]
    /\ reply = [k \in Workers |-> None]
    /\ crashes = 0
    /\ recon = [r \in Reconcilers |-> NoReading]
    /\ anomalies = {}
    /\ mishap = {}

OwnerStep(w) == Request(w) \/ Cancel(w)

AdminStep ==
    \/ \E w \in Withdrawals : StartVerification(w) \/ Approve(w)
    \/ \E s \in {"VERIFIED", "SUSPENDED"} : SetAccountStatus(s)
    \/ SetOwnerActive

ProviderStep ==
    \/ SwitchProvider
    \/ \E w \in Withdrawals : Settle(w)
    \/ \E w \in Withdrawals, r \in Results : Callback(w, r)

WorkerStep(k) ==
    \/ Claim(k) \/ Read(k) \/ MarkSent(k)
    \/ Call(k) \/ CallFails(k) \/ Apply(k) \/ Catch(k)

ReconStep(r) ==
    \/ \E w \in Withdrawals : ReconPoll(r, w)
    \/ ReconApply(r) \/ ReconFresh(r) \/ ReconCompare(r)

Next ==
    \/ \E w \in Withdrawals : OwnerStep(w)
    \/ IncomeBooked \/ RefundConfirmed
    \/ AdminStep
    \/ ProviderStep
    \/ \E k \in Workers : WorkerStep(k) \/ Crash(k)
    \/ \E w \in Withdrawals : LeaseExpires(w) \/ BackoffElapses(w)
    \/ \E r \in Reconcilers : ReconStep(r)

Spec == Init /\ [][Next]_vars

\* The worker command is scheduled every minute and each of its steps ends;
\* leases and back-offs are bounded times.  Nothing obliges the owner, the
\* administrators, the provider or a reconciliation run to act.
Fairness ==
    /\ \A k \in Workers : WF_vars(WorkerStep(k))
    /\ \A w \in Withdrawals : WF_vars(LeaseExpires(w)) /\ WF_vars(BackoffElapses(w))

FairSpec == Spec /\ Fairness
-----------------------------------------------------------------------------
(* Properties *)

ReconSteps == {"idle", "apply", "fresh", "compare"}
Codes == {"PAID_LEDGER_MISMATCH", "RESERVE_NOT_RELEASED", "PROVIDER_QUERY_FAILED"}

\* Every variable has its type: columns hold the values the code writes.
TypeOK ==
    /\ status \in [Withdrawals -> Statuses]
    /\ ledger \subseteq Withdrawals \X Kinds
    /\ outbox \subseteq Withdrawals \X Results
    /\ attempts \in [Withdrawals -> 0..MaxAttempts]
    /\ leased \in [Withdrawals -> BOOLEAN]
    /\ ready \in [Withdrawals -> BOOLEAN]
    /\ approved \in [Withdrawals -> BOOLEAN]
    /\ reference \in [Withdrawals -> BOOLEAN]
    /\ account \in {"PENDING_VERIFICATION", "VERIFIED", "SUSPENDED"}
    /\ ownerActive \in BOOLEAN
    /\ income \in 0..MaxIncome
    /\ callbacks \subseteq Withdrawals \X Results
    /\ payout \in [Withdrawals -> {"none", "accepted", "paid", "failed"}]
    /\ providerUp \in BOOLEAN
    /\ pc \in [Workers -> {"idle", "next", "markSent", "call", "apply", "catch"}]
    /\ todo \in [Workers -> SUBSET Withdrawals]
    /\ cur \in [Workers -> Withdrawals \cup {None}]
    /\ reply \in [Workers -> Results \cup {None}]
    /\ crashes \in 0..MaxCrashes
    /\ recon \in [Reconcilers -> [step : ReconSteps, item : Withdrawals \cup {None},
                                   answer : Results \cup {None, "QUERY_FAILED"},
                                   fresh : Statuses \cup {None}]]
    /\ anomalies \subseteq Withdrawals \X Codes
    /\ mishap \subseteq Withdrawals

\* The entries of a withdrawal and its status always tell the same story,
\* whichever of the owner, the workers, the callbacks and the reconciliation
\* run closed it and in whatever order they raced: one reservation, released
\* exactly when the withdrawal is closed, debited exactly when it is PAID.
LedgerMatchesStatus ==
    \A w \in Withdrawals :
        /\ Reserve(w) \in ledger <=> status[w] # "NONE"
        /\ Release(w) \in ledger <=> status[w] \in {"PAID", "FAILED", "CANCELLED"}
        /\ PaidEntry(w) \in ledger <=> status[w] = "PAID"

\* A withdrawal is PAID only when the provider paid it: no stale answer, late
\* callback or crash of a worker between the call and applyResult invents it.
PaidOnlyByProvider ==
    \A w \in Withdrawals : status[w] = "PAID" => payout[w] = "paid"

\* The provider never hears of a withdrawal no administrator approved, even when
\* it is cancelled, failed or claimed again after the worker read it.
ContactOnlyAfterApproval ==
    \A w \in Withdrawals : payout[w] # "none" => approved[w]

\* A final outcome announced in the outbox stays the withdrawal's status, and no
\* PAID withdrawal goes unannounced (applyResult inserts the event with the status).
OutboxTellsOutcome ==
    \A w \in Withdrawals :
        /\ \A r \in {"PAID", "FAILED"} : <<w, r>> \in outbox => status[w] = r
        /\ status[w] = "PAID" => <<w, "PAID">> \in outbox

\* Only a confirmed refund takes the owner's balance below zero, or further below: racing
\* requests, cancellations, payouts, callbacks and polls never do, not even after a refund
\* took back what a withdrawal in progress relies on.  Requests are made from one payout
\* account, on whose row they wait for each other (WithdrawalService.php:33).
OnlyRefundsOverdraw ==
    [][Available' < 0 => Available' >= Available \/ income' < income]_<<ledger, income>>

\* Reconciliation, which reads the status and then the entries while workers and
\* callbacks write, never has a ledger discrepancy to report.
NoLedgerAnomaly ==
    \A a \in anomalies : a[2] = "PROVIDER_QUERY_FAILED"

\* PAID, FAILED and CANCELLED are final: no retry, late callback or poll reopens
\* or changes them, and RECONCILED is never entered.
FinalIsFinal ==
    [][\A w \in Withdrawals : status[w] \in Final => status'[w] = status[w]]_status

\* Money that went back to the owner is not with the provider, nor on the way: refusals,
\* retries, late callbacks, stale polls and workers that die after the call do not do it.
\* What does is told apart withdrawal by withdrawal: the reply of an accepted payout was
\* lost, a worker found the provider switched off, its lease expired before it was done, or
\* the owner cancelled what a worker had claimed.
ReturnedIsNotPaid ==
    \A w \in Withdrawals \ mishap :
        status[w] \in {"FAILED", "CANCELLED"} => payout[w] \in {"none", "failed"}

\* Documentation of the ledger: a confirmed payment produces a release of the
\* reserve and then WITHDRAWAL_PAID.  A signed PAID callback that was processed
\* is such a confirmation.
ConfirmedPaymentIsRecorded ==
    \A w \in Withdrawals :
        <<w, "PAID">> \in callbacks => {Release(w), PaidEntry(w)} \subseteq ledger

\* An approved withdrawal does not stay with the workers for ever: refusals,
\* lost replies, crashes and expired leases end in an answer or in FAILED.
ApprovedIsResolved ==
    \A w \in Withdrawals :
        status[w] = "APPROVED" ~> status[w] \in {"PENDING"} \cup Final

\* The subsystem keeps the promise of ReserveContract.
FundOf(s) ==
    CASE s = "NONE"                  -> "idle"
      [] s \in Open                  -> "held"
      [] s \in {"FAILED", "CANCELLED"} -> "returned"
      [] OTHER                       -> "spent"

Fund == [w \in Withdrawals |-> FundOf(status[w])]

Contract == INSTANCE ReserveContract WITH fund <- Fund

\* Every behaviour of the withdrawals is one of the contract: the balance computed
\* from the ledger guards requests as the contract's free amount does, whatever is paid and
\* refunded meanwhile, and each amount is returned or spent at most once.
KeepsContract == Contract!Spec
=============================================================================
