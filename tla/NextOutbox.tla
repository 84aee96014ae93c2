----------------------------- MODULE NextOutbox -----------------------------
(***************************************************************************)
(* The outbox of the Next.js backend.  Requests append messages to the     *)
(* state in their own transaction; OutboxWorker.runOnce claims a batch in  *)
(* one transaction, delivers its messages one after the other outside any  *)
(* transaction and finishes each of them in a transaction of its own.      *)
(* Several processes may run (worker and scheduler jobs).                  *)
(*                                                                         *)
(* The lease of 60 s is for the whole batch and finish does not check who  *)
(* holds it, so a slow worker and the one that took over interleave.       *)
(***************************************************************************)
EXTENDS Naturals, FiniteSets

CONSTANTS
    Messages,      \* messages that may be queued
    Workers,       \* processes running OutboxWorker.runOnce
    MaxAttempts,   \* deliveries after which a message is DEAD (5 in the code)
    BatchLimit,    \* the limit given to runOnce
    MaxFaults,     \* bound on the crashes and failing transactions of a behaviour
    None           \* no message

ASSUME NextOutboxAssumption ==
    /\ IsFiniteSet(Workers)
    /\ MaxAttempts \in Nat \ {0}
    /\ BatchLimit \in Nat \ {0}
    /\ MaxFaults \in Nat
    /\ None \notin Messages

VARIABLES
    status,        \* OutboxRecord.status, "NONE" before it is queued
    attempts,      \* OutboxRecord.attempts
    leased,        \* OutboxRecord.leaseUntil is in the future
    ready,         \* OutboxRecord.availableAt <= now
    copies,        \* how often the delivery port accepted it: 0, 1 or several (2)
    calls,         \* history: how often the port was called for it, MaxAttempts at most
    mishap,        \* history: something went wrong around a delivery of it
    pc,            \* where each worker is in runOnce
    todo,          \* claimed messages the worker has still to deliver
    cur,           \* the message the worker is delivering
    faults         \* crashes and failed transactions so far

queueVars  == <<status, attempts, leased, ready>>
portVars   == <<copies, calls, mishap>>
workerVars == <<pc, todo, cur>>
vars == <<queueVars, portVars, workerVars, faults>>

InHand(m) == \E k \in Workers : m \in todo[k] \/ cur[k] = m

-----------------------------------------------------------------------------
\* enqueue, in the transaction of the request that causes the message.
Enqueue(m) ==
    /\ status[m] = "NONE"
    /\ status' = [status EXCEPT ![m] = "PENDING"]
    /\ UNCHANGED <<attempts, leased, ready, portVars, workerVars, faults>>

\* Mutants: leases are ignored, or an expired lease is never taken over.
Claimable_Leased(m) == status[m] \in {"PENDING", "PROCESSING"} /\ ready[m]

Claimable_PendingOnly(m) == status[m] = "PENDING" /\ ready[m]

Claimable(m) ==
    /\ \/ status[m] = "PENDING"
       \/ status[m] = "PROCESSING" /\ ~leased[m]
    /\ ready[m]

\* The first messages of the state, as many as the limit allows.
Batches ==
    LET eligible == {m \in Messages : Claimable(m)} IN
    {b \in SUBSET eligible \ {{}} :
        \/ Cardinality(b) = BatchLimit
        \/ b = eligible /\ Cardinality(b) < BatchLimit}

Claim(k) ==
    /\ pc[k] = "idle"
    /\ \E batch \in Batches :
         /\ todo' = [todo EXCEPT ![k] = batch]
         /\ status' = [m \in Messages |-> IF m \in batch THEN "PROCESSING" ELSE status[m]]
         /\ leased' = [m \in Messages |-> m \in batch \/ leased[m]]
    /\ pc' = [pc EXCEPT ![k] = "next"]
    /\ UNCHANGED <<attempts, ready, portVars, cur, faults>>

Accepted(m) == copies' = [copies EXCEPT ![m] = IF @ = 0 THEN 1 ELSE 2]

\* delivery.deliver: accepted, refused, or accepted although the call throws.
Deliver(k) ==
    /\ pc[k] = "next"
    /\ \E m \in todo[k] :
         /\ todo' = [todo EXCEPT ![k] = @ \ {m}]
         /\ cur' = [cur EXCEPT ![k] = m]
         /\ calls' = [calls EXCEPT ![m] = IF @ < MaxAttempts THEN @ + 1 ELSE @]
         /\ \/ /\ Accepted(m)
               /\ pc' = [pc EXCEPT ![k] = "finishSent"]
               /\ UNCHANGED mishap
            \/ /\ pc' = [pc EXCEPT ![k] = "finishFailed"]
               /\ UNCHANGED <<copies, mishap>>
            \/ /\ Accepted(m)
               /\ pc' = [pc EXCEPT ![k] = "finishFailed"]
               /\ mishap' = [mishap EXCEPT ![m] = TRUE]
    /\ UNCHANGED <<queueVars, faults>>

NextItem(k) ==
    /\ pc' = [pc EXCEPT ![k] = IF todo[k] = {} THEN "idle" ELSE "next"]
    /\ cur' = [cur EXCEPT ![k] = None]
    /\ UNCHANGED todo

\* Mutant: finish takes every message for PROCESSING.
InProcess_Always(m) == TRUE

InProcess(m) == status[m] = "PROCESSING"

\* Mutant: a message is given up one attempt early.
Outcome_Early(m, success) ==
    IF success THEN "SENT"
    ELSE IF attempts[m] + 2 >= MaxAttempts THEN "DEAD"
    ELSE "PENDING"

Outcome(m, success) ==
    IF success THEN "SENT"
    ELSE IF attempts[m] + 1 >= MaxAttempts THEN "DEAD"
    ELSE "PENDING"

\* The transaction of finish.
Finish(m, success) ==
    IF InProcess(m)
    THEN /\ attempts' = [attempts EXCEPT ![m] = @ + 1]
         /\ leased' = [leased EXCEPT ![m] = FALSE]
         /\ status' = [status EXCEPT ![m] = Outcome(m, success)]
         /\ ready' = [ready EXCEPT ![m] = @ /\ Outcome(m, success) # "PENDING"]
    ELSE UNCHANGED queueVars

FinishSent(k) ==
    /\ pc[k] = "finishSent"
    /\ Finish(cur[k], TRUE)
    /\ NextItem(k)
    /\ UNCHANGED <<portVars, faults>>

\* Its transaction fails: the catch block takes the delivery for a failed one.
\* (One that commits and loses its reply is a FinishSent: what is SENT stays so.)
FinishSentThrows(k) ==
    /\ pc[k] = "finishSent"
    /\ faults < MaxFaults
    /\ faults' = faults + 1
    /\ pc' = [pc EXCEPT ![k] = "finishFailed"]
    /\ mishap' = [mishap EXCEPT ![cur[k]] = TRUE]
    /\ UNCHANGED <<queueVars, copies, calls, todo, cur>>

FinishFailed(k) ==
    /\ pc[k] = "finishFailed"
    /\ Finish(cur[k], FALSE)
    /\ NextItem(k)
    /\ UNCHANGED <<portVars, faults>>

\* The process is killed, or the transaction of the catch block fails and runOnce
\* rejects: what is left of the batch waits for the lease to expire.
Abort(k) ==
    /\ pc[k] # "idle"
    /\ faults < MaxFaults
    /\ faults' = faults + 1
    /\ pc' = [pc EXCEPT ![k] = "idle"]
    /\ todo' = [todo EXCEPT ![k] = {}]
    /\ cur' = [cur EXCEPT ![k] = None]
    /\ mishap' = IF pc[k] = "finishSent" THEN [mishap EXCEPT ![cur[k]] = TRUE] ELSE mishap
    /\ UNCHANGED <<queueVars, copies, calls>>

\* Time passes leaseUntil, perhaps while the holder still works on its batch.
LeaseExpires(m) ==
    /\ leased[m]
    /\ leased' = [leased EXCEPT ![m] = FALSE]
    /\ mishap' = [mishap EXCEPT ![m] = @ \/ InHand(m)]
    /\ UNCHANGED <<status, attempts, ready, copies, calls, workerVars, faults>>

\* Time passes availableAt.
BackoffElapses(m) ==
    /\ ~ready[m]
    /\ ready' = [ready EXCEPT ![m] = TRUE]
    /\ UNCHANGED <<status, attempts, leased, portVars, workerVars, faults>>

-----------------------------------------------------------------------------
Init ==
    /\ status = [m \in Messages |-> "NONE"]
    /\ attempts = [m \in Messages |-> 0]
    /\ leased = [m \in Messages |-> FALSE]
    /\ ready = [m \in Messages |-> TRUE]
    /\ copies = [m \in Messages |-> 0]
    /\ calls = [m \in Messages |-> 0]
    /\ mishap = [m \in Messages |-> FALSE]
    /\ pc = [k \in Workers |-> "idle"]
    /\ todo = [k \in Workers |-> {}]
    /\ cur = [k \in Workers |-> None]
    /\ faults = 0

WorkerStep(k) == Claim(k) \/ Deliver(k) \/ FinishSent(k) \/ FinishFailed(k)

Next ==
    \/ \E m \in Messages : Enqueue(m) \/ LeaseExpires(m) \/ BackoffElapses(m)
    \/ \E k \in Workers : WorkerStep(k) \/ FinishSentThrows(k) \/ Abort(k)

Spec == Init /\ [][Next]_vars

\* The jobs are scheduled again and again and each delivery returns; leases and
\* back-offs are bounded times.  Requests need not queue anything.
Fairness ==
    /\ \A k \in Workers : WF_vars(WorkerStep(k))
    /\ \A m \in Messages : WF_vars(LeaseExpires(m)) /\ WF_vars(BackoffElapses(m))

FairSpec == Spec /\ Fairness

-----------------------------------------------------------------------------
(* Properties *)

\* Every variable has its type; attempts stop at MaxAttempts.
TypeOK ==
    /\ status \in [Messages -> {"NONE", "PENDING", "PROCESSING", "SENT", "DEAD"}]
    /\ attempts \in [Messages -> 0..MaxAttempts]
    /\ leased \in [Messages -> BOOLEAN]
    /\ ready \in [Messages -> BOOLEAN]
    /\ copies \in [Messages -> 0..2]
    /\ calls \in [Messages -> 0..MaxAttempts]
    /\ mishap \in [Messages -> BOOLEAN]
    /\ pc \in [Workers -> {"idle", "next", "finishSent", "finishFailed"}]
    /\ todo \in [Workers -> SUBSET Messages]
    /\ cur \in [Workers -> Messages \cup {None}]
    /\ faults \in 0..MaxFaults

\* A message is delivered twice, or given up although it was delivered, only after
\* a reply was lost, a worker died or its transaction failed between delivery and
\* finish, or a lease expired under its holder.
CleanDelivery ==
    \A m \in Messages :
        ~mishap[m] => /\ copies[m] <= 1
                      /\ status[m] = "DEAD" => copies[m] = 0

\* A message is given up only after the port was really called for all its attempts:
\* workers that overtake each other, and finish each other's claims, never count one
\* delivery twice; and a message that waits has an attempt left.
GivenUpAfterAllAttempts ==
    \A m \in Messages :
        /\ attempts[m] <= calls[m]
        /\ status[m] = "DEAD" => calls[m] = MaxAttempts
        /\ status[m] \in {"PENDING", "PROCESSING"} => attempts[m] < MaxAttempts

\* A queued message is sent or given up in the end: neither a batch abandoned by a
\* dead worker nor a finish that came too late leaves it behind.
EveryMessageSettles ==
    \A m \in Messages : status[m] = "PENDING" ~> status[m] \in {"SENT", "DEAD"}

\* The outbox keeps the promise of DeliveryContract, without replays.
StateOf(s) ==
    CASE s = "NONE" -> "absent"
      [] s = "SENT" -> "sent"
      [] s = "DEAD" -> "dead"
      [] OTHER      -> "waiting"

State == [m \in Messages |-> StateOf(status[m])]
AcceptedOnce == [m \in Messages |-> copies[m] > 0]

Contract == INSTANCE DeliveryContract
                WITH state <- State, accepted <- AcceptedOnce, Replays <- FALSE

\* Whatever workers do to each other's claims, a message is recorded as sent only
\* after the port accepted it, and SENT and DEAD are for ever.
KeepsContract == Contract!Spec
=============================================================================
