----------------------------- MODULE MailWorker -----------------------------
(***************************************************************************)
(* The e-mail outbox of the Laravel server: the table email_jobs, drained  *)
(* by EmailOutboxWorker.  runOnce claims a batch in one transaction, then  *)
(* takes its jobs one after the other: deliver reads the job outside any   *)
(* transaction, sends it, and records the outcome in a transaction that    *)
(* writes attempts as it was read plus one.  The cron entry does not       *)
(* overlap with itself, but a daemon may run beside it.                    *)
(***************************************************************************)
EXTENDS Naturals, FiniteSets

CONSTANTS
    Messages,      \* jobs that may be queued
    Workers,       \* processes running EmailOutboxWorker.runOnce
    MaxAttempts,   \* EmailOutboxWorker.maxAttempts (8 in the code)
    BatchLimit,    \* the limit given to runOnce
    MaxCrashes,    \* bound on the crashes of a behaviour
    None           \* no job

ASSUME MailWorkerAssumption ==
    /\ MaxAttempts \in Nat \ {0}
    /\ BatchLimit \in Nat \ {0}
    /\ MaxCrashes \in Nat
    /\ None \notin Messages

VARIABLES
    status,        \* email_jobs.status, "NONE" before the job is inserted
    attempts,      \* email_jobs.attempts
    leased,        \* email_jobs.claimed_until is in the future
    ready,         \* email_jobs.available_at <= now
    log,           \* outcomes in email_job_attempts
    logged,        \* rows of email_job_attempts, MaxAttempts at most
    copies,        \* how often a provider took it: 0, 1 or several (2)
    mishap,        \* history: something went wrong around a delivery of it
    pc,            \* where each worker is in runOnce
    todo,          \* claimed jobs the worker has still to deliver
    cur,           \* the job it delivers
    seen,          \* the attempts it read of that job
    reply,         \* the provider's answer
    crashes        \* crashes so far

jobVars    == <<status, attempts, leased, ready>>
logVars    == <<log, logged>>
mailVars   == <<copies, mishap>>
workerVars == <<pc, todo, cur, seen, reply>>
vars == <<jobVars, logVars, mailVars, workerVars, crashes>>

Replies == {"sent", "temporary", "permanent"}

InHand(m) == \E k \in Workers : m \in todo[k] \/ cur[k] = m

-----------------------------------------------------------------------------
\* A request inserts the job with the row it is about.
Enqueue(m) ==
    /\ status[m] = "NONE"
    /\ status' = [status EXCEPT ![m] = "PENDING"]
    /\ UNCHANGED <<attempts, leased, ready, logVars, mailVars, workerVars, crashes>>

\* An administrator replays a job given up.
ReplayDead(m) ==
    /\ status[m] = "DEAD"
    /\ status' = [status EXCEPT ![m] = "PENDING"]
    /\ attempts' = [attempts EXCEPT ![m] = 0]
    /\ ready' = [ready EXCEPT ![m] = TRUE]
    /\ leased' = [leased EXCEPT ![m] = FALSE]
    /\ UNCHANGED <<logVars, mailVars, workerVars, crashes>>

\* Mutants: leases are ignored, or an expired lease is never taken over.
Claimable_Leased(m) ==
    \/ status[m] = "PENDING" /\ ready[m]
    \/ status[m] = "PROCESSING"

Claimable_PendingOnly(m) == status[m] = "PENDING" /\ ready[m]

Claimable(m) ==
    \/ status[m] = "PENDING" /\ ready[m]
    \/ status[m] = "PROCESSING" /\ ~leased[m]

Batches ==
    LET eligible == {m \in Messages : Claimable(m)} IN
    {b \in SUBSET eligible \ {{}} :
        \/ Cardinality(b) = BatchLimit
        \/ b = eligible /\ Cardinality(b) < BatchLimit}

Claim(k) ==
    /\ pc[k] = "idle"
    /\ \E batch \in Batches :
         /\ todo' = [todo EXCEPT ![k] = batch]
         /\ status' = [m \in Messages |-> IF m \in batch THEN "PROCESSING" ELSE status[m]]
         /\ leased' = [m \in Messages |-> m \in batch \/ leased[m]]
    /\ pc' = [pc EXCEPT ![k] = "next"]
    /\ UNCHANGED <<attempts, ready, logVars, mailVars, cur, seen, reply, crashes>>

\* deliver reads the job, without a lock, and skips one that is not PROCESSING.
Read(k) ==
    /\ pc[k] = "next"
    /\ \E m \in todo[k] :
         /\ todo' = [todo EXCEPT ![k] = @ \ {m}]
         /\ IF status[m] = "PROCESSING"
            THEN /\ cur' = [cur EXCEPT ![k] = m]
                 /\ seen' = [seen EXCEPT ![k] = attempts[m]]
                 /\ pc' = [pc EXCEPT ![k] = "send"]
            ELSE /\ pc' = [pc EXCEPT ![k] = IF todo[k] = {m} THEN "idle" ELSE "next"]
                 /\ UNCHANGED <<cur, seen>>
    /\ UNCHANGED <<jobVars, logVars, mailVars, reply, crashes>>

Taken(m) == copies' = [copies EXCEPT ![m] = IF @ = 0 THEN 1 ELSE 2]

\* provider.send: taken, refused for now or for good, or taken although it reports a
\* failure; what it throws is a failure for good.
Send(k) ==
    /\ pc[k] = "send"
    /\ \/ /\ reply' = [reply EXCEPT ![k] = "sent"]
          /\ Taken(cur[k])
          /\ UNCHANGED mishap
       \/ /\ \E r \in Replies \ {"sent"} : reply' = [reply EXCEPT ![k] = r]
          /\ \/ UNCHANGED mailVars
             \/ Taken(cur[k]) /\ mishap' = [mishap EXCEPT ![cur[k]] = TRUE]
    /\ pc' = [pc EXCEPT ![k] = "record"]
    /\ UNCHANGED <<jobVars, logVars, todo, cur, seen, crashes>>

Outcome(r, attempt) ==
    IF r = "sent" THEN "SENT"
    ELSE IF r = "permanent" \/ attempt >= MaxAttempts THEN "DEAD" ELSE "PENDING"

\* Mutant: the outcome is written over whatever the status has become.
Writes_Always(m) == TRUE

Writes(m) == status[m] = "PROCESSING"

\* Mutant: a failed delivery is not logged.
Logs_Success(outcome) == outcome = "SENT"

Logs(outcome) == TRUE

\* The last transaction of deliver: the job is updated if it is still PROCESSING, the
\* attempt is logged in any case.
Record(k) ==
    /\ pc[k] = "record"
    /\ LET m == cur[k]
           attempt == seen[k] + 1
           outcome == Outcome(reply[k], attempt)
       IN  /\ IF Writes(m)
              THEN /\ status' = [status EXCEPT ![m] = outcome]
                   /\ attempts' = [attempts EXCEPT ![m] = attempt]
                   /\ leased' = [leased EXCEPT ![m] = FALSE]
                   /\ ready' = [ready EXCEPT ![m] = outcome # "PENDING"]
              ELSE UNCHANGED jobVars
           /\ IF Logs(outcome)
              THEN /\ log' = [log EXCEPT ![m] = @ \cup {outcome}]
                   /\ logged' = [logged EXCEPT ![m] = IF @ < MaxAttempts THEN @ + 1 ELSE @]
              ELSE UNCHANGED logVars
    /\ pc' = [pc EXCEPT ![k] = IF todo[k] = {} THEN "idle" ELSE "next"]
    /\ cur' = [cur EXCEPT ![k] = None]
    /\ seen' = [seen EXCEPT ![k] = 0]
    /\ reply' = [reply EXCEPT ![k] = None]
    /\ UNCHANGED <<mailVars, todo, crashes>>

\* The process dies, or the transaction of deliver fails and runOnce with it: what is
\* left of the batch waits for the lease to expire.
Crash(k) ==
    /\ pc[k] # "idle"
    /\ crashes < MaxCrashes
    /\ crashes' = crashes + 1
    /\ pc' = [pc EXCEPT ![k] = "idle"]
    /\ todo' = [todo EXCEPT ![k] = {}]
    /\ cur' = [cur EXCEPT ![k] = None]
    /\ seen' = [seen EXCEPT ![k] = 0]
    /\ reply' = [reply EXCEPT ![k] = None]
    /\ mishap' = IF reply[k] = "sent" THEN [mishap EXCEPT ![cur[k]] = TRUE] ELSE mishap
    /\ UNCHANGED <<jobVars, logVars, copies>>

\* Time passes claimed_until, perhaps while the holder still works on its batch.
LeaseExpires(m) ==
    /\ leased[m]
    /\ leased' = [leased EXCEPT ![m] = FALSE]
    /\ mishap' = [mishap EXCEPT ![m] = @ \/ InHand(m)]
    /\ UNCHANGED <<status, attempts, ready, logVars, copies, workerVars, crashes>>

\* Time passes available_at.
BackoffElapses(m) ==
    /\ ~ready[m]
    /\ ready' = [ready EXCEPT ![m] = TRUE]
    /\ UNCHANGED <<status, attempts, leased, logVars, mailVars, workerVars, crashes>>

-----------------------------------------------------------------------------
Init ==
    /\ status = [m \in Messages |-> "NONE"]
    /\ attempts = [m \in Messages |-> 0]
    /\ leased = [m \in Messages |-> FALSE]
    /\ ready = [m \in Messages |-> TRUE]
    /\ log = [m \in Messages |-> {}]
    /\ logged = [m \in Messages |-> 0]
    /\ copies = [m \in Messages |-> 0]
    /\ mishap = [m \in Messages |-> FALSE]
    /\ pc = [k \in Workers |-> "idle"]
    /\ todo = [k \in Workers |-> {}]
    /\ cur = [k \in Workers |-> None]
    /\ seen = [k \in Workers |-> 0]
    /\ reply = [k \in Workers |-> None]
    /\ crashes = 0

WorkerStep(k) == Claim(k) \/ Read(k) \/ Send(k) \/ Record(k)

Next ==
    \/ \E m \in Messages : Enqueue(m) \/ ReplayDead(m) \/ LeaseExpires(m) \/ BackoffElapses(m)
    \/ \E k \in Workers : WorkerStep(k) \/ Crash(k)

Spec == Init /\ [][Next]_vars

\* The worker is scheduled every minute and each send returns; leases and back-offs are
\* bounded times.  Nobody has to queue or to replay anything.
Fairness ==
    /\ \A k \in Workers : WF_vars(WorkerStep(k))
    /\ \A m \in Messages : WF_vars(LeaseExpires(m)) /\ WF_vars(BackoffElapses(m))

FairSpec == Spec /\ Fairness

-----------------------------------------------------------------------------
(* Properties *)

\* Every column and worker variable has its type.
TypeOK ==
    /\ status \in [Messages -> {"NONE", "PENDING", "PROCESSING", "SENT", "DEAD"}]
    /\ attempts \in [Messages -> 0..MaxAttempts]
    /\ leased \in [Messages -> BOOLEAN]
    /\ ready \in [Messages -> BOOLEAN]
    /\ log \in [Messages -> SUBSET {"SENT", "DEAD", "PENDING"}]
    /\ logged \in [Messages -> 0..MaxAttempts]
    /\ copies \in [Messages -> 0..2]
    /\ mishap \in [Messages -> BOOLEAN]
    /\ pc \in [Workers -> {"idle", "next", "send", "record"}]
    /\ todo \in [Workers -> SUBSET Messages]
    /\ cur \in [Workers -> Messages \cup {None}]
    /\ seen \in [Workers -> 0..MaxAttempts]
    /\ reply \in [Workers -> Replies \cup {None}]
    /\ crashes \in 0..MaxCrashes

\* Unless a reply was lost, a worker died between the provider's answer and its record,
\* or a lease expired under its holder, a mail is sent at most once, never if it is given
\* up, and its log says SENT exactly when the job does.
CleanDelivery ==
    \A m \in Messages :
        ~mishap[m] => /\ copies[m] <= 1
                      /\ status[m] = "DEAD" => copies[m] = 0
                      /\ "SENT" \in log[m] <=> status[m] = "SENT"

\* The history keeps up with the counter even when workers overtake each other, write
\* attempts back to an older value or find their job replayed: no attempt is counted
\* without its row, and the row of a settled job's outcome is there.
AttemptsAreLogged ==
    \A m \in Messages :
        /\ attempts[m] <= logged[m]
        /\ status[m] \in {"SENT", "DEAD"} => status[m] \in log[m]

\* A queued mail is sent or given up in the end, although workers that were overtaken
\* may set its attempts back.
EveryMessageSettles ==
    \A m \in Messages : status[m] = "PENDING" ~> status[m] \in {"SENT", "DEAD"}

\* The jobs keep the promise of DeliveryContract, with replays.
StateOf(s) ==
    CASE s = "NONE" -> "absent"
      [] s = "SENT" -> "sent"
      [] s = "DEAD" -> "dead"
      [] OTHER      -> "waiting"

State == [m \in Messages |-> StateOf(status[m])]
AcceptedOnce == [m \in Messages |-> copies[m] > 0]

Contract == INSTANCE DeliveryContract
                WITH state <- State, accepted <- AcceptedOnce, Replays <- TRUE

\* A mail is recorded as sent only after a provider took it, SENT is for ever, and only
\* an administrator takes a job out of DEAD.
KeepsContract == Contract!Spec
=============================================================================
