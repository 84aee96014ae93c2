-------------------------- MODULE MailWorker_proofs -------------------------
(***************************************************************************)
(* Proofs about MailWorker, for any jobs and workers, any number of        *)
(* attempts and crashes.                                                   *)
(***************************************************************************)
EXTENDS MailWorker, TLAPS

\* A worker between Read and Record has a job, whose counter it read below the maximum; an
\* idle one has no batch; batches hold queued jobs, and a mail reported as sent was taken.
InFocus ==
    \A k \in Workers :
        /\ pc[k] \in {"send", "record"} <=> cur[k] \in Messages
        /\ pc[k] = "idle" => todo[k] = {}
        /\ \A m \in todo[k] : status[m] # "NONE"
        /\ cur[k] \in Messages => status[cur[k]] # "NONE" /\ seen[k] < MaxAttempts
        /\ pc[k] = "record" => reply[k] \in Replies
        /\ pc[k] = "record" /\ reply[k] = "sent" => copies[cur[k]] > 0

\* A job that waits has an attempt left.
Waiting == \A m \in Messages :
    status[m] \in {"NONE", "PENDING", "PROCESSING"} => attempts[m] < MaxAttempts

Typed == TypeOK /\ InFocus /\ Waiting

-----------------------------------------------------------------------------
(* What the steps of a worker do. *)

LEMMA ClaimFacts ==
    ASSUME NEW k \in Workers, Claim(k)
    PROVE  /\ pc[k] = "idle"
           /\ \E batch \in SUBSET Messages :
                 /\ \A m \in batch : Claimable(m)
                 /\ todo' = [todo EXCEPT ![k] = batch]
                 /\ status' = [m \in Messages |-> IF m \in batch THEN "PROCESSING" ELSE status[m]]
                 /\ leased' = [m \in Messages |-> m \in batch \/ leased[m]]
           /\ pc' = [pc EXCEPT ![k] = "next"]
           /\ UNCHANGED <<attempts, ready, log, logged, copies, mishap, cur, seen, reply, crashes>>
BY DEF Claim, Batches, logVars, mailVars

\* The outcome of a delivery, the job's row and its log.
LEMMA RecordFacts ==
    ASSUME TypeOK, InFocus, NEW k \in Workers, Record(k)
    PROVE  \E m \in Messages, outcome \in {"SENT", "DEAD", "PENDING"} :
              /\ m = cur[k] /\ pc[k] = "record"
              /\ outcome = "SENT" <=> reply[k] = "sent"
              /\ outcome = "PENDING" => seen[k] + 1 < MaxAttempts
              /\ \/ /\ status[m] = "PROCESSING"
                    /\ status' = [status EXCEPT ![m] = outcome]
                    /\ attempts' = [attempts EXCEPT ![m] = seen[k] + 1]
                    /\ leased' = [leased EXCEPT ![m] = FALSE]
                    /\ ready' = [ready EXCEPT ![m] = outcome # "PENDING"]
                 \/ /\ status[m] # "PROCESSING"
                    /\ UNCHANGED <<status, attempts, leased, ready>>
              /\ log' = [log EXCEPT ![m] = @ \cup {outcome}]
              /\ logged' = [logged EXCEPT ![m] = IF @ < MaxAttempts THEN @ + 1 ELSE @]
<1> DEFINE m == cur[k]
<1> DEFINE outcome == Outcome(reply[k], seen[k] + 1)
<1>1. m \in Messages /\ pc[k] = "record" /\ seen[k] \in Nat
  BY MailWorkerAssumption DEF Record, InFocus, TypeOK
<1>2. /\ outcome \in {"SENT", "DEAD", "PENDING"}
      /\ outcome = "SENT" <=> reply[k] = "sent"
      /\ outcome = "PENDING" => seen[k] + 1 < MaxAttempts
  <2>1. CASE reply[k] = "sent"
    <3>1. outcome = "SENT"
      BY <2>1 DEF Outcome
    <3> QED
      BY <2>1, <3>1
  <2>2. CASE reply[k] # "sent" /\ (reply[k] = "permanent" \/ seen[k] + 1 >= MaxAttempts)
    <3>1. outcome = "DEAD"
      BY <2>2 DEF Outcome
    <3> QED
      BY <2>2, <3>1
  <2>3. CASE reply[k] # "sent" /\ reply[k] # "permanent" /\ ~(seen[k] + 1 >= MaxAttempts)
    <3>1. outcome = "PENDING"
      BY <2>3 DEF Outcome
    <3> QED
      BY <1>1, <2>3, <3>1, MailWorkerAssumption
  <2> QED
    BY <2>1, <2>2, <2>3
<1>3. /\ \/ /\ status[m] = "PROCESSING"
            /\ status' = [status EXCEPT ![m] = outcome]
            /\ attempts' = [attempts EXCEPT ![m] = seen[k] + 1]
            /\ leased' = [leased EXCEPT ![m] = FALSE]
            /\ ready' = [ready EXCEPT ![m] = outcome # "PENDING"]
         \/ /\ status[m] # "PROCESSING"
            /\ UNCHANGED <<status, attempts, leased, ready>>
      /\ log' = [log EXCEPT ![m] = @ \cup {outcome}]
      /\ logged' = [logged EXCEPT ![m] = IF @ < MaxAttempts THEN @ + 1 ELSE @]
  BY DEF Record, Writes, Logs, jobVars
<1> HIDE DEF m, outcome
<1> QED
  BY <1>1, <1>2, <1>3 DEF m

\* And the worker itself afterwards.
LEMMA RecordLeaves ==
    ASSUME NEW k \in Workers, Record(k)
    PROVE  /\ pc' = [pc EXCEPT ![k] = IF todo[k] = {} THEN "idle" ELSE "next"]
           /\ cur' = [cur EXCEPT ![k] = None]
           /\ seen' = [seen EXCEPT ![k] = 0]
           /\ reply' = [reply EXCEPT ![k] = None]
           /\ UNCHANGED <<copies, mishap, todo, crashes>>
BY DEF Record, mailVars

-----------------------------------------------------------------------------
(* Types. *)

LEMMA TypedInit == Init => Typed
<1> SUFFICES ASSUME Init PROVE Typed
  OBVIOUS
<1>1. TypeOK
  BY MailWorkerAssumption DEF Init, TypeOK
<1>2. InFocus
  BY MailWorkerAssumption DEF Init, InFocus
<1>3. Waiting
  BY MailWorkerAssumption DEF Init, Waiting
<1> QED
  BY <1>1, <1>2, <1>3 DEF Typed

\* Steps on a job alone.
LEMMA JobTyped ==
    ASSUME TypeOK, InFocus, Waiting, NEW m \in Messages,
           Enqueue(m) \/ ReplayDead(m) \/ LeaseExpires(m) \/ BackoffElapses(m)
    PROVE  TypeOK' /\ InFocus' /\ Waiting'
<1> USE DEF jobVars, logVars, mailVars, workerVars
<1>1. CASE Enqueue(m)
  BY <1>1 DEF Enqueue, TypeOK, InFocus, Waiting
<1>2. CASE ReplayDead(m)
  <2>1. TypeOK' /\ InFocus'
    BY <1>2, MailWorkerAssumption DEF ReplayDead, TypeOK, InFocus
  <2>2. Waiting'
    BY <1>2, MailWorkerAssumption DEF ReplayDead, TypeOK, Waiting
  <2> QED
    BY <2>1, <2>2
<1>3. CASE LeaseExpires(m)
  <2>1. InHand(m) \in BOOLEAN
    BY DEF InHand
  <2>2. mishap' \in [Messages -> BOOLEAN]
    BY <1>3, <2>1 DEF LeaseExpires, TypeOK
  <2> QED
    BY <1>3, <2>2 DEF LeaseExpires, TypeOK, InFocus, Waiting
<1>4. CASE BackoffElapses(m)
  BY <1>4 DEF BackoffElapses, TypeOK, InFocus, Waiting
<1> QED
  BY <1>1, <1>2, <1>3, <1>4

LEMMA ClaimTyped ==
    ASSUME TypeOK, InFocus, Waiting, NEW k \in Workers, Claim(k)
    PROVE  TypeOK' /\ InFocus' /\ Waiting'
<1>1. PICK batch \in SUBSET Messages :
        /\ \A m \in batch : status[m] \in {"PENDING", "PROCESSING"}
        /\ todo' = [todo EXCEPT ![k] = batch]
        /\ status' = [m \in Messages |-> IF m \in batch THEN "PROCESSING" ELSE status[m]]
        /\ leased' = [m \in Messages |-> m \in batch \/ leased[m]]
  BY ClaimFacts DEF Claimable
<1>2. TypeOK'
  BY <1>1, ClaimFacts DEF TypeOK
<1>3. InFocus'
  BY <1>1, ClaimFacts DEF TypeOK, InFocus
<1>4. Waiting'
  BY <1>1, ClaimFacts DEF TypeOK, Waiting
<1> QED
  BY <1>2, <1>3, <1>4

LEMMA ReadTyped ==
    ASSUME TypeOK, InFocus, Waiting, NEW k \in Workers, Read(k)
    PROVE  TypeOK' /\ InFocus' /\ Waiting'
<1> USE DEF jobVars, logVars, mailVars
<1>1. PICK m \in todo[k] :
        /\ todo' = [todo EXCEPT ![k] = @ \ {m}]
        /\ \/ /\ status[m] = "PROCESSING"
              /\ cur' = [cur EXCEPT ![k] = m]
              /\ seen' = [seen EXCEPT ![k] = attempts[m]]
              /\ pc' = [pc EXCEPT ![k] = "send"]
           \/ /\ pc' = [pc EXCEPT ![k] = IF todo[k] = {m} THEN "idle" ELSE "next"]
              /\ UNCHANGED <<cur, seen>>
  BY DEF Read
<1>2. m \in Messages /\ pc[k] = "next"
  BY <1>1 DEF Read, TypeOK
<1>3. status[m] = "PROCESSING" => attempts[m] < MaxAttempts
  BY <1>2 DEF Waiting
<1>4. TypeOK'
  BY <1>1, <1>2 DEF Read, TypeOK
<1>5. InFocus'
  BY <1>1, <1>2, <1>3 DEF Read, TypeOK, InFocus
<1>6. Waiting'
  BY DEF Read, Waiting
<1> QED
  BY <1>4, <1>5, <1>6

\* What the provider does with the mail.
LEMMA SendFacts ==
    ASSUME TypeOK, InFocus, NEW k \in Workers, Send(k)
    PROVE  \E m \in Messages, r \in Replies :
              /\ m = cur[k] /\ pc[k] = "send"
              /\ reply' = [reply EXCEPT ![k] = r]
              /\ pc' = [pc EXCEPT ![k] = "record"]
              /\ UNCHANGED <<status, attempts, leased, ready, log, logged, todo, cur, seen, crashes>>
              /\ \/ r = "sent" /\ Taken(m) /\ UNCHANGED mishap
                 \/ r # "sent" /\ UNCHANGED <<copies, mishap>>
                 \/ r # "sent" /\ Taken(m) /\ mishap' = [mishap EXCEPT ![m] = TRUE]
<1>1. cur[k] \in Messages /\ pc[k] = "send"
  BY DEF Send, InFocus
<1>2. PICK r \in Replies :
        /\ reply' = [reply EXCEPT ![k] = r]
        /\ \/ r = "sent" /\ Taken(cur[k]) /\ UNCHANGED mishap
           \/ r # "sent" /\ UNCHANGED <<copies, mishap>>
           \/ r # "sent" /\ Taken(cur[k]) /\ mishap' = [mishap EXCEPT ![cur[k]] = TRUE]
  BY DEF Send, Replies, mailVars
<1> QED
  BY <1>1, <1>2 DEF Send, jobVars, logVars

LEMMA SendTyped ==
    ASSUME TypeOK, InFocus, Waiting, NEW k \in Workers, Send(k)
    PROVE  TypeOK' /\ InFocus' /\ Waiting'
<1>1. PICK m \in Messages, r \in Replies :
        /\ m = cur[k] /\ pc[k] = "send"
        /\ reply' = [reply EXCEPT ![k] = r]
        /\ pc' = [pc EXCEPT ![k] = "record"]
        /\ UNCHANGED <<status, attempts, leased, ready, log, logged, todo, cur, seen, crashes>>
        /\ \/ r = "sent" /\ Taken(m) /\ UNCHANGED mishap
           \/ r # "sent" /\ UNCHANGED <<copies, mishap>>
           \/ r # "sent" /\ Taken(m) /\ mishap' = [mishap EXCEPT ![m] = TRUE]
  BY SendFacts
<1>2. /\ copies' \in [Messages -> 0..2]
      /\ \A n \in Messages : copies[n] > 0 => copies'[n] > 0
      /\ r = "sent" => copies'[m] > 0
  BY <1>1 DEF Taken, TypeOK
<1>3. TypeOK'
  BY <1>1, <1>2 DEF TypeOK
<1>4. InFocus'
  BY <1>1, <1>2 DEF TypeOK, InFocus
<1>5. Waiting'
  BY <1>1 DEF Waiting
<1> QED
  BY <1>3, <1>4, <1>5

LEMMA RecordTyped ==
    ASSUME TypeOK, InFocus, Waiting, NEW k \in Workers, Record(k)
    PROVE  TypeOK' /\ InFocus' /\ Waiting'
<1>1. PICK m \in Messages, outcome \in {"SENT", "DEAD", "PENDING"} :
        /\ m = cur[k] /\ pc[k] = "record"
        /\ outcome = "PENDING" => seen[k] + 1 < MaxAttempts
        /\ \/ /\ status[m] = "PROCESSING"
              /\ status' = [status EXCEPT ![m] = outcome]
              /\ attempts' = [attempts EXCEPT ![m] = seen[k] + 1]
              /\ leased' = [leased EXCEPT ![m] = FALSE]
              /\ ready' = [ready EXCEPT ![m] = outcome # "PENDING"]
           \/ UNCHANGED <<status, attempts, leased, ready>>
        /\ log' = [log EXCEPT ![m] = @ \cup {outcome}]
        /\ logged' = [logged EXCEPT ![m] = IF @ < MaxAttempts THEN @ + 1 ELSE @]
  BY RecordFacts
<1>2. seen[k] \in Nat /\ seen[k] < MaxAttempts
  BY <1>1, MailWorkerAssumption DEF InFocus, TypeOK
<1>3. seen[k] + 1 \in 0..MaxAttempts
  BY <1>2, MailWorkerAssumption
<1>4. logged' \in [Messages -> 0..MaxAttempts]
  BY <1>1, MailWorkerAssumption DEF TypeOK
<1>5. ready' \in [Messages -> BOOLEAN]
  BY <1>1 DEF TypeOK
<1>6. /\ status' \in [Messages -> {"NONE", "PENDING", "PROCESSING", "SENT", "DEAD"}]
      /\ attempts' \in [Messages -> 0..MaxAttempts]
      /\ leased' \in [Messages -> BOOLEAN]
  <2>1. CASE UNCHANGED <<status, attempts, leased, ready>>
    BY <2>1 DEF TypeOK
  <2>2. CASE /\ status' = [status EXCEPT ![m] = outcome]
             /\ attempts' = [attempts EXCEPT ![m] = seen[k] + 1]
             /\ leased' = [leased EXCEPT ![m] = FALSE]
    <3>1. status' \in [Messages -> {"NONE", "PENDING", "PROCESSING", "SENT", "DEAD"}]
      BY <2>2 DEF TypeOK
    <3>2. attempts' \in [Messages -> 0..MaxAttempts]
      BY <2>2, <1>3 DEF TypeOK
    <3>3. leased' \in [Messages -> BOOLEAN]
      BY <2>2 DEF TypeOK
    <3> QED
      BY <3>1, <3>2, <3>3
  <2> QED
    BY <1>1, <2>1, <2>2
<1>log. log' \in [Messages -> SUBSET {"SENT", "DEAD", "PENDING"}]
  BY <1>1 DEF TypeOK
<1>7. TypeOK'
  <2>1. /\ pc' \in [Workers -> {"idle", "next", "send", "record"}]
        /\ cur' \in [Workers -> Messages \cup {None}]
        /\ reply' \in [Workers -> Replies \cup {None}]
    BY RecordLeaves DEF TypeOK
  <2>2. seen' \in [Workers -> 0..MaxAttempts]
    BY RecordLeaves, MailWorkerAssumption DEF TypeOK
  <2> QED
    BY <1>4, <1>5, <1>6, <1>log, <2>1, <2>2, RecordLeaves DEF TypeOK
<1>8. \A n \in Messages : status[n] # "NONE" => status'[n] # "NONE"
  BY <1>1 DEF TypeOK
<1>9. InFocus'
  BY <1>8, RecordLeaves, MailWorkerAssumption DEF TypeOK, InFocus
<1>10. Waiting'
  BY <1>1, <1>2 DEF TypeOK, Waiting
<1> QED
  BY <1>7, <1>9, <1>10

LEMMA CrashTyped ==
    ASSUME TypeOK, InFocus, Waiting, NEW k \in Workers, Crash(k)
    PROVE  TypeOK' /\ InFocus' /\ Waiting'
<1> USE DEF jobVars, logVars
<1>1. crashes' \in 0..MaxCrashes
  BY MailWorkerAssumption DEF Crash, TypeOK
<1>2. mishap' \in [Messages -> BOOLEAN]
  BY DEF Crash, TypeOK
<1>3. TypeOK'
  BY <1>1, <1>2, MailWorkerAssumption DEF Crash, TypeOK
<1>4. InFocus'
  BY MailWorkerAssumption DEF Crash, TypeOK, InFocus
<1>5. Waiting'
  BY DEF Crash, Waiting
<1> QED
  BY <1>3, <1>4, <1>5

LEMMA TypedStep == Typed /\ [Next]_vars => Typed'
<1> SUFFICES ASSUME TypeOK, InFocus, Waiting, [Next]_vars
             PROVE  TypeOK' /\ InFocus' /\ Waiting'
  BY DEF Typed
<1>1. CASE UNCHANGED vars
  BY <1>1 DEF vars, jobVars, logVars, mailVars, workerVars, TypeOK, InFocus, Waiting
<1> QED
  BY <1>1, JobTyped, ClaimTyped, ReadTyped, SendTyped, RecordTyped, CrashTyped
  DEF Next, WorkerStep

LEMMA TypedInvariant == Spec => []Typed
BY TypedInit, TypedStep, PTL DEF Spec

\* EmailOutboxWorker.php: every column and every worker variable has its type; no counter
\* passes the maximum, although stale workers write it back.
THEOREM TypeCorrect == Spec => []TypeOK
BY TypedInvariant, PTL DEF Typed

-----------------------------------------------------------------------------
(* The history. *)

\* What a worker read of a job is in the job's history too.
SeenIsLogged == \A k \in Workers : cur[k] \in Messages => seen[k] <= logged[cur[k]]

LEMMA LoggedInit == Init => AttemptsAreLogged /\ SeenIsLogged
BY MailWorkerAssumption DEF Init, AttemptsAreLogged, SeenIsLogged

LEMMA LoggedJobs ==
    ASSUME TypeOK, AttemptsAreLogged, SeenIsLogged, NEW m \in Messages,
           Enqueue(m) \/ ReplayDead(m) \/ LeaseExpires(m) \/ BackoffElapses(m)
    PROVE  AttemptsAreLogged' /\ SeenIsLogged'
<1> USE DEF jobVars, logVars, mailVars, workerVars
<1>1. UNCHANGED <<log, logged, cur, seen>>
  BY DEF Enqueue, ReplayDead, LeaseExpires, BackoffElapses
<1>2. \A n \in Messages : /\ attempts'[n] = attempts[n] \/ attempts'[n] = 0
                          /\ status'[n] = status[n] \/ status'[n] = "PENDING"
  BY DEF Enqueue, ReplayDead, LeaseExpires, BackoffElapses, TypeOK
<1>3. \A n \in Messages : logged[n] >= 0
  BY MailWorkerAssumption DEF TypeOK
<1>4. AttemptsAreLogged'
  BY <1>1, <1>2, <1>3 DEF AttemptsAreLogged
<1> QED
  BY <1>1, <1>4 DEF SeenIsLogged

LEMMA LoggedWorkers ==
    ASSUME TypeOK, AttemptsAreLogged, SeenIsLogged, NEW k \in Workers,
           Claim(k) \/ Read(k) \/ Send(k) \/ Crash(k)
    PROVE  AttemptsAreLogged' /\ SeenIsLogged'
<1>1. UNCHANGED <<log, logged, attempts>>
  BY DEF Claim, Read, Send, Crash, jobVars, logVars
<1>2. \A n \in Messages : status'[n] = status[n] \/ status'[n] = "PROCESSING"
  BY DEF Claim, Read, Send, Crash, jobVars
<1>3. \A j \in Workers : \/ cur'[j] = cur[j] /\ seen'[j] = seen[j]
                         \/ cur'[j] \in Messages /\ seen'[j] = attempts[cur'[j]]
                         \/ cur'[j] = None
  BY DEF Claim, Read, Send, Crash, TypeOK
<1>4. AttemptsAreLogged'
  BY <1>1, <1>2 DEF AttemptsAreLogged
<1>5. SeenIsLogged'
  BY <1>1, <1>3, MailWorkerAssumption DEF SeenIsLogged, AttemptsAreLogged
<1> QED
  BY <1>4, <1>5

LEMMA LoggedRecord ==
    ASSUME TypeOK, InFocus, AttemptsAreLogged, SeenIsLogged, NEW k \in Workers, Record(k)
    PROVE  AttemptsAreLogged' /\ SeenIsLogged'
<1>1. PICK m \in Messages, outcome \in {"SENT", "DEAD", "PENDING"} :
        /\ m = cur[k]
        /\ \/ /\ status' = [status EXCEPT ![m] = outcome]
              /\ attempts' = [attempts EXCEPT ![m] = seen[k] + 1]
           \/ UNCHANGED <<status, attempts>>
        /\ log' = [log EXCEPT ![m] = @ \cup {outcome}]
        /\ logged' = [logged EXCEPT ![m] = IF @ < MaxAttempts THEN @ + 1 ELSE @]
  BY RecordFacts
<1>2. /\ seen[k] \in Nat /\ seen[k] < MaxAttempts /\ MaxAttempts \in Nat
      /\ \A n \in Messages : attempts[n] \in Nat /\ logged[n] \in 0..MaxAttempts
  BY <1>1, MailWorkerAssumption DEF InFocus, TypeOK
<1>3. /\ \A n \in Messages : logged[n] <= logged'[n] /\ logged'[n] \in Nat
      /\ seen[k] + 1 <= logged'[m]
  BY <1>1, <1>2 DEF SeenIsLogged, TypeOK
<1>4. \A n \in Messages : attempts'[n] = attempts[n] \/ (n = m /\ attempts'[n] = seen[k] + 1)
  BY <1>1 DEF TypeOK
<1>5. \A n \in Messages : attempts'[n] <= logged'[n]
  BY <1>2, <1>3, <1>4 DEF AttemptsAreLogged
<1>6. \A n \in Messages : status'[n] \in {"SENT", "DEAD"} => status'[n] \in log'[n]
  BY <1>1 DEF AttemptsAreLogged, TypeOK
<1>7. SeenIsLogged'
  <2>1. \A j \in Workers : cur'[j] \in Messages => cur'[j] = cur[j] /\ seen'[j] = seen[j]
    BY RecordLeaves, MailWorkerAssumption DEF TypeOK
  <2>2. \A j \in Workers : seen[j] \in Nat
    BY MailWorkerAssumption DEF TypeOK
  <2> QED
    BY <1>2, <1>3, <2>1, <2>2 DEF SeenIsLogged
<1> QED
  BY <1>5, <1>6, <1>7 DEF AttemptsAreLogged

LEMMA LoggedStep ==
    Typed /\ AttemptsAreLogged /\ SeenIsLogged /\ [Next]_vars
      => AttemptsAreLogged' /\ SeenIsLogged'
<1>1. UNCHANGED vars /\ AttemptsAreLogged /\ SeenIsLogged => AttemptsAreLogged' /\ SeenIsLogged'
  BY DEF vars, jobVars, logVars, workerVars, AttemptsAreLogged, SeenIsLogged
<1> QED
  BY <1>1, LoggedJobs, LoggedWorkers, LoggedRecord DEF Next, WorkerStep, Typed

\* EmailOutboxWorker.php, deliver: attempts never runs ahead of email_job_attempts, and a
\* settled job has the row of its outcome, whatever overtaken workers write back.
THEOREM LoggedCorrect == Spec => []AttemptsAreLogged
<1>1. Spec => [](AttemptsAreLogged /\ SeenIsLogged)
  BY LoggedInit, LoggedStep, TypedInvariant, PTL DEF Spec
<1> QED
  BY <1>1, PTL

-----------------------------------------------------------------------------
(* Deliveries without a mishap. *)

Holds(k, m) == m \in todo[k] \/ cur[k] = m

\* The provider took the mail, the worker has not recorded it yet.
Owes(k, m) == cur[k] = m /\ pc[k] = "record" /\ reply[k] = "sent"

\* A job is leased to one worker at most, which has it once.
Held(m) ==
    /\ \A k \in Workers : Holds(k, m) => leased[m] /\ status[m] = "PROCESSING"
    /\ \A k \in Workers : ~(m \in todo[k] /\ cur[k] = m)
    /\ \A j, k \in Workers : Holds(j, m) /\ Holds(k, m) => j = k

\* The provider took the mail once if the job says so or is about to.
Counted(m) ==
    /\ copies[m] <= 1
    /\ copies[m] > 0 <=> (status[m] = "SENT" \/ \E k \in Workers : Owes(k, m))
    /\ "SENT" \in log[m] <=> status[m] = "SENT"

Clean(m) == Held(m) /\ Counted(m)

AllClean == \A m \in Messages : ~mishap[m] => Clean(m)

LEMMA CleanInit == Init => AllClean
BY MailWorkerAssumption DEF Init, AllClean, Clean, Held, Counted, Holds, Owes

\* A step that hands the job to nobody and leaves its row, its log and what is owed alone.
LEMMA CleanFrame ==
    ASSUME NEW m \in Messages, Clean(m),
           /\ status'[m] = status[m] /\ leased'[m] = leased[m]
           /\ log'[m] = log[m] /\ copies'[m] = copies[m],
           \A k \in Workers : /\ m \in todo'[k] => m \in todo[k]
                              /\ cur'[k] = m => cur[k] = m
                              /\ Owes(k, m)' <=> Owes(k, m)
    PROVE  Clean(m)'
<1>1. Held(m)'
  BY DEF Clean, Held, Holds
<1>2. Counted(m)'
  BY DEF Clean, Counted
<1> QED
  BY <1>1, <1>2 DEF Clean

\* A step after which nobody holds the job.
LEMMA CleanReleased ==
    ASSUME NEW m \in Messages,
           \A k \in Workers : ~Holds(k, m)',
           Counted(m)'
    PROVE  Clean(m)'
BY DEF Clean, Held, Holds

LEMMA CleanJobs ==
    ASSUME TypeOK, AllClean, NEW m \in Messages,
           Enqueue(m) \/ ReplayDead(m) \/ LeaseExpires(m) \/ BackoffElapses(m),
           NEW n \in Messages, ~mishap'[n]
    PROVE  Clean(n)'
<1> USE DEF jobVars, logVars, mailVars, workerVars
<1>1. UNCHANGED <<log, copies, pc, todo, cur, reply>>
  BY DEF Enqueue, ReplayDead, LeaseExpires, BackoffElapses
<1>2. Clean(n)
  BY DEF AllClean, Enqueue, ReplayDead, LeaseExpires, BackoffElapses, TypeOK
<1>3. CASE status'[n] = status[n] /\ leased'[n] = leased[n]
  BY <1>1, <1>2, <1>3, CleanFrame DEF Owes
<1>4. CASE Enqueue(m) /\ n = m
  <2>1. \A k \in Workers : ~Holds(k, n)
    BY <1>2, <1>4 DEF Enqueue, Clean, Held
  <2>2. status[n] = "NONE" /\ status'[n] = "PENDING"
    BY <1>4 DEF Enqueue, TypeOK
  <2> QED
    BY <1>1, <1>2, <2>1, <2>2, CleanReleased DEF Clean, Counted, Holds, Owes
<1>5. CASE ReplayDead(m) /\ n = m
  <2>1. \A k \in Workers : ~Holds(k, n)
    BY <1>2, <1>5 DEF ReplayDead, Clean, Held
  <2>2. status[n] = "DEAD" /\ status'[n] = "PENDING"
    BY <1>5 DEF ReplayDead, TypeOK
  <2> QED
    BY <1>1, <1>2, <2>1, <2>2, CleanReleased DEF Clean, Counted, Holds, Owes
<1>6. CASE LeaseExpires(m) /\ n = m
  <2>1. \A k \in Workers : ~Holds(k, n)
    BY <1>6 DEF LeaseExpires, TypeOK, InHand, Holds
  <2> QED
    BY <1>1, <1>2, <1>6, <2>1, CleanReleased DEF LeaseExpires, Clean, Counted, Holds, Owes
<1> QED
  BY <1>3, <1>4, <1>5, <1>6 DEF Enqueue, ReplayDead, LeaseExpires, BackoffElapses, TypeOK

LEMMA CleanClaim ==
    ASSUME TypeOK, InFocus, AllClean, NEW k \in Workers, Claim(k), NEW n \in Messages, ~mishap'[n]
    PROVE  Clean(n)'
<1>1. PICK batch \in SUBSET Messages :
        /\ \A m \in batch : Claimable(m)
        /\ todo' = [todo EXCEPT ![k] = batch]
        /\ status' = [m \in Messages |-> IF m \in batch THEN "PROCESSING" ELSE status[m]]
        /\ leased' = [m \in Messages |-> m \in batch \/ leased[m]]
  BY ClaimFacts
<1>2. Clean(n) /\ UNCHANGED <<log, copies, cur, reply>>
  BY ClaimFacts DEF AllClean
<1>3. /\ todo[k] = {} /\ cur[k] \notin Messages
      /\ \A j \in Workers : Owes(j, n)' <=> Owes(j, n)
  BY ClaimFacts DEF InFocus, Owes, TypeOK
<1>4. CASE n \notin batch
  <2>1. status'[n] = status[n] /\ leased'[n] = leased[n]
    BY <1>1, <1>4 DEF TypeOK
  <2>2. \A j \in Workers : n \in todo'[j] => n \in todo[j]
    BY <1>1, <1>4 DEF TypeOK
  <2> QED
    BY <1>2, <1>3, <2>1, <2>2, CleanFrame
<1>5. CASE n \in batch
  <2>1. /\ status[n] \in {"PENDING", "PROCESSING"}
        /\ \A j \in Workers : ~Holds(j, n)
    BY <1>1, <1>2, <1>5 DEF Claimable, Clean, Held
  <2>2. status'[n] = "PROCESSING" /\ leased'[n]
    BY <1>1, <1>5
  <2>3. \A j \in Workers : cur'[j] # n /\ (n \in todo'[j] => j = k)
    BY <1>1, <1>2, <2>1 DEF Holds, TypeOK
  <2>4. Held(n)'
    BY <2>2, <2>3 DEF Held, Holds
  <2>5. Counted(n)'
    BY <1>2, <1>3, <2>1, <2>2 DEF Clean, Counted
  <2> QED
    BY <2>4, <2>5 DEF Clean
<1> QED
  BY <1>4, <1>5

LEMMA CleanRead ==
    ASSUME TypeOK, InFocus, AllClean, NEW k \in Workers, Read(k), NEW n \in Messages, ~mishap'[n]
    PROVE  Clean(n)'
<1> USE DEF jobVars, logVars, mailVars
<1>1. PICK m \in todo[k] :
        /\ todo' = [todo EXCEPT ![k] = @ \ {m}]
        /\ \/ /\ status[m] = "PROCESSING"
              /\ cur' = [cur EXCEPT ![k] = m]
              /\ pc' = [pc EXCEPT ![k] = "send"]
           \/ /\ status[m] # "PROCESSING"
              /\ pc' = [pc EXCEPT ![k] = IF todo[k] = {m} THEN "idle" ELSE "next"]
              /\ UNCHANGED cur
  BY DEF Read
<1>2. Clean(n) /\ UNCHANGED <<status, leased, log, copies, reply>>
  BY DEF Read, AllClean
<1>3. pc[k] = "next" /\ cur[k] \notin Messages
  BY DEF Read, InFocus
<1>4. \A j \in Workers : Owes(j, n)' <=> Owes(j, n)
  BY <1>1, <1>2, <1>3 DEF Owes, TypeOK
<1>5. \A j \in Workers : n \in todo'[j] => n \in todo[j]
  BY <1>1 DEF TypeOK
<1>6. CASE n # m \/ status[m] # "PROCESSING"
  <2>1. \A j \in Workers : cur'[j] = n => cur[j] = n
    BY <1>1, <1>6 DEF TypeOK
  <2> QED
    BY <1>2, <1>4, <1>5, <2>1, CleanFrame
<1>7. CASE n = m /\ status[m] = "PROCESSING"
  <2>1. \A j \in Workers : Holds(j, n)' => Holds(j, n)
    BY <1>1, <1>7 DEF Holds, TypeOK
  <2>2. \A j \in Workers : ~(n \in todo'[j] /\ cur'[j] = n)
    BY <1>1, <1>2, <1>7 DEF Clean, Held, TypeOK
  <2>3. Held(n)'
    BY <1>2, <2>1, <2>2 DEF Clean, Held
  <2>4. Counted(n)'
    BY <1>2, <1>4 DEF Clean, Counted
  <2> QED
    BY <2>3, <2>4 DEF Clean
<1> QED
  BY <1>6, <1>7

LEMMA CleanSend ==
    ASSUME TypeOK, InFocus, AllClean, NEW k \in Workers, Send(k), NEW n \in Messages, ~mishap'[n]
    PROVE  Clean(n)'
<1>1. PICK m \in Messages, r \in Replies :
        /\ m = cur[k] /\ pc[k] = "send"
        /\ reply' = [reply EXCEPT ![k] = r]
        /\ pc' = [pc EXCEPT ![k] = "record"]
        /\ UNCHANGED <<status, attempts, leased, ready, log, logged, todo, cur, seen, crashes>>
        /\ \/ r = "sent" /\ Taken(m) /\ UNCHANGED mishap
           \/ r # "sent" /\ UNCHANGED <<copies, mishap>>
           \/ r # "sent" /\ Taken(m) /\ mishap' = [mishap EXCEPT ![m] = TRUE]
  BY SendFacts
<1>2. Clean(n)
  BY <1>1 DEF AllClean, TypeOK
<1>3. \A j \in Workers : j # k => (Owes(j, n)' <=> Owes(j, n))
  BY <1>1 DEF Owes, TypeOK
<1>4. ~Owes(k, n)
  BY <1>1 DEF Owes
<1>5. CASE n # m \/ r # "sent"
  <2>1. copies'[n] = copies[n]
    BY <1>1, <1>5 DEF Taken, TypeOK
  <2>2. ~Owes(k, n)'
    BY <1>1, <1>5 DEF Owes, TypeOK
  <2> QED
    BY <1>1, <1>2, <1>3, <1>4, <2>1, <2>2, CleanFrame
<1>6. CASE n = m /\ r = "sent"
  <2>1. Holds(k, n)
    BY <1>1, <1>6 DEF Holds
  <2>2. \A j \in Workers : Owes(j, n) => j = k
    BY <1>2, <2>1 DEF Clean, Held, Holds, Owes
  <2>3. status[n] = "PROCESSING"
    BY <1>2, <2>1 DEF Clean, Held
  <2>4. copies[n] = 0
    BY <1>2, <1>4, <2>2, <2>3 DEF Clean, Counted, TypeOK
  <2>5. copies'[n] = 1
    BY <1>1, <1>6, <2>4 DEF Taken, TypeOK
  <2>6. Owes(k, n)'
    BY <1>1, <1>6 DEF Owes, TypeOK
  <2>7. Counted(n)'
    BY <1>1, <1>2, <2>3, <2>5, <2>6 DEF Clean, Counted
  <2>8. Held(n)'
    BY <1>1, <1>2 DEF Clean, Held, Holds
  <2> QED
    BY <2>7, <2>8 DEF Clean
<1> QED
  BY <1>5, <1>6

LEMMA CleanRecord ==
    ASSUME TypeOK, InFocus, AllClean, NEW k \in Workers, Record(k), NEW n \in Messages, ~mishap'[n]
    PROVE  Clean(n)'
<1>1. PICK m \in Messages, outcome \in {"SENT", "DEAD", "PENDING"} :
        /\ m = cur[k] /\ pc[k] = "record"
        /\ outcome = "SENT" <=> reply[k] = "sent"
        /\ outcome = "PENDING" => seen[k] + 1 < MaxAttempts
        /\ \/ /\ status[m] = "PROCESSING"
              /\ status' = [status EXCEPT ![m] = outcome]
              /\ attempts' = [attempts EXCEPT ![m] = seen[k] + 1]
              /\ leased' = [leased EXCEPT ![m] = FALSE]
              /\ ready' = [ready EXCEPT ![m] = outcome # "PENDING"]
           \/ /\ status[m] # "PROCESSING"
              /\ UNCHANGED <<status, attempts, leased, ready>>
        /\ log' = [log EXCEPT ![m] = @ \cup {outcome}]
        /\ logged' = [logged EXCEPT ![m] = IF @ < MaxAttempts THEN @ + 1 ELSE @]
  BY RecordFacts
<1>2. Clean(n)
  BY RecordLeaves DEF AllClean
<1>3. \A j \in Workers : /\ cur'[j] = n <=> j # k /\ cur[j] = n
                         /\ j # k => (Owes(j, n)' <=> Owes(j, n))
                         /\ todo'[j] = todo[j] /\ copies'[n] = copies[n]
  BY RecordLeaves, MailWorkerAssumption DEF Owes, TypeOK
<1>4. ~Owes(k, n)'
  BY <1>3 DEF Owes
<1>5. CASE n # m
  <2>1. ~Owes(k, n)
    BY <1>1, <1>5 DEF Owes
  <2>2. status'[n] = status[n] /\ leased'[n] = leased[n] /\ log'[n] = log[n]
    BY <1>1, <1>5 DEF TypeOK
  <2> QED
    BY <1>2, <1>3, <1>4, <2>1, <2>2, CleanFrame
<1>6. CASE n = m
  <2>1. Holds(k, n) /\ n \notin todo[k]
    BY <1>1, <1>2, <1>6 DEF Holds, Clean, Held
  <2>2. status[n] = "PROCESSING" /\ \A j \in Workers : Holds(j, n) => j = k
    BY <1>2, <2>1 DEF Clean, Held
  <2>3. \A j \in Workers : ~Holds(j, n)'
    BY <1>3, <2>1, <2>2 DEF Holds
  <2>4. \A j \in Workers : Owes(j, n) <=> j = k /\ reply[k] = "sent"
    BY <1>1, <1>6, <2>2 DEF Owes, Holds
  <2>5. copies[n] <= 1 /\ (copies[n] > 0 <=> reply[k] = "sent") /\ "SENT" \notin log[n]
    BY <1>2, <2>2, <2>4 DEF Clean, Counted
  <2>6. status'[n] = outcome /\ log'[n] = log[n] \cup {outcome}
    BY <1>1, <1>6, <2>2 DEF TypeOK
  <2>7. \A j \in Workers : ~Owes(j, n)'
    BY <2>3 DEF Holds, Owes
  <2>8. Counted(n)'
    BY <1>1, <1>3, <2>5, <2>6, <2>7 DEF Counted
  <2> QED
    BY <2>3, <2>8, CleanReleased
<1> QED
  BY <1>5, <1>6

LEMMA CleanCrash ==
    ASSUME TypeOK, InFocus, AllClean, NEW k \in Workers, Crash(k), NEW n \in Messages, ~mishap'[n]
    PROVE  Clean(n)'
<1> USE DEF jobVars, logVars
<1>1. Clean(n)
  BY DEF Crash, AllClean, TypeOK
<1>2. ~Owes(k, n)
  BY DEF Crash, Owes, TypeOK
<1>3. \A j \in Workers : /\ j # k => cur'[j] = cur[j] /\ todo'[j] = todo[j]
                         /\ j # k => pc'[j] = pc[j] /\ reply'[j] = reply[j]
  BY DEF Crash, TypeOK
<1>4. cur'[k] # n /\ todo'[k] = {}
  BY MailWorkerAssumption DEF Crash, TypeOK
<1>5. \A j \in Workers : Owes(j, n)' <=> Owes(j, n)
  BY <1>2, <1>3, <1>4 DEF Owes
<1>6. UNCHANGED <<status, leased, log, copies>>
  BY DEF Crash
<1> QED
  BY <1>1, <1>3, <1>4, <1>5, <1>6, CleanFrame

LEMMA CleanStep == Typed /\ AllClean /\ [Next]_vars => AllClean'
<1>1. UNCHANGED vars /\ AllClean => AllClean'
  BY DEF vars, jobVars, logVars, mailVars, workerVars, AllClean, Clean, Held, Counted, Holds, Owes
<1>2. ASSUME TypeOK, InFocus, AllClean, Next
      PROVE  AllClean'
  <2> SUFFICES ASSUME NEW n \in Messages, ~mishap'[n]
               PROVE  Clean(n)'
    BY DEF AllClean
  <2> QED
    BY <1>2, CleanJobs, CleanClaim, CleanRead, CleanSend, CleanRecord, CleanCrash DEF Next, WorkerStep
<1> QED
  BY <1>1, <1>2 DEF Typed

\* EmailOutboxWorker.php: as long as no reply is lost, no worker dies before it recorded a
\* delivery and no lease expires under its holder, a mail is sent at most once, never if its
\* job is given up, and its log says SENT exactly when the job does.
THEOREM DeliveryIsClean == Spec => []CleanDelivery
<1>1. Spec => []AllClean
  BY CleanInit, CleanStep, TypedInvariant, PTL DEF Spec
<1>2. Typed /\ AllClean => CleanDelivery
  <2> SUFFICES ASSUME NEW m \in Messages, Clean(m), TypeOK
               PROVE  /\ copies[m] <= 1
                      /\ status[m] = "DEAD" => copies[m] = 0
                      /\ "SENT" \in log[m] <=> status[m] = "SENT"
    BY DEF CleanDelivery, AllClean, Typed
  <2>1. status[m] = "DEAD" => ~(copies[m] > 0)
    BY DEF Clean, Held, Counted, Holds, Owes
  <2> QED
    BY <2>1 DEF Clean, Counted, TypeOK
<1> QED
  BY <1>1, <1>2, TypedInvariant, PTL

-----------------------------------------------------------------------------
(* The contract. *)

LEMMA StateValues ==
    /\ StateOf("NONE") = "absent" /\ StateOf("SENT") = "sent" /\ StateOf("DEAD") = "dead"
    /\ StateOf("PENDING") = "waiting" /\ StateOf("PROCESSING") = "waiting"
BY DEF StateOf

LEMMA JobRefines ==
    ASSUME TypeOK, NEW m \in Messages,
           Enqueue(m) \/ ReplayDead(m) \/ LeaseExpires(m) \/ BackoffElapses(m)
    PROVE  [Contract!Next]_<<State, AcceptedOnce>>
<1>1. UNCHANGED AcceptedOnce
  BY DEF Enqueue, ReplayDead, LeaseExpires, BackoffElapses, mailVars, AcceptedOnce
<1>2. CASE Enqueue(m)
  <2>1. State[m] = "absent" /\ State' = [State EXCEPT ![m] = "waiting"]
    BY <1>2, StateValues DEF Enqueue, State, TypeOK
  <2>2. Contract!Queue(m)
    BY <1>1, <2>1 DEF Contract!Queue
  <2> QED
    BY <2>2 DEF Contract!Next
<1>3. CASE ReplayDead(m)
  <2>1. State[m] = "dead" /\ State' = [State EXCEPT ![m] = "waiting"]
    BY <1>3, StateValues DEF ReplayDead, State, TypeOK
  <2>2. Contract!Replay(m)
    BY <1>1, <2>1 DEF Contract!Replay
  <2> QED
    BY <2>2 DEF Contract!Next
<1>4. CASE LeaseExpires(m) \/ BackoffElapses(m)
  BY <1>1, <1>4 DEF LeaseExpires, BackoffElapses, State
<1> QED
  BY <1>2, <1>3, <1>4

LEMMA ClaimRefines ==
    ASSUME TypeOK, NEW k \in Workers, Claim(k)
    PROVE  UNCHANGED <<State, AcceptedOnce>>
<1>1. PICK batch \in SUBSET Messages :
        /\ \A m \in batch : status[m] \in {"PENDING", "PROCESSING"}
        /\ status' = [m \in Messages |-> IF m \in batch THEN "PROCESSING" ELSE status[m]]
  BY ClaimFacts DEF Claimable
<1>2. \A m \in Messages : StateOf(status'[m]) = StateOf(status[m])
  BY <1>1, StateValues
<1> QED
  BY <1>2, ClaimFacts DEF State, AcceptedOnce

LEMMA SendRefines ==
    ASSUME TypeOK, InFocus, NEW k \in Workers, Send(k)
    PROVE  [Contract!Next]_<<State, AcceptedOnce>>
<1>1. PICK m \in Messages :
        /\ m = cur[k]
        /\ UNCHANGED status
        /\ Taken(m) \/ UNCHANGED copies
  BY SendFacts
<1>2. UNCHANGED State /\ State[m] # "absent"
  BY <1>1 DEF InFocus, State, StateOf
<1>3. CASE UNCHANGED copies
  BY <1>2, <1>3 DEF AcceptedOnce
<1>4. CASE Taken(m)
  <2>1. copies'[m] > 0 /\ \A n \in Messages : n # m => copies'[n] = copies[n]
    BY <1>4 DEF Taken, TypeOK
  <2>2. AcceptedOnce' = [AcceptedOnce EXCEPT ![m] = TRUE]
    BY <2>1 DEF AcceptedOnce
  <2>3. Contract!Accept(m)
    BY <1>2, <2>2 DEF Contract!Accept
  <2> QED
    BY <2>3 DEF Contract!Next
<1> QED
  BY <1>1, <1>3, <1>4

LEMMA RecordRefines ==
    ASSUME TypeOK, InFocus, NEW k \in Workers, Record(k)
    PROVE  [Contract!Next]_<<State, AcceptedOnce>>
<1>1. PICK m \in Messages, outcome \in {"SENT", "DEAD", "PENDING"} :
        /\ m = cur[k] /\ pc[k] = "record"
        /\ outcome = "SENT" <=> reply[k] = "sent"
        /\ \/ status[m] = "PROCESSING" /\ status' = [status EXCEPT ![m] = outcome]
           \/ UNCHANGED status
  BY RecordFacts
<1>2. UNCHANGED AcceptedOnce
  BY RecordLeaves DEF AcceptedOnce
<1>3. CASE UNCHANGED status
  BY <1>2, <1>3 DEF State
<1>4. CASE status[m] = "PROCESSING" /\ status' = [status EXCEPT ![m] = outcome]
  <2>1. State[m] = "waiting" /\ State' = [State EXCEPT ![m] = StateOf(outcome)]
    BY <1>4, StateValues DEF State, TypeOK
  <2>2. CASE outcome = "SENT"
    <3>1. AcceptedOnce[m]
      BY <1>1, <2>2 DEF InFocus, AcceptedOnce
    <3>2. Contract!Sent(m)
      BY <1>2, <2>1, <2>2, <3>1, StateValues DEF Contract!Sent
    <3> QED
      BY <3>2 DEF Contract!Next
  <2>3. CASE outcome = "DEAD"
    <3>1. Contract!GiveUp(m)
      BY <1>2, <2>1, <2>3, StateValues DEF Contract!GiveUp
    <3> QED
      BY <3>1 DEF Contract!Next
  <2>4. CASE outcome = "PENDING"
    <3>1. UNCHANGED State
      BY <2>1, <2>4, StateValues DEF State
    <3> QED
      BY <1>2, <3>1
  <2> QED
    BY <2>2, <2>3, <2>4
<1> QED
  BY <1>1, <1>3, <1>4

LEMMA RefinementStep == Typed /\ [Next]_vars => [Contract!Next]_<<State, AcceptedOnce>>
<1> SUFFICES ASSUME TypeOK, InFocus, [Next]_vars
             PROVE  [Contract!Next]_<<State, AcceptedOnce>>
  BY DEF Typed
<1>1. UNCHANGED vars => UNCHANGED <<State, AcceptedOnce>>
  BY DEF vars, jobVars, mailVars, State, AcceptedOnce
<1>2. ASSUME NEW k \in Workers, Read(k) \/ Crash(k)
      PROVE  UNCHANGED <<State, AcceptedOnce>>
  BY <1>2 DEF Read, Crash, jobVars, mailVars, State, AcceptedOnce
<1> QED
  BY <1>1, <1>2, JobRefines, ClaimRefines, SendRefines, RecordRefines DEF Next, WorkerStep

\* EmailOutboxWorker.php: whatever workers do to each other's claims, a mail is recorded as
\* sent only after a provider took it, SENT is for ever, and only a replay leaves DEAD.
THEOREM Refinement == Spec => KeepsContract
<1>1. Init => Contract!Init
  <2> SUFFICES ASSUME Init
               PROVE  Contract!Init
    OBVIOUS
  <2>1. State = [m \in Messages |-> "absent"]
    BY StateValues DEF Init, State
  <2>2. \A m \in Messages : (copies[m] > 0) = FALSE
    BY DEF Init
  <2> QED
    BY <2>1, <2>2 DEF AcceptedOnce, Contract!Init
<1> QED
  BY <1>1, RefinementStep, TypedInvariant, PTL DEF Spec, KeepsContract, Contract!Spec
=============================================================================
