-------------------------- MODULE NextOutbox_proofs --------------------------
(***************************************************************************)
(* Proofs about NextOutbox, for any set of messages, any finite set of     *)
(* workers and any number of attempts and faults.                          *)
(***************************************************************************)
EXTENDS NextOutbox, FiniteSetTheorems, TLAPS

Finishing == {"finishSent", "finishFailed"}

\* A worker is at finish exactly while it has a message, and an idle one has no batch;
\* batches hold queued messages, and a delivery to be recorded as sent was accepted.
InFocus ==
    \A k \in Workers :
        /\ pc[k] \in Finishing <=> cur[k] \in Messages
        /\ pc[k] = "idle" => todo[k] = {}
        /\ \A m \in todo[k] : status[m] # "NONE"
        /\ cur[k] \in Messages => status[cur[k]] # "NONE"
        /\ pc[k] = "finishSent" => copies[cur[k]] > 0

\* A message that waits has an attempt left.
Waiting == \A m \in Messages :
    status[m] \in {"NONE", "PENDING", "PROCESSING"} => attempts[m] < MaxAttempts

Typed == TypeOK /\ InFocus /\ Waiting

-----------------------------------------------------------------------------
(* Types. *)

\* Finishing a message, in whatever state it finds it, keeps the types of the queue.
LEMMA FinishTyped ==
    ASSUME TypeOK, Waiting, NEW m \in Messages, NEW success \in BOOLEAN, Finish(m, success)
    PROVE  /\ status' \in [Messages -> {"NONE", "PENDING", "PROCESSING", "SENT", "DEAD"}]
           /\ attempts' \in [Messages -> 0..MaxAttempts]
           /\ leased' \in [Messages -> BOOLEAN]
           /\ ready' \in [Messages -> BOOLEAN]
           /\ Waiting'
           /\ \A n \in Messages : status[n] # "NONE" => status'[n] # "NONE"
<1>1. CASE InProcess(m)
  <2>1. attempts[m] \in Nat /\ attempts[m] < MaxAttempts
    BY <1>1, NextOutboxAssumption DEF InProcess, Waiting, TypeOK
  <2>2. attempts' = [attempts EXCEPT ![m] = @ + 1]
    BY <1>1 DEF Finish
  <2>3. attempts' \in [Messages -> 0..MaxAttempts]
    BY <2>1, <2>2, NextOutboxAssumption DEF TypeOK
  <2>4. status' = [status EXCEPT ![m] = Outcome(m, success)]
    BY <1>1 DEF Finish
  <2>5. Outcome(m, success) \in {"SENT", "DEAD", "PENDING"}
    BY DEF Outcome
  <2>6. Outcome(m, success) = "PENDING" => attempts[m] + 1 < MaxAttempts
    BY <2>1, NextOutboxAssumption DEF Outcome
  <2>7. Waiting'
    BY <2>1, <2>2, <2>4, <2>5, <2>6 DEF Waiting, TypeOK
  <2>8. leased' \in [Messages -> BOOLEAN] /\ ready' \in [Messages -> BOOLEAN]
    BY <1>1 DEF Finish, TypeOK
  <2>9. QED
    BY <2>3, <2>4, <2>5, <2>7, <2>8 DEF TypeOK
<1>2. CASE ~InProcess(m)
  BY <1>2 DEF Finish, queueVars, TypeOK, Waiting
<1>3. QED
  BY <1>1, <1>2

\* Nothing is queued and no worker has a message at first.
LEMMA TypedInit == Init => Typed
<1> SUFFICES ASSUME Init PROVE Typed
  OBVIOUS
<1>1. TypeOK
  BY NextOutboxAssumption DEF Init, TypeOK
<1>2. InFocus
  BY NextOutboxAssumption DEF Init, InFocus, Finishing
<1>3. Waiting
  BY NextOutboxAssumption DEF Init, Waiting
<1>4. QED
  BY <1>1, <1>2, <1>3 DEF Typed

\* Every step keeps the types, the focus of the workers and the attempts left.
LEMMA TypedStep == Typed /\ [Next]_vars => Typed'
<1> SUFFICES ASSUME TypeOK, InFocus, Waiting, [Next]_vars
             PROVE  TypeOK' /\ InFocus' /\ Waiting'
  BY DEF Typed
<1> USE DEF vars, queueVars, portVars, workerVars
<1>1. ASSUME NEW m \in Messages, Enqueue(m)
      PROVE  TypeOK' /\ InFocus' /\ Waiting'
  BY <1>1 DEF Enqueue, TypeOK, InFocus, Waiting
<1>2. ASSUME NEW m \in Messages, LeaseExpires(m)
      PROVE  TypeOK' /\ InFocus' /\ Waiting'
  <2>1. InHand(m) \in BOOLEAN
    BY DEF InHand
  <2>2. mishap' \in [Messages -> BOOLEAN]
    BY <1>2, <2>1 DEF LeaseExpires, TypeOK
  <2>3. QED
    BY <1>2, <2>2 DEF LeaseExpires, TypeOK, InFocus, Waiting
<1>3. ASSUME NEW m \in Messages, BackoffElapses(m)
      PROVE  TypeOK' /\ InFocus' /\ Waiting'
  BY <1>3 DEF BackoffElapses, TypeOK, InFocus, Waiting
<1>4. ASSUME NEW k \in Workers, Claim(k)
      PROVE  TypeOK' /\ InFocus' /\ Waiting'
  <2>1. PICK batch \in SUBSET Messages :
          /\ \A m \in batch : status[m] \in {"PENDING", "PROCESSING"}
          /\ todo' = [todo EXCEPT ![k] = batch]
          /\ status' = [m \in Messages |-> IF m \in batch THEN "PROCESSING" ELSE status[m]]
          /\ leased' = [m \in Messages |-> m \in batch \/ leased[m]]
    BY <1>4 DEF Claim, Batches, Claimable
  <2>2. TypeOK'
    BY <1>4, <2>1 DEF Claim, TypeOK
  <2>3. InFocus'
    BY <1>4, <2>1 DEF Claim, TypeOK, InFocus, Finishing
  <2>4. Waiting'
    BY <1>4, <2>1 DEF Claim, TypeOK, Waiting
  <2>5. QED
    BY <2>2, <2>3, <2>4
<1>5. ASSUME NEW k \in Workers, Deliver(k)
      PROVE  TypeOK' /\ InFocus' /\ Waiting'
  <2>1. PICK m \in todo[k] :
          /\ todo' = [todo EXCEPT ![k] = @ \ {m}]
          /\ cur' = [cur EXCEPT ![k] = m]
          /\ calls' = [calls EXCEPT ![m] = IF @ < MaxAttempts THEN @ + 1 ELSE @]
          /\ \/ Accepted(m) /\ pc' = [pc EXCEPT ![k] = "finishSent"]
             \/ pc' = [pc EXCEPT ![k] = "finishFailed"] /\ (copies' = copies \/ Accepted(m))
          /\ mishap' = mishap \/ mishap' = [mishap EXCEPT ![m] = TRUE]
    BY <1>5 DEF Deliver
  <2>2. m \in Messages /\ pc[k] = "next" /\ status[m] # "NONE"
    BY <1>5, <2>1 DEF Deliver, TypeOK, InFocus
  <2>3. calls' \in [Messages -> 0..MaxAttempts]
    BY <2>1, <2>2, NextOutboxAssumption DEF TypeOK
  <2>4. copies' \in [Messages -> 0..2] /\ \A n \in Messages : copies[n] > 0 => copies'[n] > 0
    BY <2>1, <2>2 DEF Accepted, TypeOK
  <2>5. TypeOK'
    BY <1>5, <2>1, <2>2, <2>3, <2>4 DEF Deliver, TypeOK
  <2>6. pc'[k] = "finishSent" => copies'[m] > 0
    BY <2>1, <2>2 DEF Accepted, TypeOK
  <2>7. InFocus'
    BY <1>5, <2>1, <2>2, <2>4, <2>6 DEF Deliver, TypeOK, InFocus, Finishing
  <2>8. Waiting'
    BY <1>5 DEF Deliver, Waiting
  <2>9. QED
    BY <2>5, <2>7, <2>8
<1>6. ASSUME NEW k \in Workers, NEW success \in BOOLEAN, pc[k] \in Finishing,
             Finish(cur[k], success), NextItem(k), UNCHANGED <<portVars, faults>>
      PROVE  TypeOK' /\ InFocus' /\ Waiting'
  <2>1. cur[k] \in Messages
    BY <1>6 DEF InFocus
  <2>2. /\ status' \in [Messages -> {"NONE", "PENDING", "PROCESSING", "SENT", "DEAD"}]
        /\ attempts' \in [Messages -> 0..MaxAttempts]
        /\ leased' \in [Messages -> BOOLEAN]
        /\ ready' \in [Messages -> BOOLEAN]
        /\ Waiting'
        /\ \A n \in Messages : status[n] # "NONE" => status'[n] # "NONE"
    BY <1>6, <2>1, FinishTyped
  <2>3. TypeOK'
    BY <1>6, <2>2 DEF NextItem, TypeOK
  <2>4. InFocus'
    BY <1>6, <2>2, NextOutboxAssumption DEF NextItem, TypeOK, InFocus, Finishing
  <2>5. QED
    BY <2>2, <2>3, <2>4
<1>7. ASSUME NEW k \in Workers, FinishSentThrows(k)
      PROVE  TypeOK' /\ InFocus' /\ Waiting'
  <2>1. TypeOK'
    <3>1. cur[k] \in Messages
      BY <1>7 DEF FinishSentThrows, InFocus, Finishing
    <3>2. faults' \in 0..MaxFaults
      BY <1>7, NextOutboxAssumption DEF FinishSentThrows, TypeOK
    <3>3. mishap' \in [Messages -> BOOLEAN]
      BY <1>7, <3>1 DEF FinishSentThrows, TypeOK
    <3>4. QED
      BY <1>7, <3>2, <3>3 DEF FinishSentThrows, TypeOK
  <2>2. InFocus'
    BY <1>7 DEF FinishSentThrows, TypeOK, InFocus, Finishing
  <2>3. Waiting'
    BY <1>7 DEF FinishSentThrows, Waiting
  <2>4. QED
    BY <2>1, <2>2, <2>3
<1>8. ASSUME NEW k \in Workers, Abort(k)
      PROVE  TypeOK' /\ InFocus' /\ Waiting'
  <2>1. TypeOK'
    <3>1. faults' \in 0..MaxFaults
      BY <1>8, NextOutboxAssumption DEF Abort, TypeOK
    <3>2. mishap' \in [Messages -> BOOLEAN]
      BY <1>8 DEF Abort, TypeOK, InFocus, Finishing
    <3>3. QED
      BY <1>8, <3>1, <3>2 DEF Abort, TypeOK
  <2>2. InFocus'
    BY <1>8, NextOutboxAssumption DEF Abort, TypeOK, InFocus, Finishing
  <2>3. Waiting'
    BY <1>8 DEF Abort, Waiting
  <2>4. QED
    BY <2>1, <2>2, <2>3
<1>9. CASE UNCHANGED vars
  BY <1>9 DEF TypeOK, InFocus, Waiting
<1>10. ASSUME NEW k \in Workers, FinishSent(k) \/ FinishFailed(k)
       PROVE  TypeOK' /\ InFocus' /\ Waiting'
  BY <1>6, <1>10 DEF FinishSent, FinishFailed, Finishing
<1>11. QED
  BY <1>1, <1>2, <1>3, <1>4, <1>5, <1>7, <1>8, <1>9, <1>10 DEF Next, WorkerStep

\* Types, focus and attempts left, in every reachable state.
LEMMA TypedInvariant == Spec => []Typed
  BY TypedInit, TypedStep, PTL DEF Spec

\* Every record and every worker variable has its type in every reachable state.
THEOREM TypeCorrect == Spec => []TypeOK
<1>1. Typed => TypeOK
  BY DEF Typed
<1>2. QED
  BY <1>1, TypedInvariant, PTL

-----------------------------------------------------------------------------
(* Each counted attempt was a delivery of its own.  A worker that is about   *)
(* to finish a message has called the port for it and may not have counted   *)
(* that yet, so the calls cover the attempts and the workers at finish.      *)

Finishers(m) == {k \in Workers : cur[k] = m}

Counted == \A m \in Messages :
    \/ calls[m] = MaxAttempts
    \/ attempts[m] + Cardinality(Finishers(m)) <= calls[m]

\* A message given up has used all its attempts.
UsedUp == \A m \in Messages : status[m] = "DEAD" => attempts[m] = MaxAttempts

CountInv == Typed /\ Counted /\ UsedUp

\* The workers at finish are finitely many.
LEMMA FinishersFinite ==
    ASSUME NEW m \in Messages
    PROVE  IsFiniteSet(Finishers(m)) /\ Cardinality(Finishers(m)) \in Nat
<1>1. IsFiniteSet(Workers)
  BY NextOutboxAssumption
<1>2. Finishers(m) \subseteq Workers
  BY DEF Finishers
<1>3. QED
  BY <1>1, <1>2, FS_Subset, FS_CardinalityType

\* A step that counts nothing, calls nothing and takes up no message keeps the count.
LEMMA CountedKept ==
    ASSUME TypeOK, Counted, NEW m \in Messages,
           attempts'[m] = attempts[m], calls'[m] = calls[m],
           Finishers(m)' \subseteq Finishers(m)
    PROVE  calls'[m] = MaxAttempts \/ attempts'[m] + Cardinality(Finishers(m)') <= calls'[m]
<1>1. IsFiniteSet(Finishers(m)) /\ Cardinality(Finishers(m)) \in Nat
  BY FinishersFinite
<1>2. /\ IsFiniteSet(Finishers(m)')
      /\ Cardinality(Finishers(m)') <= Cardinality(Finishers(m))
  BY <1>1, FS_Subset
<1>3. Cardinality(Finishers(m)') \in Nat
  BY <1>2, FS_CardinalityType
<1>4. attempts[m] \in Nat /\ calls[m] \in Nat
  BY NextOutboxAssumption DEF TypeOK
<1>5. QED
  BY <1>1, <1>2, <1>3, <1>4 DEF Counted

\* Every step keeps the calls ahead of the attempts and of the workers at finish.
LEMMA CountStep == CountInv /\ [Next]_vars => CountInv'
<1> SUFFICES ASSUME Typed, TypeOK, InFocus, Waiting, Counted, UsedUp, [Next]_vars
             PROVE  Counted' /\ UsedUp'
  BY TypedStep DEF CountInv, Typed
<1> USE DEF vars, queueVars, portVars, workerVars
<1>1. CASE UNCHANGED <<attempts, calls, cur, status>>
  BY <1>1 DEF Counted, UsedUp, Finishers
<1>2. ASSUME NEW m \in Messages, Enqueue(m)
      PROVE  Counted' /\ UsedUp'
  BY <1>2 DEF Enqueue, TypeOK, Counted, UsedUp, Finishers
<1>3. ASSUME NEW k \in Workers, Claim(k)
      PROVE  Counted' /\ UsedUp'
  <2>1. UNCHANGED <<attempts, calls, cur>>
    BY <1>3 DEF Claim
  <2>2. \A m \in Messages : status'[m] = "DEAD" => status[m] = "DEAD"
    BY <1>3 DEF Claim
  <2>3. QED
    BY <2>1, <2>2 DEF Counted, UsedUp, Finishers
<1>4. ASSUME NEW k \in Workers, Deliver(k)
      PROVE  Counted' /\ UsedUp'
  <2>1. PICK m \in todo[k] :
          /\ cur' = [cur EXCEPT ![k] = m]
          /\ calls' = [calls EXCEPT ![m] = IF @ < MaxAttempts THEN @ + 1 ELSE @]
    BY <1>4 DEF Deliver
  <2>2. m \in Messages /\ UNCHANGED <<attempts, status>> /\ cur[k] \notin Messages
    BY <1>4, <2>1 DEF Deliver, TypeOK, InFocus, Finishing
  <2>3. calls'[m] = MaxAttempts \/ attempts'[m] + Cardinality(Finishers(m)') <= calls'[m]
    <3>1. Finishers(m)' = Finishers(m) \cup {k} /\ k \notin Finishers(m)
      BY <2>1, <2>2 DEF Finishers, TypeOK
    <3>2. Cardinality(Finishers(m)') = Cardinality(Finishers(m)) + 1
      BY <2>2, <3>1, FinishersFinite, FS_AddElement
    <3>3. /\ calls[m] \in 0..MaxAttempts /\ attempts[m] \in Nat
          /\ Cardinality(Finishers(m)) \in Nat
      BY <2>2, FinishersFinite, NextOutboxAssumption DEF TypeOK
    <3>4. CASE calls[m] = MaxAttempts
      BY <2>1, <2>2, <3>3, <3>4, NextOutboxAssumption DEF TypeOK
    <3>5. CASE calls[m] < MaxAttempts
      <4>1. calls'[m] = calls[m] + 1
        BY <2>1, <2>2, <3>5 DEF TypeOK
      <4>2. attempts[m] + Cardinality(Finishers(m)) <= calls[m]
        BY <2>2, <3>3, <3>5, NextOutboxAssumption DEF Counted
      <4>3. attempts'[m] = attempts[m]
        BY <2>2
      <4>4. QED
        BY <3>2, <3>3, <4>1, <4>2, <4>3
    <3>6. QED
      BY <3>3, <3>4, <3>5, NextOutboxAssumption
  <2>4. ASSUME NEW n \in Messages, n # m
        PROVE  calls'[n] = MaxAttempts \/ attempts'[n] + Cardinality(Finishers(n)') <= calls'[n]
    <3>1. Finishers(n)' \subseteq Finishers(n)
      BY <2>1, <2>4 DEF Finishers, TypeOK
    <3>2. attempts'[n] = attempts[n] /\ calls'[n] = calls[n]
      BY <2>1, <2>2, <2>4 DEF TypeOK
    <3>3. QED
      BY <3>1, <3>2, CountedKept
  <2>5. QED
    BY <2>2, <2>3, <2>4 DEF Counted, UsedUp
<1>5. ASSUME NEW k \in Workers, NEW success \in BOOLEAN, pc[k] \in Finishing,
             Finish(cur[k], success), NextItem(k), UNCHANGED portVars
      PROVE  Counted' /\ UsedUp'
  <2>1. cur[k] \in Messages /\ cur' = [cur EXCEPT ![k] = None]
    BY <1>5 DEF InFocus, NextItem
  <2>2. ASSUME NEW n \in Messages
        PROVE  Finishers(n)' = Finishers(n) \ {k}
    BY <2>1, <2>2, NextOutboxAssumption DEF Finishers, TypeOK
  <2>3. ASSUME NEW n \in Messages, attempts'[n] = attempts[n]
        PROVE  calls'[n] = MaxAttempts \/ attempts'[n] + Cardinality(Finishers(n)') <= calls'[n]
    BY <1>5, <2>2, <2>3, CountedKept
  <2>4. CASE ~InProcess(cur[k])
    BY <1>5, <2>3, <2>4 DEF Finish, Counted, UsedUp
  <2>5. CASE InProcess(cur[k])
    <3>0. PICK m \in Messages : m = cur[k]
      BY <2>1
    <3>1. attempts' = [attempts EXCEPT ![m] = @ + 1]
      BY <1>5, <2>5, <3>0 DEF Finish
    <3>2. Cardinality(Finishers(m)') = Cardinality(Finishers(m)) - 1
      <4>1. k \in Finishers(m)
        BY <3>0 DEF Finishers
      <4>2. Cardinality(Finishers(m) \ {k}) = Cardinality(Finishers(m)) - 1
        BY <4>1, FinishersFinite, FS_RemoveElement
      <4>3. QED
        BY <2>2, <4>2
    <3>3. /\ calls[m] \in Nat /\ attempts[m] \in Nat
          /\ Cardinality(Finishers(m)) \in Nat
      BY FinishersFinite, NextOutboxAssumption DEF TypeOK
    <3>4. attempts'[m] = attempts[m] + 1 /\ calls'[m] = calls[m]
      BY <1>5, <3>1 DEF TypeOK
    <3>5. calls'[m] = MaxAttempts \/ attempts'[m] + Cardinality(Finishers(m)') <= calls'[m]
      BY <3>2, <3>3, <3>4 DEF Counted
    <3>6. \A n \in Messages : n # m => attempts'[n] = attempts[n]
      BY <3>1 DEF TypeOK
    <3>7. Counted'
      <4>1. ASSUME NEW n \in Messages
            PROVE  \/ calls'[n] = MaxAttempts
                   \/ attempts'[n] + Cardinality(Finishers(n)') <= calls'[n]
        <5>1. CASE n = m
          BY <3>5, <5>1
        <5>2. CASE n # m
          BY <2>3, <3>6, <5>2
        <5>3. QED
          BY <5>1, <5>2
      <4>2. QED
        BY <4>1 DEF Counted
    <3>8. /\ status' = [status EXCEPT ![m] = Outcome(m, success)]
          /\ Outcome(m, success) = "DEAD" => attempts[m] + 1 = MaxAttempts
      BY <1>5, <2>5, <3>0, <3>3, NextOutboxAssumption
         DEF Finish, InProcess, Outcome, Waiting
    <3>9. UsedUp'
      BY <3>4, <3>6, <3>8 DEF UsedUp, TypeOK
    <3>10. QED
      BY <3>7, <3>9
  <2>6. QED
    BY <2>4, <2>5
<1>6. ASSUME NEW k \in Workers, Abort(k)
      PROVE  Counted' /\ UsedUp'
  <2>1. UNCHANGED <<attempts, calls, status>> /\ cur' = [cur EXCEPT ![k] = None]
    BY <1>6 DEF Abort
  <2>2. \A n \in Messages : Finishers(n)' \subseteq Finishers(n)
    BY <2>1, NextOutboxAssumption DEF Finishers, TypeOK
  <2>3. QED
    BY <2>1, <2>2, CountedKept DEF Counted, UsedUp
<1>7. ASSUME NEW k \in Workers, FinishSent(k) \/ FinishFailed(k)
      PROVE  Counted' /\ UsedUp'
  BY <1>5, <1>7 DEF FinishSent, FinishFailed, Finishing
<1>8. QED
  BY <1>1, <1>2, <1>3, <1>4, <1>6, <1>7
     DEF Next, WorkerStep, LeaseExpires, BackoffElapses, FinishSentThrows

\* The count holds in every reachable state.
LEMMA CountInvariant == Spec => []CountInv
<1>1. Init => CountInv
  <2>1. ASSUME Init, NEW m \in Messages
        PROVE  attempts[m] + Cardinality(Finishers(m)) <= calls[m]
    <3>1. Finishers(m) = {}
      BY <2>1, NextOutboxAssumption DEF Init, Finishers
    <3>2. QED
      BY <2>1, <3>1, FS_EmptySet DEF Init
  <2>2. Init => UsedUp
    BY DEF Init, UsedUp
  <2>3. QED
    BY <2>1, <2>2, TypedInit DEF CountInv, Counted
<1>2. QED
  BY <1>1, CountStep, PTL DEF Spec

\* A message is given up only after the port was called for all its attempts, even when
\* workers finish each other's claims.
THEOREM GivenUpLast == Spec => []GivenUpAfterAllAttempts
<1>1. CountInv => GivenUpAfterAllAttempts
  <2> SUFFICES ASSUME CountInv, NEW m \in Messages
               PROVE  /\ attempts[m] <= calls[m]
                      /\ status[m] = "DEAD" => calls[m] = MaxAttempts
                      /\ status[m] \in {"PENDING", "PROCESSING"} => attempts[m] < MaxAttempts
    BY DEF GivenUpAfterAllAttempts
  <2>1. attempts[m] \in 0..MaxAttempts /\ calls[m] \in 0..MaxAttempts
    BY DEF CountInv, Typed, TypeOK
  <2>2. attempts[m] <= calls[m]
    BY <2>1, FinishersFinite, NextOutboxAssumption DEF CountInv, Counted
  <2>3. QED
    BY <2>1, <2>2, NextOutboxAssumption DEF CountInv, Typed, Waiting, UsedUp
<1>2. QED
  BY <1>1, CountInvariant, PTL

-----------------------------------------------------------------------------
(* While nothing went wrong around a message, one worker at a time has it,   *)
(* under a lease, and an accepted message is SENT or about to be.            *)

Hand(k) == todo[k] \cup {cur[k]}

OnceInHand == \A k \in Workers : cur[k] \notin todo[k]

Alone(m) ==
    \A k \in Workers : m \in Hand(k) =>
        /\ status[m] = "PROCESSING"
        /\ leased[m]
        /\ \A j \in Workers : m \in Hand(j) => j = k

Told(m) ==
    /\ copies[m] <= 1
    /\ copies[m] > 0 => \/ status[m] = "SENT"
                        \/ \E k \in Workers : pc[k] = "finishSent" /\ cur[k] = m

Clean == OnceInHand /\ \A m \in Messages : ~mishap[m] => Alone(m) /\ Told(m)

CleanInv == Typed /\ Clean

\* Finishing its message, a worker records an accepted one as SENT, and only that one
\* changes.
LEMMA FinishClean ==
    ASSUME TypeOK, InFocus, Clean,
           NEW k \in Workers, NEW success \in BOOLEAN,
           pc[k] = IF success THEN "finishSent" ELSE "finishFailed",
           Finish(cur[k], success), NextItem(k), UNCHANGED portVars
    PROVE  Clean'
<1> USE DEF portVars, queueVars
<1>1. PICK c \in Messages : c = cur[k]
  BY DEF InFocus, Finishing
<1>2. /\ cur' = [cur EXCEPT ![k] = None]
      /\ todo' = todo
      /\ pc' = [pc EXCEPT ![k] = IF todo[k] = {} THEN "idle" ELSE "next"]
  BY DEF NextItem
<1>3. \A m \in Messages : m # c => UNCHANGED <<status[m], leased[m]>>
  BY <1>1 DEF Finish, TypeOK
<1>4. \A j \in Workers : \A m \in Messages : m \in Hand(j)' <=> m \in Hand(j) /\ ~(j = k /\ m = c)
  BY <1>1, <1>2, NextOutboxAssumption DEF Hand, TypeOK, Clean, OnceInHand
<1>5. OnceInHand'
  BY <1>2, NextOutboxAssumption DEF OnceInHand, Clean, TypeOK
<1>6. ASSUME NEW m \in Messages, ~mishap'[m], m # c
      PROVE  Alone(m)' /\ Told(m)'
  <2>1. Alone(m) /\ Told(m)
    BY <1>6 DEF Clean
  <2>2. Alone(m)'
    BY <1>3, <1>4, <1>6, <2>1 DEF Alone
  <2>3. \A j \in Workers : pc[j] = "finishSent" /\ cur[j] = m => j # k
    BY <1>1, <1>6
  <2>4. Told(m)'
    BY <1>2, <1>3, <1>6, <2>1, <2>3 DEF Told, TypeOK
  <2>5. QED
    BY <2>2, <2>4
<1>7. ASSUME ~mishap'[c]
      PROVE  Alone(c)' /\ Told(c)'
  <2>1. Alone(c) /\ Told(c) /\ c \in Hand(k)
    BY <1>1, <1>7 DEF Clean, Hand
  <2>2. \A j \in Workers : c \notin Hand(j)'
    BY <1>4, <2>1 DEF Alone
  <2>3. Alone(c)'
    BY <2>2 DEF Alone
  <2>4. status[c] = "PROCESSING"
    BY <2>1 DEF Alone
  <2>5. CASE success
    <3>1. status' = [status EXCEPT ![c] = "SENT"]
      BY <1>1, <2>4, <2>5 DEF Finish, InProcess, Outcome
    <3>2. Told(c)'
      BY <2>1, <3>1 DEF Told, TypeOK
    <3>3. QED
      BY <2>3, <3>2
  <2>6. CASE ~success
    <3>1. ~\E j \in Workers : pc[j] = "finishSent" /\ cur[j] = c
      BY <2>1, <2>6 DEF Alone, Hand
    <3>2. copies[c] = 0
      BY <2>1, <2>4, <3>1 DEF Told, TypeOK
    <3>3. Told(c)'
      BY <3>2 DEF Told
    <3>4. QED
      BY <2>3, <3>3
  <2>7. QED
    BY <2>3, <2>5, <2>6
<1>8. QED
  BY <1>5, <1>6, <1>7 DEF Clean

\* Every step keeps an untroubled message in one hand at most and its copies at one.
LEMMA CleanStep == CleanInv /\ [Next]_vars => CleanInv'
<1> SUFFICES ASSUME TypeOK, InFocus, Clean, [Next]_vars
             PROVE  Clean'
  BY TypedStep DEF CleanInv, Typed
<1> USE DEF vars, queueVars, portVars, workerVars
<1>1. ASSUME NEW m \in Messages, Enqueue(m)
      PROVE  Clean'
  <2>1. \A n \in Messages : n # m => status'[n] = status[n]
    BY <1>1 DEF Enqueue, TypeOK
  <2>2. \A k \in Workers : m \in Hand(k) => ~(~mishap[m])
    BY <1>1 DEF Enqueue, Clean, Alone
  <2>3. \A k \in Workers : cur[k] = m => m \in Hand(k)
    BY DEF Hand
  <2>4. ASSUME NEW n \in Messages, ~mishap'[n]
        PROVE  Alone(n)' /\ Told(n)'
    BY <1>1, <2>1, <2>2, <2>3, <2>4 DEF Enqueue, Clean, Alone, Told, Hand
  <2>5. QED
    BY <1>1, <2>4 DEF Enqueue, Clean, OnceInHand
<1>2. ASSUME NEW m \in Messages, LeaseExpires(m)
      PROVE  Clean'
  <2>1. \A n \in Messages : n # m => leased'[n] = leased[n] /\ mishap'[n] = mishap[n]
    BY <1>2 DEF LeaseExpires, TypeOK
  <2>2. ~mishap'[m] => ~mishap[m] /\ \A k \in Workers : m \notin Hand(k)
    BY <1>2 DEF LeaseExpires, TypeOK, InHand, Hand
  <2>3. ASSUME NEW n \in Messages, ~mishap'[n]
        PROVE  Alone(n)' /\ Told(n)'
    BY <1>2, <2>1, <2>2, <2>3 DEF LeaseExpires, Clean, Alone, Told, Hand
  <2>4. QED
    BY <1>2, <2>3 DEF LeaseExpires, Clean, OnceInHand
<1>3. ASSUME NEW m \in Messages, BackoffElapses(m)
      PROVE  Clean'
  BY <1>3 DEF BackoffElapses, Clean, OnceInHand, Alone, Told, Hand
<1>4. ASSUME NEW k \in Workers, Claim(k)
      PROVE  Clean'
  <2>1. PICK batch \in SUBSET Messages :
          /\ \A m \in batch : Claimable(m)
          /\ todo' = [todo EXCEPT ![k] = batch]
          /\ status' = [m \in Messages |-> IF m \in batch THEN "PROCESSING" ELSE status[m]]
          /\ leased' = [m \in Messages |-> m \in batch \/ leased[m]]
    BY <1>4 DEF Claim, Batches
  <2>2. /\ UNCHANGED <<cur, copies, mishap>>
        /\ \A j \in Workers : pc[j] = "finishSent" <=> pc'[j] = "finishSent"
        /\ cur[k] \notin Messages /\ todo[k] = {}
    BY <1>4 DEF Claim, InFocus, TypeOK, Finishing
  <2>3. /\ OnceInHand'
        /\ \A j \in Workers : j # k => Hand(j)' = Hand(j)
        /\ \A m \in Messages : m \notin Hand(k) /\ (m \in Hand(k)' <=> m \in batch)
    BY <2>1, <2>2 DEF Hand, TypeOK, Clean, OnceInHand
  <2>4. ASSUME NEW m \in Messages, ~mishap'[m]
        PROVE  Alone(m)' /\ Told(m)'
    <3>1. Alone(m) /\ Told(m)
      BY <2>2, <2>4 DEF Clean
    <3>2. CASE m \in batch
      <4>1. \A j \in Workers : m \notin Hand(j)
        BY <2>1, <3>1, <3>2 DEF Claimable, Alone
      <4>2. status'[m] = "PROCESSING" /\ leased'[m] /\ \A j \in Workers : m \in Hand(j)' => j = k
        BY <2>1, <2>3, <3>2, <4>1
      <4>3. \A j \in Workers : cur[j] # m
        BY <4>1 DEF Hand
      <4>4. copies[m] = 0
        BY <2>1, <3>1, <3>2, <4>3 DEF Told, Claimable, TypeOK
      <4>5. Alone(m)'
        BY <4>2 DEF Alone
      <4>6. QED
        BY <2>2, <4>4, <4>5 DEF Told
    <3>3. CASE m \notin batch
      <4>1. status'[m] = status[m] /\ leased'[m] = leased[m]
        BY <2>1, <3>3 DEF TypeOK
      <4>2. \A j \in Workers : m \in Hand(j)' <=> m \in Hand(j)
        BY <2>3, <3>3
      <4>3. Alone(m)'
        BY <3>1, <4>1, <4>2 DEF Alone
      <4>4. Told(m)'
        BY <2>2, <3>1, <4>1 DEF Told
      <4>5. QED
        BY <4>3, <4>4
    <3>4. QED
      BY <3>2, <3>3
  <2>5. QED
    BY <2>3, <2>4 DEF Clean
<1>5. ASSUME NEW k \in Workers, Deliver(k)
      PROVE  Clean'
  <2>1. PICK c \in todo[k] :
          /\ todo' = [todo EXCEPT ![k] = @ \ {c}]
          /\ cur' = [cur EXCEPT ![k] = c]
          /\ \/ Accepted(c) /\ pc' = [pc EXCEPT ![k] = "finishSent"] /\ mishap' = mishap
             \/ pc' = [pc EXCEPT ![k] = "finishFailed"] /\ UNCHANGED <<copies, mishap>>
             \/ Accepted(c) /\ pc' = [pc EXCEPT ![k] = "finishFailed"]
                            /\ mishap' = [mishap EXCEPT ![c] = TRUE]
    BY <1>5 DEF Deliver
  <2>2. /\ c \in Messages /\ pc[k] = "next" /\ cur[k] \notin Messages
        /\ UNCHANGED <<status, leased>>
    BY <1>5, <2>1 DEF Deliver, TypeOK, InFocus, Finishing
  <2>3. \A j \in Workers : \A m \in Messages : m \in Hand(j)' <=> m \in Hand(j)
    BY <2>1, <2>2 DEF Hand, TypeOK
  <2>4. OnceInHand'
    BY <2>1, <2>2 DEF OnceInHand, Clean, TypeOK
  <2>5. ASSUME NEW m \in Messages, ~mishap'[m]
        PROVE  Alone(m)' /\ Told(m)'
    <3>1. ~mishap[m]
      BY <2>1, <2>2, <2>5 DEF TypeOK
    <3>2. Alone(m) /\ Told(m)
      BY <3>1 DEF Clean
    <3>3. Alone(m)'
      BY <2>2, <2>3, <3>2 DEF Alone
    <3>4. CASE m # c
      <4>1. copies'[m] = copies[m]
        BY <2>1, <2>2, <3>4 DEF Accepted, TypeOK
      <4>2. \A j \in Workers : pc[j] = "finishSent" /\ cur[j] = m
                              => pc'[j] = "finishSent" /\ cur'[j] = m
        BY <2>1, <2>2 DEF TypeOK
      <4>3. Told(m)'
        BY <2>2, <3>2, <4>1, <4>2 DEF Told
      <4>4. QED
        BY <3>3, <4>3
    <3>5. CASE m = c
      <4>1. c \in Hand(k)
        BY DEF Hand
      <4>2. /\ status[c] = "PROCESSING"
            /\ ~\E j \in Workers : pc[j] = "finishSent" /\ cur[j] = c
        BY <2>2, <3>2, <3>5, <4>1 DEF Alone, Hand
      <4>3. copies[c] = 0
        BY <2>2, <3>2, <3>5, <4>2 DEF Told, TypeOK
      <4>4. copies'[c] = 0 \/ (copies'[c] = 1 /\ pc'[k] = "finishSent" /\ cur'[k] = c)
        BY <2>1, <2>2, <2>5, <3>5, <4>3 DEF Accepted, TypeOK
      <4>5. Told(c)'
        BY <4>4 DEF Told
      <4>6. QED
        BY <3>3, <3>5, <4>5
    <3>6. QED
      BY <3>4, <3>5
  <2>6. QED
    BY <2>4, <2>5 DEF Clean
<1>6. ASSUME NEW k \in Workers, FinishSent(k) \/ FinishFailed(k)
      PROVE  Clean'
  BY <1>6, FinishClean DEF FinishSent, FinishFailed
<1>7. ASSUME NEW k \in Workers, FinishSentThrows(k)
      PROVE  Clean'
  <2>1. PICK c \in Messages : c = cur[k]
    BY <1>7 DEF FinishSentThrows, InFocus, Finishing
  <2>2. ASSUME NEW m \in Messages, ~mishap'[m]
        PROVE  m # c /\ ~mishap[m]
    BY <1>7, <2>1, <2>2 DEF FinishSentThrows, TypeOK
  <2>3. \A m \in Messages : \A j \in Workers :
          m # c /\ pc[j] = "finishSent" /\ cur[j] = m => pc'[j] = "finishSent"
    BY <1>7, <2>1 DEF FinishSentThrows, TypeOK
  <2>4. ASSUME NEW m \in Messages, ~mishap'[m]
        PROVE  Alone(m)' /\ Told(m)'
    BY <1>7, <2>2, <2>3, <2>4 DEF FinishSentThrows, Clean, Alone, Told, Hand
  <2>5. QED
    BY <1>7, <2>4 DEF FinishSentThrows, Clean, OnceInHand
<1>8. ASSUME NEW k \in Workers, Abort(k)
      PROVE  Clean'
  <2>1. /\ todo' = [todo EXCEPT ![k] = {}] /\ cur' = [cur EXCEPT ![k] = None]
        /\ pc' = [pc EXCEPT ![k] = "idle"]
        /\ UNCHANGED <<status, leased, copies>>
    BY <1>8 DEF Abort
  <2>2. \A j \in Workers : \A m \in Messages : m \in Hand(j)' <=> m \in Hand(j) /\ j # k
    BY <2>1, NextOutboxAssumption DEF Hand, TypeOK
  <2>3. ASSUME NEW m \in Messages, ~mishap'[m]
        PROVE  ~mishap[m] /\ ~(pc[k] = "finishSent" /\ cur[k] = m)
    BY <1>8, <2>3 DEF Abort, TypeOK
  <2>4. ASSUME NEW m \in Messages, ~mishap'[m]
        PROVE  Alone(m)' /\ Told(m)'
    <3>1. Alone(m) /\ Told(m)
      BY <2>3, <2>4 DEF Clean
    <3>2. Alone(m)'
      BY <2>1, <2>2, <3>1 DEF Alone
    <3>3. \A j \in Workers : pc[j] = "finishSent" /\ cur[j] = m
                            => pc'[j] = "finishSent" /\ cur'[j] = m
      BY <2>1, <2>3, <2>4 DEF TypeOK
    <3>4. Told(m)'
      BY <2>1, <3>1, <3>3 DEF Told
    <3>5. QED
      BY <3>2, <3>4
  <2>5. OnceInHand'
    BY <2>1, NextOutboxAssumption DEF OnceInHand, Clean, TypeOK
  <2>6. QED
    BY <2>4, <2>5 DEF Clean
<1>9. CASE UNCHANGED vars
  BY <1>9 DEF Clean, OnceInHand, Alone, Told, Hand
<1>10. QED
  BY <1>1, <1>2, <1>3, <1>4, <1>5, <1>6, <1>7, <1>8, <1>9 DEF Next, WorkerStep

\* A message nothing went wrong around is delivered at most once, and never if it is
\* given up.
THEOREM DeliveredCleanly == Spec => []CleanDelivery
<1>1. Init => CleanInv
  <2>1. Init => Clean
    BY NextOutboxAssumption DEF Init, Clean, OnceInHand, Alone, Told, Hand
  <2>2. QED
    BY <2>1, TypedInit DEF CleanInv
<1>2. CleanInv => CleanDelivery
  <2> SUFFICES ASSUME CleanInv, NEW m \in Messages, ~mishap[m]
               PROVE  copies[m] <= 1 /\ (status[m] = "DEAD" => copies[m] = 0)
    BY DEF CleanDelivery
  <2>1. Alone(m) /\ Told(m) /\ copies[m] \in 0..2
    BY DEF CleanInv, Clean, Typed, TypeOK
  <2>2. ASSUME status[m] = "DEAD"
        PROVE  ~\E k \in Workers : cur[k] = m
    BY <2>1, <2>2 DEF Alone, Hand
  <2>3. QED
    BY <2>1, <2>2 DEF Told
<1>3. QED
  BY <1>1, <1>2, CleanStep, PTL DEF Spec

-----------------------------------------------------------------------------
(* The outbox implements DeliveryContract. *)

\* Finishing a message settles it, lets it wait again or changes nothing.
LEMMA FinishRefines ==
    ASSUME TypeOK, InFocus, NEW k \in Workers, NEW success \in BOOLEAN,
           pc[k] = IF success THEN "finishSent" ELSE "finishFailed",
           Finish(cur[k], success), UNCHANGED copies
    PROVE  [Contract!Next]_<<State, AcceptedOnce>>
<1>1. PICK c \in Messages : c = cur[k]
  BY DEF InFocus, Finishing
<1>2. UNCHANGED AcceptedOnce
  BY DEF AcceptedOnce
<1>3. CASE ~InProcess(c)
  BY <1>1, <1>2, <1>3 DEF Finish, State, queueVars
<1>4. CASE InProcess(c)
  <2>1. /\ status' = [status EXCEPT ![c] = Outcome(c, success)]
        /\ status[c] = "PROCESSING"
    BY <1>1, <1>4 DEF Finish, InProcess
  <2>2. State[c] = "waiting"
    BY <2>1 DEF State, StateOf
  <2>3. State' = [State EXCEPT ![c] = StateOf(Outcome(c, success))]
    BY <2>1 DEF State, TypeOK
  <2>4. CASE Outcome(c, success) = "SENT"
    <3>1. StateOf("SENT") = "sent"
      BY DEF StateOf
    <3>2. success
      BY <2>4 DEF Outcome
    <3>3. AcceptedOnce[c]
      BY <1>1, <3>2 DEF InFocus, AcceptedOnce
    <3>4. Contract!Sent(c)
      BY <1>2, <2>2, <2>3, <2>4, <3>1, <3>3 DEF Contract!Sent
    <3>5. QED
      BY <3>4 DEF Contract!Next
  <2>5. CASE Outcome(c, success) = "DEAD"
    <3>1. StateOf("DEAD") = "dead"
      BY DEF StateOf
    <3>2. Contract!GiveUp(c)
      BY <1>2, <2>2, <2>3, <2>5, <3>1 DEF Contract!GiveUp
    <3>3. QED
      BY <3>2 DEF Contract!Next
  <2>6. CASE Outcome(c, success) = "PENDING"
    <3>1. StateOf("PENDING") = "waiting"
      BY DEF StateOf
    <3>2. UNCHANGED State
      BY <2>2, <2>3, <2>6, <3>1 DEF State
    <3>3. QED
      BY <1>2, <3>2
  <2>7. QED
    BY <2>4, <2>5, <2>6 DEF Outcome
<1>5. QED
  BY <1>3, <1>4

\* Every step is a step of DeliveryContract or leaves its variables alone.
LEMMA RefinementStep == Typed /\ [Next]_vars => [Contract!Next]_<<State, AcceptedOnce>>
<1> SUFFICES ASSUME TypeOK, InFocus, [Next]_vars
             PROVE  [Contract!Next]_<<State, AcceptedOnce>>
  BY DEF Typed
<1> USE DEF vars, queueVars, portVars, workerVars
<1>1. CASE UNCHANGED <<status, copies>>
  BY <1>1 DEF State, AcceptedOnce
<1>2. ASSUME NEW m \in Messages, Enqueue(m)
      PROVE  [Contract!Next]_<<State, AcceptedOnce>>
  <2>1. UNCHANGED AcceptedOnce
    BY <1>2 DEF Enqueue, AcceptedOnce
  <2>2. StateOf("NONE") = "absent" /\ StateOf("PENDING") = "waiting"
    BY DEF StateOf
  <2>3. status' = [status EXCEPT ![m] = "PENDING"] /\ status[m] = "NONE"
    BY <1>2 DEF Enqueue
  <2>4. State[m] = "absent" /\ State' = [State EXCEPT ![m] = "waiting"]
    BY <2>2, <2>3 DEF State, TypeOK
  <2>5. Contract!Queue(m)
    BY <2>1, <2>4 DEF Contract!Queue
  <2>6. QED
    BY <2>5 DEF Contract!Next
<1>3. ASSUME NEW k \in Workers, Claim(k)
      PROVE  [Contract!Next]_<<State, AcceptedOnce>>
  <2>1. PICK batch \in SUBSET Messages :
          /\ \A m \in batch : status[m] \in {"PENDING", "PROCESSING"}
          /\ status' = [m \in Messages |-> IF m \in batch THEN "PROCESSING" ELSE status[m]]
    BY <1>3 DEF Claim, Batches, Claimable
  <2>2. ASSUME NEW m \in Messages
        PROVE  StateOf(status'[m]) = StateOf(status[m])
    <3>1. status'[m] = status[m] \/ {status'[m], status[m]} \subseteq {"PENDING", "PROCESSING"}
      BY <2>1
    <3>2. StateOf("PENDING") = "waiting" /\ StateOf("PROCESSING") = "waiting"
      BY DEF StateOf
    <3>3. QED
      BY <3>1, <3>2
  <2>3. UNCHANGED <<State, AcceptedOnce>>
    BY <1>3, <2>2 DEF Claim, State, AcceptedOnce
  <2>4. QED
    BY <2>3
<1>4. ASSUME NEW k \in Workers, Deliver(k)
      PROVE  [Contract!Next]_<<State, AcceptedOnce>>
  <2>1. PICK c \in todo[k] : copies' = copies \/ Accepted(c)
    BY <1>4 DEF Deliver
  <2>2. c \in Messages /\ status[c] # "NONE" /\ UNCHANGED status
    BY <1>4 DEF Deliver, TypeOK, InFocus
  <2>3. UNCHANGED State
    BY <2>2 DEF State
  <2>4. CASE copies' = copies
    BY <2>3, <2>4 DEF AcceptedOnce
  <2>5. CASE Accepted(c)
    <3>1. copies'[c] > 0 /\ \A m \in Messages : m # c => copies'[m] = copies[m]
      BY <2>2, <2>5 DEF Accepted, TypeOK
    <3>2. AcceptedOnce' = [AcceptedOnce EXCEPT ![c] = TRUE]
      BY <2>2, <3>1 DEF AcceptedOnce
    <3>3. State[c] # "absent"
      BY <2>2 DEF State, StateOf
    <3>4. Contract!Accept(c)
      BY <2>3, <3>2, <3>3 DEF Contract!Accept
    <3>5. QED
      BY <2>2, <3>4 DEF Contract!Next
  <2>6. QED
    BY <2>1, <2>4, <2>5
<1>5. ASSUME NEW k \in Workers, FinishSent(k) \/ FinishFailed(k)
      PROVE  [Contract!Next]_<<State, AcceptedOnce>>
  BY <1>5, FinishRefines DEF FinishSent, FinishFailed
<1>6. QED
  BY <1>1, <1>2, <1>3, <1>4, <1>5
     DEF Next, WorkerStep, LeaseExpires, BackoffElapses, FinishSentThrows, Abort

\* Whatever workers do to each other's claims, a message is recorded as sent only after
\* the port accepted it, and SENT and DEAD are for ever.
THEOREM Refinement == Spec => KeepsContract
<1>1. Init => Contract!Init
  <2>1. ASSUME Init
        PROVE  State = [m \in Messages |-> "absent"]
    <3>1. StateOf("NONE") = "absent"
      BY DEF StateOf
    <3>2. \A m \in Messages : status[m] = "NONE"
      BY <2>1 DEF Init
    <3>3. QED
      BY <3>1, <3>2 DEF State
  <2>2. ASSUME Init
        PROVE  AcceptedOnce = [m \in Messages |-> FALSE]
    <3>1. \A m \in Messages : (copies[m] > 0) = FALSE
      BY <2>2 DEF Init
    <3>2. QED
      BY <3>1 DEF AcceptedOnce
  <2>3. QED
    BY <2>1, <2>2 DEF Contract!Init
<1>2. QED
  BY <1>1, RefinementStep, TypedInvariant, PTL DEF Spec, KeepsContract, Contract!Spec
=============================================================================
