-------------------------- MODULE TaskStoreProofs --------------------------
(***************************************************************************)
(* What holds of the durable store for any set of tasks, any bounds and    *)
(* any callers.  The three relations between the tables are inductive      *)
(* together with the types: StoreInv needs no further strengthening.       *)
(***************************************************************************)
EXTENDS TaskStore, TLAPS

StoreInv ==
  /\ StoreTypeOK
  /\ LeaseWhileRunning
  /\ OneOpenAttempt
  /\ DelayedRetryHasMessage

LEMMA StoreInitInv == StoreInit => StoreInv
  BY DEF StoreInit, StoreInv, StoreTypeOK, LeaseWhileRunning, OneOpenAttempt,
         DelayedRetryHasMessage, Statuses

\* One transaction on one task keeps the relations between the tables.
LEMMA TransactionInv ==
  ASSUME NEW t \in Tasks, StoreInv,
         \/ Create(t) \/ Claim(t) \/ Complete(t) \/ Fail(t) \/ Retry(t)
         \/ VerificationRequired(t) \/ Cancel(t) \/ Supersede(t)
         \/ ManualRetry(t) \/ MarkOutboxPublished(t) \/ Heartbeat(t)
         \/ LeaseLapses(t) \/ ReannounceWindowPasses(t)
  PROVE  StoreInv'
<1> USE TaskStoreAssumption
    DEF StoreInv, StoreTypeOK, LeaseWhileRunning, OneOpenAttempt,
        DelayedRetryHasMessage, Statuses, Ended, Reportable, Announce,
        CloseAttempt, storeVars, taskVars, attemptVars, outboxVars
<1>1. CASE Create(t)
  <2>1. CASE status[t] = "absent"
    <3>0. /\ status' = [status EXCEPT ![t] = "queued"]
          /\ unsent' = [unsent EXCEPT ![t] = @ + 1]
          /\ recent' = [recent EXCEPT ![t] = TRUE]
          /\ UNCHANGED <<retryDue, ref, lease, attempts, open, later>>
      BY <1>1, <2>1 DEF Create
    <3>1. StoreTypeOK'
      BY <3>0
    <3>2. LeaseWhileRunning' /\ OneOpenAttempt' /\ DelayedRetryHasMessage'
      BY <1>1, <2>1 DEF Create
    <3>3. QED
      BY <3>1, <3>2
  <2>2. CASE status[t] # "absent"
    BY <1>1, <2>2 DEF Create
  <2>3. QED
    BY <2>1, <2>2
<1>2. CASE Claim(t)
  <2>1. StoreTypeOK'
    BY <1>2 DEF Claim, Claimable
  <2>2. LeaseWhileRunning' /\ DelayedRetryHasMessage'
    BY <1>2 DEF Claim, Claimable
  <2>3. OneOpenAttempt'
    BY <1>2 DEF Claim, Claimable
  <2>4. QED
    BY <2>1, <2>2, <2>3
<1>3. CASE Complete(t)
  BY <1>3 DEF Complete, Finish
<1>4. CASE Fail(t)
  BY <1>4 DEF Fail, Finish
<1>5. CASE Retry(t)
  <2>1. CASE Reportable(t)
    <3>0. /\ status' = [status EXCEPT ![t] = "queued"]
          /\ retryDue' = [retryDue EXCEPT ![t] = FALSE]
          /\ later' = [later EXCEPT ![t] = @ + 1]
          /\ recent' = [recent EXCEPT ![t] = TRUE]
          /\ lease' = [lease EXCEPT ![t] = "none"]
          /\ open' = [open EXCEPT ![t] = {}]
          /\ UNCHANGED <<ref, unsent, attempts>>
      BY <1>5, <2>1 DEF Retry
    <3>1. StoreTypeOK'
      BY <3>0
    <3>2. LeaseWhileRunning' /\ OneOpenAttempt'
      BY <1>5, <2>1 DEF Retry
    <3>3. DelayedRetryHasMessage'
      BY <1>5, <2>1 DEF Retry
    <3>4. QED
      BY <3>1, <3>2, <3>3
  <2>2. CASE ~Reportable(t)
    BY <1>5, <2>2 DEF Retry
  <2>3. QED
    BY <2>1, <2>2
<1>6. CASE VerificationRequired(t)
  BY <1>6 DEF VerificationRequired
<1>7. CASE Cancel(t)
  BY <1>7 DEF Cancel
<1>8. CASE Supersede(t)
  BY <1>8 DEF Supersede
<1>9. CASE ManualRetry(t)
  BY <1>9 DEF ManualRetry
<1>10. CASE MarkOutboxPublished(t)
  BY <1>10 DEF MarkOutboxPublished
<1>11. CASE Heartbeat(t)
  BY <1>11 DEF Heartbeat
<1>12. CASE LeaseLapses(t)
  BY <1>12 DEF LeaseLapses
<1>13. CASE ReannounceWindowPasses(t)
  BY <1>13 DEF ReannounceWindowPasses
<1>14. QED
  BY <1>1, <1>2, <1>3, <1>4, <1>5, <1>6, <1>7, <1>8, <1>9, <1>10, <1>11,
     <1>12, <1>13

LEMMA RunningInv ==
  ASSUME NEW t \in Tasks, NEW n \in Nat, StoreInv, Running(t, n)
  PROVE  StoreInv'
  BY DEF StoreInv, StoreTypeOK, LeaseWhileRunning, OneOpenAttempt,
         DelayedRetryHasMessage, Running, attemptVars, outboxVars

LEMMA RetryTimeArrivesInv ==
  ASSUME NEW t \in Tasks, NEW n \in Nat, StoreInv, RetryTimeArrives(t, n)
  PROVE  StoreInv'
<1> USE DEF StoreInv, StoreTypeOK, RetryTimeArrives, attemptVars
<1>1. StoreTypeOK'
  <2>1. later[t] - n \in Nat /\ unsent[t] + n \in Nat
    OBVIOUS
  <2>2. (retryDue[t] \/ n = later[t]) \in BOOLEAN
    OBVIOUS
  <2>3. QED
    BY <2>1, <2>2
<1>2. LeaseWhileRunning' /\ OneOpenAttempt'
  BY DEF LeaseWhileRunning, OneOpenAttempt
<1>3. DelayedRetryHasMessage'
  <2>1. ASSUME NEW u \in Tasks, ~retryDue'[u]
        PROVE  later'[u] > 0
    <3>1. CASE u = t
      <4>1. retryDue'[t] = (retryDue[t] \/ n = later[t])
        OBVIOUS
      <4>2. n # later[t] /\ later'[t] = later[t] - n
        BY <2>1, <3>1, <4>1
      <4>3. QED
        BY <3>1, <4>2
    <3>2. CASE u # t
      BY <2>1, <3>2 DEF DelayedRetryHasMessage
    <3>3. QED
      BY <3>1, <3>2
  <2>2. QED
    BY <2>1 DEF DelayedRetryHasMessage
<1>4. QED
  BY <1>1, <1>2, <1>3

LEMMA RecoverExpiredInv ==
  ASSUME NEW S \in SUBSET Tasks, StoreInv, RecoverExpired(S)
  PROVE  StoreInv'
<1> DEFINE requeued == {t \in S : ref[t] = 0}
<1> USE DEF StoreInv, StoreTypeOK
<1>1. StoreTypeOK'
  <2>1. status' \in [Tasks -> Statuses]
    BY DEF RecoverExpired, Statuses
  <2>2. /\ lease' \in [Tasks -> {"none", "held", "expired"}]
        /\ open' \in [Tasks -> SUBSET Nat]
        /\ unsent' \in [Tasks -> Nat]
    BY DEF RecoverExpired
  <2>3. recent' \in [Tasks -> BOOLEAN]
    BY DEF RecoverExpired
  <2>4. UNCHANGED <<retryDue, ref, attempts, later>>
    BY DEF RecoverExpired
  <2>5. QED
    BY <2>1, <2>2, <2>3, <2>4
<1>2. ASSUME NEW u \in Tasks
      PROVE  \/ u \in S /\ status'[u] # "running" /\ lease'[u] = "none" /\ open'[u] = {}
             \/ status'[u] = status[u] /\ lease'[u] = lease[u] /\ open'[u] = open[u]
  BY DEF RecoverExpired
<1>3. UNCHANGED <<attempts, retryDue, later>>
  BY DEF RecoverExpired
<1>4. LeaseWhileRunning' /\ OneOpenAttempt'
  BY <1>2, <1>3 DEF LeaseWhileRunning, OneOpenAttempt
<1>5. QED
  BY <1>1, <1>3, <1>4 DEF DelayedRetryHasMessage

LEMMA ReannounceStaleInv ==
  ASSUME NEW S \in SUBSET Tasks, StoreInv, ReannounceStale(S)
  PROVE  StoreInv'
  BY DEF StoreInv, StoreTypeOK, LeaseWhileRunning, OneOpenAttempt,
         DelayedRetryHasMessage, ReannounceStale, taskVars, attemptVars

LEMMA StoreNextInv == StoreInv /\ [StoreNext]_storeVars => StoreInv'
<1> SUFFICES ASSUME StoreInv, [StoreNext]_storeVars
             PROVE  StoreInv'
  OBVIOUS
<1>1. CASE \E t \in Tasks, n \in 1 .. MaxClaims : Running(t, n)
  BY <1>1, RunningInv, TaskStoreAssumption
<1>2. CASE \E t \in Tasks, n \in 1 .. MaxUnsent : RetryTimeArrives(t, n)
  BY <1>2, RetryTimeArrivesInv, TaskStoreAssumption
<1>3. CASE \E S \in SUBSET Tasks : RecoverExpired(S) \/ ReannounceStale(S)
  BY <1>3, RecoverExpiredInv, ReannounceStaleInv
<1>4. CASE UNCHANGED storeVars
  BY <1>4 DEF StoreInv, StoreTypeOK, LeaseWhileRunning, OneOpenAttempt,
              DelayedRetryHasMessage, storeVars, taskVars, attemptVars,
              outboxVars
<1>5. QED
  BY <1>1, <1>2, <1>3, <1>4, TransactionInv DEF StoreNext

\* The types, the lease of a running task, the single open attempt and the
\* message of a delayed retry hold whoever calls the store, in any order.
THEOREM StoreCorrect == StoreSpec => []StoreInv
  BY StoreInitInv, StoreNextInv, PTL DEF StoreSpec

\* A task that waits for its retry time has the message that will wake it, whoever
\* calls the store in between.
THEOREM StoreDelayedRetry == StoreSpec => []DelayedRetryHasMessage
  BY StoreCorrect, PTL DEF StoreInv

\* A lease row exists exactly while its task is running, so every running
\* task can be recovered and no other task can be.
THEOREM StoreLease == StoreSpec => []LeaseWhileRunning
  BY StoreCorrect, PTL DEF StoreInv

\* Leases, attempts, retry times and messages agree with the tasks they belong to.
THEOREM StoreRowsAgree == StoreSpec => []RowsAgree
  BY StoreCorrect, PTL DEF StoreInv, RowsAgree

\* A step changes the status of an ended task only by the manual retry of a
\* failed one, together with a new message.
LEMMA EndedStep ==
  StoreInv /\ [StoreNext]_storeVars =>
    [\A t \in Tasks :
       status[t] \in Ended /\ status'[t] # status[t] =>
         /\ status[t] = "failed" /\ status'[t] = "queued"
         /\ unsent'[t] > unsent[t]]_storeVars
<1> SUFFICES ASSUME StoreInv, StoreNext,
                    NEW u \in Tasks, status[u] \in Ended, status'[u] # status[u]
             PROVE  /\ status[u] = "failed" /\ status'[u] = "queued"
                    /\ unsent'[u] > unsent[u]
  OBVIOUS
<1>0. StoreTypeOK
  BY DEF StoreInv
<1>1. ASSUME NEW t \in Tasks, NEW outcome, Finish(t, outcome)
      PROVE  FALSE
  BY <1>0, <1>1 DEF Finish, Reportable, StoreTypeOK, storeVars, taskVars
<1>2. ASSUME NEW t \in Tasks,
             \/ Create(t) \/ Claim(t) \/ Retry(t) \/ VerificationRequired(t)
             \/ Cancel(t) \/ Supersede(t)
      PROVE  FALSE
  BY <1>0, <1>2 DEF Create, Claim, Claimable, Retry, VerificationRequired,
     Cancel, Supersede, Reportable, Ended, StoreTypeOK, storeVars, taskVars
<1>3. ASSUME NEW t \in Tasks,
             \/ MarkOutboxPublished(t) \/ Heartbeat(t) \/ LeaseLapses(t)
             \/ ReannounceWindowPasses(t)
             \/ \E n \in 1 .. MaxClaims : Running(t, n)
             \/ \E n \in 1 .. MaxUnsent : RetryTimeArrives(t, n)
      PROVE  FALSE
  BY <1>3 DEF MarkOutboxPublished, Heartbeat, LeaseLapses,
     ReannounceWindowPasses, Running, RetryTimeArrives, taskVars
<1>4. ASSUME NEW S \in SUBSET Tasks, RecoverExpired(S) \/ ReannounceStale(S)
      PROVE  FALSE
  BY <1>4 DEF RecoverExpired, Expired, ReannounceStale, Ended, taskVars
<1>5. ASSUME NEW t \in Tasks, ManualRetry(t)
      PROVE  /\ status[u] = "failed" /\ status'[u] = "queued"
             /\ unsent'[u] > unsent[u]
  BY <1>0, <1>5 DEF ManualRetry, Announce, StoreTypeOK
<1>6. QED
  BY <1>1, <1>2, <1>3, <1>4, <1>5 DEF StoreNext, Complete, Fail

\* Completed and cancelled tasks never change again, whatever a late or
\* duplicated report says; a failed task only when a person retries it.
THEOREM StoreEndedStaysEnded == StoreSpec => EndedStaysEnded
  BY StoreCorrect, EndedStep, PTL DEF StoreSpec, EndedStaysEnded
=============================================================================
