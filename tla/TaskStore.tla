----------------------------- MODULE TaskStore -----------------------------
(***************************************************************************)
(* The durable task store of the platform (PostgresTaskStore): the tables  *)
(* operations.tasks, task_attempts, task_leases and outbox_messages, and   *)
(* one action per transaction the class runs on them.                      *)
(*                                                                         *)
(* Time is abstracted.  A column holding a time is kept as what the        *)
(* queries ask of it: has retry_at passed, has the lease expired, is a     *)
(* message's occurred_at reached, is it within the re-announce window.     *)
(* Each of those answers changes in an action of its own.                  *)
(*                                                                         *)
(* StoreNext lets any caller make any call in any order, so what is        *)
(* proved of StoreSpec does not depend on who calls the store, nor on      *)
(* whether a caller still owns the task it reports on: complete, fail,     *)
(* retry, running and heartbeat take a task id and compare no lease token. *)
(***************************************************************************)
EXTENDS Naturals

CONSTANTS
  Tasks,      \* one per idempotency key a caller may use
  MaxClaims,  \* bound of the model: attempts a task may reach
  MaxUnsent   \* bound of the model: unpublished messages of one task

ASSUME TaskStoreAssumption ==
  /\ MaxClaims \in Nat
  /\ MaxUnsent \in Nat \ {0}

VARIABLES
  status,     \* tasks.status; "absent" before the row exists
  retryDue,   \* tasks.retry_at is NULL or has passed
  ref,        \* tasks.provider_reference: the attempt it came from, 0 is NULL
  lease,      \* the row of task_leases: "none", "held" or "expired"
  attempts,   \* how many rows task_attempts has
  open,       \* attempt_no of the rows whose completed_at is NULL
  unsent,     \* outbox messages not published whose occurred_at is reached
  later,      \* outbox messages not published whose occurred_at is not
  recent      \* some message occurred within the re-announce window

taskVars    == <<status, retryDue, ref>>
attemptVars == <<attempts, open>>
outboxVars  == <<unsent, later, recent>>
storeVars   == <<taskVars, lease, attemptVars, outboxVars>>

Statuses == {"absent", "queued", "running", "completed", "failed",
             "cancelled", "verification_required"}
Ended    == {"completed", "failed", "cancelled"}

StoreTypeOK ==
  /\ status   \in [Tasks -> Statuses]
  /\ retryDue \in [Tasks -> BOOLEAN]
  /\ ref      \in [Tasks -> Nat]
  /\ lease    \in [Tasks -> {"none", "held", "expired"}]
  /\ attempts \in [Tasks -> Nat]
  /\ open     \in [Tasks -> SUBSET Nat]
  /\ unsent   \in [Tasks -> Nat]
  /\ later    \in [Tasks -> Nat]
  /\ recent   \in [Tasks -> BOOLEAN]

StoreInit ==
  /\ status   = [t \in Tasks |-> "absent"]
  /\ retryDue = [t \in Tasks |-> TRUE]
  /\ ref      = [t \in Tasks |-> 0]
  /\ lease    = [t \in Tasks |-> "none"]
  /\ attempts = [t \in Tasks |-> 0]
  /\ open     = [t \in Tasks |-> {}]
  /\ unsent   = [t \in Tasks |-> 0]
  /\ later    = [t \in Tasks |-> 0]
  /\ recent   = [t \in Tasks |-> FALSE]

-----------------------------------------------------------------------------
\* Statements the transactions share.

\* The bound of the model on the outbox.
OutboxHasRoom(t) == unsent[t] + later[t] < MaxUnsent

\* INSERT INTO outbox_messages with occurred_at now.
Announce(t) ==
  /\ OutboxHasRoom(t)
  /\ unsent' = [unsent EXCEPT ![t] = @ + 1]
  /\ recent' = [recent EXCEPT ![t] = TRUE]
  /\ UNCHANGED later

\* DELETE the lease and UPDATE the attempts that are still open.
CloseAttempt(t) ==
  /\ lease' = [lease EXCEPT ![t] = "none"]
  /\ open' = [open EXCEPT ![t] = {}]
  /\ UNCHANGED attempts

\* The guard of #finish, retry and verificationRequired: anything that has
\* not ended may be reported on, by whoever calls.
Reportable(t) == status[t] \notin Ended \cup {"absent"}

-----------------------------------------------------------------------------
\* The transactions.

\* A second call with the same key returns the task that exists.
Create(t) ==
  \/ /\ status[t] = "absent"
     /\ status' = [status EXCEPT ![t] = "queued"]
     /\ Announce(t)
     /\ UNCHANGED <<retryDue, ref, lease, attemptVars>>
  \/ /\ status[t] # "absent"
     /\ UNCHANGED storeVars

Claimable(t) == status[t] = "queued" /\ retryDue[t]

\* Mutated form: the claim adds no row to task_attempts.
ClaimWithoutAttempt(t) ==
  /\ Claimable(t)
  /\ status' = [status EXCEPT ![t] = "running"]
  /\ ref' = [ref EXCEPT ![t] = 0]
  /\ lease' = [lease EXCEPT ![t] = "held"]
  /\ UNCHANGED <<retryDue, attemptVars, outboxVars>>

Claim(t) ==
  /\ Claimable(t)
  /\ attempts[t] < MaxClaims
  /\ status' = [status EXCEPT ![t] = "running"]
  /\ ref' = [ref EXCEPT ![t] = 0]
  /\ attempts' = [attempts EXCEPT ![t] = @ + 1]
  /\ open' = [open EXCEPT ![t] = @ \cup {attempts[t] + 1}]
  /\ lease' = [lease EXCEPT ![t] = "held"]
  /\ UNCHANGED <<retryDue, outboxVars>>

\* An UPDATE by task id: the status is not looked at.
Running(t, n) ==
  /\ ref' = [ref EXCEPT ![t] = n]
  /\ UNCHANGED <<status, retryDue, lease, attemptVars, outboxVars>>

Finish(t, outcome) ==
  \/ /\ Reportable(t)
     /\ status' = [status EXCEPT ![t] = outcome]
     /\ CloseAttempt(t)
     /\ UNCHANGED <<retryDue, ref, outboxVars>>
  \/ /\ ~Reportable(t)
     /\ UNCHANGED storeVars

Complete(t) == Finish(t, "completed")
Fail(t)     == Finish(t, "failed")

\* Mutated form: the message is due at once, not when the retry is.
RetryAnnouncedEarly(t) ==
  /\ Reportable(t)
  /\ status' = [status EXCEPT ![t] = "queued"]
  /\ retryDue' = [retryDue EXCEPT ![t] = FALSE]
  /\ Announce(t)
  /\ CloseAttempt(t)
  /\ UNCHANGED ref

\* The message carries the time the retry is due, so the relay holds it back.
Retry(t) ==
  \/ /\ Reportable(t)
     /\ OutboxHasRoom(t)
     /\ status' = [status EXCEPT ![t] = "queued"]
     /\ retryDue' = [retryDue EXCEPT ![t] = FALSE]
     /\ later' = [later EXCEPT ![t] = @ + 1]
     /\ recent' = [recent EXCEPT ![t] = TRUE]
     /\ CloseAttempt(t)
     /\ UNCHANGED <<ref, unsent>>
  \/ /\ ~Reportable(t)
     /\ UNCHANGED storeVars

VerificationRequired(t) ==
  \/ /\ Reportable(t)
     /\ status' = [status EXCEPT ![t] = "verification_required"]
     /\ CloseAttempt(t)
     /\ UNCHANGED <<retryDue, ref, outboxVars>>
  \/ /\ ~Reportable(t)
     /\ UNCHANGED storeVars

Cancel(t) ==
  /\ status[t] = "queued"
  /\ status' = [status EXCEPT ![t] = "cancelled"]
  /\ UNCHANGED <<retryDue, ref, lease, attemptVars, outboxVars>>

Supersede(t) ==
  /\ status[t] \in {"queued", "running"}
  /\ status' = [status EXCEPT ![t] = "cancelled"]
  /\ CloseAttempt(t)
  /\ UNCHANGED <<retryDue, ref, outboxVars>>

ManualRetry(t) ==
  /\ status[t] = "failed"
  /\ status' = [status EXCEPT ![t] = "queued"]
  /\ retryDue' = [retryDue EXCEPT ![t] = TRUE]
  /\ Announce(t)
  /\ UNCHANGED <<ref, lease, attemptVars>>

\* The relay marks a message it took from pendingOutbox.
MarkOutboxPublished(t) ==
  /\ unsent[t] > 0
  /\ unsent' = [unsent EXCEPT ![t] = @ - 1]
  /\ UNCHANGED <<taskVars, lease, attemptVars, later, recent>>

\* Renews whatever lease the task has: the caller's or a later holder's.
Heartbeat(t) ==
  /\ lease[t] # "none"
  /\ lease' = [lease EXCEPT ![t] = "held"]
  /\ UNCHANGED <<taskVars, attemptVars, outboxVars>>

\* Mutated form: only tasks that the provider has accepted are looked for.
ExpiredIfAccepted ==
  {t \in Tasks : status[t] = "running" /\ lease[t] = "expired" /\ ref[t] # 0}

Expired == {t \in Tasks : status[t] = "running" /\ lease[t] = "expired"}

\* One transaction for all expired tasks that no other transaction has locked.
RecoverExpired(S) ==
  LET requeued == {t \in S : ref[t] = 0}
  IN  /\ S # {} /\ S \subseteq Expired
      /\ \A t \in requeued : OutboxHasRoom(t)
      /\ status' = [t \in Tasks |-> IF t \in requeued THEN "queued"
                                    ELSE IF t \in S THEN "verification_required"
                                    ELSE status[t]]
      /\ lease' = [t \in Tasks |-> IF t \in S THEN "none" ELSE lease[t]]
      /\ open' = [t \in Tasks |-> IF t \in S THEN {} ELSE open[t]]
      /\ unsent' = [t \in Tasks |-> IF t \in requeued THEN unsent[t] + 1 ELSE unsent[t]]
      /\ recent' = [t \in Tasks |-> t \in requeued \/ recent[t]]
      /\ UNCHANGED <<retryDue, ref, attempts, later>>

Stale == {t \in Tasks : Claimable(t) /\ unsent[t] + later[t] = 0 /\ ~recent[t]}

\* One INSERT ... SELECT; rows another transaction has locked are skipped.
ReannounceStale(S) ==
  /\ S # {} /\ S \subseteq Stale
  /\ unsent' = [t \in Tasks |-> IF t \in S THEN unsent[t] + 1 ELSE unsent[t]]
  /\ recent' = [t \in Tasks |-> t \in S \/ recent[t]]
  /\ UNCHANGED <<taskVars, lease, attemptVars, later>>

-----------------------------------------------------------------------------
\* The passing of time.

LeaseLapses(t) ==
  /\ lease[t] = "held"
  /\ lease' = [lease EXCEPT ![t] = "expired"]
  /\ UNCHANGED <<taskVars, attemptVars, outboxVars>>

\* n delayed messages reach their time.  A retry and its message carry the
\* same time and later retries later times, so retry_at has passed when all
\* of them have.
RetryTimeArrives(t, n) ==
  /\ n \in 1 .. later[t]
  /\ later' = [later EXCEPT ![t] = @ - n]
  /\ unsent' = [unsent EXCEPT ![t] = @ + n]
  /\ retryDue' = [retryDue EXCEPT ![t] = @ \/ n = later[t]]
  /\ UNCHANGED <<status, ref, lease, attemptVars, recent>>

ReannounceWindowPasses(t) ==
  /\ recent[t] /\ later[t] = 0
  /\ recent' = [recent EXCEPT ![t] = FALSE]
  /\ UNCHANGED <<taskVars, lease, attemptVars, unsent, later>>

-----------------------------------------------------------------------------
StoreNext ==
  \/ \E t \in Tasks :
       \/ Create(t) \/ Claim(t) \/ Complete(t) \/ Fail(t) \/ Retry(t)
       \/ VerificationRequired(t) \/ Cancel(t) \/ Supersede(t)
       \/ ManualRetry(t) \/ MarkOutboxPublished(t) \/ Heartbeat(t)
       \/ LeaseLapses(t) \/ ReannounceWindowPasses(t)
       \/ \E n \in 1 .. MaxClaims : Running(t, n)
       \/ \E n \in 1 .. MaxUnsent : RetryTimeArrives(t, n)
  \/ \E S \in SUBSET Tasks : RecoverExpired(S) \/ ReannounceStale(S)

StoreSpec == StoreInit /\ [][StoreNext]_storeVars

-----------------------------------------------------------------------------
\* A lease row exists exactly while its task is running, whatever the order
\* of reports, cancellations, overrides and recoveries: a running task always
\* has a lease that can expire, so recovery can reach it, and no finished or
\* queued task keeps a lease that recovery would act on.
LeaseWhileRunning ==
  \A t \in Tasks : lease[t] # "none" <=> status[t] = "running"

\* The attempt history never shows two attempts at once, and what it shows
\* open is the newest attempt of a running task.
OneOpenAttempt ==
  \A t \in Tasks :
    open[t] = IF status[t] = "running" THEN {attempts[t]} ELSE {}

\* A task waiting for its retry time still has the message that will announce
\* it: nothing but that message can wake it before the re-announce window.
DelayedRetryHasMessage ==
  \A t \in Tasks : ~retryDue[t] => later[t] > 0

\* The rows of a task in the store's four tables agree with each other, in whatever order
\* reports, cancellations, overrides, recoveries and announcements commit.
RowsAgree == LeaseWhileRunning /\ OneOpenAttempt /\ DelayedRetryHasMessage

\* A finished task comes back only by a person's retry of a failed one, made
\* with a fresh announcement; completed and cancelled are final.
EndedStaysEnded ==
  [][\A t \in Tasks :
       status[t] \in Ended /\ status'[t] # status[t] =>
         /\ status[t] = "failed" /\ status'[t] = "queued"
         /\ unsent'[t] > unsent[t]]_storeVars
=============================================================================
