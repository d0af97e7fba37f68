----------------------------- MODULE TaskEngine -----------------------------
(***************************************************************************)
(* The asynchronous task engine around the store: the API's requests, the  *)
(* outbox relay, the durable broker queue, the workers' handling of one    *)
(* message each (Worker.tick), the provider, the periodic recovery, and    *)
(* what goes wrong between any two of their steps.                         *)
(*                                                                         *)
(* A worker here is one invocation of the queue consumer: a process runs   *)
(* as many at once as messages arrive (no prefetch limit).  Aborts(w) is   *)
(* the end of an invocation with nothing written: its process stopped, or  *)
(* a call of the store threw out of the handler.  Either way the broker    *)
(* delivers the message again and the lease is no longer renewed.  When    *)
(* the broker's channel closes under a live worker the message is also     *)
(* delivered again, and the worker goes on without noticing.               *)
(*                                                                         *)
(* Messages carry only a task id, so the queue is a number of identical    *)
(* messages for each task.                                                 *)
(***************************************************************************)
EXTENDS TaskStore

CONSTANTS
  Workers,            \* concurrent invocations of the consumer
  None,               \* no task
  MaxAttempts,        \* Worker.maxAttempts
  HeartbeatsMayFail,  \* a live worker's lease may lapse (renewals fail or stall)
  RepliesMayBeLost,   \* the provider may act and its answer still be an error
  MaxFaults,          \* bound of the model: aborts, relay failures, lost messages
  MaxManualRetries,   \* bound of the model: retries asked for by a person
  MaxCopies           \* bound of the model: copies of one message in the queue

ASSUME TaskEngineAssumption ==
  /\ None \notin Tasks
  /\ MaxAttempts \in Nat
  /\ HeartbeatsMayFail \in BOOLEAN
  /\ RepliesMayBeLost \in BOOLEAN
  /\ MaxFaults \in Nat
  /\ MaxManualRetries \in Nat
  /\ MaxCopies \in Nat \ {0}

VARIABLES
  inQueue,   \* messages for the task that are ready in the broker's queue
  relaying,  \* the task whose message the relay has published and not marked
  held,      \* workers whose message the broker has not seen settled
  at,        \* where each worker is in tick
  job,       \* the task of the message each worker is handling
  turn,      \* the attempt number each worker's claim was given
  runs,      \* history: runs the provider made since a person last decided
  lost,      \* history: claimable tasks that lost a message, not replaced yet
  faults, manualRetries  \* how much of the bounds is used

workerVars == <<at, job, turn>>
brokerVars == <<inQueue, relaying, held>>
usedVars   == <<faults, manualRetries>>
vars == <<storeVars, workerVars, brokerVars, runs, lost, usedVars>>

\* "execute" waits for provider.execute, "record" for store.running, and so
\* on.  In the catch block "transient" waits for the number of attempts, and
\* "retrying", "doubtful" and "failing" for the report it has decided on.
Stages == {"idle", "received", "execute", "record", "verify", "apply",
           "complete", "transient", "retrying", "doubtful", "failing", "settle"}

\* The stages in which a worker works on the task it claimed.
Working == Stages \ {"idle", "received", "settle"}

TypeOK ==
  /\ StoreTypeOK
  /\ inQueue  \in [Tasks -> Nat]
  /\ relaying \in Tasks \cup {None}
  /\ at       \in [Workers -> Stages]
  /\ job      \in [Workers -> Tasks \cup {None}]
  /\ turn     \in [Workers -> Nat]
  /\ runs     \in [Tasks -> Nat]
  /\ lost     \subseteq Tasks
  /\ faults \in 0 .. MaxFaults
  /\ manualRetries \in 0 .. MaxManualRetries
  /\ \A w \in Workers : at[w] # "idle" <=> job[w] # None
  /\ held \subseteq {w \in Workers : at[w] # "idle"}

Init ==
  /\ StoreInit
  /\ inQueue  = [t \in Tasks |-> 0]
  /\ relaying = None
  /\ held = {}
  /\ at   = [w \in Workers |-> "idle"]
  /\ job  = [w \in Workers |-> None]
  /\ turn = [w \in Workers |-> 0]
  /\ runs = [t \in Tasks |-> 0]
  /\ lost = {}
  /\ faults = 0
  /\ manualRetries = 0

Fault == faults < MaxFaults /\ faults' = faults + 1 /\ UNCHANGED manualRetries

-----------------------------------------------------------------------------
\* Requests.

Request(t) ==
  /\ Create(t)
  /\ UNCHANGED <<workerVars, brokerVars, runs, lost, usedVars>>

RequestCancel(t) ==
  /\ Cancel(t)
  /\ UNCHANGED <<workerVars, brokerVars, runs, lost, usedVars>>

RequestOverride(t) ==
  /\ Supersede(t)
  /\ UNCHANGED <<workerVars, brokerVars, runs, lost, usedVars>>

RequestRetry(t) ==
  /\ manualRetries < MaxManualRetries
  /\ manualRetries' = manualRetries + 1
  /\ ManualRetry(t)
  /\ runs' = [runs EXCEPT ![t] = 0]
  /\ lost' = lost \ {t}
  /\ UNCHANGED <<workerVars, brokerVars, faults>>

-----------------------------------------------------------------------------
\* The relay: publish with a confirm, then mark the row.

Publish(t) ==
  /\ relaying = None
  /\ unsent[t] > 0 /\ inQueue[t] < MaxCopies
  /\ inQueue' = [inQueue EXCEPT ![t] = @ + 1]
  /\ relaying' = t
  /\ UNCHANGED <<storeVars, workerVars, held, runs, lost, usedVars>>

MarkPublished ==
  /\ relaying # None
  /\ MarkOutboxPublished(relaying)
  /\ relaying' = None
  /\ UNCHANGED <<workerVars, inQueue, held, runs, lost, usedVars>>

\* The confirm or the UPDATE fails, or the process stops in between: the row
\* is still unpublished and a later tick of the relay sends it again.
RelayFails ==
  /\ relaying # None /\ Fault
  /\ relaying' = None
  /\ UNCHANGED <<storeVars, workerVars, inQueue, held, runs, lost>>

\* The queue is purged, or the broker loses its volume and with it what it
\* knew of the messages that were delivered and not settled.
BrokerLoses(t) ==
  /\ Fault
  /\ \/ inQueue[t] > 0 /\ held' = held
     \/ held' = {w \in held : job[w] # t}
  /\ inQueue' = [inQueue EXCEPT ![t] = 0]
  /\ lost' = IF Claimable(t) THEN lost \cup {t} ELSE lost
  /\ UNCHANGED <<storeVars, workerVars, relaying, runs>>

\* The channel closes while a worker handles a message: the broker puts it
\* back in the queue, and the worker's acknowledgement will do nothing.
ChannelCloses(w) ==
  /\ w \in held /\ Fault
  /\ inQueue' = [inQueue EXCEPT ![job[w]] = @ + 1]
  /\ held' = held \ {w}
  /\ UNCHANGED <<storeVars, workerVars, relaying, runs, lost>>

-----------------------------------------------------------------------------
\* Worker.tick, one step per call it awaits.

Goto(w, stage) == at' = [at EXCEPT ![w] = stage] /\ UNCHANGED <<job, turn>>

\* A step of the tick that only moves the worker on.
Await(w, from, to) ==
  /\ at[w] = from
  /\ Goto(w, to)
  /\ UNCHANGED <<storeVars, brokerVars, runs, lost, usedVars>>

\* A step of the tick that is one transaction of the store.
StoreCall(w, from, to, Transaction) ==
  /\ at[w] = from
  /\ Transaction
  /\ Goto(w, to)
  /\ UNCHANGED <<brokerVars, runs, lost, usedVars>>

Receive(w, t) ==
  /\ at[w] = "idle" /\ inQueue[t] > 0
  /\ inQueue' = [inQueue EXCEPT ![t] = @ - 1]
  /\ at' = [at EXCEPT ![w] = "received"]
  /\ job' = [job EXCEPT ![w] = t]
  /\ held' = held \cup {w}
  /\ UNCHANGED <<storeVars, turn, relaying, runs, lost, usedVars>>

ClaimTask(w) ==
  /\ at[w] = "received"
  /\ Claim(job[w])
  /\ at' = [at EXCEPT ![w] = "execute"]
  /\ turn' = [turn EXCEPT ![w] = attempts[job[w]] + 1]
  /\ lost' = lost \ {job[w]}
  /\ UNCHANGED <<job, brokerVars, runs, usedVars>>

\* Cancelled, already claimed, or not due yet: the message is acknowledged.
FindNothing(w) ==
  /\ at[w] = "received" /\ ~Claimable(job[w])
  /\ Await(w, "received", "settle")

\* SKIP LOCKED: another transaction holds the row (and then rolls back).  The
\* task could have been claimed, and its message is acknowledged all the same.
SkipLockedRow(w) ==
  /\ at[w] = "received" /\ Claimable(job[w]) /\ Fault
  /\ Goto(w, "settle")
  /\ lost' = lost \cup {job[w]}
  /\ UNCHANGED <<storeVars, brokerVars, runs>>

ProviderActs(t) == runs' = [runs EXCEPT ![t] = @ + 1]

Accepted(w) ==
  /\ at[w] = "execute"
  /\ ProviderActs(job[w])
  /\ Goto(w, "record")
  /\ UNCHANGED <<storeVars, brokerVars, lost, usedVars>>

\* execute throws, with error.retryable or without.
Refused(w) ==
  \/ Await(w, "execute", "transient")
  \/ Await(w, "execute", "failing")

\* The provider has acted, but its answer is a time-out or a server error,
\* which the providers report as retryable.
ReplyLost(w) ==
  /\ RepliesMayBeLost
  /\ at[w] = "execute"
  /\ ProviderActs(job[w])
  /\ Goto(w, "transient")
  /\ UNCHANGED <<storeVars, brokerVars, lost, usedVars>>

Record(w) ==
  StoreCall(w, "record", "verify", Running(job[w], turn[w]))

Verified(w) == Await(w, "verify", "apply")

VerifyFails(w) ==
  \/ Await(w, "verify", "doubtful")
  \/ Await(w, "verify", "failing")

\* onCompleted: inventory.applyOperation.
Applied(w) == Await(w, "apply", "complete")

\* A store or inventory call throws once the provider has accepted: such an
\* error is not marked retryable, so the catch block fails the task.
CallFails(w) ==
  \E stage \in {"record", "apply", "complete"} :
    Fault /\ at[w] = stage /\ Goto(w, "failing")
    /\ UNCHANGED <<storeVars, brokerVars, runs, lost>>

CompleteTask(w) == StoreCall(w, "complete", "settle", Complete(job[w]))

\* Mutated form: an accepted operation that cannot be verified is retried.
ReportDoubtByRetry(w) == StoreCall(w, "doubtful", "settle", Retry(job[w]))

ReportDoubt(w) ==
  StoreCall(w, "doubtful", "settle", VerificationRequired(job[w]))

\* store.attempts: every attempt of the task counts, also those that ended
\* with an expired lease or before a person's retry.
CountAttempts(w) ==
  /\ at[w] = "transient"
  /\ Await(w, "transient",
           IF attempts[job[w]] < MaxAttempts THEN "retrying" ELSE "failing")

ReportRetry(w) == StoreCall(w, "retrying", "settle", Retry(job[w]))

ReportFailure(w) == StoreCall(w, "failing", "settle", Fail(job[w]))

Acknowledge(w) ==
  /\ at[w] = "settle"
  /\ at' = [at EXCEPT ![w] = "idle"]
  /\ job' = [job EXCEPT ![w] = None]
  /\ held' = held \ {w}
  /\ UNCHANGED <<storeVars, turn, inQueue, relaying, runs, lost, usedVars>>

\* Mutated form: the message was acknowledged when it was delivered.
AbortsAcknowledged(w) ==
  /\ at[w] # "idle" /\ Fault
  /\ at' = [at EXCEPT ![w] = "idle"]
  /\ job' = [job EXCEPT ![w] = None]
  /\ held' = held \ {w}
  /\ UNCHANGED <<storeVars, turn, inQueue, relaying, runs, lost>>

Aborts(w) ==
  /\ at[w] # "idle" /\ Fault
  /\ inQueue' = IF w \in held THEN [inQueue EXCEPT ![job[w]] = @ + 1] ELSE inQueue
  /\ at' = [at EXCEPT ![w] = "idle"]
  /\ job' = [job EXCEPT ![w] = None]
  /\ held' = held \ {w}
  /\ UNCHANGED <<storeVars, turn, relaying, runs, lost>>

WorkingOn(w, t) == at[w] \in Working /\ job[w] = t

RenewLease(w) ==
  /\ at[w] \in Working
  /\ Heartbeat(job[w])
  /\ UNCHANGED <<workerVars, brokerVars, runs, lost, usedVars>>

-----------------------------------------------------------------------------
\* The periodic recovery, and time.

Recover(S) ==
  /\ RecoverExpired(S)
  /\ UNCHANGED <<workerVars, brokerVars, runs, lost, usedVars>>

Reannounce(S) ==
  /\ ReannounceStale(S)
  /\ lost' = lost \ S
  /\ UNCHANGED <<workerVars, brokerVars, runs, usedVars>>

\* The worker renews the lease every 10 s and it lasts 30 s.
LeaseTimesOut(t) ==
  /\ HeartbeatsMayFail \/ \A w \in Workers : ~WorkingOn(w, t)
  /\ LeaseLapses(t)
  /\ UNCHANGED <<workerVars, brokerVars, runs, lost, usedVars>>

RetryComesDue(t) ==
  /\ \E n \in 1 .. MaxUnsent : RetryTimeArrives(t, n)
  /\ UNCHANGED <<workerVars, brokerVars, runs, lost, usedVars>>

AnnouncementAges(t) ==
  /\ ReannounceWindowPasses(t)
  /\ UNCHANGED <<workerVars, brokerVars, runs, lost, usedVars>>

-----------------------------------------------------------------------------
\* What a worker does next when nothing goes wrong with it.
TickStep(w) ==
  \/ ClaimTask(w) \/ FindNothing(w)
  \/ Accepted(w) \/ Refused(w) \/ ReplyLost(w)
  \/ Record(w) \/ Verified(w) \/ VerifyFails(w) \/ Applied(w)
  \/ CompleteTask(w) \/ ReportDoubt(w)
  \/ CountAttempts(w) \/ ReportRetry(w) \/ ReportFailure(w) \/ Acknowledge(w)

Next ==
  \/ \E t \in Tasks :
       \/ Request(t) \/ RequestCancel(t) \/ RequestOverride(t) \/ RequestRetry(t)
       \/ Publish(t) \/ BrokerLoses(t)
       \/ LeaseTimesOut(t) \/ RetryComesDue(t) \/ AnnouncementAges(t)
  \/ MarkPublished \/ RelayFails
  \/ \E w \in Workers :
       \/ TickStep(w) \/ SkipLockedRow(w) \/ CallFails(w) \/ Aborts(w)
       \/ RenewLease(w) \/ ChannelCloses(w)
       \/ \E t \in Tasks : Receive(w, t)
  \/ \E S \in SUBSET Tasks : Recover(S) \/ Reannounce(S)

Spec == Init /\ [][Next]_vars

\* What the timers of the API process, the broker and the event loop of a
\* live process justify.  People and faults are never fair.  The relay takes
\* pending rows in order of age and the broker its ready messages, so no
\* task's row or message is passed over for ever (strong fairness).
Fairness ==
  /\ \A t \in Tasks :
       /\ SF_vars(Publish(t))
       /\ SF_vars(\E w \in Workers : Receive(w, t))
       /\ WF_vars(LeaseTimesOut(t))
       /\ WF_vars(RetryComesDue(t))
       /\ WF_vars(AnnouncementAges(t))
       /\ WF_vars(Recover({t}))
       /\ WF_vars(Reannounce({t}))
  /\ WF_vars(MarkPublished)
  /\ \A w \in Workers : WF_vars(TickStep(w))

FairSpec == Spec /\ Fairness

-----------------------------------------------------------------------------
\* Somewhere there is a message for the task that still has to be looked at:
\* waiting in the outbox and not yet in the relay's hands, ready in the
\* queue, or with a worker that has not tried its claim and whose message the
\* broker would deliver again.
Announced(t) ==
  \/ unsent[t] > IF relaying = t THEN 1 ELSE 0
  \/ inQueue[t] > 0
  \/ \E w \in held : at[w] = "received" /\ job[w] = t

\* No sequence of duplicates, early deliveries, relay failures, aborts and
\* recoveries leaves a task that could be claimed without a message for it;
\* only the two losses the re-announcement is for can (a message the broker
\* lost, a claim that skipped a locked row).
ClaimableIsAnnounced ==
  \A t \in Tasks : Claimable(t) => t \in lost \/ Announced(t)

\* A duplicate message is harmless: of all the workers that hold a message
\* for a task, at most one works on any one attempt of it, also when leases
\* lapse under live workers.
AttemptHasOneWorker ==
  \A v, w \in Workers :
    v # w /\ at[v] \in Working /\ at[w] \in Working /\ job[v] = job[w]
      => turn[v] # turn[w]

\* While leases are renewed, nobody else works on a task that a worker has
\* not let go of, and the worker's reports reach its own attempt or a task
\* that an override has cancelled.
WorkerOwnsTask ==
  \A w \in Workers : at[w] \in Working =>
    /\ \/ status[job[w]] = "running" /\ turn[w] = attempts[job[w]]
       \/ status[job[w]] = "cancelled"
    /\ \A v \in Workers : WorkingOn(v, job[w]) => v = w

\* The provider runs an operation at most once until a person asks again.
NeverRunTwice == \A t \in Tasks : runs[t] <= 1

\* Duplicates, overrides, cancellations, retries and verdicts of themselves
\* never make it run an operation twice: that takes a fault or a lost reply.
RunsTwiceOnlyByFault == faults = 0 /\ ~RepliesMayBeLost => NeverRunTwice

\* The engine implements the abstract life cycle of a task.
phaseOf == [t \in Tasks |->
  CASE status[t] = "queued"                    -> "waiting"
    [] status[t] = "running" /\ ref[t] = 0     -> "started"
    [] status[t] = "running" /\ ref[t] # 0     -> "accepted"
    [] status[t] = "verification_required"     -> "unverified"
    [] status[t] = "completed"                 -> "done"
    [] OTHER                                   -> status[t]]

Lifecycle == INSTANCE TaskLifecycle WITH phase <- phaseOf

ImplementsLifecycle == Lifecycle!Spec

\* Whatever is lost, duplicated or aborted (finitely often), a task that is
\* waiting or running does not stay so: it is completed, failed, cancelled or
\* put before a person for verification.
EveryTaskSettles ==
  \A t \in Tasks :
    status[t] \in {"queued", "running"} ~>
      status[t] \in Ended \cup {"verification_required"}
=============================================================================
