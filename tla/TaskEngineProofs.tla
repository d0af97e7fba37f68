-------------------------- MODULE TaskEngineProofs --------------------------
(***************************************************************************)
(* What holds of the task engine for any tasks, any number of workers and  *)
(* any bounds on faults.                                                   *)
(*                                                                         *)
(* Every step of the engine is a step of the store or leaves it alone, so  *)
(* the relations proved of StoreSpec carry over.  EngineInv adds what      *)
(* relates the store to the relay and to the workers' positions, OwnerInv  *)
(* what renewed leases add, RunsStand what the provider has run, and       *)
(* ReconcilerInv what the reconcilers have in hand.                        *)
(***************************************************************************)
EXTENDS TaskReconciliation, TaskStoreProofs

\* The row whose message the relay has published is still to be marked.
RelayedRowIsUnsent == relaying # None => unsent[relaying] > 0

\* A worker's attempt is one of the attempts of its task.
TurnIsAnAttempt ==
  \A w \in Workers :
    at[w] \in Working => turn[w] \in 1 .. attempts[job[w]]

AttemptsBounded == \A t \in Tasks : attempts[t] <= MaxClaims

EngineInv ==
  /\ TypeOK
  /\ StoreInv
  /\ RelayedRowIsUnsent
  /\ TurnIsAnAttempt
  /\ AttemptsBounded

LEMMA EngineInitInv == Init => EngineInv
<1> SUFFICES ASSUME Init PROVE EngineInv
  OBVIOUS
<1>1. StoreInv
  BY StoreInitInv DEF Init
<1>2. TypeOK
  <2>1. at \in [Workers -> Stages] /\ job \in [Workers -> Tasks \cup {None}]
    BY DEF Init, Stages
  <2>2. faults \in 0 .. MaxFaults /\ manualRetries \in 0 .. MaxManualRetries
    BY TaskEngineAssumption DEF Init
  <2>3. \A w \in Workers : at[w] = "idle" /\ job[w] = None
    BY DEF Init
  <2>4. QED
    BY <1>1, <2>1, <2>2, <2>3 DEF Init, TypeOK, StoreInv
<1>3. RelayedRowIsUnsent /\ TurnIsAnAttempt
  BY DEF Init, RelayedRowIsUnsent, TurnIsAnAttempt, Working
<1>4. AttemptsBounded
  <2>1. \A t \in Tasks : attempts[t] = 0
    BY DEF Init, StoreInit
  <2>2. 0 <= MaxClaims
    BY TaskStoreAssumption DEF TaskStoreAssumption
  <2>3. QED
    BY <2>1, <2>2 DEF AttemptsBounded
<1>5. QED
  BY <1>1, <1>2, <1>3, <1>4 DEF EngineInv

-----------------------------------------------------------------------------
\* The task of a worker that is not idle.
LEMMA JobIsATask ==
  ASSUME TypeOK, NEW w \in Workers, at[w] # "idle"
  PROVE  job[w] \in Tasks
  BY DEF TypeOK

\* The steps that change the store do so by one of its transactions.
LEMMA StepIsStoreStep ==
  ASSUME EngineInv, [Next]_vars
  PROVE  [StoreNext]_storeVars
<1> USE DEF EngineInv
<1>1. ASSUME NEW t \in Tasks,
             \/ Request(t) \/ RequestCancel(t) \/ RequestOverride(t)
             \/ RequestRetry(t) \/ LeaseTimesOut(t) \/ RetryComesDue(t)
             \/ AnnouncementAges(t)
      PROVE  StoreNext
  BY <1>1 DEF StoreNext, Request, RequestCancel, RequestOverride,
     RequestRetry, LeaseTimesOut, RetryComesDue, AnnouncementAges
<1>2. ASSUME RelayFails \/ \E t \in Tasks : Publish(t) \/ BrokerLoses(t)
      PROVE  UNCHANGED storeVars
  BY <1>2 DEF Publish, BrokerLoses, RelayFails
<1>3. ASSUME MarkPublished
      PROVE  StoreNext
  BY <1>3 DEF MarkPublished, StoreNext, TypeOK
<1>4. ASSUME NEW w \in Workers,
             \/ FindNothing(w) \/ Accepted(w) \/ Refused(w) \/ ReplyLost(w)
             \/ Verified(w) \/ VerifyFails(w) \/ Applied(w)
             \/ CountAttempts(w) \/ Acknowledge(w)
             \/ SkipLockedRow(w) \/ CallFails(w) \/ Aborts(w) \/ ChannelCloses(w)
             \/ \E t \in Tasks : Receive(w, t)
      PROVE  UNCHANGED storeVars
  BY <1>4 DEF FindNothing, Accepted, Refused, ReplyLost, Verified,
     VerifyFails, Applied, CountAttempts, Acknowledge, SkipLockedRow,
     CallFails, Aborts, ChannelCloses,
     Receive, Await
<1>5. ASSUME NEW w \in Workers,
             \/ ClaimTask(w) \/ CompleteTask(w) \/ ReportDoubt(w)
             \/ ReportRetry(w) \/ ReportFailure(w) \/ RenewLease(w)
      PROVE  StoreNext
  <2>1. job[w] \in Tasks
    BY <1>5, JobIsATask DEF ClaimTask, CompleteTask, ReportDoubt,
       ReportRetry, ReportFailure, RenewLease, StoreCall, Working, Stages
  <2>2. QED
    BY <1>5, <2>1 DEF ClaimTask, CompleteTask, ReportDoubt, ReportRetry,
       ReportFailure, RenewLease, StoreCall, StoreNext
<1>6. ASSUME NEW w \in Workers, Record(w)
      PROVE  StoreNext
  <2>1. at[w] = "record" /\ Running(job[w], turn[w])
    BY <1>6 DEF Record, StoreCall
  <2>2. job[w] \in Tasks
    BY <2>1, JobIsATask
  <2>3. turn[w] \in 1 .. attempts[job[w]]
    BY <2>1 DEF TurnIsAnAttempt, Working, Stages
  <2>4. attempts[job[w]] \in Nat /\ attempts[job[w]] <= MaxClaims
    BY <2>2 DEF AttemptsBounded, StoreInv, StoreTypeOK
  <2>5. turn[w] \in 1 .. MaxClaims
    BY <2>3, <2>4, TaskStoreAssumption
  <2>6. QED
    BY <2>1, <2>2, <2>5 DEF StoreNext
<1>7. ASSUME NEW S \in SUBSET Tasks, Recover(S) \/ Reannounce(S)
      PROVE  StoreNext
  BY <1>7 DEF Recover, Reannounce, StoreNext
<1>8. CASE UNCHANGED vars
  BY <1>8 DEF vars
<1>9. QED
  BY <1>1, <1>2, <1>3, <1>4, <1>5, <1>6, <1>7, <1>8 DEF Next, TickStep

-----------------------------------------------------------------------------
\* The type invariant, variable by variable.

WorkersTypeOK ==
  /\ at   \in [Workers -> Stages]
  /\ job  \in [Workers -> Tasks \cup {None}]
  /\ turn \in [Workers -> Nat]
  /\ \A w \in Workers : at[w] # "idle" <=> job[w] # None

LEMMA GotoTypes ==
  ASSUME WorkersTypeOK, NEW w \in Workers, at[w] # "idle",
         NEW stage \in Stages \ {"idle"}, Goto(w, stage)
  PROVE  WorkersTypeOK'
  BY DEF WorkersTypeOK, Goto

\* A step of the engine keeps the types of the workers' variables.
LEMMA WorkersTypesStep ==
  ASSUME EngineInv, [Next]_vars
  PROVE  WorkersTypeOK'
<1>0. WorkersTypeOK
  BY DEF EngineInv, TypeOK, WorkersTypeOK
<1>1. CASE UNCHANGED workerVars
  BY <1>0, <1>1 DEF WorkersTypeOK, workerVars
<1>2. ASSUME NEW w \in Workers,
             \/ FindNothing(w) \/ Accepted(w) \/ Refused(w) \/ ReplyLost(w)
             \/ Record(w) \/ Verified(w) \/ VerifyFails(w) \/ Applied(w)
             \/ CountAttempts(w)
             \/ CompleteTask(w) \/ ReportDoubt(w) \/ ReportRetry(w)
             \/ ReportFailure(w) \/ SkipLockedRow(w) \/ CallFails(w)
      PROVE  WorkersTypeOK'
  <2>1. \E stage \in Stages \ {"idle"} : at[w] # "idle" /\ Goto(w, stage)
    BY <1>2 DEF FindNothing, Accepted, Refused, ReplyLost, Record, Verified,
       VerifyFails, Applied, CountAttempts, CompleteTask, ReportDoubt,
       ReportRetry,
       ReportFailure, SkipLockedRow, CallFails, Await, StoreCall, Stages
  <2>2. QED
    BY <1>0, <2>1, GotoTypes
<1>3. ASSUME NEW w \in Workers, ClaimTask(w)
      PROVE  WorkersTypeOK'
  <2>1. /\ at[w] = "received"
        /\ at' = [at EXCEPT ![w] = "execute"]
        /\ turn' = [turn EXCEPT ![w] = attempts[job[w]] + 1]
        /\ job' = job
    BY <1>3 DEF ClaimTask
  <2>2. job[w] \in Tasks
    BY <2>1, JobIsATask DEF EngineInv
  <2>3. attempts[job[w]] + 1 \in Nat
    BY <2>2 DEF EngineInv, StoreInv, StoreTypeOK
  <2>4. QED
    BY <1>0, <2>1, <2>3 DEF WorkersTypeOK, Stages
<1>4. ASSUME NEW w \in Workers, Acknowledge(w) \/ Aborts(w)
      PROVE  WorkersTypeOK'
  BY <1>0, <1>4 DEF Acknowledge, Aborts, WorkersTypeOK, Stages
<1>5. ASSUME NEW w \in Workers, NEW t \in Tasks, Receive(w, t)
      PROVE  WorkersTypeOK'
  <2>1. t # None
    BY TaskEngineAssumption DEF TaskEngineAssumption
  <2>2. QED
    BY <1>0, <1>5, <2>1 DEF Receive, WorkersTypeOK, Stages
<1>6. ASSUME NEW t \in Tasks,
             \/ Request(t) \/ RequestCancel(t) \/ RequestOverride(t)
             \/ RequestRetry(t) \/ Publish(t) \/ BrokerLoses(t)
             \/ LeaseTimesOut(t) \/ RetryComesDue(t) \/ AnnouncementAges(t)
      PROVE  UNCHANGED workerVars
  BY <1>6 DEF Request, RequestCancel, RequestOverride, RequestRetry, Publish,
     BrokerLoses, LeaseTimesOut, RetryComesDue, AnnouncementAges
<1>7. ASSUME \/ MarkPublished \/ RelayFails
             \/ \E w \in Workers : RenewLease(w) \/ ChannelCloses(w)
             \/ \E S \in SUBSET Tasks : Recover(S) \/ Reannounce(S)
             \/ UNCHANGED vars
      PROVE  UNCHANGED workerVars
  BY <1>7 DEF MarkPublished, RelayFails, RenewLease, ChannelCloses, Recover,
              Reannounce, vars
<1>8. QED
  BY <1>1, <1>2, <1>3, <1>4, <1>5, <1>6, <1>7 DEF Next, TickStep

BrokerTypeOK ==
  /\ inQueue  \in [Tasks -> Nat]
  /\ relaying \in Tasks \cup {None}
  /\ held \subseteq {w \in Workers : at[w] # "idle"}

\* A step of the engine keeps the types of the broker's variables.
LEMMA BrokerTypesStep ==
  ASSUME EngineInv, [Next]_vars
  PROVE  BrokerTypeOK'
<1>0. BrokerTypeOK /\ at \in [Workers -> Stages]
  BY DEF EngineInv, TypeOK, BrokerTypeOK
<1>1. CASE UNCHANGED <<brokerVars, at>>
  BY <1>0, <1>1 DEF BrokerTypeOK, brokerVars
<1>2. ASSUME NEW t \in Tasks, Publish(t) \/ BrokerLoses(t)
      PROVE  BrokerTypeOK'
  BY <1>0, <1>2 DEF Publish, BrokerLoses, BrokerTypeOK, workerVars
<1>3. ASSUME MarkPublished \/ RelayFails
      PROVE  BrokerTypeOK'
  BY <1>0, <1>3 DEF MarkPublished, RelayFails, BrokerTypeOK, workerVars
<1>4. ASSUME NEW w \in Workers, NEW t \in Tasks, Receive(w, t)
      PROVE  BrokerTypeOK'
  <2>1. inQueue[t] - 1 \in Nat
    BY <1>0, <1>4 DEF Receive, BrokerTypeOK
  <2>2. QED
    BY <1>0, <1>4, <2>1 DEF Receive, BrokerTypeOK
<1>5. ASSUME NEW w \in Workers, Aborts(w) \/ ChannelCloses(w)
      PROVE  BrokerTypeOK'
  <2>1. job[w] \in Tasks
    BY <1>5, JobIsATask DEF Aborts, ChannelCloses, EngineInv, TypeOK
  <2>2. inQueue' \in [Tasks -> Nat] /\ relaying' = relaying
    BY <1>0, <1>5, <2>1 DEF Aborts, ChannelCloses, BrokerTypeOK
  <2>3. /\ held' = held \ {w}
        /\ at' = at \/ at' = [at EXCEPT ![w] = "idle"]
    BY <1>5 DEF Aborts, ChannelCloses, workerVars
  <2>4. QED
    BY <1>0, <2>2, <2>3 DEF BrokerTypeOK
<1>6. ASSUME NEW w \in Workers, Acknowledge(w)
      PROVE  BrokerTypeOK'
  BY <1>0, <1>6 DEF Acknowledge, BrokerTypeOK
<1>7. ASSUME NEW w \in Workers,
             \/ ClaimTask(w) \/ FindNothing(w) \/ Accepted(w) \/ Refused(w)
             \/ ReplyLost(w) \/ Record(w) \/ Verified(w) \/ VerifyFails(w)
             \/ Applied(w) \/ CountAttempts(w) \/ CompleteTask(w) \/ ReportDoubt(w)
             \/ ReportRetry(w) \/ ReportFailure(w) \/ SkipLockedRow(w)
             \/ CallFails(w)
      PROVE  BrokerTypeOK'
  <2>1. /\ UNCHANGED brokerVars
        /\ \E stage \in Stages \ {"idle"} : at' = [at EXCEPT ![w] = stage]
    BY <1>7 DEF ClaimTask, FindNothing, Accepted, Refused, ReplyLost, Record,
       Verified, VerifyFails, Applied, CountAttempts, CompleteTask, ReportDoubt,
       ReportRetry, ReportFailure, SkipLockedRow, CallFails, Await, StoreCall,
       Goto, Stages
  <2>2. QED
    BY <1>0, <2>1 DEF BrokerTypeOK, brokerVars
<1>8. ASSUME NEW t \in Tasks,
             \/ Request(t) \/ RequestCancel(t) \/ RequestOverride(t)
             \/ RequestRetry(t) \/ LeaseTimesOut(t) \/ RetryComesDue(t)
             \/ AnnouncementAges(t)
      PROVE  UNCHANGED <<brokerVars, at>>
  BY <1>8 DEF Request, RequestCancel, RequestOverride, RequestRetry,
     LeaseTimesOut, RetryComesDue, AnnouncementAges, workerVars
<1>9. ASSUME \/ \E S \in SUBSET Tasks : Recover(S) \/ Reannounce(S)
             \/ \E w \in Workers : RenewLease(w)
             \/ UNCHANGED vars
      PROVE  UNCHANGED <<brokerVars, at>>
  BY <1>9 DEF Recover, Reannounce, RenewLease, vars, workerVars
<1>10. QED
  BY <1>1, <1>2, <1>3, <1>4, <1>5, <1>6, <1>7, <1>8, <1>9 DEF Next, TickStep

HistoryTypeOK ==
  /\ runs \in [Tasks -> Nat]
  /\ lost \subseteq Tasks
  /\ faults \in 0 .. MaxFaults
  /\ manualRetries \in 0 .. MaxManualRetries

LEMMA FaultTypes ==
  ASSUME HistoryTypeOK, Fault
  PROVE  faults' \in 0 .. MaxFaults /\ manualRetries' \in 0 .. MaxManualRetries
  BY TaskEngineAssumption DEF TaskEngineAssumption, HistoryTypeOK, Fault

\* A step of the engine keeps the types of the history variables and bounds.
LEMMA HistoryTypesStep ==
  ASSUME EngineInv, [Next]_vars
  PROVE  HistoryTypeOK'
<1>0. HistoryTypeOK
  BY DEF EngineInv, TypeOK, HistoryTypeOK
<1>1. CASE UNCHANGED <<runs, lost, usedVars>>
  BY <1>0, <1>1 DEF HistoryTypeOK, usedVars
<1>2. ASSUME NEW t \in Tasks, RequestRetry(t)
      PROVE  HistoryTypeOK'
  <2>1. manualRetries' \in 0 .. MaxManualRetries
    BY <1>0, <1>2, TaskEngineAssumption
    DEF TaskEngineAssumption, RequestRetry, HistoryTypeOK
  <2>2. QED
    BY <1>0, <1>2, <2>1 DEF RequestRetry, HistoryTypeOK
<1>3. ASSUME NEW w \in Workers, Accepted(w) \/ ReplyLost(w)
      PROVE  HistoryTypeOK'
  <2>1. job[w] \in Tasks
    BY <1>3, JobIsATask DEF Accepted, ReplyLost, EngineInv
  <2>2. runs' = [runs EXCEPT ![job[w]] = @ + 1] /\ UNCHANGED <<lost, usedVars>>
    BY <1>3 DEF Accepted, ReplyLost, ProviderActs
  <2>3. QED
    BY <1>0, <2>1, <2>2 DEF HistoryTypeOK, usedVars
<1>4. ASSUME NEW w \in Workers, ClaimTask(w)
      PROVE  HistoryTypeOK'
  BY <1>0, <1>4 DEF ClaimTask, HistoryTypeOK, usedVars
<1>5. ASSUME NEW w \in Workers, SkipLockedRow(w)
      PROVE  HistoryTypeOK'
  <2>1. job[w] \in Tasks
    BY <1>5, JobIsATask DEF SkipLockedRow, EngineInv
  <2>2. QED
    BY <1>0, <1>5, <2>1, FaultTypes DEF SkipLockedRow, HistoryTypeOK
<1>6. ASSUME \/ RelayFails
             \/ \E t \in Tasks : BrokerLoses(t)
             \/ \E w \in Workers : CallFails(w) \/ Aborts(w) \/ ChannelCloses(w)
      PROVE  HistoryTypeOK'
  BY <1>0, <1>6, FaultTypes
  DEF RelayFails, BrokerLoses, CallFails, Aborts, ChannelCloses, HistoryTypeOK
<1>7. ASSUME NEW S \in SUBSET Tasks, Recover(S) \/ Reannounce(S)
      PROVE  HistoryTypeOK'
  BY <1>0, <1>7 DEF Recover, Reannounce, HistoryTypeOK, usedVars
<1>8. ASSUME NEW w \in Workers,
             \/ FindNothing(w) \/ Refused(w) \/ Record(w) \/ Verified(w)
             \/ VerifyFails(w) \/ Applied(w) \/ CountAttempts(w) \/ CompleteTask(w)
             \/ ReportDoubt(w) \/ ReportRetry(w) \/ ReportFailure(w)
             \/ Acknowledge(w) \/ RenewLease(w)
             \/ \E t \in Tasks : Receive(w, t)
      PROVE  UNCHANGED <<runs, lost, usedVars>>
  BY <1>8 DEF FindNothing, Refused, Record, Verified, VerifyFails, Applied,
              CountAttempts,
     CompleteTask, ReportDoubt, ReportRetry, ReportFailure, Acknowledge,
     RenewLease, Receive, Await, StoreCall
<1>9. ASSUME \/ MarkPublished \/ UNCHANGED vars
             \/ \E t \in Tasks :
                  \/ Request(t) \/ RequestCancel(t) \/ RequestOverride(t)
                  \/ Publish(t) \/ LeaseTimesOut(t) \/ RetryComesDue(t)
                  \/ AnnouncementAges(t)
      PROVE  UNCHANGED <<runs, lost, usedVars>>
  BY <1>9 DEF MarkPublished, vars, Request, RequestCancel, RequestOverride,
     Publish, LeaseTimesOut, RetryComesDue, AnnouncementAges
<1>10. QED
  BY <1>1, <1>2, <1>3, <1>4, <1>5, <1>6, <1>7, <1>8, <1>9 DEF Next, TickStep

-----------------------------------------------------------------------------
\* Attempts are only ever added, and never beyond the bound.
LEMMA AttemptsStep ==
  ASSUME StoreInv, AttemptsBounded, [StoreNext]_storeVars, NEW t \in Tasks
  PROVE  attempts[t] <= attempts'[t] /\ attempts'[t] <= MaxClaims
<1>0. attempts \in [Tasks -> Nat] /\ attempts[t] <= MaxClaims /\ MaxClaims \in Nat
  BY TaskStoreAssumption
  DEF TaskStoreAssumption, StoreInv, StoreTypeOK, AttemptsBounded
<1>1. ASSUME NEW u \in Tasks, Claim(u)
      PROVE  attempts[t] <= attempts'[t] /\ attempts'[t] <= MaxClaims
  <2>1. attempts[u] < MaxClaims /\ attempts' = [attempts EXCEPT ![u] = @ + 1]
    BY <1>1 DEF Claim
  <2>2. QED
    BY <1>0, <2>1
<1>2. ASSUME NEW u \in Tasks,
             \/ Create(u) \/ Complete(u) \/ Fail(u) \/ Retry(u)
             \/ VerificationRequired(u) \/ Cancel(u) \/ Supersede(u)
             \/ ManualRetry(u) \/ MarkOutboxPublished(u) \/ Heartbeat(u)
             \/ LeaseLapses(u) \/ ReannounceWindowPasses(u)
             \/ \E n \in 1 .. MaxClaims : Running(u, n)
             \/ \E n \in 1 .. MaxUnsent : RetryTimeArrives(u, n)
      PROVE  attempts' = attempts
  BY <1>2 DEF Create, Complete, Fail, Finish, Retry, VerificationRequired,
     Cancel, Supersede, ManualRetry, MarkOutboxPublished, Heartbeat,
     LeaseLapses, ReannounceWindowPasses, Running, RetryTimeArrives,
     CloseAttempt, storeVars, attemptVars
<1>3. ASSUME \/ UNCHANGED storeVars
             \/ \E S \in SUBSET Tasks : RecoverExpired(S) \/ ReannounceStale(S)
      PROVE  attempts' = attempts
  BY <1>3 DEF RecoverExpired, ReannounceStale, storeVars, attemptVars
<1>4. QED
  BY <1>0, <1>1, <1>2, <1>3 DEF StoreNext

\* A worker that works after a step worked before it, on the same attempt of
\* the same task, unless the step was its own claim.
LEMMA WorkerStaysOn ==
  ASSUME EngineInv, [Next]_vars, NEW w \in Workers, at'[w] \in Working
  PROVE  \/ ClaimTask(w)
         \/ at[w] \in Working /\ job'[w] = job[w] /\ turn'[w] = turn[w]
<1> DEFINE Stays == at[w] \in Working /\ job'[w] = job[w] /\ turn'[w] = turn[w]
<1>0. /\ at \in [Workers -> Stages]
      /\ job \in [Workers -> Tasks \cup {None}]
      /\ turn \in [Workers -> Nat]
  BY DEF EngineInv, TypeOK
<1>1. CASE UNCHANGED workerVars
  BY <1>1 DEF workerVars
<1>2. ASSUME NEW v \in Workers,
             \/ FindNothing(v) \/ SkipLockedRow(v) \/ CompleteTask(v)
             \/ ReportDoubt(v) \/ ReportRetry(v) \/ ReportFailure(v)
      PROVE  Stays
  <2>1. Goto(v, "settle")
    BY <1>2 DEF FindNothing, SkipLockedRow, CompleteTask, ReportDoubt,
       ReportRetry, ReportFailure, StoreCall, Await
  <2>2. QED
    BY <1>0, <2>1 DEF Goto, Working
<1>3. ASSUME NEW v \in Workers,
             \/ Accepted(v) \/ Refused(v) \/ ReplyLost(v) \/ Record(v)
             \/ Verified(v) \/ VerifyFails(v) \/ Applied(v)
             \/ CountAttempts(v) \/ CallFails(v)
      PROVE  Stays
  <2>1. at[v] \in Working
    BY <1>3 DEF Accepted, Refused, ReplyLost, Record, Verified, VerifyFails,
       Applied, CountAttempts, CallFails, StoreCall, Await, Working, Stages
  <2>2. PICK stage : Goto(v, stage)
    BY <1>3 DEF Accepted, Refused, ReplyLost, Record, Verified, VerifyFails,
       Applied, CountAttempts, CallFails, StoreCall, Await
  <2>3. QED
    BY <1>0, <2>1, <2>2 DEF Goto
<1>4. ASSUME NEW v \in Workers,
             \/ Acknowledge(v) \/ Aborts(v)
             \/ \E t \in Tasks : Receive(v, t)
      PROVE  Stays
  <2>1. /\ at' \in {[at EXCEPT ![v] = "idle"], [at EXCEPT ![v] = "received"]}
        /\ \E j : job' = [job EXCEPT ![v] = j]
        /\ turn' = turn
    BY <1>4 DEF Acknowledge, Aborts, Receive
  <2>2. QED
    BY <1>0, <2>1 DEF Working
<1>5. ASSUME NEW v \in Workers, ClaimTask(v), v # w
      PROVE  Stays
  BY <1>0, <1>5 DEF ClaimTask
<1>6. ASSUME NEW t \in Tasks,
             \/ Request(t) \/ RequestCancel(t) \/ RequestOverride(t)
             \/ RequestRetry(t) \/ Publish(t) \/ BrokerLoses(t)
             \/ LeaseTimesOut(t) \/ RetryComesDue(t) \/ AnnouncementAges(t)
      PROVE  UNCHANGED workerVars
  BY <1>6 DEF Request, RequestCancel, RequestOverride, RequestRetry, Publish,
     BrokerLoses, LeaseTimesOut, RetryComesDue, AnnouncementAges
<1>7. ASSUME \/ MarkPublished \/ RelayFails
             \/ \E v \in Workers : RenewLease(v) \/ ChannelCloses(v)
             \/ \E S \in SUBSET Tasks : Recover(S) \/ Reannounce(S)
             \/ UNCHANGED vars
      PROVE  UNCHANGED workerVars
  BY <1>7 DEF MarkPublished, RelayFails, RenewLease, ChannelCloses, Recover,
              Reannounce, vars
<1>8. QED
  BY <1>1, <1>2, <1>3, <1>4, <1>5, <1>6, <1>7 DEF Next, TickStep

LEMMA TurnStep ==
  ASSUME EngineInv, [Next]_vars
  PROVE  TurnIsAnAttempt'
<1> SUFFICES ASSUME NEW w \in Workers, at'[w] \in Working
             PROVE  turn'[w] \in 1 .. attempts'[job'[w]]
  BY DEF TurnIsAnAttempt
<1>0. /\ TypeOK
      /\ attempts \in [Tasks -> Nat]
      /\ turn \in [Workers -> Nat]
  BY DEF EngineInv, StoreInv, StoreTypeOK, TypeOK
<1>1. CASE ClaimTask(w)
  <2>1. /\ at[w] = "received" /\ job'[w] = job[w]
        /\ attempts' = [attempts EXCEPT ![job[w]] = @ + 1]
        /\ turn'[w] = attempts[job[w]] + 1
    BY <1>0, <1>1 DEF ClaimTask, Claim
  <2>2. job[w] \in Tasks
    BY <1>0, <2>1, JobIsATask
  <2>3. QED
    BY <1>0, <2>1, <2>2
<1>2. CASE at[w] \in Working /\ job'[w] = job[w] /\ turn'[w] = turn[w]
  <2>1. job[w] \in Tasks
    BY <1>0, <1>2, JobIsATask DEF Working
  <2>2. attempts[job[w]] <= attempts'[job[w]]
    BY <2>1, AttemptsStep, StepIsStoreStep DEF EngineInv
  <2>3. attempts'[job[w]] \in Nat
    BY <2>1, StepIsStoreStep, StoreNextInv DEF EngineInv, StoreInv, StoreTypeOK
  <2>4. turn[w] \in 1 .. attempts[job[w]]
    BY <1>2 DEF EngineInv, TurnIsAnAttempt
  <2>5. QED
    BY <1>0, <1>2, <2>1, <2>2, <2>3, <2>4
<1>3. QED
  BY <1>1, <1>2, WorkerStaysOn

LEMMA OneWorkerStep ==
  ASSUME EngineInv, AttemptHasOneWorker, [Next]_vars
  PROVE  AttemptHasOneWorker'
<1> SUFFICES ASSUME NEW v \in Workers, NEW w \in Workers, v # w,
                    at'[v] \in Working, at'[w] \in Working, job'[v] = job'[w]
             PROVE  turn'[v] # turn'[w]
  BY DEF AttemptHasOneWorker
<1> DEFINE Stays(x) == at[x] \in Working /\ job'[x] = job[x] /\ turn'[x] = turn[x]
<1>0. TypeOK /\ TurnIsAnAttempt /\ attempts \in [Tasks -> Nat]
  BY DEF EngineInv, StoreInv, StoreTypeOK
<1>1. ASSUME NEW x \in Workers, NEW y \in Workers, x # y, ClaimTask(x),
Stays(y),
             job'[x] = job'[y]
      PROVE  turn'[x] # turn'[y]
  <2>1. at[x] = "received" /\ job'[x] = job[x] /\ turn'[x] = attempts[job[x]] + 1
    BY <1>0, <1>1 DEF ClaimTask, TypeOK
  <2>2. job[x] \in Tasks
    BY <1>0, <2>1, JobIsATask
  <2>3. turn[y] \in 1 .. attempts[job[x]]
    BY <1>0, <1>1, <2>1 DEF TurnIsAnAttempt
  <2>4. QED
    BY <1>0, <1>1, <2>1, <2>2, <2>3
<1>2. ~(ClaimTask(v) /\ ClaimTask(w))
  BY <1>0 DEF ClaimTask, TypeOK, Working
<1>3. CASE Stays(v) /\ Stays(w)
  BY <1>3 DEF AttemptHasOneWorker
<1>4. QED
  BY <1>1, <1>2, <1>3, WorkerStaysOn

-----------------------------------------------------------------------------
\* Only the relay takes a message out of the outbox.
LEMMA UnsentKept ==
  ASSUME EngineInv, [Next]_vars, ~MarkPublished, NEW u \in Tasks
  PROVE  unsent[u] <= unsent'[u]
<1>0. TypeOK /\ unsent \in [Tasks -> Nat] /\ later \in [Tasks -> Nat]
  BY DEF EngineInv, StoreInv, StoreTypeOK
<1>1. CASE unsent' = unsent
  BY <1>0, <1>1
<1>2. ASSUME NEW t \in Tasks,
             \/ Request(t) \/ RequestCancel(t) \/ RequestOverride(t)
             \/ RequestRetry(t) \/ LeaseTimesOut(t) \/ AnnouncementAges(t)
      PROVE  unsent' = unsent \/ unsent' = [unsent EXCEPT ![t] = @ + 1]
  BY <1>2 DEF Request, RequestCancel, RequestOverride, RequestRetry,
     LeaseTimesOut, AnnouncementAges, Create, Cancel, Supersede, ManualRetry,
     LeaseLapses, ReannounceWindowPasses, Announce, storeVars, outboxVars
<1>3. ASSUME NEW t \in Tasks, RetryComesDue(t)
      PROVE  unsent[u] <= unsent'[u]
  BY <1>0, <1>3 DEF RetryComesDue, RetryTimeArrives
<1>4. ASSUME NEW S \in SUBSET Tasks, Recover(S) \/ Reannounce(S)
      PROVE  unsent[u] <= unsent'[u]
  BY <1>0, <1>4 DEF Recover, Reannounce, RecoverExpired, ReannounceStale
<1>5. ASSUME NEW w \in Workers,
             \/ ClaimTask(w) \/ Record(w) \/ CompleteTask(w) \/ ReportDoubt(w)
             \/ ReportRetry(w) \/ ReportFailure(w) \/ RenewLease(w)
      PROVE  unsent' = unsent
  BY <1>5 DEF ClaimTask, Record, CompleteTask, ReportDoubt, ReportRetry,
     ReportFailure, RenewLease, StoreCall, Claim, Running, Complete, Fail,
     Finish, VerificationRequired, Retry, Heartbeat, storeVars, outboxVars
<1>6. ASSUME NEW w \in Workers,
             \/ FindNothing(w) \/ Accepted(w) \/ Refused(w) \/ ReplyLost(w)
             \/ Verified(w) \/ VerifyFails(w) \/ Applied(w)
             \/ CountAttempts(w) \/ Acknowledge(w)
             \/ SkipLockedRow(w) \/ CallFails(w) \/ Aborts(w) \/ ChannelCloses(w)
             \/ \E t \in Tasks : Receive(w, t)
      PROVE  unsent' = unsent
  BY <1>6 DEF FindNothing, Accepted, Refused, ReplyLost, Verified,
     VerifyFails, Applied, CountAttempts, Acknowledge, SkipLockedRow,
     CallFails, Aborts, ChannelCloses,
     Receive, Await, storeVars, outboxVars
<1>7. ASSUME \/ RelayFails \/ UNCHANGED vars
             \/ \E t \in Tasks : Publish(t) \/ BrokerLoses(t)
      PROVE  unsent' = unsent
  BY <1>7 DEF Publish, BrokerLoses, RelayFails, storeVars, outboxVars, vars
<1>8. QED
  BY <1>0, <1>1, <1>2, <1>3, <1>4, <1>5, <1>6, <1>7 DEF Next, TickStep

\* Only the relay's own steps change what it has in hand.
LEMMA RelayingKept ==
  ASSUME [Next]_vars, ~MarkPublished, ~RelayFails,
         ~ \E t \in Tasks : Publish(t)
  PROVE  relaying' = relaying
<1>1. ASSUME NEW t \in Tasks,
             \/ Request(t) \/ RequestCancel(t) \/ RequestOverride(t)
             \/ RequestRetry(t) \/ BrokerLoses(t) \/ LeaseTimesOut(t)
             \/ RetryComesDue(t) \/ AnnouncementAges(t)
      PROVE  relaying' = relaying
  BY <1>1 DEF Request, RequestCancel, RequestOverride, RequestRetry,
     BrokerLoses, LeaseTimesOut, RetryComesDue, AnnouncementAges, brokerVars
<1>2. ASSUME NEW w \in Workers,
             \/ TickStep(w) \/ SkipLockedRow(w) \/ CallFails(w) \/ Aborts(w)
             \/ ChannelCloses(w)
             \/ RenewLease(w) \/ \E t \in Tasks : Receive(w, t)
      PROVE  relaying' = relaying
  BY <1>2 DEF TickStep, ClaimTask, FindNothing, Accepted, Refused, ReplyLost,
     Record, Verified, VerifyFails, Applied, CountAttempts, CompleteTask,
     ReportDoubt,
     ReportRetry, ReportFailure, Acknowledge, SkipLockedRow, CallFails,
     Aborts, ChannelCloses,
     RenewLease, Receive, Await, StoreCall, brokerVars
<1>3. ASSUME \/ \E S \in SUBSET Tasks : Recover(S) \/ Reannounce(S)
             \/ UNCHANGED vars
      PROVE  relaying' = relaying
  BY <1>3 DEF Recover, Reannounce, vars, brokerVars
<1>4. QED
  BY <1>1, <1>2, <1>3 DEF Next

LEMMA RelayedRowStep ==
  ASSUME EngineInv, [Next]_vars
  PROVE  RelayedRowIsUnsent'
<1>0. TypeOK /\ unsent \in [Tasks -> Nat] /\ RelayedRowIsUnsent
  BY DEF EngineInv, StoreInv, StoreTypeOK
<1>1. CASE MarkPublished \/ RelayFails
  BY <1>1 DEF MarkPublished, RelayFails, RelayedRowIsUnsent
<1>2. ASSUME NEW t \in Tasks, Publish(t)
      PROVE  RelayedRowIsUnsent'
  BY <1>2 DEF Publish, RelayedRowIsUnsent, storeVars, outboxVars
<1>3. CASE relaying' = relaying /\ ~MarkPublished
  <2> SUFFICES ASSUME relaying # None
               PROVE  unsent'[relaying] > 0
    BY <1>3 DEF RelayedRowIsUnsent
  <2>1. relaying \in Tasks /\ unsent[relaying] > 0
    BY <1>0 DEF TypeOK, RelayedRowIsUnsent
  <2>2. unsent[relaying] <= unsent'[relaying]
    BY <1>3, <2>1, UnsentKept
  <2>3. unsent'[relaying] \in Nat
    BY <2>1, StepIsStoreStep, StoreNextInv DEF EngineInv, StoreInv, StoreTypeOK
  <2>4. QED
    BY <1>0, <2>1, <2>2, <2>3
<1>4. QED
  BY <1>1, <1>2, <1>3, RelayingKept

LEMMA EngineNextInv == EngineInv /\ [Next]_vars => EngineInv'
<1> SUFFICES ASSUME EngineInv, [Next]_vars
             PROVE  EngineInv'
  OBVIOUS
<1>1. StoreInv'
  BY StepIsStoreStep, StoreNextInv DEF EngineInv
<1>2. TypeOK'
  BY <1>1, WorkersTypesStep, BrokerTypesStep, HistoryTypesStep
  DEF TypeOK, StoreInv, WorkersTypeOK, BrokerTypeOK, HistoryTypeOK
<1>3. AttemptsBounded'
  BY StepIsStoreStep, AttemptsStep DEF EngineInv, AttemptsBounded
<1>4. QED
  BY <1>1, <1>2, <1>3, RelayedRowStep, TurnStep DEF EngineInv

\* Every reachable state of the engine is well typed, with any number of
\* workers, faults and copies of messages.
THEOREM EngineCorrect == Spec => []EngineInv
  BY EngineInitInv, EngineNextInv, PTL DEF Spec

\* The type invariant of the engine.
THEOREM EngineTypeOK == Spec => []TypeOK
  BY EngineCorrect, PTL DEF EngineInv

\* The engine uses the store only through its transactions, so everything
\* proved of StoreSpec holds of the engine.
THEOREM EngineUsesStore == Spec => StoreSpec
<1>1. Init => StoreInit
  BY DEF Init
<1>2. EngineInv /\ [Next]_vars => [StoreNext]_storeVars
  BY StepIsStoreStep
<1>3. QED
  BY <1>1, <1>2, EngineCorrect, PTL DEF Spec, StoreSpec

\* A running task has a lease whatever the workers, the relay and the
\* recovery do, also when leases lapse under live workers.
THEOREM EngineLease == Spec => []LeaseWhileRunning
  BY EngineUsesStore, StoreLease, PTL

\* The same for the single open attempt of the task's history.
THEOREM EngineOneOpenAttempt == Spec => []OneOpenAttempt
  BY EngineCorrect, PTL DEF EngineInv, StoreInv

\* The rows of tasks agree also while workers, recovery and relay race and leases lapse.
THEOREM EngineRowsAgree == Spec => []RowsAgree
  BY EngineUsesStore, StoreRowsAgree, PTL

\* No late report, duplicate message or recovery revives an ended task.
THEOREM EngineEndedStaysEnded == Spec => EndedStaysEnded
  BY EngineUsesStore, StoreEndedStaysEnded, PTL

\* Duplicate messages never put two workers on one attempt.
THEOREM EngineAttemptHasOneWorker == Spec => []AttemptHasOneWorker
<1>1. Init => AttemptHasOneWorker
  BY DEF Init, AttemptHasOneWorker, Working
<1>2. EngineInv /\ AttemptHasOneWorker /\ [Next]_vars => AttemptHasOneWorker'
  BY OneWorkerStep
<1>3. QED
  BY <1>1, <1>2, EngineCorrect, PTL DEF Spec

-----------------------------------------------------------------------------
\* The invariant ClaimableIsAnnounced, for one task.
HasMessage(u) == Claimable(u) => u \in lost \/ Announced(u)

\* Nothing that can change for the worse has changed.
LEMMA MessageKept ==
  ASSUME EngineInv, EngineInv', NEW u \in Tasks, HasMessage(u),
         Claimable(u)' => Claimable(u),
         relaying' = relaying,
         unsent[u] <= unsent'[u],
         inQueue[u] <= inQueue'[u],
         u \in lost => u \in lost',
         \A w \in held : at[w] = "received" /\ job[w] = u =>
                           w \in held' /\ at'[w] = "received" /\ job'[w] = u
  PROVE  HasMessage(u)'
<1>0. /\ unsent[u] \in Nat /\ inQueue[u] \in Nat
      /\ unsent'[u] \in Nat /\ inQueue'[u] \in Nat
  BY DEF EngineInv, StoreInv, StoreTypeOK, TypeOK
<1>1. Announced(u) => Announced(u)'
  BY <1>0 DEF Announced
<1>2. QED
  BY <1>1 DEF HasMessage

\* A new row of the outbox is a message the relay does not have in hand.
LEMMA MessageAdded ==
  ASSUME EngineInv, EngineInv', NEW u \in Tasks, relaying' = relaying,
         unsent[u] < unsent'[u]
  PROVE  HasMessage(u)'
<1>0. unsent[u] \in Nat /\ unsent'[u] \in Nat
  BY DEF EngineInv, StoreInv, StoreTypeOK
<1>1. relaying = u => unsent[u] > 0
  BY TaskEngineAssumption DEF TaskEngineAssumption, EngineInv,
                              RelayedRowIsUnsent
<1>2. QED
  BY <1>0, <1>1 DEF HasMessage, Announced

LEMMA MessageRequests ==
  ASSUME EngineInv, EngineInv', NEW u \in Tasks, HasMessage(u), NEW t \in Tasks,
         \/ Request(t) \/ RequestCancel(t) \/ RequestOverride(t)
         \/ RequestRetry(t) \/ LeaseTimesOut(t) \/ RetryComesDue(t)
         \/ AnnouncementAges(t)
  PROVE  HasMessage(u)'
<1>0. /\ TypeOK
      /\ status \in [Tasks -> Statuses] /\ retryDue \in [Tasks -> BOOLEAN]
      /\ unsent \in [Tasks -> Nat] /\ later \in [Tasks -> Nat]
  BY DEF EngineInv, StoreInv, StoreTypeOK
<1>1. UNCHANGED <<workerVars, brokerVars>>
  BY DEF Request, RequestCancel, RequestOverride, RequestRetry, LeaseTimesOut,
     RetryComesDue, AnnouncementAges
<1>2. ASSUME Claimable(u)' => Claimable(u), unsent[u] <= unsent'[u],
             u \in lost => u \in lost'
      PROVE  HasMessage(u)'
  BY <1>0, <1>1, <1>2, MessageKept DEF workerVars, brokerVars, TypeOK
<1>3. ASSUME unsent[u] < unsent'[u]
      PROVE  HasMessage(u)'
  BY <1>1, <1>3, MessageAdded DEF brokerVars
<1>4. CASE Request(t)
  BY <1>0, <1>2, <1>3, <1>4
  DEF Request, Create, Announce, Claimable, storeVars, taskVars, outboxVars
<1>5. CASE RequestCancel(t) \/ RequestOverride(t)
  BY <1>0, <1>2, <1>5 DEF RequestCancel, RequestOverride, Cancel, Supersede,
     Claimable, outboxVars
<1>6. CASE RequestRetry(t)
  BY <1>0, <1>2, <1>3, <1>6 DEF RequestRetry, ManualRetry, Announce, Claimable
<1>7. CASE RetryComesDue(t)
  <2>1. PICK n \in 1 .. MaxUnsent : RetryTimeArrives(t, n)
    BY <1>7 DEF RetryComesDue
  <2>2. unsent' = [unsent EXCEPT ![t] = @ + n] /\ status' = status /\ lost' = lost
    BY <1>7, <2>1 DEF RetryTimeArrives, RetryComesDue
  <2>3. CASE t = u
    BY <1>0, <1>3, <2>2, <2>3
  <2>4. CASE t # u
    <3>1. retryDue'[u] = retryDue[u]
      BY <1>0, <2>1, <2>4 DEF RetryTimeArrives
    <3>2. QED
      BY <1>0, <1>2, <2>2, <2>4, <3>1 DEF Claimable
  <2>5. QED
    BY <2>3, <2>4
<1>8. CASE LeaseTimesOut(t) \/ AnnouncementAges(t)
  BY <1>0, <1>2, <1>8 DEF LeaseTimesOut, AnnouncementAges, LeaseLapses,
     ReannounceWindowPasses, Claimable, taskVars, outboxVars
<1>9. QED
  BY <1>4, <1>5, <1>6, <1>7, <1>8

LEMMA MessageRelay ==
  ASSUME EngineInv, EngineInv', NEW u \in Tasks, HasMessage(u),
         \/ MarkPublished \/ RelayFails
         \/ \E t \in Tasks : Publish(t) \/ BrokerLoses(t)
  PROVE  HasMessage(u)'
<1>0. /\ TypeOK /\ None \notin Tasks
      /\ inQueue \in [Tasks -> Nat] /\ unsent \in [Tasks -> Nat]
  BY TaskEngineAssumption
  DEF TaskEngineAssumption, EngineInv, StoreInv, StoreTypeOK, TypeOK
<1>1. CASE MarkPublished
  BY <1>0, <1>1 DEF MarkPublished, MarkOutboxPublished, HasMessage, Announced,
     Claimable, TypeOK, workerVars, taskVars
<1>2. CASE RelayFails
  BY <1>0, <1>2 DEF RelayFails, HasMessage, Announced, Claimable, workerVars,
     storeVars, taskVars, outboxVars
<1>3. ASSUME NEW t \in Tasks, Publish(t)
      PROVE  HasMessage(u)'
  BY <1>0, <1>3 DEF Publish, HasMessage, Announced, Claimable, workerVars,
     storeVars, taskVars, outboxVars
<1>4. ASSUME NEW t \in Tasks, BrokerLoses(t)
      PROVE  HasMessage(u)'
  BY <1>0, <1>4 DEF BrokerLoses, HasMessage, Announced, Claimable, workerVars,
     storeVars, taskVars, outboxVars
<1>5. QED
  BY <1>1, <1>2, <1>3, <1>4

LEMMA MessageWorkers ==
  ASSUME EngineInv, EngineInv', NEW u \in Tasks, HasMessage(u),
  NEW w \in Workers,
         \/ TickStep(w) \/ SkipLockedRow(w) \/ CallFails(w) \/ Aborts(w)
         \/ ChannelCloses(w) \/ RenewLease(w) \/ \E t \in Tasks : Receive(w, t)
  PROVE  HasMessage(u)'
<1>0. /\ TypeOK /\ None \notin Tasks
      /\ status \in [Tasks -> Statuses] /\ retryDue \in [Tasks -> BOOLEAN]
      /\ inQueue \in [Tasks -> Nat] /\ unsent \in [Tasks -> Nat]
      /\ at \in [Workers -> Stages] /\ job \in [Workers -> Tasks \cup {None}]
  BY TaskEngineAssumption
  DEF TaskEngineAssumption, EngineInv, StoreInv, StoreTypeOK, TypeOK
\* A worker past its claim moves on, whatever its report does to the store.
<1>1. ASSUME at[w] \in Working, UNCHANGED <<job, brokerVars>>,
             NEW stage, at' = [at EXCEPT ![w] = stage],
             Claimable(u)' => Claimable(u), unsent' = unsent, lost' = lost
      PROVE  HasMessage(u)'
  BY <1>0, <1>1, MessageKept DEF brokerVars, Working
<1>2. ASSUME \/ Accepted(w) \/ Refused(w) \/ ReplyLost(w) \/ Verified(w)
             \/ VerifyFails(w) \/ Applied(w) \/ CountAttempts(w) \/ CallFails(w)
      PROVE  HasMessage(u)'
  <2>1. PICK stage : Goto(w, stage)
    BY <1>2 DEF Accepted, Refused, ReplyLost, Verified, VerifyFails, Applied,
                CountAttempts,
       CallFails, Await
  <2>2. /\ at[w] \in Working
        /\ UNCHANGED <<storeVars, brokerVars, lost>>
    BY <1>2 DEF Accepted, Refused, ReplyLost, Verified, VerifyFails, Applied,
                CountAttempts,
       CallFails, Await, Working, Stages
  <2>3. QED
    BY <1>1, <2>1, <2>2 DEF Goto, Claimable, storeVars, taskVars, outboxVars
<1>3. ASSUME \/ Record(w) \/ CompleteTask(w) \/ ReportDoubt(w)
             \/ ReportRetry(w) \/ ReportFailure(w)
      PROVE  HasMessage(u)'
  <2>1. PICK stage : Goto(w, stage)
    BY <1>3 DEF Record, CompleteTask, ReportDoubt, ReportRetry, ReportFailure,
       StoreCall
  <2>2. at[w] \in Working /\ UNCHANGED <<brokerVars, lost>>
    BY <1>3 DEF Record, CompleteTask, ReportDoubt, ReportRetry, ReportFailure,
       StoreCall, Working, Stages
  <2>3. \/ Running(job[w], turn[w]) \/ Complete(job[w]) \/ Fail(job[w])
        \/ VerificationRequired(job[w]) \/ Retry(job[w])
    BY <1>3 DEF Record, CompleteTask, ReportDoubt, ReportRetry, ReportFailure,
       StoreCall
  <2>4. unsent' = unsent
    BY <2>3 DEF Running, Complete, Fail, Finish, VerificationRequired, Retry,
       storeVars, outboxVars
  <2>5. Claimable(u)' => Claimable(u)
    BY <1>0, <2>3 DEF Running, Complete, Fail, Finish, VerificationRequired,
       Retry, Claimable, storeVars, taskVars
  <2>6. QED
    BY <1>1, <2>1, <2>2, <2>4, <2>5 DEF Goto
<1>4. ASSUME RenewLease(w)
      PROVE  HasMessage(u)'
  BY <1>0, <1>4, MessageKept DEF RenewLease, Heartbeat, Claimable, workerVars,
     brokerVars, taskVars, outboxVars
<1>5. ASSUME Acknowledge(w)
      PROVE  HasMessage(u)'
  <2>1. /\ at[w] = "settle" /\ held' = held \ {w} /\ held \subseteq Workers
        /\ \A v \in Workers \ {w} : at'[v] = at[v] /\ job'[v] = job[v]
    BY <1>0, <1>5 DEF Acknowledge, TypeOK
  <2>2. UNCHANGED <<storeVars, inQueue, relaying, lost>>
    BY <1>5 DEF Acknowledge
  <2>3. QED
    BY <1>0, <2>1, <2>2, MessageKept DEF Claimable, storeVars, taskVars,
                                         outboxVars
<1>6. ASSUME Aborts(w) \/ ChannelCloses(w)
      PROVE  HasMessage(u)'
  <2>1. /\ UNCHANGED <<storeVars, relaying, lost>> /\ held' = held \ {w}
        /\ \A v \in Workers \ {w} : at'[v] = at[v] /\ job'[v] = job[v]
    BY <1>0, <1>6 DEF Aborts, ChannelCloses, workerVars
  <2>2. CASE job[w] = u /\ w \in held
    <3>1. inQueue'[u] > 0
      BY <1>0, <1>6, <2>2 DEF Aborts, ChannelCloses
    <3>2. QED
      BY <3>1 DEF HasMessage, Announced
  <2>3. CASE ~(job[w] = u /\ w \in held)
    <3>1. inQueue'[u] = inQueue[u]
      BY <1>0, <1>6, <2>3 DEF Aborts, ChannelCloses
    <3>2. held \subseteq Workers /\ inQueue[u] \in Nat /\ unsent[u] \in Nat
      BY <1>0 DEF TypeOK
    <3>3. QED
      BY <2>1, <2>3, <3>1, <3>2, MessageKept
      DEF Claimable, storeVars, taskVars, outboxVars
  <2>4. QED
    BY <2>2, <2>3
<1>7. ASSUME NEW t \in Tasks, Receive(w, t)
      PROVE  HasMessage(u)'
  <2>1. /\ at[w] = "idle" /\ inQueue' = [inQueue EXCEPT ![t] = @ - 1]
        /\ at' = [at EXCEPT ![w] = "received"] /\ job' = [job EXCEPT ![w] = t]
        /\ held' = held \cup {w}
        /\ UNCHANGED <<storeVars, relaying, lost>>
    BY <1>7 DEF Receive
  <2>2. CASE t = u
    BY <1>0, <2>1, <2>2 DEF HasMessage, Announced
  <2>3. CASE t # u
    <3>1. /\ inQueue'[u] = inQueue[u] /\ held \subseteq Workers
          /\ \A v \in Workers \ {w} : at'[v] = at[v] /\ job'[v] = job[v]
      BY <1>0, <2>1, <2>3 DEF TypeOK
    <3>2. QED
      BY <1>0, <2>1, <3>1, MessageKept DEF Claimable, storeVars, taskVars,
                                           outboxVars
  <2>4. QED
    BY <2>2, <2>3
<1>8. ASSUME ClaimTask(w) \/ FindNothing(w) \/ SkipLockedRow(w)
      PROVE  HasMessage(u)'
  <2>1. /\ at[w] = "received" /\ UNCHANGED <<job, brokerVars>>
        /\ unsent' = unsent
        /\ \E stage : at' = [at EXCEPT ![w] = stage]
    BY <1>8 DEF ClaimTask, Claim, FindNothing, SkipLockedRow, Await, Goto,
       storeVars, outboxVars
  <2>2. CASE job[w] = u
    BY <1>0, <1>8, <2>1, <2>2 DEF ClaimTask, Claim, FindNothing, SkipLockedRow,
       Await, Claimable, HasMessage, storeVars, taskVars
  <2>3. CASE job[w] # u
    <3>1. Claimable(u)' = Claimable(u)
      BY <1>0, <1>8, <2>3 DEF ClaimTask, Claim, FindNothing, SkipLockedRow,
         Await, Claimable, storeVars, taskVars
    <3>2. u \in lost => u \in lost'
      BY <1>8, <2>3 DEF ClaimTask, FindNothing, SkipLockedRow, Await
    <3>3. held \subseteq Workers
      BY <1>0 DEF TypeOK
    <3>4. QED
      BY <1>0, <2>1, <2>3, <3>1, <3>2, <3>3, MessageKept DEF brokerVars
  <2>4. QED
    BY <2>2, <2>3
<1>9. QED
  BY <1>2, <1>3, <1>4, <1>5, <1>6, <1>7, <1>8 DEF TickStep

LEMMA MessageRecovery ==
  ASSUME EngineInv, EngineInv', NEW u \in Tasks, HasMessage(u),
         NEW S \in SUBSET Tasks, Recover(S) \/ Reannounce(S)
  PROVE  HasMessage(u)'
<1>0. status \in [Tasks -> Statuses] /\ unsent \in [Tasks -> Nat] /\ TypeOK
  BY DEF EngineInv, StoreInv, StoreTypeOK
<1>1. UNCHANGED <<workerVars, brokerVars>>
  BY DEF Recover, Reannounce
<1>2. \/ unsent[u] < unsent'[u]
      \/ /\ unsent'[u] = unsent[u] /\ (Claimable(u)' => Claimable(u))
         /\ u \in lost => u \in lost'
  BY <1>0 DEF Recover, Reannounce, RecoverExpired, ReannounceStale, Claimable,
     taskVars
<1>3. QED
  BY <1>0, <1>1, <1>2, MessageKept, MessageAdded DEF workerVars, brokerVars,
                                                     TypeOK

\* A task that could be claimed has a message on its way, unless that message
\* was one of the two losses the re-announcement repairs.
THEOREM EngineClaimableIsAnnounced == Spec => []ClaimableIsAnnounced
<1>1. Init => ClaimableIsAnnounced
  BY DEF Init, StoreInit, ClaimableIsAnnounced, Claimable
<1>2. ASSUME EngineInv, ClaimableIsAnnounced, [Next]_vars
      PROVE  ClaimableIsAnnounced'
  <2> SUFFICES ASSUME NEW u \in Tasks
               PROVE  HasMessage(u)'
    BY DEF ClaimableIsAnnounced, HasMessage
  <2>1. EngineInv' /\ HasMessage(u)
    BY <1>2, EngineNextInv DEF ClaimableIsAnnounced, HasMessage
  <2>2. CASE UNCHANGED vars
    BY <1>2, <2>1, <2>2 DEF HasMessage, Announced, Claimable, vars, storeVars,
       taskVars, outboxVars, workerVars, brokerVars
  <2>3. CASE Next
    BY <1>2, <2>1, <2>3, MessageRequests, MessageRelay, MessageWorkers,
       MessageRecovery DEF Next
  <2>4. QED
    BY <1>2, <2>2, <2>3
<1>3. QED
  BY <1>1, <1>2, EngineCorrect, PTL DEF Spec

-----------------------------------------------------------------------------
\* While leases are renewed: who owns a task.

\* A lease that has expired belongs to nobody who still works on the task.
LapsedIsAbandoned ==
  \A t \in Tasks : lease[t] = "expired" => \A w \in Workers : ~WorkingOn(w, t)

\* What a worker's position says of the reference of the attempt it runs.
RecordedWhenAccepted ==
  \A w \in Workers :
    at[w] \in Working /\ status[job[w]] = "running" =>
      /\ at[w] \in {"execute", "record", "transient",
                    "retrying"} => ref[job[w]] = 0
      /\ at[w] \in {"verify", "apply", "complete",
                    "doubtful"} => ref[job[w]] # 0

OwnerInv ==
  /\ EngineInv
  /\ LapsedIsAbandoned
  /\ WorkerOwnsTask
  /\ RecordedWhenAccepted

\* A lease expires only when nobody renews it.
LEMMA LeaseExpiry ==
  ASSUME EngineInv, [Next]_vars, NEW t \in Tasks, lease'[t] = "expired"
  PROVE  lease[t] = "expired" \/ LeaseTimesOut(t)
<1>0. lease \in [Tasks -> {"none", "held", "expired"}]
  BY DEF EngineInv, StoreInv, StoreTypeOK
<1>1. ASSUME NEW u \in Tasks,
             \/ Request(u) \/ RequestCancel(u) \/ RequestOverride(u)
             \/ RequestRetry(u) \/ Publish(u) \/ BrokerLoses(u)
             \/ RetryComesDue(u) \/ AnnouncementAges(u)
      PROVE  lease[t] = "expired"
  BY <1>0, <1>1 DEF Request, RequestCancel, RequestOverride, RequestRetry,
     Publish, BrokerLoses, RetryComesDue, AnnouncementAges, Create, Cancel,
     Supersede, CloseAttempt, ManualRetry, RetryTimeArrives,
     ReannounceWindowPasses, storeVars
<1>2. ASSUME NEW u \in Tasks, LeaseTimesOut(u)
      PROVE  lease[t] = "expired" \/ LeaseTimesOut(t)
  BY <1>0, <1>2 DEF LeaseTimesOut, LeaseLapses
<1>3. ASSUME NEW w \in Workers,
             \/ ClaimTask(w) \/ Record(w) \/ CompleteTask(w) \/ ReportDoubt(w)
             \/ ReportRetry(w) \/ ReportFailure(w) \/ RenewLease(w)
      PROVE  lease[t] = "expired"
  BY <1>0, <1>3 DEF ClaimTask, Record, CompleteTask, ReportDoubt, ReportRetry,
     ReportFailure, RenewLease, StoreCall, Claim, Running, Complete, Fail,
     Finish, VerificationRequired, Retry, CloseAttempt, Heartbeat, storeVars
<1>4. ASSUME NEW w \in Workers,
             \/ FindNothing(w) \/ Accepted(w) \/ Refused(w) \/ ReplyLost(w)
             \/ Verified(w) \/ VerifyFails(w) \/ Applied(w)
             \/ CountAttempts(w) \/ Acknowledge(w)
             \/ SkipLockedRow(w) \/ CallFails(w) \/ Aborts(w) \/ ChannelCloses(w)
             \/ \E u \in Tasks : Receive(w, u)
      PROVE  lease[t] = "expired"
  BY <1>4 DEF FindNothing, Accepted, Refused, ReplyLost, Verified, VerifyFails,
     Applied, CountAttempts, Acknowledge, SkipLockedRow, CallFails, Aborts,
     ChannelCloses, Receive, Await,
     storeVars
<1>5. ASSUME \/ MarkPublished \/ RelayFails \/ UNCHANGED vars
             \/ \E S \in SUBSET Tasks : Recover(S) \/ Reannounce(S)
      PROVE  lease[t] = "expired"
  BY <1>0, <1>5 DEF MarkPublished, MarkOutboxPublished, RelayFails, vars,
     storeVars, Recover, RecoverExpired, Reannounce, ReannounceStale
<1>6. QED
  BY <1>1, <1>2, <1>3, <1>4, <1>5 DEF Next, TickStep

\* What the steps of others, and its own, do to the task a worker works on.
LEMMA OwnedTask ==
  ASSUME OwnerInv, [Next]_vars, NEW w \in Workers,
         at[w] \in Working, at'[w] \in Working
  PROVE  /\ status[job[w]] = "cancelled" => status'[job[w]] = "cancelled"
         /\ status[job[w]] = "running" =>
              \/ status'[job[w]] = "cancelled"
              \/ status'[job[w]] = "running" /\ attempts'[job[w]] = attempts[job[w]]
         /\ Record(w) \/ ref'[job[w]] = ref[job[w]]
<1> DEFINE t == job[w]
           Kept == /\ status'[t] = status[t] /\ attempts'[t] = attempts[t]
                   /\ ref'[t] = ref[t]
<1> HIDE DEF Kept
<1>0. /\ TypeOK /\ t \in Tasks /\ WorkingOn(w, t)
      /\ status \in [Tasks -> Statuses] /\ ref \in [Tasks -> Nat]
      /\ attempts \in [Tasks -> Nat] /\ at \in [Workers -> Stages]
      /\ status[t] \in {"running", "cancelled"}
  BY JobIsATask DEF OwnerInv, EngineInv, StoreInv, StoreTypeOK, TypeOK,
     WorkerOwnsTask, WorkingOn, Working
<1>1. ASSUME Kept
      PROVE  /\ status[t] = "cancelled" => status'[t] = "cancelled"
             /\ status[t] = "running" =>
                  \/ status'[t] = "cancelled"
                  \/ status'[t] = "running" /\ attempts'[t] = attempts[t]
             /\ Record(w) \/ ref'[t] = ref[t]
  BY <1>1 DEF Kept
<1>2. ASSUME NEW u \in Tasks,
             \/ Request(u) \/ RequestCancel(u) \/ RequestRetry(u)
             \/ LeaseTimesOut(u) \/ RetryComesDue(u) \/ AnnouncementAges(u)
      PROVE  Kept
  BY <1>0, <1>2 DEF Request, RequestCancel, RequestRetry, LeaseTimesOut,
     RetryComesDue, AnnouncementAges, Create, Cancel, ManualRetry, LeaseLapses,
     RetryTimeArrives, ReannounceWindowPasses, storeVars, taskVars,
     attemptVars, Kept
<1>3. ASSUME NEW u \in Tasks, RequestOverride(u)
      PROVE  Kept \/ (status'[t] = "cancelled" /\ ref'[t] = ref[t])
  BY <1>0, <1>3 DEF RequestOverride, Supersede, CloseAttempt, Kept
<1>4. ASSUME \/ RelayFails \/ MarkPublished \/ UNCHANGED vars
             \/ \E u \in Tasks : Publish(u) \/ BrokerLoses(u)
      PROVE  Kept
  BY <1>4 DEF Publish, BrokerLoses, RelayFails, MarkPublished,
     MarkOutboxPublished, vars, storeVars, taskVars, attemptVars, Kept
<1>5. ASSUME NEW v \in Workers,
             \/ FindNothing(v) \/ Accepted(v) \/ Refused(v) \/ ReplyLost(v)
             \/ Verified(v) \/ VerifyFails(v) \/ Applied(v)
             \/ CountAttempts(v) \/ Acknowledge(v)
             \/ SkipLockedRow(v) \/ CallFails(v) \/ Aborts(v)
             \/ ChannelCloses(v) \/ RenewLease(v)
             \/ \E u \in Tasks : Receive(v, u)
      PROVE  Kept
  <2>1. UNCHANGED <<taskVars, attemptVars>>
    BY <1>5 DEF FindNothing, Accepted, Refused, ReplyLost, Verified,
       VerifyFails, Applied, CountAttempts, Acknowledge, SkipLockedRow,
       CallFails, Aborts, ChannelCloses,
       RenewLease, Heartbeat, Receive, Await, storeVars
  <2>2. QED
    BY <2>1 DEF taskVars, attemptVars, Kept
<1>6. ASSUME NEW v \in Workers, ClaimTask(v)
      PROVE  Kept
  <2>1. job[v] # t
    BY <1>0, <1>6 DEF ClaimTask, Claim, Claimable
  <2>2. QED
    BY <1>0, <1>6, <2>1 DEF ClaimTask, Claim, Kept
<1>7. ASSUME NEW v \in Workers, v # w,
             \/ Record(v) \/ CompleteTask(v) \/ ReportDoubt(v)
             \/ ReportRetry(v) \/ ReportFailure(v)
      PROVE  Kept
  <2>1. at[v] \in Working
    BY <1>7 DEF Record, CompleteTask, ReportDoubt, ReportRetry, ReportFailure,
       StoreCall, Working, Stages
  <2>2. job[v] # t
    BY <1>0, <1>7, <2>1 DEF OwnerInv, WorkerOwnsTask, WorkingOn
  <2>3. \/ Running(job[v], turn[v]) \/ Complete(job[v]) \/ Fail(job[v])
        \/ VerificationRequired(job[v]) \/ Retry(job[v])
    BY <1>7 DEF Record, CompleteTask, ReportDoubt, ReportRetry, ReportFailure,
       StoreCall
  <2>4. QED
    BY <1>0, <2>2, <2>3 DEF Running, Complete, Fail, Finish,
       VerificationRequired, Retry, CloseAttempt, storeVars, taskVars,
       attemptVars, Kept
<1>8. ASSUME Record(w)
      PROVE  status' = status /\ attempts' = attempts
  BY <1>8 DEF Record, StoreCall, Running, attemptVars
<1>9. ~(CompleteTask(w) \/ ReportDoubt(w) \/ ReportRetry(w) \/ ReportFailure(w))
  BY <1>0 DEF CompleteTask, ReportDoubt, ReportRetry, ReportFailure, StoreCall,
     Goto, Working
<1>10. ASSUME NEW S \in SUBSET Tasks, Recover(S) \/ Reannounce(S)
       PROVE  Kept
  <2>1. lease[t] # "expired"
    BY <1>0 DEF OwnerInv, LapsedIsAbandoned
  <2>2. QED
    BY <1>0, <1>10, <2>1 DEF Recover, Reannounce, RecoverExpired, Expired,
       ReannounceStale, taskVars, attemptVars, Kept
<1>11. QED
  BY <1>0, <1>1, <1>2, <1>3, <1>4, <1>5, <1>6, <1>7, <1>8, <1>9, <1>10
  DEF Next, TickStep

\* A claim finds the task queued, so nobody works on it.
LEMMA ClaimFindsNobody ==
  ASSUME OwnerInv, NEW w \in Workers, ClaimTask(w)
  PROVE  /\ job[w] \in Tasks /\ at[w] = "received" /\ job' = job
         /\ at' = [at EXCEPT ![w] = "execute"]
         /\ \A v \in Workers : ~WorkingOn(v, job[w])
         /\ status'[job[w]] = "running" /\ lease'[job[w]] = "held"
         /\ ref'[job[w]] = 0
         /\ turn'[w] = attempts'[job[w]]
<1>1. at[w] = "received" /\ Claim(job[w])
  BY DEF ClaimTask
<1>2. TypeOK /\ StoreTypeOK
  BY DEF OwnerInv, EngineInv, StoreInv
<1>3. job[w] \in Tasks
  BY <1>1, <1>2, JobIsATask
<1>4. \A v \in Workers : ~WorkingOn(v, job[w])
  BY <1>1 DEF OwnerInv, WorkerOwnsTask, WorkingOn, Claim, Claimable
<1>5. QED
  BY <1>1, <1>2, <1>3, <1>4 DEF ClaimTask, Claim, StoreTypeOK, TypeOK

LEMMA LapsedStep ==
  ASSUME HeartbeatsMayFail = FALSE, OwnerInv, [Next]_vars
  PROVE  LapsedIsAbandoned'
<1> SUFFICES ASSUME NEW t \in Tasks, lease'[t] = "expired",
                    NEW w \in Workers, at'[w] \in Working, job'[w] = t
             PROVE  FALSE
  BY DEF LapsedIsAbandoned, WorkingOn
<1>1. CASE ClaimTask(w)
  BY <1>1, ClaimFindsNobody
<1>2. CASE WorkingOn(w, t)
  <2>1. lease[t] # "expired"
    BY <1>2 DEF OwnerInv, LapsedIsAbandoned
  <2>2. LeaseTimesOut(t)
    BY <2>1, LeaseExpiry DEF OwnerInv
  <2>3. QED
    BY <1>2, <2>2 DEF LeaseTimesOut
<1>3. QED
  BY <1>1, <1>2, WorkerStaysOn DEF OwnerInv, WorkingOn

LEMMA OwnerStep ==
  ASSUME OwnerInv, [Next]_vars
  PROVE  WorkerOwnsTask'
<1> SUFFICES ASSUME NEW w \in Workers, at'[w] \in Working
             PROVE  /\ \/ /\ status'[job'[w]] = "running"
                          /\ turn'[w] = attempts'[job'[w]]
                       \/ status'[job'[w]] = "cancelled"
                    /\ \A v \in Workers :
                         at'[v] \in Working /\ job'[v] = job'[w] => v = w
  BY DEF WorkerOwnsTask, WorkingOn
<1> DEFINE Stays(x) == at[x] \in Working /\ job'[x] = job[x] /\ turn'[x] = turn[x]
<1>0. \A x \in Workers : at'[x] \in Working => ClaimTask(x) \/ Stays(x)
  BY WorkerStaysOn DEF OwnerInv
<1>1. ~ \E x, y \in Workers :
        x # y /\ at'[x] \in Working /\ at'[y] \in Working /\ ClaimTask(x) /\ ClaimTask(y)
  BY ClaimFindsNobody DEF Working, OwnerInv, EngineInv, TypeOK
<1>2. ASSUME NEW x \in Workers, NEW y \in Workers, ClaimTask(x), Stays(y)
      PROVE  job'[x] # job'[y]
  BY <1>2, ClaimFindsNobody DEF WorkingOn
<1>3. ASSUME NEW v \in Workers, v # w, at'[v] \in Working
      PROVE  job'[v] # job'[w]
  <2>1. CASE Stays(v) /\ Stays(w)
    BY <1>3, <2>1 DEF OwnerInv, WorkerOwnsTask, WorkingOn
  <2>2. QED
    BY <1>0, <1>1, <1>2, <1>3, <2>1
<1>4. \/ status'[job'[w]] = "running" /\ turn'[w] = attempts'[job'[w]]
      \/ status'[job'[w]] = "cancelled"
  <2>1. CASE ClaimTask(w)
    BY <2>1, ClaimFindsNobody
  <2>2. CASE Stays(w)
    <3>1. \/ status[job[w]] = "running" /\ turn[w] = attempts[job[w]]
          \/ status[job[w]] = "cancelled"
      BY <2>2 DEF OwnerInv, WorkerOwnsTask
    <3>2. QED
      BY <2>2, <3>1, OwnedTask
  <2>3. QED
    BY <1>0, <2>1, <2>2
<1>5. QED
  BY <1>3, <1>4

\* How far one step of the tick takes a worker.
LEMMA StageStep ==
  ASSUME EngineInv, [Next]_vars, NEW w \in Workers, at[w] \in Working,
         at'[w] \in Working, ~Record(w)
  PROVE  \/ at'[w] = at[w]
         \/ /\ at[w] \in {"execute", "transient"}
            /\ at'[w] \in {"record", "transient", "retrying"}
         \/ /\ at[w] \in {"verify", "apply"}
            /\ at'[w] \in {"apply", "complete", "doubtful"}
         \/ at'[w] = "failing"
<1>0. at \in [Workers -> Stages]
  BY DEF EngineInv, TypeOK
<1>1. ASSUME at' = at
      PROVE  at'[w] = at[w]
  BY <1>1
<1>2. ASSUME NEW v \in Workers, v # w, TickStep(v) \/ CallFails(v)
      PROVE  at'[w] = at[w]
  BY <1>0, <1>2 DEF TickStep, ClaimTask, FindNothing, Accepted, Refused,
     ReplyLost, Record, Verified, VerifyFails, Applied, CountAttempts,
     CompleteTask,
     ReportDoubt, ReportRetry, ReportFailure, Acknowledge, CallFails, Await,
     StoreCall, Goto
<1>3. ASSUME TickStep(w) \/ CallFails(w)
      PROVE  \/ /\ at[w] \in {"execute", "transient"}
                /\ at'[w] \in {"record", "transient", "retrying"}
             \/ /\ at[w] \in {"verify", "apply"}
                /\ at'[w] \in {"apply", "complete", "doubtful"}
             \/ at'[w] = "failing"
  BY <1>0, <1>3 DEF TickStep, ClaimTask, FindNothing, Accepted, Refused,
     ReplyLost, Verified, VerifyFails, Applied, CountAttempts, CompleteTask,
     ReportDoubt, ReportRetry, ReportFailure, Acknowledge, CallFails, Await,
     StoreCall, Goto, Working
<1>4. ASSUME NEW v \in Workers,
             SkipLockedRow(v) \/ Aborts(v) \/ \E t \in Tasks : Receive(v, t)
      PROVE  at'[w] = at[w]
  BY <1>0, <1>4 DEF SkipLockedRow, Aborts, Receive, Goto, Working
<1>5. ASSUME NEW t \in Tasks,
             \/ Request(t) \/ RequestCancel(t) \/ RequestOverride(t)
             \/ RequestRetry(t) \/ Publish(t) \/ BrokerLoses(t)
             \/ LeaseTimesOut(t) \/ RetryComesDue(t) \/ AnnouncementAges(t)
      PROVE  at' = at
  BY <1>5 DEF Request, RequestCancel, RequestOverride, RequestRetry, Publish,
     BrokerLoses, LeaseTimesOut, RetryComesDue, AnnouncementAges, workerVars
<1>6. ASSUME \/ MarkPublished \/ RelayFails
             \/ \E v \in Workers : RenewLease(v) \/ ChannelCloses(v)
             \/ \E S \in SUBSET Tasks : Recover(S) \/ Reannounce(S)
             \/ UNCHANGED vars
      PROVE  at' = at
  BY <1>6 DEF MarkPublished, RelayFails, RenewLease, ChannelCloses, Recover,
              Reannounce, vars,
     workerVars
<1>7. QED
  BY <1>1, <1>2, <1>3, <1>4, <1>5, <1>6 DEF Next

LEMMA RecordedStep ==
  ASSUME OwnerInv, [Next]_vars
  PROVE  RecordedWhenAccepted'
<1> SUFFICES ASSUME NEW w \in Workers, at'[w] \in Working,
                    status'[job'[w]] = "running"
             PROVE  /\ at'[w] \in {"execute", "record", "transient",
                                   "retrying"} => ref'[job'[w]] = 0
                    /\ at'[w] \in {"verify", "apply", "complete", "doubtful"}
                         => ref'[job'[w]] # 0
  BY DEF RecordedWhenAccepted
<1>0. TypeOK /\ StoreTypeOK /\ EngineInv
  BY DEF OwnerInv, EngineInv, StoreInv
<1>1. CASE ClaimTask(w)
  BY <1>0, <1>1, ClaimFindsNobody DEF TypeOK
<1>2. CASE Record(w)
  <2>1. /\ at[w] = "record" /\ at' = [at EXCEPT ![w] = "verify"] /\ job' = job
        /\ ref' = [ref EXCEPT ![job[w]] = turn[w]]
    BY <1>2 DEF Record, StoreCall, Goto, Running
  <2>2. job[w] \in Tasks
    BY <1>0, <2>1, JobIsATask
  <2>3. turn[w] # 0
    BY <1>0, <2>1, <2>2 DEF EngineInv, TurnIsAnAttempt, Working, Stages,
                            StoreTypeOK
  <2>4. QED
    BY <1>0, <2>1, <2>2, <2>3 DEF TypeOK, StoreTypeOK
<1>3. CASE at[w] \in Working /\ job'[w] = job[w] /\ ~Record(w)
  <2>1. ref'[job[w]] = ref[job[w]]
    BY <1>3, OwnedTask
  <2>2. status[job[w]] = "running"
    BY <1>3, OwnedTask DEF OwnerInv, WorkerOwnsTask
  <2>3. \/ at'[w] = at[w]
        \/ /\ at[w] \in {"execute", "transient"}
           /\ at'[w] \in {"record", "transient", "retrying"}
        \/ /\ at[w] \in {"verify", "apply"}
           /\ at'[w] \in {"apply", "complete", "doubtful"}
        \/ at'[w] = "failing"
    BY <1>0, <1>3, StageStep
  <2>4. QED
    BY <1>3, <2>1, <2>2, <2>3 DEF OwnerInv, RecordedWhenAccepted
<1>4. QED
  BY <1>0, <1>1, <1>2, <1>3, WorkerStaysOn

LEMMA OwnerInitInv == Init => OwnerInv
<1>1. Init => \A w \in Workers : at[w] = "idle"
  BY DEF Init
<1>2. QED
  BY <1>1, EngineInitInv DEF OwnerInv, LapsedIsAbandoned, WorkerOwnsTask,
     RecordedWhenAccepted, WorkingOn, Working

LEMMA OwnerNextInv ==
  HeartbeatsMayFail = FALSE /\ OwnerInv /\ [Next]_vars => OwnerInv'
  BY EngineNextInv, LapsedStep, OwnerStep, RecordedStep DEF OwnerInv

\* If a lease lapses only when its holder has stopped, then a worker that works
\* on a task is alone with it, and the task is still in that worker's attempt
\* unless an override cancelled it.
THEOREM EngineWorkerOwnsTask ==
  ASSUME HeartbeatsMayFail = FALSE
  PROVE  Spec => []WorkerOwnsTask
<1>1. OwnerInv /\ [Next]_vars => OwnerInv'
  BY OwnerNextInv
<1>2. QED
  BY <1>1, OwnerInitInv, PTL DEF Spec, OwnerInv

-----------------------------------------------------------------------------
\* The refinement of the abstract life cycle, while leases are renewed.

\* What one step of the engine or of a reconciler may do to the row of a task.
RowMoves(t) ==
  \/ status'[t] = status[t] /\ (ref[t] # 0 /\ status[t] = "running" => ref'[t] # 0)
  \/ status[t] = "absent" /\ status'[t] = "queued"
  \/ status[t] = "queued" /\ status'[t] = "running" /\ ref'[t] = 0
  \/ status[t] = "queued" /\ status'[t] = "cancelled"
  \/ status[t] = "running" /\ status'[t] \in {"cancelled", "failed"}
  \/ status[t] = "running" /\ ref[t] = 0 /\ status'[t] = "queued"
  \/ status[t] = "running" /\ ref[t] # 0
     /\ status'[t] \in {"completed", "verification_required"}
  \/ status[t] = "verification_required" /\ status'[t] \in {"completed", "failed"}
  \/ status[t] = "failed" /\ status'[t] = "queued" /\ manualRetries < MaxManualRetries

LEMMA RowStep ==
  ASSUME OwnerInv, [Next]_vars, NEW t \in Tasks
  PROVE  RowMoves(t)
<1>0. /\ TypeOK /\ EngineInv
      /\ status \in [Tasks -> Statuses] /\ ref \in [Tasks -> Nat]
      /\ at \in [Workers -> Stages]
  BY DEF OwnerInv, EngineInv, StoreInv, StoreTypeOK, TypeOK
<1>1. ASSUME NEW u \in Tasks,
             \/ Request(u) \/ RequestCancel(u) \/ RequestOverride(u)
             \/ RequestRetry(u)
      PROVE  RowMoves(t)
  BY <1>0, <1>1 DEF Request, RequestCancel, RequestOverride, RequestRetry,
     Create, Cancel, Supersede, ManualRetry, storeVars, taskVars, RowMoves
<1>2. ASSUME NEW u \in Tasks,
             \/ LeaseTimesOut(u) \/ RetryComesDue(u) \/ AnnouncementAges(u)
             \/ Publish(u) \/ BrokerLoses(u)
      PROVE  UNCHANGED <<status, ref>>
  BY <1>2 DEF LeaseTimesOut, RetryComesDue, AnnouncementAges, Publish,
     BrokerLoses, LeaseLapses, RetryTimeArrives, ReannounceWindowPasses,
     storeVars, taskVars
<1>3. ASSUME MarkPublished \/ RelayFails \/ UNCHANGED vars
      PROVE  UNCHANGED <<status, ref>>
  BY <1>3 DEF MarkPublished, MarkOutboxPublished, RelayFails, vars, storeVars,
     taskVars
<1>4. ASSUME NEW w \in Workers,
             \/ FindNothing(w) \/ Accepted(w) \/ Refused(w) \/ ReplyLost(w)
             \/ Verified(w) \/ VerifyFails(w) \/ Applied(w)
             \/ CountAttempts(w) \/ Acknowledge(w)
             \/ SkipLockedRow(w) \/ CallFails(w) \/ Aborts(w)
             \/ ChannelCloses(w) \/ RenewLease(w)
             \/ \E u \in Tasks : Receive(w, u)
      PROVE  UNCHANGED <<status, ref>>
  <2>1. UNCHANGED taskVars
    BY <1>4 DEF FindNothing, Accepted, Refused, ReplyLost, Verified,
       VerifyFails, Applied, CountAttempts, Acknowledge, SkipLockedRow,
       CallFails, Aborts, ChannelCloses,
       RenewLease, Heartbeat, Receive, Await, storeVars
  <2>2. QED
    BY <2>1 DEF taskVars
<1>5. ASSUME NEW w \in Workers, ClaimTask(w)
      PROVE  RowMoves(t)
  BY <1>0, <1>5 DEF ClaimTask, Claim, Claimable, RowMoves
\* The task of a worker that reports is in that worker's attempt, or cancelled.
<1>6. ASSUME NEW w \in Workers, at[w] \in Working
      PROVE  /\ job[w] \in Tasks
             /\ status[job[w]] \in {"running", "cancelled"}
             /\ turn[w] # 0
  BY <1>0, <1>6, JobIsATask DEF OwnerInv, WorkerOwnsTask, EngineInv,
     TurnIsAnAttempt, Working, StoreInv, StoreTypeOK
<1>7. ASSUME NEW w \in Workers, Record(w)
      PROVE  RowMoves(t)
  <2>1. at[w] = "record" /\ Running(job[w], turn[w])
    BY <1>7 DEF Record, StoreCall
  <2>2. at[w] \in Working
    BY <2>1 DEF Working, Stages
  <2>3. QED
    BY <1>0, <1>6, <2>1, <2>2 DEF Running, RowMoves
<1>8. ASSUME NEW w \in Workers, CompleteTask(w) \/ ReportDoubt(w)
      PROVE  RowMoves(t)
  <2>1. /\ at[w] \in {"complete", "doubtful"}
        /\ Complete(job[w]) \/ VerificationRequired(job[w])
    BY <1>8 DEF CompleteTask, ReportDoubt, StoreCall
  <2>2. at[w] \in Working
    BY <2>1 DEF Working, Stages
  <2>3. status[job[w]] = "running" => ref[job[w]] # 0
    BY <2>1, <2>2 DEF OwnerInv, RecordedWhenAccepted
  <2>4. QED
    BY <1>0, <1>6, <2>1, <2>2, <2>3 DEF Complete, Finish, VerificationRequired,
       Reportable, Ended, storeVars, taskVars, RowMoves
<1>9. ASSUME NEW w \in Workers, ReportRetry(w)
      PROVE  RowMoves(t)
  <2>1. at[w] = "retrying" /\ Retry(job[w])
    BY <1>9 DEF ReportRetry, StoreCall
  <2>2. at[w] \in Working
    BY <2>1 DEF Working, Stages
  <2>3. status[job[w]] = "running" => ref[job[w]] = 0
    BY <2>1, <2>2 DEF OwnerInv, RecordedWhenAccepted
  <2>4. QED
    BY <1>0, <1>6, <2>1, <2>2, <2>3 DEF Retry, Reportable, Ended, storeVars,
       taskVars, RowMoves
<1>10. ASSUME NEW w \in Workers, ReportFailure(w)
       PROVE  RowMoves(t)
  <2>1. at[w] = "failing" /\ Fail(job[w])
    BY <1>10 DEF ReportFailure, StoreCall
  <2>2. at[w] \in Working
    BY <2>1 DEF Working, Stages
  <2>3. QED
    BY <1>0, <1>6, <2>1, <2>2 DEF Fail, Finish, Reportable, Ended, storeVars,
       taskVars, RowMoves
<1>11. ASSUME NEW S \in SUBSET Tasks, Recover(S) \/ Reannounce(S)
       PROVE  RowMoves(t)
  BY <1>0, <1>11 DEF Recover, Reannounce, RecoverExpired, Expired,
     ReannounceStale, taskVars, RowMoves
<1>12. UNCHANGED <<status, ref>> => RowMoves(t)
  BY DEF RowMoves
<1>13. QED
  BY <1>1, <1>2, <1>3, <1>4, <1>5, <1>7, <1>8, <1>9, <1>10, <1>11, <1>12
  DEF Next, TickStep

\* The moves of the abstract specification, spelt out.
LEMMA MovesTable ==
  /\ Lifecycle!Moves["absent"] = {"waiting"}
  /\ Lifecycle!Moves["waiting"] = {"started", "cancelled"}
  /\ Lifecycle!Moves["started"] = {"accepted", "waiting", "failed", "cancelled"}
  /\ Lifecycle!Moves["accepted"] = {"done", "unverified", "failed", "cancelled"}
  /\ Lifecycle!Moves["unverified"] = {"done", "failed"}
  /\ Lifecycle!Moves["failed"] = {"waiting"}
  BY DEF Lifecycle!Moves

LEMMA PhaseStep ==
  ASSUME StoreTypeOK, StoreTypeOK', NEW t \in Tasks, RowMoves(t)
  PROVE  /\ phaseOf'[t] \in Lifecycle!Phases
         /\ phaseOf'[t] \in Lifecycle!Moves[phaseOf[t]] \cup {phaseOf[t]}
<1>1. /\ status[t] \in Statuses /\ status'[t] \in Statuses
      /\ ref[t] \in Nat /\ ref'[t] \in Nat
  BY DEF StoreTypeOK
<1>2. /\ status[t] = "absent" => phaseOf[t] = "absent"
      /\ status[t] = "queued" => phaseOf[t] = "waiting"
      /\ status[t] = "running" /\ ref[t] = 0 => phaseOf[t] = "started"
      /\ status[t] = "running" /\ ref[t] # 0 => phaseOf[t] = "accepted"
      /\ status[t] = "verification_required" => phaseOf[t] = "unverified"
      /\ status[t] = "completed" => phaseOf[t] = "done"
      /\ status[t] = "failed" => phaseOf[t] = "failed"
      /\ status[t] = "cancelled" => phaseOf[t] = "cancelled"
  BY DEF phaseOf
<1>3. /\ status'[t] = "absent" => phaseOf'[t] = "absent"
      /\ status'[t] = "queued" => phaseOf'[t] = "waiting"
      /\ status'[t] = "running" /\ ref'[t] = 0 => phaseOf'[t] = "started"
      /\ status'[t] = "running" /\ ref'[t] # 0 => phaseOf'[t] = "accepted"
      /\ status'[t] = "verification_required" => phaseOf'[t] = "unverified"
      /\ status'[t] = "completed" => phaseOf'[t] = "done"
      /\ status'[t] = "failed" => phaseOf'[t] = "failed"
      /\ status'[t] = "cancelled" => phaseOf'[t] = "cancelled"
  BY DEF phaseOf
<1>4. phaseOf'[t] \in Lifecycle!Phases
  BY <1>1, <1>3 DEF Statuses, Lifecycle!Phases
<1>5. phaseOf'[t] \in Lifecycle!Moves[phaseOf[t]] \cup {phaseOf[t]}
  BY <1>1, <1>2, <1>3, MovesTable DEF RowMoves, Statuses
<1>6. QED
  BY <1>4, <1>5

LEMMA PhasesBegin == Init => Lifecycle!Init
<1> SUFFICES ASSUME Init PROVE Lifecycle!Init
  OBVIOUS
<1>1. \A t \in Tasks : status[t] = "absent"
  BY DEF Init, StoreInit
<1>2. QED
  BY <1>1 DEF Lifecycle!Init, phaseOf

\* Steps that move every row as they may are steps of the abstract life cycle.
LEMMA PhasesMove ==
  ASSUME OwnerInv, OwnerInv', \A t \in Tasks : RowMoves(t)
  PROVE  Lifecycle!Next
<1>1. StoreTypeOK /\ StoreTypeOK'
  BY DEF OwnerInv, EngineInv, StoreInv
<1>2. ASSUME NEW t \in Tasks
      PROVE  /\ phaseOf'[t] \in Lifecycle!Phases
             /\ phaseOf'[t] \in Lifecycle!Moves[phaseOf[t]] \cup {phaseOf[t]}
  BY <1>1, PhaseStep
<1>3. phaseOf' = [t \in Tasks |-> phaseOf'[t]]
  BY DEF phaseOf
<1>4. QED
  BY <1>2, <1>3 DEF Lifecycle!Next

\* While leases are renewed, the engine implements the abstract life cycle: an
\* operation the provider accepted is never put back in the queue by itself.
THEOREM EngineImplementsLifecycle ==
  ASSUME HeartbeatsMayFail = FALSE
  PROVE  Spec => ImplementsLifecycle
<1>1. Init => Lifecycle!Init
  BY PhasesBegin
<1>2. OwnerInv /\ OwnerInv' /\ [Next]_vars => [Lifecycle!Next]_phaseOf
  BY RowStep, PhasesMove
<1>3. OwnerInv /\ [Next]_vars => OwnerInv'
  BY OwnerNextInv
<1>4. QED
  BY <1>1, <1>2, <1>3, OwnerInitInv, PTL DEF Spec, ImplementsLifecycle,
                                             Lifecycle!Spec

-----------------------------------------------------------------------------
\* While leases are renewed: how often the provider runs an operation.

\* What nothing but a fault or a lost reply disturbs: a task that waits has not
\* run, one that runs has its worker, and a worker that may still call the
\* provider, or have the task sent round again, has not been accepted.
RunStands(t) ==
  /\ runs[t] <= 1
  /\ status[t] \in {"absent", "queued"} => runs[t] = 0
  /\ status[t] = "running" => \E w \in Workers : WorkingOn(w, t)
  /\ \A w \in Workers :
       WorkingOn(w, t) /\ at[w] \in {"execute", "transient", "retrying"} => runs[t] = 0

RunsStand == faults = 0 /\ ~RepliesMayBeLost => \A t \in Tasks : RunStands(t)

LEMMA RunsInitStand == Init => RunsStand
<1> SUFFICES ASSUME Init, NEW t \in Tasks PROVE RunStands(t)
  BY DEF RunsStand
<1>1. runs[t] = 0 /\ status[t] = "absent" /\ \A w \in Workers : at[w] = "idle"
  BY DEF Init, StoreInit
<1>2. QED
  BY <1>1 DEF RunStands, WorkingOn, Working

\* Nothing that a task's run depends on changes.
LEMMA RunKept ==
  ASSUME NEW t \in Tasks, RunStands(t), status'[t] = status[t], runs'[t] = runs[t],
         \A w \in Workers : WorkingOn(w, t)' <=> WorkingOn(w, t),
         \A w \in Workers :
           WorkingOn(w, t) /\ at'[w] \in {"execute", "transient", "retrying"}
             => at[w] \in {"execute", "transient", "retrying"}
  PROVE  RunStands(t)'
  BY DEF RunStands

LEMMA RunsRequests ==
  ASSUME OwnerInv, NEW t \in Tasks, RunStands(t), NEW u \in Tasks,
         Request(u) \/ RequestCancel(u) \/ RequestOverride(u) \/ RequestRetry(u)
  PROVE  RunStands(t)'
<1>1. /\ status \in [Tasks -> Statuses] /\ runs \in [Tasks -> Nat]
      /\ at' = at /\ job' = job
  BY DEF OwnerInv, EngineInv, TypeOK, StoreTypeOK, Request, RequestCancel,
     RequestOverride, RequestRetry, workerVars
<1>2. \A w \in Workers : WorkingOn(w, t)' <=> WorkingOn(w, t)
  BY <1>1 DEF WorkingOn
<1>3. CASE t # u \/ (status'[t] = status[t] /\ runs'[t] = runs[t])
  <2>1. status'[t] = status[t] /\ runs'[t] = runs[t]
    BY <1>1, <1>3 DEF Request, RequestCancel, RequestOverride, RequestRetry,
       Create, Cancel, Supersede, ManualRetry, storeVars, taskVars
  <2>2. QED
    BY <1>1, <1>2, <2>1, RunKept
<1>4. CASE RequestRetry(u) /\ t = u
  <2>1. runs'[t] = 0 /\ status'[t] = "queued"
    BY <1>1, <1>4 DEF RequestRetry, ManualRetry
  <2>2. QED
    BY <2>1 DEF RunStands
<1>5. CASE t = u /\ (RequestCancel(u) \/ RequestOverride(u))
  <2>1. runs'[t] = runs[t] /\ status'[t] = "cancelled"
    BY <1>1, <1>5 DEF RequestCancel, RequestOverride, Cancel, Supersede
  <2>2. QED
    BY <1>1, <1>2, <2>1 DEF RunStands
<1>6. CASE t = u /\ Request(u)
  <2>1. /\ runs' = runs
        /\ status'[t] = status[t] \/ (status[t] = "absent" /\ status'[t] = "queued")
    BY <1>1, <1>6 DEF Request, Create, storeVars, taskVars
  <2>2. QED
    BY <1>1, <1>2, <2>1 DEF RunStands
<1>7. QED
  BY <1>3, <1>4, <1>5, <1>6

\* A report of the worker that has the task.
LEMMA RunsReports ==
  ASSUME OwnerInv, NEW t \in Tasks, RunStands(t), NEW w \in Workers,
         CompleteTask(w) \/ ReportDoubt(w) \/ ReportRetry(w) \/ ReportFailure(w)
  PROVE  RunStands(t)'
<1>1. /\ status \in [Tasks -> Statuses] /\ runs' = runs /\ job' = job
      /\ at \in [Workers -> Stages] /\ at' = [at EXCEPT ![w] = "settle"]
      /\ at[w] \in {"complete", "doubtful", "retrying", "failing"}
  BY DEF OwnerInv, EngineInv, TypeOK, StoreTypeOK, CompleteTask, ReportDoubt,
     ReportRetry, ReportFailure, StoreCall, Goto
<1>2. WorkingOn(w, job[w]) /\ job[w] \in Tasks
  BY <1>1, JobIsATask DEF WorkingOn, Working, Stages, OwnerInv, EngineInv
<1>3. \A v \in Workers : v # w => (WorkingOn(v, t)' <=> WorkingOn(v, t)) /\ at'[v] = at[v]
  BY <1>1 DEF WorkingOn
<1>4. ~WorkingOn(w, t)'
  BY <1>1 DEF WorkingOn, Working
<1>5. CASE t # job[w]
  <2>1. status'[t] = status[t]
    BY <1>1, <1>5 DEF CompleteTask, ReportDoubt, ReportRetry, ReportFailure,
       StoreCall, Complete, Fail, Finish, VerificationRequired, Retry, storeVars, taskVars
  <2>2. ~WorkingOn(w, t)
    BY <1>5 DEF WorkingOn
  <2>3. QED
    BY <1>1, <1>3, <1>4, <2>1, <2>2, RunKept
<1>6. CASE t = job[w]
  <2>1. \A v \in Workers : ~WorkingOn(v, t)'
    BY <1>2, <1>3, <1>4, <1>6 DEF OwnerInv, WorkerOwnsTask, WorkingOn
  <2>2. status[t] \in {"running", "cancelled"}
    BY <1>2, <1>6 DEF OwnerInv, WorkerOwnsTask, WorkingOn
  <2>3. \/ status'[t] = status[t] /\ status[t] = "cancelled"
        \/ status'[t] \in {"completed", "failed", "verification_required"}
        \/ status'[t] = "queued" /\ at[w] = "retrying"
    BY <1>1, <1>6, <2>2 DEF CompleteTask, ReportDoubt, ReportRetry, ReportFailure,
       StoreCall, Complete, Fail, Finish, VerificationRequired, Retry, Reportable,
       Ended, storeVars, taskVars
  <2>4. at[w] = "retrying" => runs[t] = 0
    BY <1>2, <1>6 DEF RunStands
  <2>5. QED
    BY <1>1, <2>1, <2>3, <2>4 DEF RunStands
<1>7. QED
  BY <1>5, <1>6

\* A step of the tick at its worker's own task.
LEMMA RunsTick ==
  ASSUME OwnerInv, NEW t \in Tasks, RunStands(t), NEW w \in Workers,
         TickStep(w), ~RepliesMayBeLost
  PROVE  RunStands(t)'
<1>1. /\ status \in [Tasks -> Statuses] /\ runs \in [Tasks -> Nat]
      /\ at \in [Workers -> Stages] /\ job \in [Workers -> Tasks \cup {None}]
  BY DEF OwnerInv, EngineInv, TypeOK, StoreTypeOK
<1>2. CASE ClaimTask(w)
  <2>1. /\ job[w] \in Tasks /\ at' = [at EXCEPT ![w] = "execute"] /\ job' = job
        /\ runs' = runs /\ at[w] = "received"
        /\ status[job[w]] = "queued" /\ status' = [status EXCEPT ![job[w]] = "running"]
    BY <1>2, ClaimFindsNobody DEF ClaimTask, Claim, Claimable
  <2>2. CASE t = job[w]
    <3>1. status'[t] = "running" /\ runs'[t] = 0
      BY <1>1, <2>1, <2>2 DEF RunStands
    <3>2. WorkingOn(w, t)'
      BY <1>1, <2>1, <2>2 DEF WorkingOn, Working, Stages
    <3>3. QED
      BY <3>1, <3>2 DEF RunStands
  <2>3. CASE t # job[w]
    <3>1. \A v \in Workers : (WorkingOn(v, t)' <=> WorkingOn(v, t))
                             /\ (WorkingOn(v, t) => at'[v] = at[v])
      BY <1>1, <2>1, <2>3 DEF WorkingOn
    <3>2. status'[t] = status[t]
      BY <1>1, <2>1, <2>3
    <3>3. QED
      BY <2>1, <3>1, <3>2, RunKept
  <2>4. QED
    BY <2>2, <2>3
<1>3. CASE FindNothing(w) \/ Acknowledge(w)
  <2>1. /\ at[w] \in {"received", "settle"} /\ status' = status /\ runs' = runs
        /\ \A v \in Workers : v # w => at'[v] = at[v] /\ job'[v] = job[v]
        /\ at'[w] \in {"settle", "idle"}
    BY <1>1, <1>3 DEF FindNothing, Acknowledge, Await, Goto, storeVars, taskVars
  <2>2. \A v \in Workers : (WorkingOn(v, t)' <=> WorkingOn(v, t))
                           /\ (WorkingOn(v, t) => at'[v] = at[v])
    BY <2>1 DEF WorkingOn, Working
  <2>3. QED
    BY <2>1, <2>2, RunKept
<1>4. CASE Accepted(w)
  <2>1. /\ at[w] = "execute" /\ at' = [at EXCEPT ![w] = "record"] /\ job' = job
        /\ status' = status /\ runs' = [runs EXCEPT ![job[w]] = @ + 1]
    BY <1>4 DEF Accepted, ProviderActs, Goto, storeVars, taskVars
  <2>2. \A v \in Workers, u \in Tasks : WorkingOn(v, u)' <=> WorkingOn(v, u)
    BY <1>1, <2>1 DEF WorkingOn, Working, Stages
  <2>3. CASE t # job[w]
    <3>1. runs'[t] = runs[t]
      BY <1>1, <2>1, <2>3
    <3>2. \A v \in Workers : WorkingOn(v, t) => at'[v] = at[v]
      BY <1>1, <2>1, <2>3 DEF WorkingOn
    <3>3. QED
      BY <2>1, <2>2, <3>1, <3>2, RunKept
  <2>4. CASE t = job[w]
    <3>1. WorkingOn(w, t) /\ status[t] \in {"running", "cancelled"}
      BY <2>1, <2>4 DEF WorkingOn, Working, Stages, OwnerInv, WorkerOwnsTask
    <3>2. runs[t] = 0 /\ runs'[t] = 1
      BY <1>1, <2>1, <2>4, <3>1 DEF RunStands
    <3>3. \A v \in Workers : WorkingOn(v, t) => v = w
      BY <3>1, <2>4 DEF OwnerInv, WorkerOwnsTask, WorkingOn
    <3>4. at'[w] = "record"
      BY <1>1, <2>1
    <3>5. QED
      BY <2>1, <2>2, <3>1, <3>2, <3>3, <3>4 DEF RunStands
  <2>5. QED
    BY <2>3, <2>4
<1>5. CASE \/ Refused(w) \/ CountAttempts(w) \/ Record(w) \/ Verified(w)
           \/ VerifyFails(w) \/ Applied(w)
  <2>1. /\ job' = job /\ status' = status /\ runs' = runs
        /\ at[w] \in {"execute", "transient", "record", "verify", "apply"}
        /\ \A v \in Workers : v # w => at'[v] = at[v]
        /\ at'[w] \in {"transient", "failing", "retrying", "verify", "apply",
                       "doubtful", "complete"}
        /\ at'[w] \in {"transient", "retrying"} => at[w] \in {"execute", "transient"}
    BY <1>1, <1>5 DEF Refused, CountAttempts, Record, Verified, VerifyFails, Applied,
       Await, StoreCall, Goto, Running, storeVars, taskVars
  <2>2. \A v \in Workers : WorkingOn(v, t)' <=> WorkingOn(v, t)
    BY <2>1 DEF WorkingOn, Working, Stages
  <2>3. \A v \in Workers :
          WorkingOn(v, t) /\ at'[v] \in {"execute", "transient", "retrying"}
            => at[v] \in {"execute", "transient", "retrying"}
    BY <2>1
  <2>4. QED
    BY <2>1, <2>2, <2>3, RunKept
<1>6. CASE CompleteTask(w) \/ ReportDoubt(w) \/ ReportRetry(w) \/ ReportFailure(w)
  BY <1>6, RunsReports
<1>7. ~ReplyLost(w)
  BY DEF ReplyLost
<1>8. QED
  BY <1>2, <1>3, <1>4, <1>5, <1>6, <1>7 DEF TickStep

\* Recovery finds nothing: a running task has its worker, who renews its lease.
LEMMA RecoverFindsNothing ==
  ASSUME OwnerInv, \A t \in Tasks : RunStands(t), NEW S \in SUBSET Tasks, Recover(S)
  PROVE  FALSE
<1>1. PICK t \in S : status[t] = "running" /\ lease[t] = "expired"
  BY DEF Recover, RecoverExpired, Expired
<1>2. \E w \in Workers : WorkingOn(w, t)
  BY <1>1 DEF RunStands
<1>3. QED
  BY <1>1, <1>2 DEF OwnerInv, LapsedIsAbandoned

LEMMA RunsNextStand ==
  ASSUME OwnerInv, RunsStand, [Next]_vars
  PROVE  RunsStand'
<1> SUFFICES ASSUME faults' = 0, ~RepliesMayBeLost, NEW t \in Tasks
             PROVE  RunStands(t)'
  BY DEF RunsStand
<1>0. /\ faults \in Nat /\ at \in [Workers -> Stages]
      /\ job \in [Workers -> Tasks \cup {None}]
  BY TaskEngineAssumption DEF OwnerInv, EngineInv, TypeOK, TaskEngineAssumption
<1>1. faults + 1 # 0
  BY <1>0
<1>2. ~ \/ RelayFails \/ \E u \in Tasks : BrokerLoses(u)
        \/ \E w \in Workers : SkipLockedRow(w) \/ CallFails(w) \/ Aborts(w)
                              \/ ChannelCloses(w)
  BY <1>1 DEF RelayFails, BrokerLoses, SkipLockedRow, CallFails, Aborts,
     ChannelCloses, Fault
<1>3. ASSUME faults = 0
      PROVE  /\ \A u \in Tasks : RunStands(u)
             /\ RunStands(t)
  BY <1>3 DEF RunsStand
<1>4. ASSUME UNCHANGED <<status, runs, at, job, faults>>
      PROVE  RunStands(t)'
  BY <1>3, <1>4, RunKept DEF WorkingOn
<1>5. ASSUME NEW u \in Tasks,
             Request(u) \/ RequestCancel(u) \/ RequestOverride(u) \/ RequestRetry(u)
      PROVE  RunStands(t)'
  <2>1. faults' = faults
    BY <1>5 DEF Request, RequestCancel, RequestOverride, RequestRetry, usedVars
  <2>2. QED
    BY <1>3, <1>5, <2>1, RunsRequests
<1>6. ASSUME NEW u \in Tasks,
             \/ Publish(u) \/ LeaseTimesOut(u) \/ RetryComesDue(u)
             \/ AnnouncementAges(u)
      PROVE  UNCHANGED <<status, runs, at, job, faults>>
  BY <1>6 DEF Publish, LeaseTimesOut, RetryComesDue, AnnouncementAges, LeaseLapses,
     RetryTimeArrives, ReannounceWindowPasses, storeVars, taskVars, workerVars, usedVars
<1>7. ASSUME \/ MarkPublished \/ UNCHANGED vars
             \/ \E w \in Workers : RenewLease(w)
             \/ \E S \in SUBSET Tasks : Reannounce(S)
      PROVE  UNCHANGED <<status, runs, at, job, faults>>
  BY <1>7 DEF MarkPublished, MarkOutboxPublished, RenewLease, Heartbeat, Reannounce,
     ReannounceStale, vars, storeVars, taskVars, workerVars, usedVars
<1>8. ASSUME NEW S \in SUBSET Tasks, Recover(S)
      PROVE  FALSE
  <2>1. faults' = faults
    BY <1>8 DEF Recover, usedVars
  <2>2. QED
    BY <1>3, <1>8, <2>1, RecoverFindsNothing
<1>9. ASSUME NEW w \in Workers, NEW u \in Tasks, Receive(w, u)
      PROVE  RunStands(t)'
  <2>1. /\ faults' = faults /\ status' = status /\ runs' = runs
        /\ at[w] = "idle" /\ at' = [at EXCEPT ![w] = "received"]
        /\ job' = [job EXCEPT ![w] = u]
    BY <1>9 DEF Receive, storeVars, taskVars, usedVars
  <2>2. \A v \in Workers : (WorkingOn(v, t)' <=> WorkingOn(v, t))
                           /\ (WorkingOn(v, t) => at'[v] = at[v])
    BY <1>0, <2>1 DEF WorkingOn, Working
  <2>3. QED
    BY <1>3, <2>1, <2>2, RunKept
<1>10. ASSUME NEW w \in Workers, TickStep(w)
       PROVE  RunStands(t)'
  <2>1. faults' = faults
    BY <1>10 DEF TickStep, ClaimTask, FindNothing, Accepted, Refused, ReplyLost,
       Record, Verified, VerifyFails, Applied, CompleteTask, ReportDoubt,
       CountAttempts, ReportRetry, ReportFailure, Acknowledge, Await, StoreCall,
       usedVars
  <2>2. QED
    BY <1>3, <1>10, <2>1, RunsTick
<1>11. QED
  BY <1>2, <1>4, <1>5, <1>6, <1>7, <1>8, <1>9, <1>10 DEF Next

\* While leases are renewed and the provider's answers arrive, the engine without
\* a fault never has the provider run an operation twice for one decision of a
\* person, whatever duplicates, overrides, cancellations and retries there are.
THEOREM EngineRunsTwiceOnlyByFault ==
  ASSUME HeartbeatsMayFail = FALSE
  PROVE  Spec => []RunsTwiceOnlyByFault
<1>1. OwnerInv /\ RunsStand /\ [Next]_vars => (OwnerInv /\ RunsStand)'
  BY OwnerNextInv, RunsNextStand
<1>2. Init => OwnerInv /\ RunsStand
  BY OwnerInitInv, RunsInitStand
<1>3. RunsStand => RunsTwiceOnlyByFault
  BY DEF RunsStand, RunStands, RunsTwiceOnlyByFault, NeverRunTwice
<1>4. QED
  BY <1>1, <1>2, <1>3, PTL DEF Spec

-----------------------------------------------------------------------------
\* The reconcilers beside the engine, as long as nobody asks for a task again.

VerdictsTyped ==
  /\ todo    \in [Reconcilers -> SUBSET Tasks]
  /\ about   \in [Reconcilers -> Tasks \cup {None}]
  /\ verdict \in [Reconcilers -> {"none", "confirmed", "refuted"}]
  /\ \A r \in Reconcilers : verdict[r] = "none" <=> about[r] = None

\* What a reconciler has read as unverified is so, or has ended since.
Resolvable(t) == status[t] \in Ended \cup {"verification_required"}

VerdictsStand ==
  \A r \in Reconcilers, t \in Tasks : t \in todo[r] \/ about[r] = t => Resolvable(t)

ReconcilerInv == OwnerInv /\ RunsStand /\ VerdictsTyped /\ VerdictsStand

LEMMA ReconcilerInitInv == ReconcilerInit => ReconcilerInv
  BY OwnerInitInv, RunsInitStand, TaskEngineAssumption
  DEF ReconcilerInit, ReconcilerInv, VerdictsTyped, VerdictsStand, TaskEngineAssumption

\* Without a person's retry a task that has ended, or is unverified, is never
\* taken up by the engine again.
LEMMA ResolvableStays ==
  ASSUME MaxManualRetries = 0, OwnerInv, [Next]_vars, NEW t \in Tasks, Resolvable(t)
  PROVE  Resolvable(t)'
<1>1. RowMoves(t)
  BY RowStep
<1>2. manualRetries \in 0 .. MaxManualRetries
  BY DEF OwnerInv, EngineInv, TypeOK
<1>3. ~(manualRetries < MaxManualRetries)
  BY <1>2
<1>4. QED
  BY <1>1, <1>3 DEF RowMoves, Resolvable, Ended

\* A verdict about a task that is unverified, or has ended.
LEMMA VerdictFinds ==
  ASSUME ReconcilerInv, NEW r \in Reconcilers, verdict[r] # "none"
  PROVE  about[r] \in Tasks /\ Resolvable(about[r])
  BY DEF ReconcilerInv, VerdictsTyped, VerdictsStand

\* A write of a verdict finishes a task that nobody works on, or does nothing.
LEMMA WriteFinishes ==
  ASSUME OwnerInv, NEW t \in Tasks, Resolvable(t), Complete(t) \/ Fail(t)
  PROVE  /\ [StoreNext]_storeVars
         /\ UNCHANGED <<attempts, unsent, later, ref, retryDue>>
         /\ \A u \in Tasks : status'[u] # status[u] =>
              status[u] = "verification_required" /\ status'[u] \in {"completed", "failed"}
         /\ \A u \in Tasks : lease'[u] = lease[u] \/ lease'[u] = "none"
<1>1. /\ status \in [Tasks -> Statuses]
      /\ lease \in [Tasks -> {"none", "held", "expired"}]
  BY DEF OwnerInv, EngineInv, StoreInv, StoreTypeOK
<1>2. StoreNext
  BY DEF StoreNext
<1>3. QED
  BY <1>1, <1>2 DEF Complete, Fail, Finish, Reportable, Resolvable, Ended, CloseAttempt,
     storeVars, taskVars, attemptVars, outboxVars

LEMMA WriteKeepsEngine ==
  ASSUME OwnerInv, RunsStand, NEW t \in Tasks, Resolvable(t), Complete(t) \/ Fail(t),
         UNCHANGED <<workerVars, brokerVars, runs, lost, usedVars>>
  PROVE  OwnerInv' /\ RunsStand'
<1>0. /\ [StoreNext]_storeVars
      /\ UNCHANGED <<attempts, unsent, later, ref, retryDue>>
      /\ \A u \in Tasks : status'[u] # status[u] =>
           status[u] = "verification_required" /\ status'[u] \in {"completed", "failed"}
      /\ \A u \in Tasks : lease'[u] = lease[u] \/ lease'[u] = "none"
      /\ UNCHANGED <<at, job, turn, inQueue, relaying, held, runs, lost, faults, manualRetries>>
  BY WriteFinishes DEF workerVars, brokerVars, usedVars
<1>1. StoreInv'
  BY <1>0, StoreNextInv DEF OwnerInv, EngineInv
<1>2. EngineInv'
  BY <1>0, <1>1 DEF OwnerInv, EngineInv, TypeOK, StoreInv, RelayedRowIsUnsent,
     TurnIsAnAttempt, AttemptsBounded
<1>3. \A w \in Workers, u \in Tasks : WorkingOn(w, u)' <=> WorkingOn(w, u)
  BY <1>0 DEF WorkingOn
<1>4. LapsedIsAbandoned'
  BY <1>0, <1>3 DEF OwnerInv, LapsedIsAbandoned
<1>5. ASSUME NEW w \in Workers, at[w] \in Working
      PROVE  job[w] \in Tasks /\ status'[job[w]] = status[job[w]]
  <2>1. job[w] \in Tasks
    BY <1>5, JobIsATask DEF OwnerInv, EngineInv, Working
  <2>2. status[job[w]] # "verification_required"
    BY <1>5 DEF OwnerInv, WorkerOwnsTask
  <2>3. QED
    BY <1>0, <2>1, <2>2
<1>6. WorkerOwnsTask'
  BY <1>0, <1>5 DEF OwnerInv, WorkerOwnsTask, WorkingOn
<1>7. RecordedWhenAccepted'
  BY <1>0, <1>5 DEF OwnerInv, RecordedWhenAccepted
<1>8. RunsStand'
  <2>1. \A u \in Tasks : RunStands(u) => RunStands(u)'
    BY <1>0, <1>3 DEF RunStands
  <2>2. QED
    BY <1>0, <2>1 DEF RunsStand
<1>9. QED
  BY <1>2, <1>4, <1>6, <1>7, <1>8 DEF OwnerInv

LEMMA ReconcilerNextInv ==
  ASSUME HeartbeatsMayFail = FALSE, MaxManualRetries = 0, ReconcilerInv,
         [ReconcilerNext]_allVars
  PROVE  ReconcilerInv'
<1>0. /\ OwnerInv /\ RunsStand /\ VerdictsTyped /\ VerdictsStand
      /\ None \notin Tasks
  BY TaskEngineAssumption DEF ReconcilerInv, TaskEngineAssumption
<1>1. ASSUME UNCHANGED vars
      PROVE  OwnerInv' /\ RunsStand' /\ \A t \in Tasks : Resolvable(t)' <=> Resolvable(t)
  <2>1. OwnerInv' /\ RunsStand'
    BY <1>0, <1>1, OwnerNextInv, RunsNextStand
  <2>2. QED
    BY <1>1, <2>1 DEF Resolvable, vars, storeVars, taskVars
<1>2. CASE UNCHANGED allVars \/ \E t \in Tasks : Ages(t)
  <2>1. UNCHANGED vars /\ UNCHANGED reconcilerVars
    BY <1>2 DEF allVars, Ages
  <2>2. QED
    BY <1>0, <1>1, <2>1 DEF reconcilerVars, VerdictsTyped, VerdictsStand, ReconcilerInv
<1>3. CASE Next /\ UNCHANGED reconcilerVars
  <2>1. OwnerInv' /\ RunsStand' /\ \A t \in Tasks : Resolvable(t) => Resolvable(t)'
    BY <1>0, <1>3, OwnerNextInv, RunsNextStand, ResolvableStays
  <2>2. QED
    BY <1>0, <1>3, <2>1 DEF reconcilerVars, VerdictsTyped, VerdictsStand, ReconcilerInv
<1>4. ASSUME NEW r \in Reconcilers, NEW U \in SUBSET Unverified, Read(r, U)
      PROVE  ReconcilerInv'
  <2>1. /\ UNCHANGED vars /\ about' = about /\ verdict' = verdict
        /\ todo' = [todo EXCEPT ![r] = U]
    BY <1>4 DEF Read
  <2>2. \A t \in U : t \in Tasks /\ Resolvable(t)
    BY DEF Unverified, Resolvable
  <2>3. VerdictsTyped'
    BY <1>0, <2>1, <2>2 DEF VerdictsTyped
  <2>4. VerdictsStand'
    BY <1>0, <1>1, <2>1, <2>2 DEF VerdictsTyped, VerdictsStand
  <2>5. QED
    BY <1>1, <2>1, <2>3, <2>4 DEF ReconcilerInv
<1>5. ASSUME NEW r \in Reconcilers, JudgeNext(r)
      PROVE  ReconcilerInv'
  <2>1. PICK t \in Tasks : Confirm(r, t) \/ LeaveUnresolved(r, t) \/ Refute(r, t)
    BY <1>5 DEF JudgeNext
  <2>2. /\ UNCHANGED vars /\ t \in todo[r] /\ todo' = [todo EXCEPT ![r] = @ \ {t}]
        /\ \/ about' = about /\ verdict' = verdict
           \/ /\ about' = [about EXCEPT ![r] = t]
              /\ \/ verdict' = [verdict EXCEPT ![r] = "confirmed"]
                 \/ verdict' = [verdict EXCEPT ![r] = "refuted"]
    BY <2>1 DEF Confirm, LeaveUnresolved, Refute, Judge, Drop
  <2>3. VerdictsTyped'
    BY <1>0, <2>2 DEF VerdictsTyped
  <2>4. VerdictsStand'
    BY <1>0, <1>1, <2>2 DEF VerdictsTyped, VerdictsStand
  <2>5. QED
    BY <1>1, <2>2, <2>3, <2>4 DEF ReconcilerInv
<1>6. ASSUME NEW r \in Reconcilers, WriteVerdict(r)
      PROVE  ReconcilerInv'
  <2>1. /\ verdict[r] # "none" /\ (Complete(about[r]) \/ Fail(about[r]))
        /\ about' = [about EXCEPT ![r] = None] /\ todo' = todo
        /\ verdict' = [verdict EXCEPT ![r] = "none"]
        /\ UNCHANGED <<workerVars, brokerVars, runs, lost, usedVars>>
    BY <1>6 DEF WriteVerdict, CompleteReconciled, FailReconciled, Write
  <2>2. about[r] \in Tasks /\ Resolvable(about[r])
    BY <2>1, VerdictFinds
  <2>3. OwnerInv' /\ RunsStand'
    BY <1>0, <2>1, <2>2, WriteKeepsEngine
  <2>4. \A t \in Tasks : Resolvable(t) => Resolvable(t)'
    BY <1>0, <2>1, <2>2, WriteFinishes DEF Resolvable, Ended
  <2>5. VerdictsTyped'
    BY <1>0, <2>1 DEF VerdictsTyped
  <2>6. VerdictsStand'
    BY <1>0, <2>1, <2>4 DEF VerdictsTyped, VerdictsStand
  <2>7. QED
    BY <2>3, <2>5, <2>6 DEF ReconcilerInv
<1>7. ASSUME NEW r \in Reconcilers, GivesUp(r)
      PROVE  ReconcilerInv'
  <2>1. /\ faults < MaxFaults /\ faults' = faults + 1 /\ manualRetries' = manualRetries
        /\ todo' = [todo EXCEPT ![r] = {}] /\ about' = [about EXCEPT ![r] = None]
        /\ verdict' = [verdict EXCEPT ![r] = "none"]
        /\ UNCHANGED <<storeVars, workerVars, brokerVars, runs, lost>>
    BY <1>7 DEF GivesUp, Fault
  <2>2. UNCHANGED <<status, retryDue, ref, lease, attempts, open, unsent, later, recent,
                    at, job, turn, inQueue, relaying, held, runs, lost>>
    BY <2>1 DEF storeVars, taskVars, attemptVars, outboxVars, workerVars, brokerVars
  <2>3. faults \in Nat /\ faults' \in 0 .. MaxFaults /\ faults' # 0
    BY <1>0, <2>1, TaskEngineAssumption
    DEF OwnerInv, EngineInv, TypeOK, TaskEngineAssumption
  <2>4. RunsStand'
    BY <2>3 DEF RunsStand
  <2>5. StoreInv'
    BY <1>0, <2>1, StoreNextInv DEF OwnerInv, EngineInv
  <2>6. EngineInv'
    BY <1>0, <2>1, <2>2, <2>3, <2>5 DEF OwnerInv, EngineInv, TypeOK, StoreInv,
       RelayedRowIsUnsent, TurnIsAnAttempt, AttemptsBounded
  <2>7. OwnerInv'
    BY <1>0, <2>2, <2>6 DEF OwnerInv, LapsedIsAbandoned, WorkerOwnsTask, WorkingOn,
       RecordedWhenAccepted
  <2>8. VerdictsTyped' /\ VerdictsStand'
    BY <1>0, <2>1, <2>2 DEF VerdictsTyped, VerdictsStand, Resolvable
  <2>9. QED
    BY <2>4, <2>7, <2>8 DEF ReconcilerInv
<1>8. ASSUME NEW r \in Reconcilers, NEW t \in Tasks, Ask(r, t)
      PROVE  ReconcilerInv'
  <2>1. {t} \in SUBSET Unverified /\ Read(r, {t})
    BY <1>8 DEF Ask
  <2>2. QED
    BY <1>4, <2>1
<1>9. ASSUME NEW r \in Reconcilers, List(r)
      PROVE  ReconcilerInv'
  BY <1>4, <1>9 DEF List
<1>10. QED
  BY <1>2, <1>3, <1>5, <1>6, <1>7, <1>8, <1>9 DEF ReconcilerNext, Reconcilers

THEOREM ReconcilerCorrect ==
  ASSUME HeartbeatsMayFail = FALSE, MaxManualRetries = 0
  PROVE  ReconcilerSpec => []ReconcilerInv
  BY ReconcilerInitInv, ReconcilerNextInv, PTL DEF ReconcilerSpec

\* While leases are renewed and nobody retries by hand, a reconciler's verdict
\* never meets a task that is queued or running again, however late it comes and
\* however many reconcilers judge the task at once.
THEOREM ReconcilerReconcilesOnlyUnverified ==
  ASSUME HeartbeatsMayFail = FALSE, MaxManualRetries = 0
  PROVE  ReconcilerSpec => []ReconcilesOnlyUnverified
<1>1. ReconcilerInv => ReconcilesOnlyUnverified
  BY VerdictFinds DEF ReconcilesOnlyUnverified, Resolvable
<1>2. QED
  BY <1>1, ReconcilerCorrect, PTL

\* The reconcilers take no task from its worker, and never make the provider run
\* an operation again.
THEOREM ReconcilerKeepsEngine ==
  ASSUME HeartbeatsMayFail = FALSE, MaxManualRetries = 0
  PROVE  ReconcilerSpec => [](WorkerOwnsTask /\ RunsTwiceOnlyByFault)
<1>1. ReconcilerInv => WorkerOwnsTask /\ RunsTwiceOnlyByFault
  BY DEF ReconcilerInv, OwnerInv, RunsStand, RunStands, RunsTwiceOnlyByFault, NeverRunTwice
<1>2. QED
  BY <1>1, ReconcilerCorrect, PTL

\* With the reconcilers beside it the engine still implements the life cycle: what
\* they settle is a task whose outcome is unknown, and they settle it for good.
THEOREM ReconcilerImplementsLifecycle ==
  ASSUME HeartbeatsMayFail = FALSE, MaxManualRetries = 0
  PROVE  ReconcilerSpec => ImplementsLifecycle
<1>1. ReconcilerInit => Lifecycle!Init
  BY PhasesBegin DEF ReconcilerInit
<1>2. ASSUME ReconcilerInv, ReconcilerInv', [ReconcilerNext]_allVars
      PROVE  [Lifecycle!Next]_phaseOf
  <2>1. OwnerInv /\ OwnerInv'
    BY <1>2 DEF ReconcilerInv
  <2>2. CASE [Next]_vars
    BY <2>1, <2>2, RowStep, PhasesMove
  <2>3. ASSUME NEW r \in Reconcilers, WriteVerdict(r)
        PROVE  Lifecycle!Next
    <3>1. verdict[r] # "none" /\ (Complete(about[r]) \/ Fail(about[r]))
      BY <2>3 DEF WriteVerdict, CompleteReconciled, FailReconciled, Write
    <3>2. about[r] \in Tasks /\ Resolvable(about[r])
      BY <1>2, <3>1, VerdictFinds
    <3>3. \A t \in Tasks : RowMoves(t)
      BY <2>1, <3>1, <3>2, WriteFinishes DEF RowMoves
    <3>4. QED
      BY <2>1, <3>3, PhasesMove
  <2>4. ASSUME NEW r \in Reconcilers,
               \/ JudgeNext(r) \/ GivesUp(r) \/ List(r) \/ \E t \in Tasks : Ask(r, t)
        PROVE  UNCHANGED storeVars
    BY <2>4 DEF JudgeNext, Confirm, Refute, LeaveUnresolved, Judge, Drop, GivesUp, List,
       Ask, Read, vars
  <2>5. ASSUME UNCHANGED storeVars
        PROVE  UNCHANGED phaseOf
    <3>1. status' = status /\ ref' = ref
      BY <2>5 DEF storeVars, taskVars
    <3>2. QED
      BY <3>1 DEF phaseOf
  <2>6. ASSUME UNCHANGED allVars \/ \E t \in Tasks : Ages(t)
        PROVE  UNCHANGED storeVars
    BY <2>6 DEF allVars, Ages, vars
  <2>7. QED
    BY <1>2, <2>2, <2>3, <2>4, <2>5, <2>6 DEF ReconcilerNext, Reconcilers
<1>3. QED
  BY <1>1, <1>2, ReconcilerCorrect, PTL DEF ReconcilerSpec, ImplementsLifecycle,
                                             Lifecycle!Spec
=============================================================================
