------------------------- MODULE TaskReconciliation -------------------------
(***************************************************************************)
(* The task engine together with the VerificationReconciler, which settles *)
(* the tasks whose outcome is unknown by comparing the provider's power    *)
(* state with the one the operation should have led to.                    *)
(*                                                                         *)
(* Two callers run it, and nothing keeps them apart: a person's request    *)
(* for one task (reconcile) and the end of every discovery of a            *)
(* connection, scheduled or asked for (reconcileConnection).  Both read    *)
(* the tasks first and write after further awaits, by task id alone.       *)
(***************************************************************************)
EXTENDS TaskEngine, FiniteSets

CONSTANTS
  Requests,  \* concurrent calls of reconcile
  Scans      \* concurrent calls of reconcileConnection

Reconcilers == Requests \cup Scans

VARIABLES
  todo,     \* tasks a reconciler has read as unverified and not yet judged
  seen,     \* those of them the provider reported in the expected state
  about,    \* the task whose verdict a reconciler is about to write
  verdict,  \* that verdict: "none", "confirmed" or "refuted"
  aged      \* tasks certainly unverified for longer than unresolvedAfterMs

reconcilerVars == <<todo, seen, about, verdict>>
allVars == <<vars, reconcilerVars, aged>>

ReconcilerTypeOK ==
  /\ todo    \in [Reconcilers -> SUBSET Tasks]
  /\ seen    \in [Reconcilers -> SUBSET Tasks]
  /\ about   \in [Reconcilers -> Tasks \cup {None}]
  /\ verdict \in [Reconcilers -> {"none", "confirmed", "refuted"}]
  /\ aged    \subseteq Tasks
  /\ \A r \in Reconcilers : verdict[r] = "none" <=> about[r] = None
  /\ \A r \in Requests : Cardinality(todo[r]) <= 1

ReconcilerInit ==
  /\ Init
  /\ todo    = [r \in Reconcilers |-> {}]
  /\ seen    = [r \in Reconcilers |-> {}]
  /\ about   = [r \in Reconcilers |-> None]
  /\ verdict = [r \in Reconcilers |-> "none"]
  /\ aged    = {}

Unverified == {t \in Tasks : status[t] = "verification_required"}

Judging(r) == verdict[r] = "none" /\ todo[r] # {}
Resting(r) == verdict[r] = "none" /\ todo[r] = {}

-----------------------------------------------------------------------------
\* The tasks a reconciler takes up, and what the provider reports of them.
Read(r, S) ==
  /\ Resting(r)
  /\ todo' = [todo EXCEPT ![r] = S]
  /\ \E observed \in SUBSET S : seen' = [seen EXCEPT ![r] = observed]
  /\ UNCHANGED <<vars, about, verdict>>

\* Mutated form: the task's status is not looked at.
AskAnything(r, t) == Read(r, {t})

\* reconcile refuses a task that is not unverified, then awaits the discovery.
Ask(r, t) == t \in Unverified /\ Read(r, {t})

\* reconcileConnection has its observations and reads all unverified tasks.
List(r) == Unverified # {} /\ Read(r, Unverified)

Drop(r, t) ==
  /\ Judging(r)
  /\ t \in todo[r]
  /\ todo' = [todo EXCEPT ![r] = @ \ {t}]
  /\ seen' = [seen EXCEPT ![r] = @ \ {t}]
  /\ UNCHANGED vars

Judge(r, t, v) ==
  /\ Drop(r, t)
  /\ about' = [about EXCEPT ![r] = t]
  /\ verdict' = [verdict EXCEPT ![r] = v]

\* The provider reports the expected state; the inventory is updated before
\* the verdict is written.
Confirm(r, t) == t \in seen[r] /\ Judge(r, t, "confirmed")

\* Mutated form: a mismatch is never old enough.
RefuteLater(r, t) ==
  /\ t \notin seen[r]
  /\ Drop(r, t)
  /\ UNCHANGED <<about, verdict>>

\* A scan sees another state, or no such machine, of a task that has been
\* unverified for unresolvedAfterMs (which may have passed at any time).
Refute(r, t) == t \notin seen[r] /\ Judge(r, t, "refuted")

\* A request that does not see the expected state changes nothing, nor does
\* one whose discovery fails; a scan leaves a recent mismatch for the next.
LeaveUnresolved(r, t) ==
  /\ t \notin seen[r]
  /\ r \in Scans => t \notin aged
  /\ Drop(r, t)
  /\ UNCHANGED <<about, verdict>>

Write(r, Transaction) ==
  /\ Transaction
  /\ about' = [about EXCEPT ![r] = None]
  /\ verdict' = [verdict EXCEPT ![r] = "none"]
  /\ UNCHANGED <<todo, seen, workerVars, brokerVars, runs, lost, usedVars>>

CompleteReconciled(r) ==
  /\ verdict[r] = "confirmed"
  /\ Write(r, Complete(about[r]))

\* Mutated form: what is not confirmed is sent round again.
RetryReconciled(r) ==
  /\ verdict[r] = "refuted"
  /\ Write(r, Retry(about[r]))

FailReconciled(r) ==
  /\ verdict[r] = "refuted"
  /\ Write(r, Fail(about[r]))

\* A store or inventory call throws, or the process stops.
GivesUp(r) ==
  /\ ~Resting(r) /\ Fault
  /\ todo' = [todo EXCEPT ![r] = {}]
  /\ seen' = [seen EXCEPT ![r] = {}]
  /\ about' = [about EXCEPT ![r] = None]
  /\ verdict' = [verdict EXCEPT ![r] = "none"]
  /\ UNCHANGED <<storeVars, workerVars, brokerVars, runs, lost>>

-----------------------------------------------------------------------------
\* unresolvedAfterMs passes after the task's completed_at.
Ages(t) ==
  /\ t \in Unverified \ aged
  /\ aged' = aged \cup {t}
  /\ UNCHANGED <<vars, reconcilerVars>>

\* completed_at is set anew when a task becomes unverified again.
StillAged == aged' = {t \in aged : status'[t] = "verification_required"}

JudgeNext(r) ==
  \E t \in Tasks :
    \/ Confirm(r, t) \/ LeaveUnresolved(r, t)
    \/ r \in Scans /\ Refute(r, t)

WriteVerdict(r) == CompleteReconciled(r) \/ FailReconciled(r)

ReconcilerNext ==
  \/ \E t \in Tasks : Ages(t)
  \/ /\ \/ Next /\ UNCHANGED reconcilerVars
        \/ \E r \in Requests, t \in Tasks : Ask(r, t)
        \/ \E r \in Scans : List(r)
        \/ \E r \in Reconcilers : JudgeNext(r) \/ WriteVerdict(r) \/ GivesUp(r)
     /\ StillAged

ReconcilerSpec == ReconcilerInit /\ [][ReconcilerNext]_allVars

\* Discovery runs for ever and now and then succeeds, and time passes.
ReconcilerFairness ==
  /\ Fairness
  /\ \A t \in Tasks : WF_allVars(Ages(t))
  /\ \A r \in Scans :
       /\ WF_allVars(List(r) /\ StillAged)
       /\ WF_allVars(JudgeNext(r) /\ StillAged)
       /\ WF_allVars(WriteVerdict(r) /\ StillAged)

FairReconcilerSpec == ReconcilerSpec /\ ReconcilerFairness

-----------------------------------------------------------------------------
\* "Only verification-required tasks can be reconciled": when a reconciler
\* writes its verdict the task still waits for one, or has ended meanwhile (and
\* the store ignores the verdict).
ReconcilesOnlyUnverified ==
  \A r \in Reconcilers :
    verdict[r] # "none" => status[about[r]] \in Ended \cup {"verification_required"}

\* No outcome stays unknown for ever: whatever was requested ends.
EveryTaskIsResolved ==
  \A t \in Tasks : status[t] = "verification_required" ~> status[t] \in Ended
=============================================================================
