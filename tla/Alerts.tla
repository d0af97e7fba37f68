------------------------------ MODULE Alerts ------------------------------
(***************************************************************************)
(* Threshold alerts: rules that people change, the evaluation that fires,  *)
(* refreshes and resolves alerts, and each process's memory of how long a  *)
(* condition has held.                                                     *)
(*                                                                         *)
(* A condition is a metric with its comparison and threshold; a reading    *)
(* says which conditions the latest measurement of a target fulfils.  One  *)
(* that is missing or too old is not believed.  Resolved alerts, which     *)
(* only people read, leave the model.  How long a condition has held is    *)
(* counted up to the duration.                                             *)
(***************************************************************************)
EXTENDS Common, Integers, FiniteSets

CONSTANTS
  Rules,          \* alert rules
  Targets,        \* machines, hosts, datastores, clusters
  Conditions,     \* what a rule may ask
  Evaluators,     \* Nuvrion processes
  Duration,       \* durationMinutes, in units of the model's clock
  Gone,           \* a deleted rule: its id is not used again
  MaxAlerts,      \* bound of the model: alerts open at a time
  MaxRuleChanges, \* bound of the model: rules created, changed, deleted
  MaxAlertFaults  \* bound of the model: failed evaluations and restarts

Rule == [enabled: BOOLEAN, condition: Conditions, covers: SUBSET Targets]

ASSUME AlertsAssumption ==
  /\ Duration \in Nat /\ MaxAlerts \in Nat
  /\ MaxRuleChanges \in Nat /\ MaxAlertFaults \in Nat
  /\ None \notin Int /\ None # Gone
  /\ None \notin Rule /\ Gone \notin Rule

VARIABLES
  rules,       \* monitoring.alert_rules
  alerts,      \* monitoring.alerts that are active or acknowledged
  readings,    \* the latest measurement of each target
  pending,     \* #pending of each process: how long each condition has held
  evaluation,  \* each process's evaluation
  held,        \* history: since when no evaluation of the process has found the rule's
               \* condition of the time not to hold
  ruleChanges, alertFaults  \* how much of the bounds is used

alertVars == <<rules, alerts, readings, pending, evaluation, held, ruleChanges, alertFaults>>

-----------------------------------------------------------------------------
Keys == Rules \X Targets
Elapsed == {None} \union 0..Duration

\* A target that is not there, or whose measurement is not believed, fulfils nothing.
Reading == {x \in [there: BOOLEAN, believed: BOOLEAN, fulfils: SUBSET Conditions] :
              /\ x.believed => x.there
              /\ ~x.believed => x.fulfils = {}}

Alert == [id: 1..MaxAlerts, rule: Rules, target: Targets, status: {"active", "acknowledged"}]
AtRest == [at |-> "idle", seen |-> None, fire |-> {}, resolve |-> {}, locked |-> {}]

AlertsInit ==
  /\ rules = [r \in Rules |-> None]
  /\ alerts = {}
  /\ readings = [t \in Targets |-> [there |-> TRUE, believed |-> FALSE, fulfils |-> {}]]
  /\ pending = [p \in Evaluators |-> [k \in Keys |-> None]]
  /\ evaluation = [p \in Evaluators |-> AtRest]
  /\ held = [p \in Evaluators |-> [k \in Keys |-> None]]
  /\ ruleChanges = 0 /\ alertFaults = 0

RuleExists(r) == rules[r] \notin {None, Gone}

ChangesRules == ruleChanges < MaxRuleChanges /\ ruleChanges' = ruleChanges + 1
AlertFault == alertFaults < MaxAlertFaults /\ alertFaults' = alertFaults + 1

\* The rows that the partial unique index and an evaluation regard as open.
Open == {a \in alerts : a.status \in {"active", "acknowledged"}}

-----------------------------------------------------------------------------
Measured(t, x) ==
  /\ readings[t] # x
  /\ readings' = [readings EXCEPT ![t] = x]
  /\ UNCHANGED <<rules, alerts, pending, evaluation, held, ruleChanges, alertFaults>>

Longer(e) == IF e = None \/ e = Duration THEN e ELSE e + 1

AlertTimePasses ==
  /\ pending' = [p \in Evaluators |-> [k \in Keys |-> Longer(pending[p][k])]]
  /\ held' = [p \in Evaluators |-> [k \in Keys |-> Longer(held[p][k])]]
  /\ <<pending, held>>' # <<pending, held>>
  /\ UNCHANGED <<rules, alerts, readings, evaluation, ruleChanges, alertFaults>>

-----------------------------------------------------------------------------
(***************************************************************************)
(* People                                                                  *)
(***************************************************************************)
SetRule(r, x) ==
  /\ ChangesRules
  /\ rules' = [rules EXCEPT ![r] = x]
  /\ UNCHANGED <<alerts, readings, pending, evaluation, held, alertFaults>>

CreateRule(r, x) == rules[r] = None /\ SetRule(r, x)

\* updateRule leaves the time that the old condition has held: it counts for the new one.
UpdateRule(r, x) ==
  /\ RuleExists(r) /\ rules[r] # x
  /\ SetRule(r, x)

\* An alert that an open evaluation has locked is waited for.
LockedAlerts == UNION {evaluation[p].locked : p \in Evaluators}

Forgets(p, r) == [k \in Keys |-> IF k[1] = r THEN None ELSE pending[p][k]]

\* deleteRule, handled by one of the processes.
DeleteRule(p, r) ==
  /\ RuleExists(r)
  /\ \A a \in alerts : a.rule = r => a.id \notin LockedAlerts
  /\ ChangesRules
  /\ rules' = [rules EXCEPT ![r] = Gone]
  /\ alerts' = {a \in alerts : a.rule # r}
  /\ pending' = [pending EXCEPT ![p] = Forgets(p, r)]
  /\ UNCHANGED <<readings, evaluation, held, alertFaults>>

Acknowledge(a) ==
  /\ a.status = "active"
  /\ a.id \notin LockedAlerts
  /\ alerts' = (alerts \ {a}) \union {[a EXCEPT !.status = "acknowledged"]}
  /\ UNCHANGED <<rules, readings, pending, evaluation, held, ruleChanges, alertFaults>>

-----------------------------------------------------------------------------
(***************************************************************************)
(* An evaluation                                                           *)
(***************************************************************************)
\* evaluateAlerts gathers the measurements, one evaluation of a process at a time, ...
Collects(p) ==
  /\ evaluation[p].at = "idle"
  /\ evaluation' = [evaluation EXCEPT ![p] = [AtRest EXCEPT !.at = "collected", !.seen = readings]]
  /\ UNCHANGED <<rules, alerts, readings, pending, held, ruleChanges, alertFaults>>

\* planEvaluation, of the rules and open alerts there are, and what was collected.
Judged(seen, k)  == RuleExists(k[1]) /\ rules[k[1]].enabled
                      /\ k[2] \in rules[k[1]].covers /\ seen[k[2]].there
Believed(seen, k) == Judged(seen, k) /\ seen[k[2]].believed
IsFulfilled(seen, k)   == Believed(seen, k) /\ rules[k[1]].condition \in seen[k[2]].fulfils
\* Mutant: a condition that no longer holds keeps its time.
PendingAfterKept(p, seen) ==
  [k \in Keys |-> IF IsFulfilled(seen, k) /\ pending[p][k] = None THEN 0 ELSE pending[p][k]]

PendingAfter(p, seen) ==
  [k \in Keys |-> CASE IsFulfilled(seen, k)     -> IF pending[p][k] = None THEN 0 ELSE pending[p][k]
                    [] Judged(seen, k) /\ ~Believed(seen, k) -> pending[p][k]
                    [] OTHER              -> None]

HasAlert(k) == \E a \in Open : <<a.rule, a.target>> = k

ToFire(p, seen) ==
  {k \in Keys : IsFulfilled(seen, k) /\ PendingAfter(p, seen)[k] = Duration /\ ~HasAlert(k)}

\* Cleared, the rule turned off, the target out of its scope or gone.  An alert whose
\* rule's row is gone is left as it is.
ToResolve(seen) ==
  {a \in Open : LET k == <<a.rule, a.target>> IN
     /\ RuleExists(a.rule)
     /\ ~Judged(seen, k) \/ (Believed(seen, k) /\ ~IsFulfilled(seen, k))}

\* Mutant: the evaluations do not exclude each other.
NoLockTaken == TRUE

NoLock == \A p \in Evaluators : evaluation[p].at # "planned"

\* ... takes the advisory lock and the open alerts, plans, and keeps the new times
\* before anything is written.
Plans(p) ==
  /\ evaluation[p].at = "collected" /\ NoLock
  /\ LET seen == evaluation[p].seen IN
     /\ evaluation' = [evaluation EXCEPT ![p] =
          [at |-> "planned", seen |-> None, fire |-> ToFire(p, seen),
           resolve |-> {a.id : a \in ToResolve(seen)}, locked |-> {a.id : a \in Open}]]
     /\ pending' = [pending EXCEPT ![p] = PendingAfter(p, seen)]
     /\ held' = [held EXCEPT ![p] = [k \in Keys |->
          IF ~Believed(seen, k) THEN held[p][k]
          ELSE IF ~IsFulfilled(seen, k) THEN None
          ELSE IF held[p][k] = None THEN 0 ELSE held[p][k]]]
  /\ UNCHANGED <<rules, alerts, readings, ruleChanges, alertFaults>>

\* The new rows; where one is open already, none is inserted.
Inserted(keys) ==
  LET new  == {k \in keys : ~HasAlert(k)}
      free == 1..MaxAlerts \ {a.id : a \in alerts}
  IN  {f \in [new -> free] : \A k, l \in new : f[k] = f[l] => k = l}

\* Mutant: a row may refer to a rule that is gone.
CommitsAnyway(p) ==
  /\ evaluation[p].at = "planned"
  /\ LET fire == evaluation[p].fire  kept == {a \in alerts : a.id \notin evaluation[p].resolve} IN
     \E id \in Inserted(fire) :
       alerts' = kept \union {[id |-> id[k], rule |-> k[1], target |-> k[2],
                               status |-> "active"] : k \in DOMAIN id}
  /\ evaluation' = [evaluation EXCEPT ![p] = AtRest]
  /\ UNCHANGED <<rules, readings, pending, held, ruleChanges, alertFaults>>

\* A row that would refer to a deleted rule fails the whole transaction.
Commits(p) ==
  /\ evaluation[p].at = "planned"
  /\ LET fire == evaluation[p].fire  kept == {a \in alerts : a.id \notin evaluation[p].resolve} IN
     IF \A k \in fire : RuleExists(k[1])
     THEN \E id \in Inserted(fire) :
            alerts' = kept \union {[id |-> id[k], rule |-> k[1], target |-> k[2],
                                    status |-> "active"] : k \in DOMAIN id}
     ELSE UNCHANGED alerts
  /\ evaluation' = [evaluation EXCEPT ![p] = AtRest]
  /\ UNCHANGED <<rules, readings, pending, held, ruleChanges, alertFaults>>

\* A statement fails and the transaction is rolled back; the new times stay.
EvaluationFails(p) ==
  /\ AlertFault
  /\ evaluation[p].at # "idle"
  /\ evaluation' = [evaluation EXCEPT ![p] = AtRest]
  /\ UNCHANGED <<rules, alerts, readings, pending, held, ruleChanges>>

EvaluatorRestarts(p) ==
  /\ AlertFault
  /\ evaluation' = [evaluation EXCEPT ![p] = AtRest]
  /\ pending' = [pending EXCEPT ![p] = [k \in Keys |-> None]]
  /\ UNCHANGED <<rules, alerts, readings, held, ruleChanges>>

-----------------------------------------------------------------------------
EvaluationStep(p) == Collects(p) \/ Plans(p) \/ Commits(p)

AlertsNext ==
  \/ \E t \in Targets, x \in Reading : Measured(t, x)
  \/ AlertTimePasses
  \/ \E r \in Rules : \/ \E x \in Rule : CreateRule(r, x) \/ UpdateRule(r, x)
                      \/ \E p \in Evaluators : DeleteRule(p, r)
  \/ \E a \in alerts : Acknowledge(a)
  \/ \E p \in Evaluators : EvaluationStep(p) \/ EvaluationFails(p) \/ EvaluatorRestarts(p)

\* The timer evaluates every minute.
AlertsFairness == \A p \in Evaluators : WF_alertVars(EvaluationStep(p))

AlertsSpec     == AlertsInit /\ [][AlertsNext]_alertVars
FairAlertsSpec == AlertsSpec /\ AlertsFairness

-----------------------------------------------------------------------------
(***************************************************************************)
(* What is to be true                                                      *)
(***************************************************************************)
\* Every variable has its type.
AlertsTypeOK ==
  /\ rules \in [Rules -> {None, Gone} \union Rule]
  /\ alerts \subseteq Alert
  /\ readings \in [Targets -> Reading]
  /\ pending \in [Evaluators -> [Keys -> Elapsed]]
  /\ evaluation \in [Evaluators ->
       [at: {"idle", "collected", "planned"}, seen: {None} \union [Targets -> Reading],
        fire: SUBSET Keys, resolve: SUBSET (1..MaxAlerts), locked: SUBSET (1..MaxAlerts)]]
  /\ \A p, q \in Evaluators : evaluation[p].at = "planned" /\ evaluation[q].at = "planned" => p = q
  /\ held \in [Evaluators -> [Keys -> Elapsed]]
  /\ ruleChanges \in 0..MaxRuleChanges /\ alertFaults \in 0..MaxAlertFaults

\* One open alert per rule and target, also when an acknowledged one is still open and
\* several processes evaluate (docs/alerts.md).
OneOpenAlert ==
  \A a, b \in alerts : a.rule = b.rule /\ a.target = b.target => a = b

\* An open alert has a rule: one that a deletion and an evaluation left without would
\* never be resolved.
OpenAlertHasRule == \A a \in alerts : RuleExists(a.rule)

\* The open alerts are what some rule is told of some target, once.
AlertsBelong == OneOpenAlert /\ OpenAlertHasRule

\* An alert is fired only when, in every evaluation of the process over the whole
\* duration, the rule's condition held or could not be judged: restarts, failed
\* transactions, missing measurements and rules turned off and on shorten nothing.
FiresOnlyAfterHolding ==
  \A p \in Evaluators : \A k \in evaluation[p].fire : held[p][k] = Duration

\* An open alert is the only one of its rule and target, and was fired by a condition that held.
AlertsHold == AlertsBelong /\ FiresOnlyAfterHolding

Uncovered(r, t) == RuleExists(r) /\ (~rules[r].enabled \/ t \notin rules[r].covers)

\* An alert whose rule is turned off or narrowed ends, unless the rule is changed again.
AlertsFollowTheirRule ==
  \A r \in Rules : \A t \in Targets :
    Uncovered(r, t) /\ HasAlert(<<r, t>>) ~> ~(Uncovered(r, t) /\ HasAlert(<<r, t>>))
=============================================================================
