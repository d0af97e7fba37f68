--------------------------- MODULE ServiceProofs ---------------------------
(***************************************************************************)
(* Alerts, schedules and the archives of the platform's backups and of its *)
(* evidence, for any processes, rules, targets, releases and bounds.       *)
(*                                                                         *)
(* Alerts: what a process remembers of a condition never exceeds the time  *)
(* that it has held (RemembersNoMore), so what has reached the duration    *)
(* has held that long.  Evidence: while runs do not overlap, or stop       *)
(* between a folder and its line, what a run knows is the ledger, and what *)
(* was complete at its start has its line or is still to come (RunStands). *)
(* Backups: a set that is being removed is one that retention would not    *)
(* keep, whatever else is filed or removed meanwhile (Removable).          *)
(* Schedules: the next run that is planned is the first that the clock of  *)
(* the schedule's zone has after the moment it was planned (Stands), rows  *)
(* and claims follow that, and a round has in hand what history lacks.     *)
(***************************************************************************)
EXTENDS Alerts, Schedules, Evidence, Backups, SequenceTheorems, FiniteSetTheorems, WellFoundedInduction, TLAPS

-----------------------------------------------------------------------------
(***************************************************************************)
(* Alerts                                                                  *)
(***************************************************************************)
Evaluation == [at: {"idle", "collected", "planned"}, seen: {None} \union [Targets -> Reading],
               fire: SUBSET Keys, resolve: SUBSET (1..MaxAlerts), locked: SUBSET (1..MaxAlerts)]

RemembersNoMore ==
  \A p \in Evaluators, k \in Keys :
    pending[p][k] # None => held[p][k] # None /\ held[p][k] >= pending[p][k]

OneLock == \A p, q \in Evaluators : evaluation[p].at = "planned" /\ evaluation[q].at = "planned" => p = q

AlertsInv == AlertsTypeOK /\ AlertsBelong /\ FiresOnlyAfterHolding /\ RemembersNoMore

LEMMA AtRestIsTyped == AtRest \in Evaluation /\ AtRest.fire = {} /\ AtRest.at = "idle"
BY DEF AtRest, Evaluation

LEMMA ElapsedFacts ==
  /\ \A e \in Elapsed : Longer(e) \in Elapsed /\ (Longer(e) = None <=> e = None)
  /\ Longer(Duration) = Duration
  /\ \A e, h \in Elapsed : e # None /\ h # None /\ h >= e => Longer(h) >= Longer(e)
  /\ None \in Elapsed /\ 0 \in Elapsed /\ Duration \in Elapsed
  /\ \A e \in Elapsed : e # None => e \in 0..Duration
BY AlertsAssumption, SMTT(30) DEF AlertsAssumption, Elapsed, Longer

LEMMA AlertsInitInv == AlertsInit => AlertsInv
<1> SUFFICES ASSUME AlertsInit PROVE AlertsInv
  OBVIOUS
<1>1. rules \in [Rules -> {None, Gone} \union Rule] /\ alerts \subseteq Alert
  BY DEF AlertsInit
<1>2. readings \in [Targets -> Reading]
  <2>1. [there |-> TRUE, believed |-> FALSE, fulfils |-> {}] \in Reading
    BY DEF Reading
  <2> QED
    BY <2>1 DEF AlertsInit
<1>3. pending \in [Evaluators -> [Keys -> Elapsed]] /\ held \in [Evaluators -> [Keys -> Elapsed]]
  BY ElapsedFacts DEF AlertsInit
<1>4. evaluation \in [Evaluators -> Evaluation] /\ \A p \in Evaluators : evaluation[p] = AtRest
  BY AtRestIsTyped DEF AlertsInit
<1>5. ruleChanges \in 0..MaxRuleChanges /\ alertFaults \in 0..MaxAlertFaults
  BY AlertsAssumption DEF AlertsInit, AlertsAssumption
<1>6. AlertsTypeOK
  BY <1>1, <1>2, <1>3, <1>4, <1>5, AtRestIsTyped DEF AlertsTypeOK, Evaluation
<1>7. AlertsBelong /\ FiresOnlyAfterHolding
  BY <1>4, AtRestIsTyped DEF AlertsInit, AlertsBelong, OneOpenAlert, OpenAlertHasRule, FiresOnlyAfterHolding
<1>8. RemembersNoMore
  BY DEF AlertsInit, RemembersNoMore
<1> QED
  BY <1>6, <1>7, <1>8 DEF AlertsInv

LEMMA AlertsMeasured ==
  ASSUME AlertsInv, NEW t \in Targets, NEW x \in Reading, Measured(t, x)
  PROVE  AlertsInv'
<1>1. readings' \in [Targets -> Reading]
  BY DEF AlertsInv, AlertsTypeOK, Measured
<1>2. UNCHANGED <<rules, alerts, pending, evaluation, held, ruleChanges, alertFaults>>
  BY DEF Measured
<1> QED
  BY <1>1, <1>2 DEF AlertsInv, AlertsTypeOK, AlertsBelong, OneOpenAlert, OpenAlertHasRule, RuleExists,
                    FiresOnlyAfterHolding, RemembersNoMore

LEMMA AlertsTime ==
  ASSUME AlertsInv, AlertTimePasses
  PROVE  AlertsInv'
<1>1. pending' \in [Evaluators -> [Keys -> Elapsed]] /\ held' \in [Evaluators -> [Keys -> Elapsed]]
  BY ElapsedFacts DEF AlertsInv, AlertsTypeOK, AlertTimePasses
<1>2. \A p \in Evaluators, k \in Keys : pending'[p][k] = Longer(pending[p][k]) /\ held'[p][k] = Longer(held[p][k])
  BY DEF AlertTimePasses
<1>3. UNCHANGED <<rules, alerts, readings, evaluation, ruleChanges, alertFaults>>
  BY DEF AlertTimePasses
<1>4. AlertsTypeOK' /\ AlertsBelong'
  BY <1>1, <1>3 DEF AlertsInv, AlertsTypeOK, AlertsBelong, OneOpenAlert, OpenAlertHasRule, RuleExists
<1>5. FiresOnlyAfterHolding'
  <2> SUFFICES ASSUME NEW p \in Evaluators, NEW k \in evaluation'[p].fire PROVE held'[p][k] = Duration
    BY DEF FiresOnlyAfterHolding
  <2>1. k \in Keys /\ held[p][k] = Duration
    BY <1>3 DEF AlertsInv, AlertsTypeOK, FiresOnlyAfterHolding
  <2> QED
    BY <2>1, <1>2, ElapsedFacts
<1>6. RemembersNoMore'
  <2> SUFFICES ASSUME NEW p \in Evaluators, NEW k \in Keys, pending'[p][k] # None
               PROVE  held'[p][k] # None /\ held'[p][k] >= pending'[p][k]
    BY DEF RemembersNoMore
  <2>1. pending[p][k] \in Elapsed /\ held[p][k] \in Elapsed
    BY DEF AlertsInv, AlertsTypeOK
  <2>2. pending[p][k] # None /\ held[p][k] # None /\ held[p][k] >= pending[p][k]
    BY <1>2, <2>1, ElapsedFacts DEF AlertsInv, RemembersNoMore
  <2> QED
    BY <1>2, <2>1, <2>2, ElapsedFacts
<1> QED
  BY <1>4, <1>5, <1>6 DEF AlertsInv

LEMMA AlertsRules ==
  ASSUME AlertsInv, NEW r \in Rules, NEW x \in Rule, CreateRule(r, x) \/ UpdateRule(r, x)
  PROVE  AlertsInv'
<1>1. /\ rules' = [rules EXCEPT ![r] = x] /\ ruleChanges < MaxRuleChanges /\ ruleChanges' = ruleChanges + 1
      /\ UNCHANGED <<alerts, readings, pending, evaluation, held, alertFaults>>
  BY DEF CreateRule, UpdateRule, SetRule, ChangesRules
<1>2. rules' \in [Rules -> {None, Gone} \union Rule] /\ ruleChanges' \in 0..MaxRuleChanges
  BY <1>1, AlertsAssumption DEF AlertsInv, AlertsTypeOK, AlertsAssumption
<1>3. \A s \in Rules : RuleExists(s) => RuleExists(s)'
  BY <1>1, AlertsAssumption DEF RuleExists, AlertsInv, AlertsTypeOK, AlertsAssumption
<1>4. AlertsBelong'
  <2>1. alerts \subseteq Alert
    BY DEF AlertsInv, AlertsTypeOK
  <2> QED
    BY <1>1, <1>3, <2>1 DEF AlertsInv, AlertsBelong, OneOpenAlert, OpenAlertHasRule, Alert
<1> QED
  BY <1>1, <1>2, <1>4 DEF AlertsInv, AlertsTypeOK, FiresOnlyAfterHolding, RemembersNoMore

LEMMA AlertsDeleteRule ==
  ASSUME AlertsInv, NEW p \in Evaluators, NEW r \in Rules, DeleteRule(p, r)
  PROVE  AlertsInv'
<1>1. /\ rules' = [rules EXCEPT ![r] = Gone] /\ ruleChanges < MaxRuleChanges /\ ruleChanges' = ruleChanges + 1
      /\ alerts' = {a \in alerts : a.rule # r} /\ pending' = [pending EXCEPT ![p] = Forgets(p, r)]
      /\ UNCHANGED <<readings, evaluation, held, alertFaults>>
  BY DEF DeleteRule, ChangesRules
<1>2. rules' \in [Rules -> {None, Gone} \union Rule] /\ ruleChanges' \in 0..MaxRuleChanges /\ alerts' \subseteq Alert
  BY <1>1, AlertsAssumption DEF AlertsInv, AlertsTypeOK, AlertsAssumption
<1>3. Forgets(p, r) \in [Keys -> Elapsed]
  BY ElapsedFacts DEF Forgets, AlertsInv, AlertsTypeOK
<1>4. /\ pending' \in [Evaluators -> [Keys -> Elapsed]]
      /\ \A q \in Evaluators, k \in Keys : pending'[q][k] # None => pending'[q][k] = pending[q][k]
  BY <1>1, <1>3 DEF Forgets, AlertsInv, AlertsTypeOK
<1>5. AlertsBelong'
  BY <1>1 DEF AlertsInv, AlertsTypeOK, AlertsBelong, OneOpenAlert, OpenAlertHasRule, RuleExists
<1>6. AlertsTypeOK'
  BY <1>1, <1>2, <1>4 DEF AlertsInv, AlertsTypeOK
<1>7. RemembersNoMore' /\ FiresOnlyAfterHolding'
  BY <1>1, <1>4 DEF AlertsInv, RemembersNoMore, FiresOnlyAfterHolding
<1> QED
  BY <1>5, <1>6, <1>7 DEF AlertsInv

LEMMA AlertsAcknowledge ==
  ASSUME AlertsInv, NEW a \in alerts, Acknowledge(a)
  PROVE  AlertsInv'
<1> DEFINE b == [a EXCEPT !.status = "acknowledged"]
<1>1. a \in Alert
  BY DEF AlertsInv, AlertsTypeOK
<1>2. b \in Alert /\ b.rule = a.rule /\ b.target = a.target
  BY <1>1 DEF Alert
<1>3. /\ alerts' = (alerts \ {a}) \union {b}
      /\ UNCHANGED <<rules, readings, pending, evaluation, held, ruleChanges, alertFaults>>
  BY DEF Acknowledge
<1> HIDE DEF b
<1>4. alerts' \subseteq Alert
  BY <1>2, <1>3 DEF AlertsInv, AlertsTypeOK
<1>5. AlertsBelong'
  <2>1. OneOpenAlert'
    <3> SUFFICES ASSUME NEW c \in alerts', NEW d \in alerts', c.rule = d.rule, c.target = d.target PROVE c = d
      BY DEF OneOpenAlert
    <3> DEFINE Was(x) == IF x \in alerts \ {a} THEN x ELSE a
    <3>1. \A x \in alerts' : /\ Was(x) \in alerts /\ x.rule = Was(x).rule /\ x.target = Was(x).target
                             /\ x \in alerts \ {a} \/ x = b
      BY <1>2, <1>3
    <3>2. Was(c) = Was(d)
      BY <3>1 DEF AlertsInv, AlertsBelong, OneOpenAlert
    <3> QED
      BY <3>1, <3>2
  <2>2. OpenAlertHasRule'
    BY <1>2, <1>3 DEF AlertsInv, AlertsBelong, OpenAlertHasRule, RuleExists
  <2> QED
    BY <2>1, <2>2 DEF AlertsBelong
<1> QED
  BY <1>3, <1>4, <1>5 DEF AlertsInv, AlertsTypeOK, FiresOnlyAfterHolding, RemembersNoMore

LEMMA AlertsCollects ==
  ASSUME AlertsInv, NEW p \in Evaluators, Collects(p)
  PROVE  AlertsInv'
<1> DEFINE e == [AtRest EXCEPT !.at = "collected", !.seen = readings]
<1>1. e \in Evaluation /\ e.fire = {} /\ e.at = "collected"
  BY DEF AlertsInv, AlertsTypeOK, AtRest, Evaluation
<1>2. /\ evaluation' = [evaluation EXCEPT ![p] = e]
      /\ UNCHANGED <<rules, alerts, readings, pending, held, ruleChanges, alertFaults>>
  BY DEF Collects
<1> HIDE DEF e
<1>3. evaluation \in [Evaluators -> Evaluation]
  BY DEF AlertsInv, AlertsTypeOK, Evaluation
<1>4. evaluation' \in [Evaluators -> Evaluation] /\ OneLock'
  BY <1>1, <1>2, <1>3 DEF AlertsInv, AlertsTypeOK, OneLock
<1>5. FiresOnlyAfterHolding'
  BY <1>1, <1>2, <1>3 DEF AlertsInv, FiresOnlyAfterHolding
<1> QED
  BY <1>2, <1>4, <1>5 DEF AlertsInv, AlertsTypeOK, AlertsBelong, OneOpenAlert, OpenAlertHasRule, RuleExists,
                          RemembersNoMore, Evaluation, OneLock

\* What the process remembers, and how long the condition has held, after planning.
HeldAfter(p, seen) ==
  [k \in Keys |-> IF ~Believed(seen, k) THEN held[p][k]
                  ELSE IF ~IsFulfilled(seen, k) THEN None
                  ELSE IF held[p][k] = None THEN 0 ELSE held[p][k]]

LEMMA RemembersNoMoreAfter ==
  ASSUME AlertsInv, NEW p \in Evaluators, NEW seen
  PROVE  /\ PendingAfter(p, seen) \in [Keys -> Elapsed] /\ HeldAfter(p, seen) \in [Keys -> Elapsed]
         /\ \A k \in Keys : PendingAfter(p, seen)[k] # None =>
              HeldAfter(p, seen)[k] # None /\ HeldAfter(p, seen)[k] >= PendingAfter(p, seen)[k]
<1> DEFINE P == PendingAfter(p, seen)  H == HeldAfter(p, seen)
<1> SUFFICES ASSUME NEW k \in Keys
             PROVE  /\ P[k] \in Elapsed /\ H[k] \in Elapsed
                    /\ P[k] # None => H[k] # None /\ H[k] >= P[k]
  BY DEF PendingAfter, HeldAfter
<1>1. pending[p][k] \in Elapsed /\ held[p][k] \in Elapsed
  BY DEF AlertsInv, AlertsTypeOK
<1>2. pending[p][k] # None => held[p][k] # None /\ held[p][k] >= pending[p][k]
  BY DEF AlertsInv, RemembersNoMore
<1>3. CASE IsFulfilled(seen, k)
  <2>1. Believed(seen, k)
    BY <1>3 DEF IsFulfilled
  <2>2. /\ P[k] = IF pending[p][k] = None THEN 0 ELSE pending[p][k]
        /\ H[k] = IF held[p][k] = None THEN 0 ELSE held[p][k]
    BY <1>3, <2>1 DEF PendingAfter, HeldAfter
  <2> HIDE DEF P, H
  <2> QED
    BY <1>1, <1>2, <2>2, AlertsAssumption DEF Elapsed, AlertsAssumption
<1>4. CASE Judged(seen, k) /\ ~Believed(seen, k)
  <2>1. ~IsFulfilled(seen, k)
    BY <1>4 DEF IsFulfilled
  <2>2. P[k] = pending[p][k] /\ H[k] = held[p][k]
    BY <1>4, <2>1 DEF PendingAfter, HeldAfter
  <2> HIDE DEF P, H
  <2> QED
    BY <1>1, <1>2, <2>2
<1>5. CASE ~IsFulfilled(seen, k) /\ ~(Judged(seen, k) /\ ~Believed(seen, k))
  <2>1. P[k] = None /\ H[k] \in {None, held[p][k]}
    BY <1>5 DEF PendingAfter, HeldAfter
  <2> HIDE DEF P, H
  <2> QED
    BY <1>1, <2>1, ElapsedFacts
<1> QED
  BY <1>3, <1>4, <1>5

LEMMA AlertsPlans ==
  ASSUME AlertsInv, NEW p \in Evaluators, Plans(p)
  PROVE  AlertsInv'
<1> PICK seen : seen = evaluation[p].seen
  OBVIOUS
<1> DEFINE e == [at |-> "planned", seen |-> None, fire |-> ToFire(p, seen),
                 resolve |-> {a.id : a \in ToResolve(seen)}, locked |-> {a.id : a \in Open}]
<1>1. e \in Evaluation /\ e.fire = ToFire(p, seen) /\ e.at = "planned"
  <2>1. \A S \in SUBSET alerts : {a.id : a \in S} \in SUBSET (1..MaxAlerts)
    BY DEF AlertsInv, AlertsTypeOK, Alert
  <2>2. ToResolve(seen) \in SUBSET alerts /\ Open \in SUBSET alerts
    BY DEF ToResolve, Open
  <2>3. {a.id : a \in ToResolve(seen)} \in SUBSET (1..MaxAlerts) /\ {a.id : a \in Open} \in SUBSET (1..MaxAlerts)
    BY <2>1, <2>2
  <2>4. ToFire(p, seen) \in SUBSET Keys
    BY DEF ToFire
  <2> QED
    BY <2>3, <2>4 DEF Evaluation
<1>2. /\ evaluation' = [evaluation EXCEPT ![p] = e] /\ NoLock
      /\ pending' = [pending EXCEPT ![p] = PendingAfter(p, seen)]
      /\ held' = [held EXCEPT ![p] = HeldAfter(p, seen)]
      /\ UNCHANGED <<rules, alerts, readings, ruleChanges, alertFaults>>
  BY DEF Plans, HeldAfter
<1> HIDE DEF e
<1>3. evaluation \in [Evaluators -> Evaluation]
  BY DEF AlertsInv, AlertsTypeOK, Evaluation
<1>4. evaluation' \in [Evaluators -> Evaluation] /\ OneLock'
  BY <1>1, <1>2, <1>3 DEF NoLock, OneLock
<1>5. pending' \in [Evaluators -> [Keys -> Elapsed]] /\ held' \in [Evaluators -> [Keys -> Elapsed]]
  BY <1>2, RemembersNoMoreAfter DEF AlertsInv, AlertsTypeOK
<1>6. AlertsTypeOK'
  BY <1>2, <1>4, <1>5 DEF AlertsInv, AlertsTypeOK, Evaluation, OneLock
<1>7. /\ pending'[p] = PendingAfter(p, seen) /\ held'[p] = HeldAfter(p, seen)
      /\ \A q \in Evaluators \ {p} : pending'[q] = pending[q] /\ held'[q] = held[q] /\ evaluation'[q] = evaluation[q]
      /\ evaluation'[p] = e
  BY <1>2, <1>3 DEF AlertsInv, AlertsTypeOK
<1>8. RemembersNoMore'
  <2> SUFFICES ASSUME NEW q \in Evaluators, NEW k \in Keys, pending'[q][k] # None
               PROVE  held'[q][k] # None /\ held'[q][k] >= pending'[q][k]
    BY DEF RemembersNoMore
  <2>1. CASE q = p
    BY <2>1, <1>7, RemembersNoMoreAfter
  <2>2. CASE q # p
    BY <2>2, <1>7 DEF AlertsInv, RemembersNoMore
  <2> QED
    BY <2>1, <2>2
<1>9. FiresOnlyAfterHolding'
  <2> SUFFICES ASSUME NEW q \in Evaluators, NEW k \in evaluation'[q].fire PROVE held'[q][k] = Duration
    BY DEF FiresOnlyAfterHolding
  <2>1. CASE q = p
    <3>1. k \in Keys /\ PendingAfter(p, seen)[k] = Duration
      BY <2>1, <1>1, <1>7 DEF ToFire
    <3>2. HeldAfter(p, seen)[k] \in Elapsed /\ HeldAfter(p, seen)[k] # None /\ HeldAfter(p, seen)[k] >= Duration
      BY <3>1, RemembersNoMoreAfter, AlertsAssumption DEF AlertsAssumption
    <3>3. HeldAfter(p, seen)[k] = Duration
      BY <3>2, AlertsAssumption DEF AlertsAssumption, Elapsed
    <3> QED
      BY <2>1, <3>3, <1>7
  <2>2. CASE q # p
    BY <2>2, <1>7 DEF AlertsInv, FiresOnlyAfterHolding
  <2> QED
    BY <2>1, <2>2
<1> QED
  BY <1>2, <1>6, <1>8, <1>9 DEF AlertsInv, AlertsBelong, OneOpenAlert, OpenAlertHasRule, RuleExists

LEMMA AlertsRest ==
  ASSUME AlertsInv, NEW p \in Evaluators, evaluation' = [evaluation EXCEPT ![p] = AtRest]
  PROVE  /\ evaluation' \in [Evaluators -> Evaluation] /\ OneLock'
         /\ held' = held => FiresOnlyAfterHolding'
<1>1. evaluation \in [Evaluators -> Evaluation]
  BY DEF AlertsInv, AlertsTypeOK, Evaluation
<1> QED
  BY <1>1, AtRestIsTyped DEF AlertsInv, AlertsTypeOK, OneLock, FiresOnlyAfterHolding

LEMMA AlertsCommits ==
  ASSUME AlertsInv, NEW p \in Evaluators, Commits(p)
  PROVE  AlertsInv'
<1>1. /\ evaluation' = [evaluation EXCEPT ![p] = AtRest]
      /\ UNCHANGED <<rules, readings, pending, held, ruleChanges, alertFaults>>
  BY DEF Commits
<1>2. alerts' \subseteq Alert /\ AlertsBelong'
  <2>1. CASE UNCHANGED alerts
    BY <1>1, <2>1 DEF AlertsInv, AlertsTypeOK, AlertsBelong, OneOpenAlert, OpenAlertHasRule, RuleExists
  <2>2. CASE ~UNCHANGED alerts
    <3> PICK fire \in SUBSET Keys : fire = evaluation[p].fire
      BY DEF AlertsInv, AlertsTypeOK
    <3> PICK kept \in SUBSET alerts : kept = {a \in alerts : a.id \notin evaluation[p].resolve}
      OBVIOUS
    <3> PICK new \in SUBSET fire : new = {k \in fire : ~HasAlert(k)}
      OBVIOUS
    <3>1. \A k \in fire : RuleExists(k[1])
      BY <2>2 DEF Commits
    <3>2. PICK id \in Inserted(fire) :
            alerts' = kept \union {[id |-> id[k], rule |-> k[1], target |-> k[2], status |-> "active"] : k \in DOMAIN id}
      BY <2>2 DEF Commits
    <3>3. DOMAIN id = new /\ \A k \in new : id[k] \in 1..MaxAlerts
      BY DEF Inserted
    <3> DEFINE Fired(k) == [id |-> id[k], rule |-> k[1], target |-> k[2], status |-> "active"]
    <3>4. \A k \in new : /\ k \in Keys /\ k = <<k[1], k[2]>>
                         /\ Fired(k) \in Alert /\ Fired(k).rule = k[1] /\ Fired(k).target = k[2] /\ RuleExists(k[1])
                         /\ \A a \in alerts : <<a.rule, a.target>> # k
      BY <3>1, <3>3 DEF Keys, Alert, HasAlert, Open, AlertsInv, AlertsTypeOK
    <3>5. \A a \in alerts' : a \in kept \/ \E k \in new : a = Fired(k)
      BY <3>2, <3>3
    <3> HIDE DEF Fired
    <3>6. alerts' \subseteq Alert
      BY <3>4, <3>5 DEF AlertsInv, AlertsTypeOK
    <3>7. OneOpenAlert'
      <4> SUFFICES ASSUME NEW a \in alerts', NEW b \in alerts', a.rule = b.rule, a.target = b.target PROVE a = b
        BY DEF OneOpenAlert
      <4>1. CASE a \in kept /\ b \in kept
        BY <4>1 DEF AlertsInv, AlertsBelong, OneOpenAlert
      <4>2. CASE a \in kept /\ \E k \in new : b = Fired(k)
        BY <4>2, <3>4
      <4>3. CASE b \in kept /\ \E k \in new : a = Fired(k)
        BY <4>3, <3>4
      <4>4. ASSUME NEW k \in new, NEW l \in new, a = Fired(k), b = Fired(l) PROVE a = b
        BY <4>4, <3>4
      <4> QED
        BY <3>5, <4>1, <4>2, <4>3, <4>4
    <3>8. OpenAlertHasRule'
      BY <1>1, <3>4, <3>5 DEF AlertsInv, AlertsBelong, OpenAlertHasRule, RuleExists
    <3> QED
      BY <3>6, <3>7, <3>8 DEF AlertsBelong
  <2> QED
    BY <2>1, <2>2
<1>3. AlertsTypeOK'
  BY <1>1, <1>2, AlertsRest DEF AlertsInv, AlertsTypeOK, Evaluation, OneLock
<1> QED
  BY <1>1, <1>2, <1>3, AlertsRest DEF AlertsInv, RemembersNoMore

LEMMA AlertsBreaks ==
  ASSUME AlertsInv, NEW p \in Evaluators, EvaluationFails(p) \/ EvaluatorRestarts(p)
  PROVE  AlertsInv'
<1>1. /\ evaluation' = [evaluation EXCEPT ![p] = AtRest]
      /\ pending' = pending \/ pending' = [pending EXCEPT ![p] = [k \in Keys |-> None]]
      /\ alertFaults < MaxAlertFaults /\ alertFaults' = alertFaults + 1
      /\ UNCHANGED <<rules, alerts, readings, held, ruleChanges>>
  BY DEF EvaluationFails, EvaluatorRestarts, AlertFault
<1>2. alertFaults' \in 0..MaxAlertFaults
  BY <1>1, AlertsAssumption DEF AlertsInv, AlertsTypeOK, AlertsAssumption
<1>3. /\ pending' \in [Evaluators -> [Keys -> Elapsed]]
      /\ \A q \in Evaluators, k \in Keys : pending'[q][k] # None => pending'[q][k] = pending[q][k]
  <2>1. pending \in [Evaluators -> [Keys -> Elapsed]] /\ [k \in Keys |-> None] \in [Keys -> Elapsed]
    BY ElapsedFacts DEF AlertsInv, AlertsTypeOK
  <2>2. CASE pending' = pending
    BY <2>1, <2>2
  <2>3. CASE pending' = [pending EXCEPT ![p] = [k \in Keys |-> None]]
    <3>1. pending' \in [Evaluators -> [Keys -> Elapsed]]
      BY <2>1, <2>3
    <3>2. \A q \in Evaluators : pending'[q] = IF q = p THEN [k \in Keys |-> None] ELSE pending[q]
      BY <2>1, <2>3
    <3> QED
      BY <3>1, <3>2
  <2> QED
    BY <1>1, <2>2, <2>3
<1>4. AlertsTypeOK'
  BY <1>1, <1>2, <1>3, AlertsRest DEF AlertsInv, AlertsTypeOK, Evaluation, OneLock
<1>5. RemembersNoMore' /\ FiresOnlyAfterHolding'
  BY <1>1, <1>3, AlertsRest DEF AlertsInv, RemembersNoMore
<1> QED
  BY <1>1, <1>4, <1>5 DEF AlertsInv, AlertsBelong, OneOpenAlert, OpenAlertHasRule, RuleExists

\* Of any rules, targets and processes: the open alerts are each of a rule that exists and the only
\* one of their rule and target, and what an evaluation fires has held, in every measurement that
\* the process believed, for the rule's duration; RemembersNoMore is what makes it inductive.
THEOREM AlertsInvariant == AlertsSpec => []AlertsInv
<1>1. AlertsInv /\ [AlertsNext]_alertVars => AlertsInv'
  <2> SUFFICES ASSUME AlertsInv, [AlertsNext]_alertVars PROVE AlertsInv'
    OBVIOUS
  <2>1. CASE UNCHANGED alertVars
    BY <2>1 DEF alertVars, AlertsInv, AlertsTypeOK, AlertsBelong, OneOpenAlert, OpenAlertHasRule, RuleExists,
                FiresOnlyAfterHolding, RemembersNoMore
  <2>2. ASSUME NEW p \in Evaluators, EvaluationStep(p) PROVE AlertsInv'
    BY <2>2, AlertsCollects, AlertsPlans, AlertsCommits DEF EvaluationStep
  <2> QED
    BY <2>1, <2>2, AlertsMeasured, AlertsTime, AlertsRules, AlertsDeleteRule, AlertsAcknowledge, AlertsBreaks
       DEF AlertsNext
<1> QED
  BY <1>1, AlertsInitInv, PTL DEF AlertsSpec

\* Every variable of the alerts has its type, always.
THEOREM AlertsTyped == AlertsSpec => []AlertsTypeOK
BY AlertsInvariant, PTL DEF AlertsInv

\* AlertsHold, always.
THEOREM AlertsAreTrue == AlertsSpec => []AlertsHold
<1>1. AlertsInv => AlertsHold
  BY DEF AlertsInv, AlertsHold
<1> QED
  BY <1>1, AlertsInvariant, PTL

-----------------------------------------------------------------------------
(***************************************************************************)
(* Evidence                                                                *)
(***************************************************************************)
UnderWay(a) == archivers[a].at \notin {"idle", "ended"}
Taken(a)    == IF archivers[a].at \in {"filing", "recording"} THEN {archivers[a].release} ELSE {}
Recording   == {a \in Archivers : archivers[a].at = "recording"}

\* What a run knows is what there is, and what was complete at its start has its line or is still
\* to come: it is in hand, or among the rest.
RunStands(a) ==
  /\ UnderWay(a) => archivers[a].known = ledger
  /\ archivers[a].at \in {"choosing", "filing", "recording"} =>
       /\ archivers[a].todo \cap Versions(ledger) = {}
       /\ Taken(a) \cap (Versions(ledger) \cup archivers[a].todo) = {}
       /\ ~archivers[a].failed =>
            archivers[a].complete \subseteq Versions(ledger) \cup archivers[a].todo \cup Taken(a)
  /\ \A r \in archivers[a].complete : releases[r] = "complete"
  /\ archivers[a].at = "ended" /\ ~archivers[a].failed => archivers[a].complete \subseteq Versions(ledger)

EvidenceStands ==
  /\ ChainHolds(ledger)
  /\ \A a, b \in Archivers : UnderWay(a) /\ UnderWay(b) => a = b
  /\ \A a \in Archivers : RunStands(a)
  /\ folders = Versions(ledger) \cup {archivers[a].release : a \in Recording}

EvidenceInv == EvidenceTypeOK /\ (cutShort \/ overlapped \/ EvidenceStands)

LEMMA NoRunIsTyped ==
  NoRun \in Run /\ NoRun.at = "idle" /\ NoRun.complete = {}
<1>1. <<>> \in Seq(Line) /\ 0 \in 0..MaxReleases
  BY EvidenceAssumption, EmptySeq DEF EvidenceAssumption
<1> QED
  BY <1>1 DEF NoRun, Run

LEMMA RunBecomes ==
  ASSUME EvidenceTypeOK, NEW a \in Archivers, NEW x \in Run, Becomes(a, x)
  PROVE  /\ archivers' \in [Archivers -> Run] /\ archivers'[a] = x
         /\ \A b \in Archivers \ {a} : archivers'[b] = archivers[b]
BY DEF EvidenceTypeOK, Becomes

\* A run's step that changes nothing but where it is keeps what stands, if it stands for that run.
LEMMA RunGoesOn ==
  ASSUME EvidenceTypeOK, EvidenceStands, NEW a \in Archivers, NEW x \in Run, Becomes(a, x),
         releases' = releases, ledger' = ledger, folders' = folders,
         x.at \in {"idle", "ended"} \/ UnderWay(a), x.at # "recording", archivers[a].at # "recording",
         RunStands(a)'
  PROVE  EvidenceStands'
<1>1. /\ archivers'[a] = x /\ \A b \in Archivers \ {a} : archivers'[b] = archivers[b]
  BY RunBecomes
<1>2. \A b \in Archivers : UnderWay(b)' => UnderWay(b)
  BY <1>1 DEF UnderWay
<1>3. \A b \in Archivers : RunStands(b)'
  <2> SUFFICES ASSUME NEW b \in Archivers \ {a} PROVE RunStands(b)'
    OBVIOUS
  <2>1. RunStands(b) /\ archivers'[b] = archivers[b]
    BY <1>1 DEF EvidenceStands
  <2> QED
    BY <2>1 DEF RunStands, UnderWay, Taken, Versions
<1>4. /\ Recording' = Recording /\ \A b \in Recording : archivers'[b] = archivers[b]
  BY <1>1 DEF Recording
<1>5. {archivers[b].release : b \in Recording}' = {archivers[b].release : b \in Recording}
  BY <1>4
<1>6. folders' = Versions(ledger)' \cup {archivers[b].release : b \in Recording}'
  BY <1>5 DEF EvidenceStands, Versions
<1>7. ChainHolds(ledger)'
  BY DEF EvidenceStands, ChainHolds
<1> QED
  BY <1>2, <1>3, <1>6, <1>7 DEF EvidenceStands

LEMMA EvidenceInitInv == EvidenceInit => EvidenceInv
<1> SUFFICES ASSUME EvidenceInit PROVE EvidenceInv
  OBVIOUS
<1>1. \A a \in Archivers : archivers[a] = NoRun
  BY DEF EvidenceInit
<1>2. archivers \in [Archivers -> Run] /\ ledger \in Seq(Line) /\ Versions(ledger) = {}
  BY NoRunIsTyped, EmptySeq DEF EvidenceInit, Versions
<1>3. releases \in [Releases -> {"none", "unfit", "complete"}] /\ archiveFaults \in 0..MaxArchiveFaults
  BY EvidenceAssumption DEF EvidenceInit, EvidenceAssumption
<1>4. EvidenceTypeOK
  BY <1>1, <1>2, <1>3, NoRunIsTyped DEF EvidenceInit, EvidenceTypeOK
<1>5. ChainHolds(ledger) /\ folders = Versions(ledger) /\ Recording = {}
  BY <1>1, <1>2, NoRunIsTyped DEF EvidenceInit, ChainHolds, Recording
<1>6. \A a \in Archivers : ~UnderWay(a) /\ RunStands(a)
  BY <1>1, NoRunIsTyped DEF UnderWay, RunStands
<1> QED
  BY <1>4, <1>5, <1>6 DEF EvidenceInv, EvidenceStands

LEMMA EvidenceUploads ==
  ASSUME EvidenceInv, NEW r \in Releases, Uploads(r)
  PROVE  EvidenceInv'
<1>1. /\ releases' \in [Releases -> {"none", "unfit", "complete"}]
      /\ \A s \in Releases : releases[s] = "complete" => releases'[s] = "complete"
      /\ UNCHANGED <<ledger, folders, archivers, cutShort, overlapped, archiveFaults>>
  BY DEF EvidenceInv, EvidenceTypeOK, Uploads
<1>2. EvidenceTypeOK'
  BY <1>1 DEF EvidenceInv, EvidenceTypeOK
<1>3. ASSUME EvidenceStands PROVE EvidenceStands'
  <2>1. \A a \in Archivers : RunStands(a)'
    <3> SUFFICES ASSUME NEW a \in Archivers PROVE RunStands(a)'
      OBVIOUS
    <3>1. RunStands(a) /\ archivers[a].complete \subseteq Releases
      BY <1>3 DEF EvidenceStands, EvidenceInv, EvidenceTypeOK, Run
    <3> QED
      BY <1>1, <3>1 DEF RunStands, UnderWay, Taken, Versions
  <2> QED
    BY <1>1, <1>3, <2>1 DEF EvidenceStands, ChainHolds, UnderWay, Recording, Versions
<1> QED
  BY <1>1, <1>2, <1>3 DEF EvidenceInv

LEMMA EvidenceReads ==
  ASSUME EvidenceInv, NEW a \in Archivers, ReadsLedger(a)
  PROVE  EvidenceInv'
<1> DEFINE x == [NoRun EXCEPT !.at = IF ChainHolds(ledger) THEN "listing" ELSE "ended", !.known = ledger,
                              !.complete = { r \in Releases : releases[r] = "complete" }]
<1>1. /\ x \in Run /\ x.at = (IF ChainHolds(ledger) THEN "listing" ELSE "ended") /\ x.known = ledger
      /\ x.complete = { r \in Releases : releases[r] = "complete" }
  <2>1. PICK q \in Run : q = NoRun
    BY NoRunIsTyped
  <2> DEFINE y == [q EXCEPT !.at = IF ChainHolds(ledger) THEN "listing" ELSE "ended", !.known = ledger,
                            !.complete = { r \in Releases : releases[r] = "complete" }]
  <2>2. /\ y \in Run /\ y.at = (IF ChainHolds(ledger) THEN "listing" ELSE "ended") /\ y.known = ledger
        /\ y.complete = { r \in Releases : releases[r] = "complete" }
    BY DEF Run, EvidenceInv, EvidenceTypeOK
  <2>3. x = y
    BY <2>1
  <2> QED
    BY <2>2, <2>3
<1>2. /\ Becomes(a, x) /\ archivers[a].at = "idle"
      /\ UNCHANGED <<releases, ledger, folders, cutShort, archiveFaults>>
  BY DEF ReadsLedger
<1>3. overlapped' = (overlapped \/ \E b \in Archivers \ {a} : UnderWay(b))
  BY DEF ReadsLedger, UnderWay
<1> HIDE DEF x
<1>4. /\ archivers' \in [Archivers -> Run] /\ archivers'[a] = x
      /\ \A b \in Archivers \ {a} : archivers'[b] = archivers[b]
  BY <1>1, <1>2, RunBecomes DEF EvidenceInv
<1>5. EvidenceTypeOK'
  BY <1>1, <1>2, <1>3, <1>4 DEF EvidenceInv, EvidenceTypeOK
<1>6. ASSUME EvidenceStands, ~overlapped' PROVE EvidenceStands'
  <2>1. x.at = "listing" /\ \A b \in Archivers \ {a} : ~UnderWay(b)
    BY <1>1, <1>3, <1>6 DEF EvidenceStands
  <2>2. \A b \in Archivers \ {a} : ~UnderWay(b)'
    BY <1>4, <2>1 DEF UnderWay
  <2>3. \A b \in Archivers : RunStands(b)'
    <3>1. RunStands(a)'
      BY <1>1, <1>2, <1>4, <2>1 DEF RunStands, UnderWay
    <3>2. ASSUME NEW b \in Archivers \ {a} PROVE RunStands(b)'
      <4>1. RunStands(b) /\ archivers'[b] = archivers[b]
        BY <1>4, <1>6 DEF EvidenceStands
      <4> QED
        BY <4>1, <1>2 DEF RunStands, UnderWay, Taken, Versions
    <3> QED
      BY <3>1, <3>2
  <2>4. Recording = {} /\ Recording' = {}
    BY <1>2, <1>4, <2>1, <2>2 DEF Recording, UnderWay
  <2> QED
    BY <1>2, <1>6, <2>2, <2>3, <2>4 DEF EvidenceStands, ChainHolds, Versions
<1> QED
  BY <1>2, <1>3, <1>5, <1>6 DEF EvidenceInv

\* The steps of a run that leave the ledger and the archive as they are.
LEMMA EvidenceQuiet ==
  ASSUME EvidenceInv, NEW a \in Archivers,
         \/ ListsReleases(a) \/ ListingOfReleasesFails(a) \/ Fetched(a) \/ RunEnds(a) \/ Again(a) \/ RunStops(a)
  PROVE  EvidenceInv'
<1> PICK q \in Run : q = archivers[a]
  BY DEF EvidenceInv, EvidenceTypeOK
<1> DEFINE L == [q EXCEPT !.at = "choosing",
                          !.todo = { r \in Releases : releases[r] # "none" } \ Versions(q.known)]
           F == [q EXCEPT !.at = "ended", !.failed = TRUE]
           T(r) == [q EXCEPT !.at = "filing", !.release = r, !.todo = q.todo \ {r}]
           U(r) == [q EXCEPT !.todo = q.todo \ {r}]
           V(r) == [q EXCEPT !.todo = q.todo \ {r}, !.failed = TRUE]
           E == [q EXCEPT !.at = "ended"]
<1>1. /\ UNCHANGED <<releases, ledger, folders, overlapped>>
      /\ archiveFaults' \in 0..MaxArchiveFaults /\ cutShort' \in BOOLEAN /\ (cutShort => cutShort')
  <2>1. UNCHANGED <<releases, ledger, folders, overlapped>>
    BY DEF ListsReleases, ListingOfReleasesFails, Fetched, RunEnds, Again, RunStops
  <2>2. archiveFaults' = archiveFaults \/ (archiveFaults < MaxArchiveFaults /\ archiveFaults' = archiveFaults + 1)
    BY DEF ListsReleases, ListingOfReleasesFails, Fetched, RunEnds, Again, RunStops
  <2>3. archiveFaults' \in 0..MaxArchiveFaults
    BY <2>2, EvidenceAssumption DEF EvidenceInv, EvidenceTypeOK, EvidenceAssumption
  <2>4. cutShort' = cutShort \/ (cutShort' = (cutShort \/ archivers[a].at = "recording"))
    BY DEF ListsReleases, ListingOfReleasesFails, Fetched, RunEnds, Again, RunStops
  <2> QED
    BY <2>1, <2>3, <2>4 DEF EvidenceInv, EvidenceTypeOK
<1>2. \A x \in Run : Becomes(a, x) /\ (x.at \in {"filing", "recording"} => x.release # 0) => EvidenceTypeOK'
  <2> SUFFICES ASSUME NEW x \in Run, Becomes(a, x), x.at \in {"filing", "recording"} => x.release # 0
               PROVE  EvidenceTypeOK'
    OBVIOUS
  <2>1. /\ archivers' \in [Archivers -> Run] /\ archivers'[a] = x
        /\ \A b \in Archivers \ {a} : archivers'[b] = archivers[b]
    BY RunBecomes DEF EvidenceInv
  <2> QED
    BY <1>1, <2>1 DEF EvidenceInv, EvidenceTypeOK
<1>3. \A x \in Run : /\ Becomes(a, x) /\ (x.at \in {"idle", "ended"} \/ UnderWay(a))
                     /\ x.at # "recording" /\ q.at # "recording" /\ EvidenceStands /\ RunStands(a)'
                     => EvidenceStands'
  BY <1>1, RunGoesOn DEF EvidenceInv
<1>4. EvidenceStands => RunStands(a)
  BY DEF EvidenceStands
<1>5. \A x \in Run : Becomes(a, x) => archivers'[a] = x
  BY RunBecomes DEF EvidenceInv
<1>6. CASE ListsReleases(a)
  <2>1. L \in Run /\ L.at = "choosing" /\ L.known = q.known /\ L.complete = q.complete
        /\ L.todo = { r \in Releases : releases[r] # "none" } \ Versions(q.known) /\ L.failed = q.failed
    BY DEF Run
  <2>2. Becomes(a, L) /\ q.at = "listing" /\ UNCHANGED cutShort
    BY <1>6 DEF ListsReleases
  <2> HIDE DEF L
  <2>3. archivers'[a] = L /\ EvidenceTypeOK'
    BY <1>2, <1>5, <2>1, <2>2
  <2>4. UnderWay(a) /\ q.complete \subseteq Releases
    BY <2>2 DEF UnderWay, Run
  <2>5. EvidenceStands => RunStands(a)'
    BY <1>1, <1>4, <2>1, <2>2, <2>3, <2>4 DEF RunStands, UnderWay, Taken, Versions
  <2> QED
    BY <1>1, <1>3, <2>1, <2>2, <2>3, <2>4, <2>5 DEF EvidenceInv
<1>7. CASE ListingOfReleasesFails(a)
  <2>1. F \in Run /\ F.at = "ended" /\ F.complete = q.complete /\ F.failed = TRUE
    BY DEF Run
  <2>2. Becomes(a, F) /\ q.at = "listing" /\ UNCHANGED cutShort
    BY <1>7 DEF ListingOfReleasesFails
  <2> HIDE DEF F
  <2>3. archivers'[a] = F /\ EvidenceTypeOK'
    BY <1>2, <1>5, <2>1, <2>2
  <2>4. EvidenceStands => RunStands(a)'
    BY <1>1, <1>4, <2>1, <2>2, <2>3 DEF RunStands, UnderWay, Taken, Versions
  <2> QED
    BY <1>1, <1>3, <2>1, <2>2, <2>3, <2>4 DEF EvidenceInv
<1>8. CASE Fetched(a)
  <2>1. PICK r \in q.todo :
          \/ releases[r] = "complete" /\ Becomes(a, T(r))
          \/ releases[r] = "unfit" /\ Becomes(a, U(r))
          \/ Becomes(a, V(r))
    BY <1>8 DEF Fetched
  <2>2. r \in Releases /\ r # 0 /\ r \in 0..MaxReleases
    BY EvidenceAssumption DEF Run, Releases, EvidenceAssumption
  <2>3. /\ q.at = "choosing" /\ UNCHANGED cutShort /\ UnderWay(a)
    BY <1>8 DEF Fetched, UnderWay
  <2>4. CASE releases[r] = "complete" /\ Becomes(a, T(r))
    <3>1. T(r) \in Run /\ T(r).at = "filing" /\ T(r).complete = q.complete /\ T(r).failed = q.failed
          /\ T(r).known = q.known /\ T(r).todo = q.todo \ {r} /\ T(r).release = r
      BY <2>2 DEF Run
    <3> HIDE DEF T
    <3>2. archivers'[a] = T(r) /\ EvidenceTypeOK'
      BY <1>2, <1>5, <2>2, <2>4, <3>1
    <3>3. EvidenceStands => RunStands(a)'
      BY <1>1, <1>4, <2>3, <3>1, <3>2 DEF RunStands, UnderWay, Taken, Versions
    <3> QED
      BY <1>1, <1>3, <2>3, <2>4, <3>1, <3>2, <3>3 DEF EvidenceInv
  <2>5. CASE releases[r] = "unfit" /\ Becomes(a, U(r))
    <3>1. U(r) \in Run /\ U(r).at = "choosing" /\ U(r).complete = q.complete /\ U(r).failed = q.failed
          /\ U(r).known = q.known /\ U(r).todo = q.todo \ {r}
      BY <2>3 DEF Run
    <3> HIDE DEF U
    <3>2. archivers'[a] = U(r) /\ EvidenceTypeOK'
      BY <1>2, <1>5, <2>5, <3>1
    <3>3. EvidenceStands => RunStands(a)'
      BY <1>1, <1>4, <2>3, <2>5, <3>1, <3>2 DEF RunStands, UnderWay, Taken, Versions
    <3> QED
      BY <1>1, <1>3, <2>3, <2>5, <3>1, <3>2, <3>3 DEF EvidenceInv
  <2>6. CASE Becomes(a, V(r))
    <3>1. V(r) \in Run /\ V(r).at = "choosing" /\ V(r).complete = q.complete /\ V(r).failed = TRUE
          /\ V(r).known = q.known /\ V(r).todo = q.todo \ {r}
      BY <2>3 DEF Run
    <3> HIDE DEF V
    <3>2. archivers'[a] = V(r) /\ EvidenceTypeOK'
      BY <1>2, <1>5, <2>6, <3>1
    <3>3. EvidenceStands => RunStands(a)'
      BY <1>1, <1>4, <2>3, <3>1, <3>2 DEF RunStands, UnderWay, Taken, Versions
    <3> QED
      BY <1>1, <1>3, <2>3, <2>6, <3>1, <3>2, <3>3 DEF EvidenceInv
  <2> QED
    BY <2>1, <2>4, <2>5, <2>6
<1>9. CASE RunEnds(a)
  <2>1. E \in Run /\ E.at = "ended" /\ E.complete = q.complete /\ E.failed = q.failed
    BY DEF Run
  <2>2. Becomes(a, E) /\ q.at = "choosing" /\ q.todo = {} /\ UNCHANGED cutShort
    BY <1>9 DEF RunEnds
  <2> HIDE DEF E
  <2>3. archivers'[a] = E /\ EvidenceTypeOK'
    BY <1>2, <1>5, <2>1, <2>2
  <2>4. EvidenceStands => RunStands(a)'
    BY <1>1, <1>4, <2>1, <2>2, <2>3 DEF RunStands, UnderWay, Taken, Versions
  <2> QED
    BY <1>1, <1>3, <2>1, <2>2, <2>3, <2>4 DEF EvidenceInv
<1>10. CASE Again(a) \/ RunStops(a)
  <2>1. Becomes(a, NoRun) /\ (q.at = "recording" => cutShort')
    BY <1>10 DEF Again, RunStops
  <2>2. archivers'[a] = NoRun /\ EvidenceTypeOK'
    BY <1>2, <1>5, <2>1, NoRunIsTyped
  <2>3. RunStands(a)'
    BY <2>2, NoRunIsTyped DEF RunStands, UnderWay
  <2> QED
    BY <1>1, <1>3, <2>1, <2>2, <2>3, NoRunIsTyped DEF EvidenceInv
<1> QED
  BY <1>6, <1>7, <1>8, <1>9, <1>10

LEMMA EvidenceFiles ==
  ASSUME EvidenceInv, NEW a \in Archivers, FilesRelease(a)
  PROVE  EvidenceInv'
<1> PICK q \in Run : q = archivers[a]
  BY DEF EvidenceInv, EvidenceTypeOK
<1> PICK r \in Releases : r = q.release
  BY EvidenceAssumption DEF EvidenceInv, EvidenceTypeOK, FilesRelease, Run, Releases, EvidenceAssumption
<1> DEFINE E == [q EXCEPT !.at = "ended"]
           R == [q EXCEPT !.at = "recording"]
<1>1. q.at = "filing" /\ UNCHANGED <<releases, ledger, cutShort, overlapped, archiveFaults>>
  BY DEF FilesRelease
<1>2. /\ E \in Run /\ E.at = "ended"
      /\ R \in Run /\ R.at = "recording" /\ R.known = q.known /\ R.todo = q.todo /\ R.release = r
      /\ R.complete = q.complete /\ R.failed = q.failed
  BY DEF Run
<1>3. \/ r \in folders /\ Becomes(a, E) /\ folders' = folders
      \/ r \notin folders /\ Becomes(a, R) /\ folders' = folders \cup {r}
  BY DEF FilesRelease
<1> HIDE DEF E, R
<1>4. EvidenceTypeOK'
  <2>1. \A x \in Run : Becomes(a, x) => /\ archivers' \in [Archivers -> Run] /\ archivers'[a] = x
                                        /\ \A b \in Archivers \ {a} : archivers'[b] = archivers[b]
    BY RunBecomes DEF EvidenceInv
  <2>2. r # 0
    BY EvidenceAssumption DEF Releases, EvidenceAssumption
  <2>3. folders' \subseteq Releases
    BY <1>3 DEF EvidenceInv, EvidenceTypeOK
  <2> QED
    BY <1>1, <1>2, <1>3, <2>1, <2>2, <2>3 DEF EvidenceInv, EvidenceTypeOK
<1>5. ASSUME EvidenceStands PROVE EvidenceStands'
  <2>1. UnderWay(a) /\ RunStands(a) /\ \A b \in Archivers \ {a} : ~UnderWay(b)
    BY <1>1, <1>5 DEF EvidenceStands, UnderWay
  <2>2. Recording = {}
    BY <1>1, <2>1 DEF Recording, UnderWay
  <2>3. folders = Versions(ledger) /\ r \notin Versions(ledger)
    BY <1>1, <1>5, <2>1, <2>2 DEF EvidenceStands, RunStands, Taken
  <2>4. /\ archivers'[a] = R /\ \A b \in Archivers \ {a} : archivers'[b] = archivers[b]
        /\ folders' = folders \cup {r}
    BY <1>2, <1>3, <2>3, RunBecomes DEF EvidenceInv
  <2>5. \A b \in Archivers \ {a} : ~UnderWay(b)'
    BY <2>1, <2>4 DEF UnderWay
  <2>6. Recording' = {a}
    BY <1>2, <2>4, <2>5 DEF Recording, UnderWay
  <2>7. \A b \in Archivers : RunStands(b)'
    <3>1. RunStands(a)'
      BY <1>1, <1>2, <2>1, <2>4 DEF RunStands, UnderWay, Taken, Versions
    <3>2. ASSUME NEW b \in Archivers \ {a} PROVE RunStands(b)'
      <4>1. RunStands(b) /\ archivers'[b] = archivers[b]
        BY <1>5, <2>4 DEF EvidenceStands
      <4> QED
        BY <4>1, <1>1 DEF RunStands, UnderWay, Taken, Versions
    <3> QED
      BY <3>1, <3>2
  <2>8. folders' = Versions(ledger)' \cup {archivers[b].release : b \in Recording}'
    BY <1>1, <1>2, <2>3, <2>4, <2>6 DEF Versions
  <2> QED
    BY <1>1, <1>5, <2>5, <2>7, <2>8 DEF EvidenceStands, ChainHolds
<1> QED
  BY <1>1, <1>4, <1>5 DEF EvidenceInv

\* A line about a release that has none, added to a chain, makes a chain with one release more.
LEMMA LineIsAdded ==
  ASSUME NEW L \in Seq(Line), NEW r \in Releases
  PROVE  /\ Entry(L, r) \in Line /\ Append(L, Entry(L, r)) \in Seq(Line)
         /\ Versions(Append(L, Entry(L, r))) = Versions(L) \cup {r}
         /\ ChainHolds(L) /\ r \notin Versions(L) => ChainHolds(Append(L, Entry(L, r)))
<1> DEFINE line == Entry(L, r)  M == Append(L, line)  n == Len(L)
<1>1. DOMAIN L = 1..n /\ n \in Nat /\ \A i \in 1..n : L[i] \in Line
  BY LenProperties
<1>2. line.release = r /\ line.after = [i \in 1..n |-> L[i].release] /\ line \in Line
  <2>1. [i \in 1..n |-> L[i].release] \in [1..n -> Releases]
    BY <1>1 DEF Line
  <2>2. [i \in 1..n |-> L[i].release] \in Seq(Releases)
    BY <1>1, <2>1, SeqDef
  <2> QED
    BY <1>1, <2>2 DEF Entry, Line
<1> HIDE DEF line
<1>3. /\ M \in Seq(Line) /\ Len(M) = n + 1 /\ DOMAIN M = 1..n + 1
      /\ M[n + 1] = line /\ \A i \in 1..n : M[i] = L[i]
  BY <1>1, <1>2, AppendProperties, LenProperties
<1> HIDE DEF M, n
<1>4. Versions(M) = Versions(L) \cup {r}
  <2>1. \A i \in 1..n + 1 : i \in 1..n \/ i = n + 1
    BY <1>1
  <2>2. \A v \in Versions(M) : v \in Versions(L) \cup {r}
    BY <1>1, <1>2, <1>3, <2>1 DEF Versions
  <2>3. \A v \in Versions(L) : v \in Versions(M)
    BY <1>1, <1>3 DEF Versions
  <2>4. r \in Versions(M)
    BY <1>1, <1>2, <1>3 DEF Versions
  <2> QED
    BY <2>2, <2>3, <2>4
<1>5. ASSUME ChainHolds(L), r \notin Versions(L) PROVE ChainHolds(M)
  <2> SUFFICES ASSUME NEW i \in 1..n + 1
               PROVE  /\ M[i].after = [j \in 1..i - 1 |-> M[j].release]
                      /\ \A j \in 1..i - 1 : M[j].release # M[i].release
    BY <1>3 DEF ChainHolds
  <2>1. CASE i \in 1..n
    <3>1. \A j \in 1..i - 1 : M[j] = L[j] /\ j \in 1..n
      BY <1>1, <1>3, <2>1
    <3>2. [j \in 1..i - 1 |-> M[j].release] = [j \in 1..i - 1 |-> L[j].release]
      BY <3>1
    <3> QED
      BY <1>1, <1>3, <1>5, <2>1, <3>1, <3>2 DEF ChainHolds
  <2>2. CASE i = n + 1
    <3>1. i - 1 = n
      BY <1>1, <2>2
    <3>2. [j \in 1..n |-> M[j].release] = [j \in 1..n |-> L[j].release]
      BY <1>3
    <3>3. \A j \in 1..n : M[j].release # r
      BY <1>1, <1>3, <1>5 DEF Versions
    <3> QED
      BY <1>2, <1>3, <2>2, <3>1, <3>2, <3>3
  <2> QED
    BY <1>1, <2>1, <2>2
<1> QED
  BY <1>2, <1>3, <1>4, <1>5 DEF M, line

\* A line is added, and the run goes on with it or ends.
LEMMA EvidenceRecords ==
  ASSUME EvidenceInv, NEW a \in Archivers, archivers[a].at = "recording", NEW C \in Run,
         C.at = "choosing" \/ (C.at = "ended" /\ C.failed),
         C.at = "choosing" => C.known = Append(archivers[a].known, Entry(archivers[a].known, archivers[a].release)),
         C.todo = archivers[a].todo, C.complete = archivers[a].complete, ~C.failed => ~archivers[a].failed,
         Becomes(a, C), ledger' = Append(ledger, Entry(archivers[a].known, archivers[a].release)),
         UNCHANGED <<releases, folders, cutShort, overlapped>>, archiveFaults' \in 0..MaxArchiveFaults
  PROVE  EvidenceInv'
<1> PICK q \in Run : q = archivers[a]
  BY DEF EvidenceInv, EvidenceTypeOK
<1> PICK r \in Releases : r = q.release
  <2>1. q.release \in 0..MaxReleases /\ q.release # 0
    BY DEF EvidenceInv, EvidenceTypeOK, Run
  <2>2. q.release \in Releases
    BY <2>1, EvidenceAssumption DEF Releases, EvidenceAssumption
  <2> QED
    BY <2>2
<1> PICK line : line = Entry(q.known, r)
  OBVIOUS
<1>1. q.at = "recording" /\ ledger' = Append(ledger, line)
  OBVIOUS
<1>2. q.known \in Seq(Line) /\ ledger \in Seq(Line)
  BY DEF Run, EvidenceInv, EvidenceTypeOK
<1>3. line \in Line /\ Append(q.known, line) \in Seq(Line) /\ ledger' \in Seq(Line)
  BY <1>1, <1>2, LineIsAdded, AppendProperties
<1>4. C.at = "choosing" => C.known = Append(q.known, line)
  OBVIOUS
<1>5. /\ archivers' \in [Archivers -> Run] /\ archivers'[a] = C
      /\ \A b \in Archivers \ {a} : archivers'[b] = archivers[b]
  BY RunBecomes DEF EvidenceInv
<1>6. EvidenceTypeOK'
  BY <1>1, <1>3, <1>4, <1>5 DEF EvidenceInv, EvidenceTypeOK
<1>7. ASSUME EvidenceStands PROVE EvidenceStands'
  <2>1. UnderWay(a) /\ RunStands(a) /\ \A b \in Archivers \ {a} : ~UnderWay(b)
    BY <1>1, <1>7 DEF EvidenceStands, UnderWay
  <2>2. /\ q.known = ledger /\ r \notin Versions(ledger) /\ r \notin q.todo /\ q.todo \cap Versions(ledger) = {}
        /\ ~q.failed => q.complete \subseteq Versions(ledger) \cup q.todo \cup {r}
    BY <1>1, <2>1 DEF RunStands, Taken
  <2>3. ChainHolds(ledger') /\ Versions(ledger') = Versions(ledger) \cup {r}
    BY <1>1, <1>2, <1>7, <2>2, LineIsAdded DEF EvidenceStands
  <2>4. Recording = {a} /\ folders = Versions(ledger) \cup {r}
    <3>1. Recording = {a}
      BY <1>1, <2>1 DEF Recording, UnderWay
    <3> QED
      BY <1>7, <3>1 DEF EvidenceStands
  <2>5. \A b \in Archivers \ {a} : ~UnderWay(b)'
    BY <1>5, <2>1 DEF UnderWay
  <2>6. Recording' = {}
    BY <1>4, <1>5, <2>5 DEF Recording, UnderWay
  <2>7. \A b \in Archivers : RunStands(b)'
    <3>1. RunStands(a)'
      <4>1. Taken(a)' = {}
        BY <1>4, <1>5 DEF Taken
      <4>2. C.at = "choosing" => C.known = ledger'
        BY <1>1, <1>4, <2>2
      <4>3. q.complete = archivers[a].complete /\ \A s \in q.complete : releases[s] = "complete"
        BY <2>1 DEF RunStands
      <4> QED
        BY <1>1, <1>4, <1>5, <2>2, <2>3, <4>1, <4>2, <4>3 DEF RunStands, UnderWay
    <3>2. ASSUME NEW b \in Archivers \ {a} PROVE RunStands(b)'
      <4>1. RunStands(b) /\ archivers'[b] = archivers[b] /\ archivers[b].at \in {"idle", "ended"}
        BY <1>5, <1>7, <2>1 DEF EvidenceStands, UnderWay
      <4> QED
        BY <4>1, <1>1, <2>3 DEF RunStands, UnderWay
    <3> QED
      BY <3>1, <3>2
  <2>8. folders' = Versions(ledger)' \cup {archivers[b].release : b \in Recording}'
    <3>1. Versions(ledger)' = Versions(ledger')
      BY DEF Versions
    <3> QED
      BY <1>1, <2>3, <2>4, <2>6, <3>1
  <2>9. ChainHolds(ledger)'
    BY <2>3 DEF ChainHolds
  <2> QED
    BY <2>5, <2>7, <2>8, <2>9 DEF EvidenceStands
<1> QED
  BY <1>1, <1>6, <1>7 DEF EvidenceInv

LEMMA EvidenceAdds ==
  ASSUME EvidenceInv, NEW a \in Archivers, AddsLine(a) \/ AddingLineFails(a)
  PROVE  EvidenceInv'
<1> PICK q \in Run : q = archivers[a]
  BY DEF EvidenceInv, EvidenceTypeOK
<1> PICK r \in Releases : r = q.release
  <2>1. q.at = "recording"
    BY DEF AddsLine, AddingLineFails
  <2>2. q.release \in 0..MaxReleases /\ q.release # 0
    BY <2>1 DEF EvidenceInv, EvidenceTypeOK, Run
  <2>3. q.release \in Releases
    BY <2>2, EvidenceAssumption DEF Releases, EvidenceAssumption
  <2> QED
    BY <2>3
<1> PICK line : line = Entry(q.known, r)
  OBVIOUS
<1>1. line \in Line /\ Append(q.known, line) \in Seq(Line)
  BY LineIsAdded, AppendProperties DEF Run
<1>2. archiveFaults \in 0..MaxArchiveFaults /\ MaxArchiveFaults \in Nat
  BY EvidenceAssumption DEF EvidenceInv, EvidenceTypeOK, EvidenceAssumption
<1>3. CASE AddsLine(a)
  <2> DEFINE C == [q EXCEPT !.at = "choosing", !.known = Append(q.known, line)]
  <2>1. /\ C \in Run /\ C.at = "choosing" /\ C.known = Append(q.known, line) /\ C.todo = q.todo
        /\ C.complete = q.complete /\ C.failed = q.failed
    BY <1>1 DEF Run
  <2>2. /\ q.at = "recording" /\ Becomes(a, C) /\ ledger' = Append(ledger, line)
        /\ UNCHANGED <<releases, folders, cutShort, overlapped, archiveFaults>>
    BY <1>3 DEF AddsLine
  <2> HIDE DEF C
  <2> QED
    BY <1>2, <2>1, <2>2, EvidenceRecords
<1>4. CASE AddingLineFails(a)
  <2> DEFINE E == [q EXCEPT !.at = "ended", !.failed = TRUE]
  <2>1. E \in Run /\ E.at = "ended" /\ E.failed /\ E.todo = q.todo /\ E.complete = q.complete
    BY DEF Run
  <2>2. /\ q.at = "recording" /\ Becomes(a, E) /\ archiveFaults' \in 0..MaxArchiveFaults
        /\ UNCHANGED <<releases, folders, overlapped>>
    BY <1>2, <1>4 DEF AddingLineFails
  <2>3. \/ cutShort' = TRUE /\ ledger' = ledger
        \/ cutShort' = cutShort /\ ledger' = Append(ledger, line)
    BY <1>4 DEF AddingLineFails
  <2> HIDE DEF E
  <2>4. CASE cutShort' = TRUE /\ ledger' = ledger
    <3>1. /\ archivers' \in [Archivers -> Run] /\ archivers'[a] = E
          /\ \A b \in Archivers \ {a} : archivers'[b] = archivers[b]
      BY <2>1, <2>2, RunBecomes DEF EvidenceInv
    <3> QED
      BY <2>1, <2>2, <2>4, <3>1 DEF EvidenceInv, EvidenceTypeOK
  <2>5. CASE cutShort' = cutShort /\ ledger' = Append(ledger, line)
    BY <2>1, <2>2, <2>5, EvidenceRecords
  <2> QED
    BY <2>3, <2>4, <2>5
<1> QED
  BY <1>3, <1>4

\* Of any releases and runs: unless a run stopped or failed between a folder and its line, or two overlapped,
\* one run at a time knows the ledger as it is (RunStands), and so the ledger stays a chain.
THEOREM EvidenceInvariant == EvidenceSpec => []EvidenceInv
<1>1. EvidenceInv /\ [EvidenceNext]_evidenceVars => EvidenceInv'
  <2> SUFFICES ASSUME EvidenceInv, [EvidenceNext]_evidenceVars PROVE EvidenceInv'
    OBVIOUS
  <2>1. CASE UNCHANGED evidenceVars
    BY <2>1 DEF evidenceVars, EvidenceInv, EvidenceTypeOK, EvidenceStands, RunStands, UnderWay, Taken, Recording,
                Versions, ChainHolds
  <2> QED
    BY <2>1, EvidenceUploads, EvidenceReads, EvidenceQuiet, EvidenceFiles, EvidenceAdds DEF EvidenceNext
<1> QED
  BY <1>1, EvidenceInitInv, PTL DEF EvidenceSpec

\* Every variable of the archive has its type, always.
THEOREM EvidenceTyped == EvidenceSpec => []EvidenceTypeOK
BY EvidenceInvariant, PTL DEF EvidenceInv

\* EvidenceIsKept, always.
THEOREM EvidenceStaysKept == EvidenceSpec => []EvidenceIsKept
<1>1. EvidenceInv => EvidenceIsKept
  BY DEF EvidenceInv, EvidenceStands, EvidenceIsKept, RunArchivesAll, RunStands, Recording
<1> QED
  BY <1>1, EvidenceInvariant, PTL

-----------------------------------------------------------------------------
(***************************************************************************)
(* Backups                                                                 *)
(***************************************************************************)
\* However the set n came to be filed, retention would not keep it.
Removable(n) == n \notin Keep(FiledNames \cup {n})

BackupsStand ==
  /\ KeptSetsAreWhole
  /\ \A p \in Pulls : pulls[p].at \in {"thinning", "removing"} => \A n \in pulls[p].names : Removable(n)
  /\ \A p \in Pulls : pulls[p].at = "removing" => pulls[p].name \in pulls[p].names
  /\ \A p \in Pulls : pulls[p].at = "filing" => incoming[pulls[p].name] = "whole" \/ pulls[p].name \in shared
  /\ \A n \in SetNames : \A p, q \in Pulls :
       UsesIncoming(p, n) /\ UsesIncoming(q, n) /\ p # q => n \in shared

BackupsInv == BackupsTypeOK /\ BackupsStand

\* Days and weeks come in the order of the sets.
Partings == {f \in [SetNames -> 0..MaxSets] : \A m, n \in SetNames : m <= n => f[m] <= f[n]}

LEMMA PartsFollowTheSets ==
  ASSUME NEW d \in Nat \ {0}
  PROVE  [n \in SetNames |-> n \div d] \in Partings
<1> USE BackupsAssumption DEF BackupsAssumption
<1>1. \A n \in SetNames : n \in Nat /\ n <= MaxSets
  BY DEF SetNames
<1>2. ASSUME NEW n \in Nat PROVE n \div d \in Nat /\ d * (n \div d) <= n /\ n < d * (n \div d) + d
  OBVIOUS
<1>3. ASSUME NEW q \in Nat PROVE q <= d * q
  OBVIOUS
<1>4. \A n \in SetNames : n \div d \in 0..MaxSets
  BY <1>1, <1>2, <1>3
<1>5. ASSUME NEW a \in Nat, NEW b \in Nat, b < a PROVE d * b + d <= d * a
  <2>1. PICK c \in Nat : a = b + 1 + c
    <3>1. a - b - 1 \in Nat /\ a = b + 1 + (a - b - 1)
      BY <1>5
    <3> QED
      BY <3>1
  <2>2. d * a = d * b + d + d * c /\ d * c \in Nat
    BY <2>1
  <2>3. d * b \in Nat
    OBVIOUS
  <2> QED
    BY <2>2, <2>3
<1>6. ASSUME NEW m \in SetNames, NEW n \in SetNames, m <= n PROVE m \div d <= n \div d
  <2>1. m \in Nat /\ n \in Nat /\ m \div d \in Nat /\ n \div d \in Nat
    BY <1>1, <1>2
  <2>2. d * (m \div d) <= m /\ n < d * (n \div d) + d
    BY <1>2, <2>1
  <2>3. d * (m \div d) \in Nat /\ d * (n \div d) \in Nat
    BY <2>1
  <2>4. ~(n \div d < m \div d)
    BY <1>5, <1>6, <2>1, <2>2, <2>3
  <2> QED
    BY <2>1, <2>4
<1> QED
  BY <1>4, <1>6 DEF Partings

LEMMA DaysAndWeeks == Day \in Partings /\ Week \in Partings
BY PartsFollowTheSets, BackupsAssumption DEF Day, Week, BackupsAssumption

LEMMA SetNamesAreFinite ==
  /\ \A S \in SUBSET SetNames : IsFiniteSet(S) /\ Cardinality(S) \in Nat
  /\ \A S \in SUBSET (0..MaxSets) : IsFiniteSet(S) /\ Cardinality(S) \in Nat
  /\ SetNames \subseteq 0..MaxSets
  /\ \A n \in 0..MaxSets : n \in Int
<1>1. MaxSets \in Nat
  BY BackupsAssumption DEF BackupsAssumption
<1>2. SetNames \subseteq 0..MaxSets
  BY <1>1 DEF SetNames
<1>3. IsFiniteSet(0..MaxSets)
  BY <1>1, FS_Interval
<1>4. \A S \in SUBSET (0..MaxSets) : IsFiniteSet(S)
  BY <1>3, FS_Subset
<1>5. \A S \in SUBSET (0..MaxSets) : Cardinality(S) \in Nat
  BY <1>4, FS_CardinalityType
<1> QED
  BY <1>1, <1>2, <1>4, <1>5

\* How many members of a finite set of numbers are greater than a number.
Above(S, n) == {m \in S : m > n}

LEMMA AboveIsMonotone ==
  ASSUME NEW A \in SUBSET (0..MaxSets), NEW B \in SUBSET (0..MaxSets), NEW m \in 0..MaxSets, NEW n \in 0..MaxSets,
         Above(A, n) \subseteq Above(B, m)
  PROVE  /\ Cardinality(Above(A, n)) <= Cardinality(Above(B, m))
         /\ Cardinality(Above(A, n)) \in Nat /\ Cardinality(Above(B, m)) \in Nat
<1>1. Above(A, n) \in SUBSET (0..MaxSets) /\ Above(B, m) \in SUBSET (0..MaxSets)
  BY DEF Above
<1> QED
  BY <1>1, FS_Subset, SetNamesAreFinite

\* What is among the newest of a set is so in any that has no more above it.
LEMMA NewestIsMonotone ==
  ASSUME NEW A \in SUBSET (0..MaxSets), NEW B \in SUBSET (0..MaxSets), NEW n \in A, NEW k \in Nat, NEW m \in B,
         Above(A, n) \subseteq Above(B, m), m \in Newest(B, k)
  PROVE  n \in Newest(A, k)
<1>1. Cardinality(Above(B, m)) < k
  BY DEF Newest, Above
<1>2. Cardinality(Above(A, n)) < k
  BY <1>1, AboveIsMonotone
<1> QED
  BY <1>2 DEF Newest, Above

Parts(S, f) == {f[n] : n \in S}

LEMMA PartsAreNumbers ==
  ASSUME NEW f \in Partings, NEW S \in SUBSET SetNames
  PROVE  Parts(S, f) \in SUBSET (0..MaxSets)
BY DEF Partings, Parts

LEMMA NewestOfEachIsMonotone ==
  ASSUME NEW f \in Partings, NEW A \in SUBSET SetNames, NEW B \in SUBSET SetNames, NEW k \in Nat,
         NEW n \in A \cap B, Above(A, n) \subseteq B, n \in NewestOfEach(B, f, k)
  PROVE  n \in NewestOfEach(A, f, k)
<1>1. /\ f[n] \in Newest(Parts(B, f), k) /\ \A m \in B : f[m] = f[n] => m <= n
  BY DEF NewestOfEach, Parts
<1>2. \A m \in A : f[m] = f[n] => m <= n
  BY <1>1, SetNamesAreFinite DEF Above
<1>3. Above(Parts(A, f), f[n]) \subseteq Above(Parts(B, f), f[n])
  <2> SUFFICES ASSUME NEW d \in Above(Parts(A, f), f[n]) PROVE d \in Parts(B, f)
    BY DEF Above
  <2>1. PICK m \in A : d = f[m] /\ f[m] > f[n]
    BY DEF Above, Parts
  <2>2. m > n
    BY <2>1, SetNamesAreFinite DEF Partings
  <2> QED
    BY <2>1, <2>2 DEF Above, Parts
<1>4. f[n] \in Newest(Parts(A, f), k)
  BY <1>1, <1>3, PartsAreNumbers, NewestIsMonotone DEF Parts
<1> QED
  BY <1>2, <1>4 DEF NewestOfEach, Parts

\* A set that retention keeps among some is kept among any with nothing above it that they lack.
LEMMA KeepIsMonotone ==
  ASSUME NEW A \in SUBSET SetNames, NEW B \in SUBSET SetNames, NEW n \in A \cap B,
         Above(A, n) \subseteq B, n \in Keep(B)
  PROVE  n \in Keep(A)
<1> USE BackupsAssumption DEF BackupsAssumption
<1>1. A \in SUBSET (0..MaxSets) /\ B \in SUBSET (0..MaxSets)
  BY SetNamesAreFinite
<1>2. \A m \in A \cap B : m \in {n} \cup Above(A, n) /\ m \in Newest(B, Hourly) => m \in Newest(A, Hourly)
  <2> SUFFICES ASSUME NEW m \in A \cap B, m \in {n} \cup Above(A, n), m \in Newest(B, Hourly)
               PROVE  m \in Newest(A, Hourly)
    OBVIOUS
  <2>1. Above(A, m) \subseteq Above(B, m)
    <3>1. \A x \in A : x \in 0..MaxSets /\ x \in Int
      BY <1>1, SetNamesAreFinite
    <3>2. \A x \in A : x > m => x > n
      BY <3>1 DEF Above
    <3> QED
      BY <3>2 DEF Above
  <2> QED
    BY <1>1, <2>1, NewestIsMonotone
<1> SUFFICES ASSUME n \notin Newest(A, Hourly) PROVE n \in Keep(A)
  BY DEF Keep
<1> DEFINE P == A \ Newest(A, Hourly)  O == B \ Newest(B, Hourly)
<1>3. n \in P \cap O /\ P \in SUBSET SetNames /\ O \in SUBSET SetNames
  BY <1>2
<1>4. Above(P, n) \subseteq O
  BY <1>2 DEF Above
<1>5. n \in NewestOfEach(O, Day, Daily) \/ n \in NewestOfEach(O, Week, Weekly)
  BY <1>3 DEF Keep
<1> HIDE DEF P, O
<1>6. n \in NewestOfEach(P, Day, Daily) \/ n \in NewestOfEach(P, Week, Weekly)
  BY <1>3, <1>4, <1>5, DaysAndWeeks, NewestOfEachIsMonotone
<1> QED
  BY <1>6 DEF Keep, P

\* The removal of one that is not among the newest changes nothing for the others.
LEMMA NewestWithout ==
  ASSUME NEW S \in SUBSET (0..MaxSets), NEW m \in S, NEW k \in Nat, m \notin Newest(S, k)
  PROVE  Newest(S \ {m}, k) = Newest(S, k)
<1>1. ASSUME NEW n \in Newest(S \ {m}, k) PROVE n \in Newest(S, k)
  <2>0. n \in S \ {m} /\ n \in Int /\ m \in Int
    BY <1>1, SetNamesAreFinite DEF Newest
  <2>1. CASE n > m
    <3>1. Above(S, n) \subseteq Above(S \ {m}, n)
      BY <2>0, <2>1 DEF Above
    <3> QED
      BY <1>1, <2>0, <3>1, NewestIsMonotone
  <2>2. CASE n < m
    <3>1. \A x \in S : x \in Int
      BY SetNamesAreFinite
    <3>2. \A x \in S : x > m => x > n /\ x # m
      BY <2>0, <2>2, <3>1
    <3>3. Above(S, m) \subseteq Above(S \ {m}, n)
      BY <3>2 DEF Above
    <3> QED
      BY <1>1, <2>0, <3>3, NewestIsMonotone
  <2> QED
    BY <2>0, <2>1, <2>2
<1>2. ASSUME NEW n \in Newest(S, k) PROVE n \in Newest(S \ {m}, k)
  <2>1. n \in S \ {m} /\ Above(S \ {m}, n) \subseteq Above(S, n)
    BY <1>2 DEF Newest, Above
  <2> QED
    BY <1>2, <2>1, NewestIsMonotone
<1> QED
  BY <1>1, <1>2

LEMMA NewestOfEachWithout ==
  ASSUME NEW f \in Partings, NEW S \in SUBSET SetNames, NEW k \in Nat, NEW m \in S, m \notin NewestOfEach(S, f, k),
         NEW n \in NewestOfEach(S \ {m}, f, k)
  PROVE  n \in NewestOfEach(S, f, k)
<1>1. /\ n \in S \ {m} /\ f[n] \in Newest(Parts(S \ {m}, f), k)
      /\ \A x \in S \ {m} : f[x] = f[n] => x <= n
  BY DEF NewestOfEach, Parts
<1>2. /\ Parts(S, f) \in SUBSET (0..MaxSets) /\ Parts(S \ {m}, f) \in SUBSET (0..MaxSets)
      /\ f[m] \in 0..MaxSets /\ f[n] \in 0..MaxSets /\ m \in Int /\ n \in Int
      /\ f[m] \in Int /\ f[n] \in Int
  BY <1>1, PartsAreNumbers, SetNamesAreFinite DEF Partings
<1>3. Parts(S, f) = Parts(S \ {m}, f) \cup {f[m]}
  BY DEF Parts
<1>4. /\ f[m] \in Parts(S, f) /\ f[n] \in Parts(S, f) /\ f[n] \in Parts(S \ {m}, f)
  BY <1>1 DEF Parts
<1>5. ASSUME \A x \in S : f[x] = f[m] => x <= m PROVE f[m] \notin Newest(Parts(S, f), k)
  BY <1>5 DEF NewestOfEach, Parts
<1>6. \A x \in S : f[x] = f[n] => x <= n
  <2> SUFFICES ASSUME f[m] = f[n], m > n PROVE FALSE
    BY <1>1, <1>2
  <2>1. \A x \in S : x \in Int
    BY SetNamesAreFinite
  <2>2. \A x \in S : f[x] = f[m] => x <= m
    BY <1>1, <1>2, <2>1
  <2>3. Parts(S, f) = Parts(S \ {m}, f)
    BY <1>3, <1>4
  <2> QED
    BY <1>1, <1>5, <2>2, <2>3
<1>7. f[n] \in Newest(Parts(S, f), k)
  <2>1. CASE Above(Parts(S, f), f[n]) \subseteq Above(Parts(S \ {m}, f), f[n])
    BY <1>1, <1>2, <1>4, <2>1, NewestIsMonotone
  <2>2. CASE ~(Above(Parts(S, f), f[n]) \subseteq Above(Parts(S \ {m}, f), f[n]))
    <3>1. f[m] > f[n] /\ f[m] \notin Parts(S \ {m}, f)
      BY <1>3, <2>2 DEF Above
    <3>2. \A x \in S : f[x] = f[m] => x <= m
      BY <1>2, <3>1 DEF Parts
    <3>3. f[m] \notin Newest(Parts(S, f), k)
      BY <1>5, <3>2
    <3>4. Above(Parts(S, f), f[m]) \subseteq Above(Parts(S \ {m}, f), f[n])
      BY <1>2, <1>3, <3>1, SetNamesAreFinite DEF Above
    <3> QED
      BY <1>1, <1>2, <1>4, <3>3, <3>4, NewestIsMonotone
  <2> QED
    BY <2>1, <2>2
<1> QED
  BY <1>1, <1>6, <1>7 DEF NewestOfEach, Parts

\* When a set that is not kept goes, the same sets are kept as before.
LEMMA KeepWithout ==
  ASSUME NEW S \in SUBSET SetNames, NEW m \in S, m \notin Keep(S), NEW n \in Keep(S \ {m})
  PROVE  n \in Keep(S)
<1> USE BackupsAssumption DEF BackupsAssumption
<1> DEFINE O == S \ Newest(S, Hourly)
<1>1. S \in SUBSET (0..MaxSets) /\ m \notin Newest(S, Hourly)
  BY SetNamesAreFinite DEF Keep
<1>2. Newest(S \ {m}, Hourly) = Newest(S, Hourly)
  BY <1>1, NewestWithout
<1>3. /\ O \in SUBSET SetNames /\ m \in O /\ (S \ {m}) \ Newest(S \ {m}, Hourly) = O \ {m}
      /\ m \notin NewestOfEach(O, Day, Daily) /\ m \notin NewestOfEach(O, Week, Weekly)
  BY <1>1, <1>2 DEF Keep
<1>4. n \in Newest(S, Hourly) \/ n \in NewestOfEach(O \ {m}, Day, Daily) \/ n \in NewestOfEach(O \ {m}, Week, Weekly)
  BY <1>2, <1>3 DEF Keep
<1> HIDE DEF O
<1>5. n \in Newest(S, Hourly) \/ n \in NewestOfEach(O, Day, Daily) \/ n \in NewestOfEach(O, Week, Weekly)
  BY <1>3, <1>4, DaysAndWeeks, NewestOfEachWithout
<1> QED
  BY <1>5 DEF Keep, O

\* What retention would not keep, it still would not when another set is filed, or one that it would
\* not keep is removed; and of the sets that stay, none is kept that was not.
LEMMA RemovableStays ==
  ASSUME NEW S \in SUBSET SetNames, NEW x \in SetNames, NEW n \in SetNames, n \notin Keep(S \cup {n})
  PROVE  /\ n \notin Keep(S \cup {x} \cup {n})
         /\ x \notin Keep(S \cup {x}) => n \notin Keep((S \ {x}) \cup {n})
<1> DEFINE N == S \cup {n}
<1>1. N \in SUBSET SetNames /\ n \in N /\ n \notin Keep(N)
  OBVIOUS
<1>2. n \notin Keep(S \cup {x} \cup {n})
  <2> DEFINE B == S \cup {x} \cup {n}
  <2>1. B \in SUBSET SetNames /\ n \in N \cap B /\ Above(N, n) \subseteq B
    BY DEF Above
  <2> HIDE DEF B
  <2>2. n \notin Keep(B)
    BY <1>1, <2>1, KeepIsMonotone
  <2> QED
    BY <2>2 DEF B
<1>3. ASSUME x \notin Keep(S \cup {x}) PROVE n \notin Keep((S \ {x}) \cup {n})
  <2>1. CASE x \notin S \/ x = n
    <3>1. (S \ {x}) \cup {n} = N
      BY <2>1
    <3> QED
      BY <1>1, <3>1
  <2>2. CASE x \in S /\ x # n
    <3>1. (S \ {x}) \cup {n} = N \ {x} /\ S \cup {x} = S
      BY <2>2
    <3>2. Above(S, x) \subseteq N /\ x \in S \cap N
      BY <2>2 DEF Above
    <3> HIDE DEF N
    <3>3. x \notin Keep(N)
      BY <1>1, <1>3, <3>1, <3>2, KeepIsMonotone
    <3>4. n \notin Keep(N \ {x})
      BY <1>1, <3>2, <3>3, KeepWithout
    <3> QED
      BY <3>1, <3>4
  <2> QED
    BY <2>1, <2>2
<1> QED
  BY <1>2, <1>3

LEMMA KeptBefore ==
  ASSUME NEW S \in SUBSET SetNames, NEW x \in SetNames, NEW n \in S
  PROVE  /\ n \in Keep(S \cup {x}) => n \in Keep(S)
         /\ x \notin Keep(S \cup {x}) /\ n \in Keep(S \ {x}) => n \in Keep(S)
<1>1. ASSUME n \in Keep(S \cup {x}) PROVE n \in Keep(S)
  <2> DEFINE B == S \cup {x}
  <2>1. B \in SUBSET SetNames /\ n \in S \cap B /\ Above(S, n) \subseteq B
    BY DEF Above
  <2> HIDE DEF B
  <2>2. n \in Keep(B) => n \in Keep(S)
    BY <2>1, KeepIsMonotone
  <2> QED
    BY <1>1, <2>2 DEF B
<1>2. ASSUME x \notin Keep(S \cup {x}), n \in Keep(S \ {x}) PROVE n \in Keep(S)
  <2>1. CASE x \in S
    <3>1. S \cup {x} = S
      BY <2>1
    <3> QED
      BY <1>2, <2>1, <3>1, KeepWithout
  <2>2. CASE x \notin S
    <3>1. S \ {x} = S
      BY <2>2
    <3> QED
      BY <1>2, <3>1
  <2> QED
    BY <2>1, <2>2
<1> QED
  BY <1>1, <1>2

LEMMA KeptIsFiled ==
  ASSUME NEW S \in SUBSET SetNames
  PROVE  Keep(S) \subseteq S
BY DEF Keep, Newest, NewestOfEach

\* A pull's step keeps what stands, if it changes the directory only of the set in its hands, marks
\* as shared the set that it takes up from another, and removes and files what it may.
LEMMA PullTurns ==
  ASSUME BackupsInv, NEW p \in Pulls, NEW x \in Pull, Turns(p, x),
         made' = made, listed' = listed, flawed' = flawed, pullFaults' \in 0..MaxPullFaults,
         incoming' \in [SetNames -> Contents], filed' \in [SetNames -> Contents],
         shared \subseteq shared', shared' \subseteq SetNames,
         x.at \notin {"idle", "choosing", "thinning"} => x.name # 0,
         KeptSetsAreWhole', \A n \in SetNames : Removable(n) => Removable(n)',
         x.at \in {"thinning", "removing"} => \A n \in x.names : Removable(n)',
         x.at = "removing" => x.name \in x.names,
         x.at = "filing" => incoming'[x.name] = "whole" \/ x.name \in shared',
         \A n \in SetNames : incoming'[n] # incoming[n] => UsesIncoming(p, n) \/ UsesIncoming(p, n)',
         \A n \in SetNames : UsesIncoming(p, n)' =>
           UsesIncoming(p, n) \/ \A q \in Pulls \ {p} : UsesIncoming(q, n) => n \in shared'
  PROVE  BackupsInv'
<1>1. /\ pulls' \in [Pulls -> Pull] /\ pulls'[p] = x
      /\ \A q \in Pulls \ {p} : pulls'[q] = pulls[q]
  BY DEF BackupsInv, BackupsTypeOK, Turns
<1>2. BackupsTypeOK'
  BY <1>1 DEF BackupsInv, BackupsTypeOK
<1>3. \A n \in SetNames : \A q \in Pulls \ {p} : UsesIncoming(q, n)' <=> UsesIncoming(q, n)
  BY <1>1 DEF UsesIncoming
<1>4. \A n \in SetNames : \A q \in Pulls \ {p} :
        UsesIncoming(q, n) /\ (UsesIncoming(p, n) \/ UsesIncoming(p, n)') => n \in shared'
  BY DEF BackupsInv, BackupsStand
<1>5. \A n \in SetNames : \A q, r \in Pulls : UsesIncoming(q, n)' /\ UsesIncoming(r, n)' /\ q # r => n \in shared'
  BY <1>3, <1>4 DEF BackupsInv, BackupsStand
<1>6. \A q \in Pulls : pulls'[q].at \in {"thinning", "removing"} => \A n \in pulls'[q].names : Removable(n)'
  <2> SUFFICES ASSUME NEW q \in Pulls \ {p}, pulls[q].at \in {"thinning", "removing"}, NEW n \in pulls[q].names
               PROVE  Removable(n)'
    BY <1>1
  <2>1. n \in SetNames
    BY DEF BackupsInv, BackupsTypeOK, Pull
  <2> QED
    BY <2>1 DEF BackupsInv, BackupsStand
<1>7. \A q \in Pulls : pulls'[q].at = "removing" => pulls'[q].name \in pulls'[q].names
  BY <1>1 DEF BackupsInv, BackupsStand
<1>8. \A q \in Pulls : pulls'[q].at = "filing" => incoming'[pulls'[q].name] = "whole" \/ pulls'[q].name \in shared'
  <2> SUFFICES ASSUME NEW q \in Pulls \ {p}, pulls[q].at = "filing"
               PROVE  incoming'[pulls[q].name] = "whole" \/ pulls[q].name \in shared'
    BY <1>1
  <2>1. PICK n \in SetNames : n = pulls[q].name
    BY BackupsAssumption DEF BackupsInv, BackupsTypeOK, Pull, SetNames, BackupsAssumption
  <2>2. UsesIncoming(q, n) /\ (incoming[n] = "whole" \/ n \in shared)
    BY <2>1 DEF UsesIncoming, BackupsInv, BackupsStand
  <2> QED
    BY <1>4, <2>1, <2>2
<1> QED
  BY <1>2, <1>5, <1>6, <1>7, <1>8 DEF BackupsInv, BackupsStand

LEMMA FiledStays ==
  ASSUME filed' = filed, BackupsInv, shared \subseteq shared'
  PROVE  KeptSetsAreWhole' /\ \A n \in SetNames : Removable(n) => Removable(n)'
<1>1. FiledNames' = FiledNames
  BY DEF FiledNames
<1> QED
  BY <1>1 DEF BackupsInv, BackupsStand, KeptSetsAreWhole, Removable

LEMMA BackupsInitInv == BackupsInit => BackupsInv
<1> SUFFICES ASSUME BackupsInit PROVE BackupsInv
  OBVIOUS
<1>1. Resting \in Pull /\ Resting.at = "idle"
  BY BackupsAssumption DEF Resting, Pull, BackupsAssumption
<1>2. \A p \in Pulls : pulls[p] = Resting
  BY DEF BackupsInit
<1>3. /\ made \in 0..MaxSets /\ listed \subseteq 1..made /\ flawed \subseteq 1..made
      /\ incoming \in [SetNames -> Contents] /\ filed \in [SetNames -> Contents] /\ pulls \in [Pulls -> Pull]
      /\ shared \subseteq SetNames /\ pullFaults \in 0..MaxPullFaults
  BY <1>1, BackupsAssumption DEF BackupsInit, Contents, BackupsAssumption
<1>4. BackupsTypeOK
  BY <1>1, <1>2, <1>3 DEF BackupsTypeOK
<1>5. Keep(FiledNames) = {}
  <2>1. FiledNames = {}
    BY DEF BackupsInit, FiledNames
  <2> QED
    BY <2>1, KeptIsFiled
<1> QED
  BY <1>1, <1>2, <1>4, <1>5 DEF BackupsInv, BackupsStand, KeptSetsAreWhole, UsesIncoming

LEMMA BackupsMakeSet ==
  ASSUME BackupsInv, NEW good \in BOOLEAN, MakeSet(good)
  PROVE  BackupsInv'
<1>1. /\ made \in 0..MaxSets /\ made < MaxSets /\ made' = made + 1 /\ listed' \subseteq listed \cup {made'}
      /\ flawed' \subseteq flawed \cup {made'}
      /\ UNCHANGED <<incoming, filed, pulls, shared, pullFaults>>
  BY DEF MakeSet, Newest, BackupsInv, BackupsTypeOK
<1>2. /\ made' \in 0..MaxSets /\ 1..made \subseteq 1..made' /\ made' \in 1..made'
  BY <1>1, BackupsAssumption DEF BackupsAssumption
<1>3. BackupsTypeOK'
  BY <1>1, <1>2 DEF BackupsInv, BackupsTypeOK
<1>4. BackupsStand'
  BY <1>1 DEF BackupsInv, BackupsStand, KeptSetsAreWhole, FiledNames, Removable, UsesIncoming
<1> QED
  BY <1>3, <1>4 DEF BackupsInv

PullPlaces == {"idle", "choosing", "clearing", "fetching", "receiving", "checking", "filing", "quarantining",
               "thinning", "removing"}

LEMMA PullTakes ==
  ASSUME NEW q \in Pull, NEW place \in PullPlaces, NEW n \in SetNames
  PROVE  /\ [q EXCEPT !.at = place, !.name = n] \in Pull
         /\ [q EXCEPT !.at = place, !.name = n].at = place
         /\ [q EXCEPT !.at = place, !.name = n].name = n
         /\ [q EXCEPT !.at = place, !.name = n].names = q.names
<1>1. n \in 0..MaxSets
  BY SetNamesAreFinite
<1> QED
  BY <1>1 DEF Pull, PullPlaces

LEMMA PullGoes ==
  ASSUME NEW q \in Pull, NEW place \in PullPlaces
  PROVE  /\ [q EXCEPT !.at = place] \in Pull
         /\ [q EXCEPT !.at = place].at = place
         /\ [q EXCEPT !.at = place].name = q.name
BY DEF Pull, PullPlaces

LEMMA PullIsDone ==
  ASSUME NEW q \in Pull, NEW place \in PullPlaces
  PROVE  /\ [q EXCEPT !.at = place, !.names = q.names \ {q.name}] \in Pull
         /\ [q EXCEPT !.at = place, !.names = q.names \ {q.name}].at = place
         /\ [q EXCEPT !.at = place, !.names = q.names \ {q.name}].name = q.name
         /\ [q EXCEPT !.at = place, !.names = q.names \ {q.name}].names = q.names \ {q.name}
BY DEF Pull, PullPlaces

LEMMA ThinningStands ==
  /\ Thinning \in Pull /\ Thinning.at = "thinning"
  /\ \A n \in Thinning.names : Removable(n)
<1>1. FiledNames \in SUBSET SetNames
  BY DEF FiledNames
<1>2. \A n \in FiledNames \ Keep(FiledNames) : Removable(n)
  <2> SUFFICES ASSUME NEW n \in FiledNames \ Keep(FiledNames) PROVE Removable(n)
    OBVIOUS
  <2>1. FiledNames \cup {n} = FiledNames
    OBVIOUS
  <2> QED
    BY <2>1 DEF Removable
<1> QED
  BY <1>1, <1>2, BackupsAssumption DEF Thinning, Pull, BackupsAssumption

LEMMA BackupsPlans ==
  ASSUME BackupsInv, NEW p \in Pulls,
         Lists(p) \/ ListingFails(p) \/ PlansRetention(p) \/ PullEnds(p) \/ PullStops(p)
  PROVE  BackupsInv'
<1>1. /\ UNCHANGED <<made, listed, flawed, incoming, filed, shared>>
      /\ pullFaults' = pullFaults \/ (pullFaults < MaxPullFaults /\ pullFaults' = pullFaults + 1)
  BY DEF Lists, ListingFails, PlansRetention, PullEnds, PullStops
<1>2. /\ pullFaults' \in 0..MaxPullFaults /\ incoming' \in [SetNames -> Contents] /\ filed' \in [SetNames -> Contents]
      /\ shared' \subseteq SetNames
  BY <1>1, BackupsAssumption DEF BackupsInv, BackupsTypeOK, BackupsAssumption
<1>3. KeptSetsAreWhole' /\ \A n \in SetNames : Removable(n) => Removable(n)'
  BY <1>1, FiledStays
<1>4. \A x \in Pull : /\ Turns(p, x) /\ x.at \in {"idle", "choosing", "thinning"}
                      /\ (x.at = "thinning" => \A n \in x.names : Removable(n))
                      => BackupsInv'
  <2> SUFFICES ASSUME NEW x \in Pull, Turns(p, x), x.at \in {"idle", "choosing", "thinning"},
                      x.at = "thinning" => \A n \in x.names : Removable(n)
               PROVE  BackupsInv'
    OBVIOUS
  <2>1. pulls'[p] = x
    BY DEF Turns, BackupsInv, BackupsTypeOK
  <2>2. \A n \in SetNames : ~UsesIncoming(p, n)'
    BY <2>1 DEF UsesIncoming
  <2>3. \A n \in x.names : n \in SetNames
    BY DEF Pull
  <2> QED
    BY <1>1, <1>2, <1>3, <2>2, <2>3, PullTurns
<1> DEFINE l == [at |-> "choosing", name |-> 0, names |-> Keep(listed) \ FiledNames]
<1>5. l \in Pull /\ l.at = "choosing"
  <2>1. listed \in SUBSET SetNames
    BY BackupsAssumption DEF BackupsInv, BackupsTypeOK, SetNames, BackupsAssumption
  <2>2. Keep(listed) \ FiledNames \in SUBSET SetNames /\ 0 \in 0..MaxSets
    BY <2>1, KeptIsFiled, BackupsAssumption DEF BackupsAssumption
  <2> QED
    BY <2>2 DEF Pull
<1>6. Resting \in Pull /\ Resting.at = "idle"
  BY BackupsAssumption DEF Resting, Pull, BackupsAssumption
<1>7. Turns(p, l) \/ Turns(p, Thinning) \/ Turns(p, Resting)
  BY DEF Lists, ListingFails, PlansRetention, PullEnds, PullStops
<1> HIDE DEF l
<1> QED
  BY <1>4, <1>5, <1>6, <1>7, ThinningStands

LEMMA BackupsChooses ==
  ASSUME BackupsInv, NEW p \in Pulls, Chooses(p)
  PROVE  BackupsInv'
<1> PICK q \in Pull : q = pulls[p]
  BY DEF BackupsInv, BackupsTypeOK
<1>1. PICK n \in q.names :
        /\ Turns(p, [q EXCEPT !.at = "clearing", !.name = n])
        /\ incoming' = [incoming EXCEPT ![n] = IF incoming[n] = "none" THEN "none" ELSE "part"]
        /\ shared' = IF \E r \in Pulls \ {p} : UsesIncoming(r, n) THEN shared \cup {n} ELSE shared
  BY DEF Chooses, Newest
<1>2. n \in SetNames /\ n # 0 /\ UNCHANGED <<made, listed, flawed, filed, pullFaults>>
  BY BackupsAssumption DEF Chooses, Pull, SetNames, BackupsAssumption
<1> DEFINE x == [q EXCEPT !.at = "clearing", !.name = n]
<1>3. x \in Pull /\ x.at = "clearing" /\ x.name = n /\ Turns(p, x)
  BY <1>1, <1>2, PullTakes DEF PullPlaces
<1> HIDE DEF x
<1>4. /\ incoming' \in [SetNames -> Contents] /\ \A m \in SetNames : m # n => incoming'[m] = incoming[m]
      /\ filed' \in [SetNames -> Contents] /\ pullFaults' \in 0..MaxPullFaults
      /\ shared \subseteq shared' /\ shared' \subseteq SetNames
  BY <1>1, <1>2 DEF BackupsInv, BackupsTypeOK, Contents
<1>5. pulls'[p] = x
  BY <1>3 DEF Turns, BackupsInv, BackupsTypeOK
<1>6. \A m \in SetNames : UsesIncoming(p, m)' <=> m = n
  BY <1>3, <1>5 DEF UsesIncoming
<1>7. \A r \in Pulls \ {p} : UsesIncoming(r, n) => n \in shared'
  BY <1>1
<1>8. KeptSetsAreWhole' /\ \A m \in SetNames : Removable(m) => Removable(m)'
  BY <1>2, <1>4, FiledStays
<1>9. \A m \in SetNames : UsesIncoming(p, m)' =>
         UsesIncoming(p, m) \/ \A r \in Pulls \ {p} : UsesIncoming(r, m) => m \in shared'
  BY <1>6, <1>7
<1>10. \A m \in SetNames : incoming'[m] # incoming[m] => UsesIncoming(p, m) \/ UsesIncoming(p, m)'
  BY <1>4, <1>6
<1> QED
  BY <1>2, <1>3, <1>4, <1>8, <1>9, <1>10, PullTurns

\* The steps of a pull between taking a set up and being done with it, those apart that file.
LEMMA BackupsFetches ==
  ASSUME BackupsInv, NEW p \in Pulls,
         \/ Clears(p) \/ PullFetches(p) \/ Received(p) \/ PullFetchFails(p) \/ Checks(p) \/ Quarantines(p)
  PROVE  BackupsInv'
<1> PICK q \in Pull : q = pulls[p]
  BY DEF BackupsInv, BackupsTypeOK
<1>1. q.at \in {"clearing", "fetching", "receiving", "checking", "quarantining"}
  BY DEF Clears, PullFetches, Received, PullFetchFails, Checks, Quarantines
<1> PICK n \in SetNames : n = q.name
  BY <1>1, BackupsAssumption DEF BackupsInv, BackupsTypeOK, Pull, SetNames, BackupsAssumption
<1> DEFINE g(place) == [q EXCEPT !.at = place]
           d == [q EXCEPT !.at = "choosing", !.names = q.names \ {q.name}]
<1>2. UNCHANGED <<made, listed, flawed, filed, shared>>
  BY DEF Clears, PullFetches, Received, PullFetchFails, Checks, Quarantines
<1>3. pullFaults' = pullFaults \/ (pullFaults < MaxPullFaults /\ pullFaults' = pullFaults + 1)
  BY DEF Clears, PullFetches, Received, PullFetchFails, Checks, Quarantines
<1>4. incoming' = incoming \/ \E c \in Contents : incoming' = [incoming EXCEPT ![n] = c]
  <2>1. Clears(p) \/ PullFetchFails(p) \/ Quarantines(p) => incoming' = [incoming EXCEPT ![n] = "none"]
    BY DEF Clears, PullFetchFails, Quarantines
  <2>2. PullFetches(p) => incoming' = [incoming EXCEPT ![n] = "part"]
    BY DEF PullFetches
  <2>3. Received(p) => incoming' = [incoming EXCEPT ![n] = "bad"] \/ incoming' = [incoming EXCEPT ![n] = "whole"]
    BY DEF Received
  <2>4. Checks(p) => incoming' = incoming
    BY DEF Checks
  <2> QED
    BY <2>1, <2>2, <2>3, <2>4 DEF Contents
<1>5. \/ \E place \in {"fetching", "receiving", "checking", "quarantining"} : Turns(p, g(place))
      \/ Turns(p, g("filing")) /\ incoming' = incoming /\ incoming[n] = "whole"
      \/ Turns(p, d)
  <2>1. Clears(p) => Turns(p, g("fetching"))
    BY DEF Clears, Goes
  <2>2. PullFetches(p) => Turns(p, g("receiving"))
    BY DEF PullFetches, Goes
  <2>3. Received(p) => Turns(p, g("checking"))
    BY DEF Received, Goes
  <2>4. Checks(p) => \/ Turns(p, g("quarantining"))
                     \/ Turns(p, g("filing")) /\ incoming' = incoming /\ incoming[n] = "whole"
    BY DEF Checks, Goes
  <2>5. PullFetchFails(p) \/ Quarantines(p) => Turns(p, d)
    BY DEF PullFetchFails, Quarantines, DoneWith
  <2> HIDE DEF g, d
  <2> QED
    BY <2>1, <2>2, <2>3, <2>4, <2>5
<1>6. \A place \in PullPlaces : g(place) \in Pull /\ g(place).at = place /\ g(place).name = n
  BY PullGoes
<1>7. d \in Pull /\ d.at = "choosing" /\ d.name = n
  BY DEF Pull
<1> HIDE DEF g, d
<1>8. /\ incoming' \in [SetNames -> Contents] /\ \A m \in SetNames : m # n => incoming'[m] = incoming[m]
      /\ filed' \in [SetNames -> Contents] /\ shared' \subseteq SetNames /\ shared \subseteq shared'
  BY <1>2, <1>4 DEF BackupsInv, BackupsTypeOK
<1>9. pullFaults' \in 0..MaxPullFaults
  BY <1>3, BackupsAssumption DEF BackupsInv, BackupsTypeOK, BackupsAssumption
<1>10. KeptSetsAreWhole' /\ \A m \in SetNames : Removable(m) => Removable(m)'
  BY <1>2, <1>8, FiledStays
<1>11. UsesIncoming(p, n)
  BY <1>1 DEF UsesIncoming
<1>12. \A m \in SetNames : incoming'[m] # incoming[m] => UsesIncoming(p, m)
  BY <1>8, <1>11
<1>13. ASSUME NEW x \in Pull, Turns(p, x), x.name = n,
              x.at \in {"choosing", "fetching", "receiving", "checking", "quarantining", "filing"},
              x.at = "filing" => incoming'[n] = "whole"
       PROVE  BackupsInv'
  <2>1. pulls'[p] = x /\ n # 0
    BY <1>13, BackupsAssumption DEF Turns, BackupsInv, BackupsTypeOK, SetNames, BackupsAssumption
  <2>2. \A m \in SetNames : UsesIncoming(p, m)' => UsesIncoming(p, m)
    BY <1>11, <1>13, <2>1 DEF UsesIncoming
  <2> QED
    BY <1>2, <1>8, <1>9, <1>10, <1>12, <1>13, <2>1, <2>2, PullTurns
<1> QED
  BY <1>5, <1>6, <1>7, <1>13 DEF PullPlaces

LEMMA BackupsFiles ==
  ASSUME BackupsInv, NEW p \in Pulls, Files(p)
  PROVE  BackupsInv'
<1> PICK q \in Pull : q = pulls[p]
  BY DEF BackupsInv, BackupsTypeOK
<1> PICK n \in SetNames : n = q.name
  <2>1. q.at = "filing" /\ q.name # 0
    BY DEF Files, BackupsInv, BackupsTypeOK
  <2> QED
    BY <2>1, BackupsAssumption DEF Pull, SetNames, BackupsAssumption
<1> DEFINE d == [q EXCEPT !.at = "choosing", !.names = q.names \ {q.name}]
<1>1. /\ q.at = "filing" /\ incoming[n] # "none" /\ filed[n] = "none" /\ Turns(p, d)
      /\ filed' = [filed EXCEPT ![n] = incoming[n]] /\ incoming' = [incoming EXCEPT ![n] = "none"]
      /\ UNCHANGED <<made, listed, flawed, shared, pullFaults>>
  BY DEF Files, DoneWith
<1>2. d \in Pull /\ d.at = "choosing" /\ d.name = n
  BY DEF Pull
<1> HIDE DEF d
<1>3. /\ incoming' \in [SetNames -> Contents] /\ \A m \in SetNames : m # n => incoming'[m] = incoming[m]
      /\ filed' \in [SetNames -> Contents] /\ \A m \in SetNames : m # n => filed'[m] = filed[m]
      /\ filed'[n] = incoming[n] /\ shared' \subseteq SetNames /\ pullFaults' \in 0..MaxPullFaults
  BY <1>1 DEF BackupsInv, BackupsTypeOK, Contents
<1>4. FiledNames' = FiledNames \cup {n} /\ FiledNames \in SUBSET SetNames
  BY <1>1, <1>3 DEF FiledNames
<1>5. \A m \in SetNames : Removable(m) => Removable(m)'
  BY <1>4, RemovableStays DEF Removable
<1>6. KeptSetsAreWhole'
  <2> SUFFICES ASSUME NEW m \in Keep(FiledNames \cup {n}) PROVE filed'[m] = "whole" \/ m \in shared
    BY <1>1, <1>4 DEF KeptSetsAreWhole
  <2>1. m \in FiledNames \cup {n}
    BY <1>4, KeptIsFiled
  <2>2. CASE m = n
    BY <1>1, <1>3, <2>2 DEF BackupsInv, BackupsStand
  <2>3. CASE m \in FiledNames /\ m # n
    <3>1. m \in Keep(FiledNames)
      BY <1>4, <2>3, KeptBefore
    <3> QED
      BY <1>3, <1>4, <2>3, <3>1 DEF BackupsInv, BackupsStand, KeptSetsAreWhole
  <2> QED
    BY <2>1, <2>2, <2>3
<1>7. pulls'[p] = d
  BY <1>1 DEF Turns, BackupsInv, BackupsTypeOK
<1>8. UsesIncoming(p, n) /\ \A m \in SetNames : ~UsesIncoming(p, m)'
  BY <1>1, <1>2, <1>7 DEF UsesIncoming
<1> QED
  BY <1>1, <1>2, <1>3, <1>5, <1>6, <1>8, PullTurns

LEMMA BackupsRemoves ==
  ASSUME BackupsInv, NEW p \in Pulls, RemovalBegins(p) \/ RemovalEnds(p)
  PROVE  BackupsInv'
<1> PICK q \in Pull : q = pulls[p]
  BY DEF BackupsInv, BackupsTypeOK
<1>1. /\ q.at \in {"thinning", "removing"} /\ \A n \in q.names : n \in SetNames /\ Removable(n)
      /\ UNCHANGED <<made, listed, flawed, incoming, shared, pullFaults>>
  BY DEF RemovalBegins, RemovalEnds, BackupsInv, BackupsStand, Pull
<1>2. PICK n \in q.names :
        \/ /\ Turns(p, [q EXCEPT !.at = "removing", !.name = n])
           /\ filed' = [filed EXCEPT ![n] = IF filed[n] = "none" THEN "none" ELSE "part"]
        \/ /\ Turns(p, [q EXCEPT !.at = "thinning", !.names = q.names \ {q.name}])
           /\ filed' = [filed EXCEPT ![n] = "none"]
  BY DEF RemovalBegins, RemovalEnds, DoneWith, Newest, BackupsInv, BackupsStand
<1>3. n \in SetNames /\ Removable(n) /\ FiledNames \in SUBSET SetNames
  BY <1>1 DEF FiledNames
<1>4. /\ filed' \in [SetNames -> Contents] /\ \A m \in SetNames : m # n => filed'[m] = filed[m]
      /\ filed'[n] = "none" \/ (filed[n] # "none" /\ filed'[n] # "none")
  BY <1>2, <1>3 DEF BackupsInv, BackupsTypeOK, Contents
<1>5. FiledNames' = FiledNames \/ FiledNames' = FiledNames \ {n}
  BY <1>3, <1>4 DEF FiledNames
<1>6. \A m \in SetNames : Removable(m) => Removable(m)'
  BY <1>3, <1>5, RemovableStays DEF Removable
<1>7. KeptSetsAreWhole'
  <2> SUFFICES ASSUME NEW m \in Keep(FiledNames') PROVE filed'[m] = "whole" \/ m \in shared
    BY <1>1 DEF KeptSetsAreWhole
  <2>1. m \in FiledNames /\ m \in SetNames
    BY <1>3, <1>5, KeptIsFiled
  <2>2. m \in Keep(FiledNames)
    BY <1>3, <1>5, <2>1, KeptBefore DEF Removable
  <2>3. m # n
    <3>1. m = n => FiledNames \cup {n} = FiledNames
      BY <2>1
    <3> QED
      BY <1>3, <2>2, <3>1 DEF Removable
  <2> QED
    BY <1>4, <2>1, <2>2, <2>3 DEF BackupsInv, BackupsStand, KeptSetsAreWhole
<1> PICK x \in Pull : /\ Turns(p, x) /\ x.at \in {"removing", "thinning"} /\ x.names \subseteq q.names
                      /\ x.at = "removing" => x.name = n /\ x.names = q.names
  <2>1. n \in SetNames /\ "removing" \in PullPlaces /\ "thinning" \in PullPlaces
    BY <1>3 DEF PullPlaces
  <2>2. CASE Turns(p, [q EXCEPT !.at = "removing", !.name = n])
    <3> DEFINE c == [q EXCEPT !.at = "removing", !.name = n]
    <3>1. c \in Pull /\ c.at = "removing" /\ c.name = n /\ c.names = q.names
      <4>1. n \in 0..MaxSets
        BY <2>1, SetNamesAreFinite
      <4> QED
        BY <4>1 DEF Pull
    <3> HIDE DEF c
    <3> QED
      BY <2>2, <3>1 DEF c
  <2>3. CASE Turns(p, [q EXCEPT !.at = "thinning", !.names = q.names \ {q.name}])
    <3> DEFINE c == [q EXCEPT !.at = "thinning", !.names = q.names \ {q.name}]
    <3>1. c \in Pull /\ c.at = "thinning" /\ c.names = q.names \ {q.name}
      BY <2>1, PullIsDone
    <3> HIDE DEF c
    <3> QED
      BY <2>3, <3>1 DEF c
  <2> QED
    BY <1>2, <2>2, <2>3
<1>8. pulls'[p] = x
  BY DEF Turns, BackupsInv, BackupsTypeOK
<1>9. \A m \in SetNames : ~UsesIncoming(p, m)'
  BY <1>8 DEF UsesIncoming
<1>10. /\ incoming' \in [SetNames -> Contents] /\ shared' \subseteq SetNames /\ pullFaults' \in 0..MaxPullFaults
       /\ shared \subseteq shared' /\ n # 0
  BY <1>1, <1>3, BackupsAssumption DEF BackupsInv, BackupsTypeOK, SetNames, BackupsAssumption
<1>11. \A m \in x.names : Removable(m)'
  BY <1>1, <1>6
<1> QED
  BY <1>1, <1>4, <1>6, <1>7, <1>9, <1>10, <1>11, PullTurns

\* Of any sets, pulls and retention: what a pull is about to remove, retention would not keep, whatever
\* else is filed or removed meanwhile (Removable), and what it files it has checked, unless another
\* pull used the same directory.
THEOREM BackupsInvariant == BackupsSpec => []BackupsInv
<1>1. BackupsInv /\ [BackupsNext]_backupVars => BackupsInv'
  <2> SUFFICES ASSUME BackupsInv, [BackupsNext]_backupVars PROVE BackupsInv'
    OBVIOUS
  <2>1. CASE UNCHANGED backupVars
    BY <2>1 DEF backupVars, BackupsInv, BackupsTypeOK, BackupsStand, KeptSetsAreWhole, FiledNames, Removable,
                UsesIncoming
  <2>2. ASSUME NEW p \in Pulls, PullStep(p) \/ ListingFails(p) \/ PullFetchFails(p) \/ PullStops(p) PROVE BackupsInv'
    BY <2>2, BackupsPlans, BackupsChooses, BackupsFetches, BackupsFiles, BackupsRemoves DEF PullStep
  <2> QED
    BY <2>1, <2>2, BackupsMakeSet DEF BackupsNext
<1> QED
  BY <1>1, BackupsInitInv, PTL DEF BackupsSpec

\* Every variable of the backups has its type, always.
THEOREM BackupsTyped == BackupsSpec => []BackupsTypeOK
BY BackupsInvariant, PTL DEF BackupsInv

\* KeptSetsAreWhole, always.
THEOREM KeptSetsStayWhole == BackupsSpec => []KeptSetsAreWhole
<1>1. BackupsInv => KeptSetsAreWhole
  BY DEF BackupsInv, BackupsStand
<1> QED
  BY <1>1, BackupsInvariant, PTL

-----------------------------------------------------------------------------
(***************************************************************************)
(* Schedules: the clock                                                    *)
(***************************************************************************)
Zone == [before: Int, after: Int, change: Int]

\* Zones as ClocksChangeByTheHour has them.
Zones == {z \in Zone : /\ z.after - z.before \in {0, HourLength, -HourLength}
                       /\ z.after > z.before =>
                            ((z.change + z.before) % DayLength) + 2 * HourLength <= DayLength}

\* The instant that stands for a time of the wall clock: the first that shows it or, of one that the
\* clocks skip, the one as long after the change as it is after the last time before it.
Stands(w, z) ==
  IF w - z.before >= z.change /\ w - z.after >= z.change THEN w - z.after ELSE w - z.before

LEMMA EarliestIs ==
  ASSUME NEW S \in SUBSET Int, NEW t \in S, \A u \in S : t <= u
  PROVE  Earliest(S) = t
<1>1. \A v \in S : (\A u \in S : v <= u) => v = t
  OBVIOUS
<1> QED
  BY <1>1 DEF Earliest

LEMMA LatestIs ==
  ASSUME NEW S \in SUBSET Int, NEW t \in S, \A u \in S : t >= u
  PROVE  Latest(S) = t
<1>1. \A v \in S : (\A u \in S : v >= u) => v = t
  OBVIOUS
<1> QED
  BY <1>1 DEF Latest

LEMMA LocalToUtcStands ==
  ASSUME NEW w \in Int, NEW z \in Zones
  PROVE  /\ LocalToUtc(w, z) = Stands(w, z) /\ Stands(w, z) \in Int
         /\ \A u \in Int : u + OffsetAt(z, u) = w =>
              Stands(w, z) <= u /\ Stands(w, z) + OffsetAt(z, Stands(w, z)) = w
         /\ \A u \in Int : u + OffsetAt(z, u) = w => u <= Stands(w, z) + HourLength
         /\ Stands(w, z) + OffsetAt(z, Stands(w, z)) # w => Stands(w, z) = w - z.before
<1> USE SchedulesAssumption DEF SchedulesAssumption
<1>1. z.before \in Int /\ z.after \in Int /\ z.change \in Int /\ HourLength \in Nat
  BY DEF Zones, Zone
<1>2. z.after - z.before \in {0, HourLength, -HourLength}
  BY DEF Zones
<1>3. \A t \in Int : OffsetAt(z, t) = IF t < z.change THEN z.before ELSE z.after
  BY DEF OffsetAt
<1> PICK b \in Int, a \in Int, c \in Int : b = z.before /\ a = z.after /\ c = z.change
  BY <1>1
<1> PICK first \in Int : first = w - OffsetAt(z, w)
  BY <1>1, <1>3
<1> PICK second \in Int : second = w - OffsetAt(z, first)
  BY <1>1, <1>3
<1>4. first \in {w - a, w - b} /\ second = IF first < c THEN w - b ELSE w - a
  BY <1>3
<1> PICK s \in Int : s = Stands(w, z)
  BY <1>1 DEF Stands
<1>5. s = IF w - b >= c /\ w - a >= c THEN w - a ELSE w - b
  BY DEF Stands
<1>6. \A u \in Int : u + OffsetAt(z, u) = w =>
        s <= u /\ s + OffsetAt(z, s) = w /\ u <= s + HourLength
  <2> SUFFICES ASSUME NEW u \in Int, u + OffsetAt(z, u) = w
               PROVE  s <= u /\ s + OffsetAt(z, s) = w /\ u <= s + HourLength
    OBVIOUS
  <2>1. \/ u < c /\ u = w - b
        \/ u >= c /\ u = w - a
    BY <1>3
  <2>2. s + OffsetAt(z, s) = IF s < c THEN s + b ELSE s + a
    BY <1>3
  <2> QED
    BY <1>1, <1>2, <1>5, <2>1, <2>2
<1>7. s + OffsetAt(z, s) # w => s = w - b
  <2>1. s + OffsetAt(z, s) = IF s < c THEN s + b ELSE s + a
    BY <1>3
  <2> QED
    BY <1>5, <2>1
<1> DEFINE candidates == {t + h : t \in {first, second}, h \in {0, -HourLength, HourLength}}
           matches == {v \in candidates : v + OffsetAt(z, v) = w}
<1>8. LocalToUtc(w, z) = IF matches # {} THEN Earliest(matches) ELSE Latest({first, second})
  BY DEF LocalToUtc
<1>9. matches \in SUBSET Int
  BY <1>1
<1>10. CASE s + OffsetAt(z, s) = w
  <2>1. s \in {first, second} \/ s = first + HourLength \/ s = first - HourLength
    <3>1. s + OffsetAt(z, s) = IF s < c THEN s + b ELSE s + a
      BY <1>3
    <3> QED
      BY <1>1, <1>2, <1>4, <1>5, <1>10, <3>1
  <2>2. s \in candidates
    <3>1. first + 0 \in candidates /\ second + 0 \in candidates /\ first + HourLength \in candidates
          /\ first + (-HourLength) \in candidates
      OBVIOUS
    <3> QED
      BY <1>1, <2>1, <3>1
  <2>3. s \in matches /\ \A u \in matches : s <= u
    BY <1>6, <1>9, <1>10, <2>2
  <2> HIDE DEF matches
  <2>4. Earliest(matches) = s /\ matches # {}
    BY <1>9, <2>3, EarliestIs
  <2> QED
    BY <1>6, <1>7, <1>8, <2>4
<1>11. CASE s + OffsetAt(z, s) # w
  <2>1. matches = {}
    BY <1>6, <1>9, <1>11
  <2>2. s = w - b /\ s \in {first, second} /\ first <= s /\ second <= s
    <3>1. s + OffsetAt(z, s) = IF s < c THEN s + b ELSE s + a
      BY <1>3
    <3> QED
      BY <1>1, <1>2, <1>4, <1>5, <1>11, <3>1
  <2> HIDE DEF matches
  <2>3. Latest({first, second}) = s
    BY <2>2, LatestIs
  <2> QED
    BY <1>6, <1>7, <1>8, <2>1, <2>3
<1> QED
  BY <1>10, <1>11

\* Which day an instant is of.
LEMMA DayOf ==
  ASSUME NEW x \in Int, NEW d \in Int
  PROVE  /\ x \div DayLength \in Int /\ d * DayLength \in Int
         /\ x \div DayLength >= d <=> x >= d * DayLength
         /\ x = (x \div DayLength) * DayLength + (x % DayLength) /\ x % DayLength \in 0..DayLength - 1
<1> PICK D \in Nat \ {0} : D = DayLength
  BY SchedulesAssumption DEF SchedulesAssumption
<1> PICK q \in Int : q = x \div D
  OBVIOUS
<1>1. q * D <= x /\ x < q * D + D /\ x = q * D + (x % D) /\ x % D \in 0..D - 1
  OBVIOUS
<1>2. ASSUME NEW i \in Int, NEW j \in Int, i < j PROVE i * D + D <= j * D
  <2>1. PICK k \in Nat : j = i + 1 + k
    <3>1. j - i - 1 \in Nat /\ j = i + 1 + (j - i - 1)
      BY <1>2
    <3> QED
      BY <3>1
  <2>2. j * D = i * D + D + k * D /\ k * D \in Nat
    BY <2>1
  <2>3. i * D \in Int
    OBVIOUS
  <2> QED
    BY <2>2, <2>3
<1>3. q * D \in Int /\ d * D \in Int
  OBVIOUS
<1>4. q >= d <=> x >= d * D
  <2>1. CASE q < d
    BY <1>1, <1>2, <1>3, <2>1
  <2>2. CASE q = d
    BY <1>1, <2>2
  <2>3. CASE q > d
    BY <1>1, <1>2, <1>3, <2>3
  <2> QED
    BY <2>1, <2>2, <2>3
<1> QED
  BY <1>1, <1>3, <1>4

\* An instant of which it is known between which two midnights it is.
LEMMA DayIs ==
  ASSUME NEW x \in Int, NEW d \in Int, d * DayLength <= x, x < d * DayLength + DayLength
  PROVE  x \div DayLength = d
<1>1. d + 1 \in Int /\ DayLength \in Int /\ d * DayLength \in Int
  BY DayOf, SchedulesAssumption DEF SchedulesAssumption
<1>2. (d + 1) * DayLength = d * DayLength + DayLength
  BY <1>1
<1>3. x \div DayLength >= d
  BY DayOf
<1>4. ~(x >= (d + 1) * DayLength)
  BY <1>1, <1>2
<1>5. x \div DayLength \in Int /\ (x \div DayLength >= d + 1 <=> x >= (d + 1) * DayLength)
  BY <1>1, DayOf
<1> QED
  BY <1>3, <1>4, <1>5

LEMMA NextMidnight ==
  ASSUME NEW d \in Int, NEW e \in Int, d < e
  PROVE  /\ d * DayLength \in Int /\ e * DayLength \in Int
         /\ d * DayLength + DayLength <= e * DayLength
<1>1. d + 1 \in Int /\ DayLength \in Int /\ d * DayLength \in Int /\ e * DayLength \in Int
  BY DayOf, SchedulesAssumption DEF SchedulesAssumption
<1>2. (d + 1) * DayLength = d * DayLength + DayLength
  BY <1>1
<1> PICK x \in Int : x = e * DayLength
  BY <1>1
<1>3. x \div DayLength >= e /\ x \div DayLength \in Int
  BY DayOf
<1>4. x \div DayLength >= d + 1
  BY <1>3
<1>5. x >= (d + 1) * DayLength
  BY <1>1, <1>4, DayOf
<1> QED
  BY <1>1, <1>2, <1>5

LEMMA EarliestOf ==
  ASSUME NEW S \in SUBSET Int, S # {}, NEW after \in Int, \A t \in S : t > after
  PROVE  Earliest(S) \in S /\ \A t \in S : Earliest(S) <= t
<1> DEFINE T == {t - after : t \in S}
<1>1. T \subseteq Nat
  OBVIOUS
<1>2. T # {}
  <2>1. PICK t \in S : TRUE
    OBVIOUS
  <2>2. t - after \in T
    BY <2>1
  <2> QED
    BY <2>2
<1> HIDE DEF T
<1>3. PICK m \in T : \A n \in T : m <= n
  <2>1. PICK m \in T : \A n \in T : <<n, m>> \notin OpToRel(<, Nat)
    BY <1>1, <1>2, WFMin, NatLessThanWellFounded
  <2>2. \A n \in T : ~(n < m)
    BY <1>1, <2>1 DEF OpToRel
  <2>3. \A n \in T : m <= n
    <3> SUFFICES ASSUME NEW n \in T PROVE m <= n
      OBVIOUS
    <3>1. m \in Nat /\ n \in Nat /\ ~(n < m)
      BY <1>1, <2>1, <2>2
    <3> QED
      BY <3>1
  <2> QED
    BY <2>3
<1> USE DEF T
<1>4. PICK t \in S : m = t - after
  BY <1>3
<1>5. \A u \in S : t <= u
  <2> SUFFICES ASSUME NEW u \in S PROVE t <= u
    OBVIOUS
  <2>1. u - after \in T
    OBVIOUS
  <2>2. m <= u - after
    BY <1>3, <2>1
  <2> QED
    BY <1>4, <2>2
<1> QED
  BY <1>5, EarliestIs

\* What every schedule's settings are, where the clocks change by the hour.
Typed == [kind: {"once", "daily", "weekly"}, at: 0..(DayLength - 1), days: SUBSET Int, zone: Zones, enabled: BOOLEAN]

LEMMA FieldsAreTyped ==
  ASSUME ClocksChangeByTheHour
  PROVE  Fields \subseteq Typed
<1>1. \A f \in Settings : f \in Typed /\ [f EXCEPT !.enabled = FALSE] \in Typed
  BY SchedulesAssumption DEF SchedulesAssumption, ClocksChangeByTheHour, Typed, Zones, Zone
<1> QED
  BY <1>1 DEF Fields

\* The time that settings ask for on a day.
At(f, d) == d * DayLength + f.at

LEMMA SkippedHour ==
  ASSUME NEW x \in Int, NEW H \in Nat, (x % DayLength) + 2 * H <= DayLength, NEW w \in Int, x <= w, w < x + H
  PROVE  \E g \in Int : /\ g * DayLength <= w /\ w + H < g * DayLength + DayLength
                        /\ w < g * DayLength + DayLength
<1>1. PICK g \in Int : g = x \div DayLength
  BY DayOf
<1>2. PICK m \in Int : m = g * DayLength
  BY DayOf
<1>3. PICK r \in Int : r = x % DayLength /\ 0 <= r
  BY DayOf, SchedulesAssumption DEF SchedulesAssumption
<1>4. PICK D \in Int : D = DayLength
  BY SchedulesAssumption DEF SchedulesAssumption
<1>5. x = m + r
  BY <1>1, <1>2, <1>3, DayOf
<1>6. m <= w /\ w + H < m + D /\ w < m + D
  <2>1. r + 2 * H <= D
    BY <1>3, <1>4
  <2> QED
    BY <1>3, <1>5, <2>1
<1> QED
  BY <1>2, <1>4, <1>6

\* The hour that the clocks skip, and the one after it, are of one day: so is what stands for a time.
LEMMA StandsOnItsDay ==
  ASSUME NEW f \in Typed, NEW d \in Int
  PROVE  /\ At(f, d) \in Int /\ Stands(At(f, d), f.zone) \in Int
         /\ LocalDay(Stands(At(f, d), f.zone), f.zone) = d
<1> USE SchedulesAssumption DEF SchedulesAssumption
<1> PICK z \in Zones : z = f.zone
  BY DEF Typed
<1> PICK D \in Nat \ {0}, H \in Nat : D = DayLength /\ H = HourLength
  OBVIOUS
<1> PICK w \in Int : w = At(f, d)
  BY DayOf DEF At, Typed
<1> PICK s \in Int : s = Stands(w, z)
  BY LocalToUtcStands
<1> PICK b \in Int, a \in Int, c \in Int : b = z.before /\ a = z.after /\ c = z.change
  BY DEF Zones, Zone
<1>1. d * D <= w /\ w < d * D + D /\ d * D \in Int
  BY DayOf DEF At, Typed
<1>2. s = IF w - b >= c /\ w - a >= c THEN w - a ELSE w - b
  BY DEF Stands
<1>3. a - b \in {0, H, -H} /\ (a > b => ((c + b) % D) + 2 * H <= D)
  BY DEF Zones
<1>4. s + OffsetAt(z, s) = IF s < c THEN s + b ELSE s + a
  BY DEF OffsetAt
<1>5. d * D <= s + OffsetAt(z, s) /\ s + OffsetAt(z, s) < d * D + D
  <2>1. CASE s + OffsetAt(z, s) = w
    BY <1>1, <2>1
  <2>2. CASE s + OffsetAt(z, s) # w
    <3>1. w - b >= c /\ w - a < c /\ s = w - b /\ a > b /\ a = b + H
      BY <1>2, <1>3, <1>4, <2>2
    <3>2. ((c + b) % DayLength) + 2 * H <= DayLength /\ c + b <= w /\ w < c + b + H
      BY <1>3, <3>1
    <3>3. PICK x \in Int : x = c + b
      OBVIOUS
    <3>4. PICK g \in Int : /\ g * DayLength <= w /\ w + H < g * DayLength + DayLength
                           /\ w < g * DayLength + DayLength
      BY <3>2, <3>3, SkippedHour
    <3>5. d = g
      <4>1. w \div DayLength = d
        BY <1>1, DayIs
      <4>3. w \div DayLength = g
        BY <3>4, DayIs
      <4> QED
        BY <4>1, <4>3
    <3>6. s >= c /\ s + a = w + H
      BY <3>1
    <3>7. s + OffsetAt(z, s) = w + H
      BY <1>4, <3>6
    <3>8. w + H < d * D + D
      BY <3>4, <3>5
    <3> QED
      BY <1>1, <3>7, <3>8
  <2> QED
    BY <2>1, <2>2
<1> PICK l \in Int : l = s + OffsetAt(z, s)
  BY <1>4
<1>6. l \div DayLength = d
  BY <1>5, DayIs
<1> QED
  BY <1>6 DEF LocalDay

LEMMA StandsInOrder ==
  ASSUME ClocksChangeByTheHour, NEW f \in Typed, NEW d \in Int, NEW e \in Int, d < e
  PROVE  Stands(At(f, d), f.zone) < Stands(At(f, e), f.zone)
<1> USE SchedulesAssumption DEF SchedulesAssumption
<1> PICK z \in Zones : z = f.zone
  BY DEF Typed
<1> PICK w \in Int, v \in Int : w = At(f, d) /\ v = At(f, e)
  BY StandsOnItsDay
<1> PICK b \in Int, a \in Int, c \in Int : b = z.before /\ a = z.after /\ c = z.change
  BY DEF Zones, Zone
<1>1. v >= w + DayLength
  <2>1. d * DayLength + DayLength <= e * DayLength /\ d * DayLength \in Int /\ e * DayLength \in Int
    BY NextMidnight
  <2> QED
    BY <2>1 DEF At, Typed
<1>2. a - b \in {0, HourLength, -HourLength} /\ HourLength < DayLength
  BY DEF Zones, ClocksChangeByTheHour
<1>3. /\ Stands(w, z) = IF w - b >= c /\ w - a >= c THEN w - a ELSE w - b
      /\ Stands(v, z) = IF v - b >= c /\ v - a >= c THEN v - a ELSE v - b
  BY DEF Stands
<1> QED
  BY <1>1, <1>2, <1>3

\* What stands for a time of a day before the day of an instant is not after the instant.
LEMMA StandsBefore ==
  ASSUME NEW f \in Typed, NEW d \in Int, NEW t \in Int, d < LocalDay(t, f.zone)
  PROVE  Stands(At(f, d), f.zone) <= t
<1> USE SchedulesAssumption DEF SchedulesAssumption
<1> PICK z \in Zones : z = f.zone
  BY DEF Typed
<1> PICK w \in Int : w = At(f, d)
  BY StandsOnItsDay
<1> PICK s \in Int : s = Stands(w, z)
  BY StandsOnItsDay
<1> PICK b \in Int, a \in Int, c \in Int : b = z.before /\ a = z.after /\ c = z.change
  BY DEF Zones, Zone
<1> PICK l \in Int : l = t + OffsetAt(z, t) /\ l = IF t < c THEN t + b ELSE t + a
  BY DEF OffsetAt
<1> PICK g \in Int : g = l \div DayLength /\ d < g /\ g * DayLength <= l
  <2>1. l \div DayLength \in Int /\ LocalDay(t, z) = l \div DayLength
    BY DayOf DEF LocalDay
  <2>2. PICK g \in Int : g = l \div DayLength
    BY <2>1
  <2>3. d < g
    BY <2>1, <2>2
  <2>4. l \div DayLength >= g <=> l >= g * DayLength
    BY DayOf
  <2>5. g * DayLength <= l
    BY <2>2, <2>4
  <2> QED
    BY <2>2, <2>3, <2>5
<1> PICK n \in Int : n = d * DayLength + DayLength
  BY DayOf
<1>1. n <= l /\ d * DayLength \in Int
  BY NextMidnight
<1>2. w < n
  BY <1>1 DEF At, Typed
<1> PICK m \in Int : m = s + OffsetAt(z, s) /\ m = IF s < c THEN s + b ELSE s + a
  BY DEF OffsetAt
<1>3. m < n
  <2>1. m \div DayLength = d
    BY StandsOnItsDay DEF LocalDay
  <2>2. PICK e \in Int : e = d + 1
    OBVIOUS
  <2>4. m \div DayLength >= e <=> m >= e * DayLength
    BY DayOf
  <2>5. ~(m >= (d + 1) * DayLength)
    BY <2>1, <2>2, <2>4
  <2>3. (d + 1) * DayLength = n
    OBVIOUS
  <2> QED
    BY <2>3, <2>5
<1>4. s = IF w - b >= c /\ w - a >= c THEN w - a ELSE w - b
  BY DEF Stands
<1> QED
  BY <1>1, <1>2, <1>3, <1>4

\* When settings are to run: what stands for their time on a day that they run on.
LEMMA RunTimeStands ==
  ASSUME ClocksChangeByTheHour, NEW f \in Typed, NEW t \in Int
  PROVE  IsRunTime(f, t) <=> \E d \in Int : RunsOn(f, d) /\ t = Stands(At(f, d), f.zone)
<1> DEFINE shown(d) == {u \in t - 2 * DayLength..t + 2 * DayLength : u + OffsetAt(f.zone, u) = At(f, d)}
           days == LocalDay(t, f.zone) - 1..LocalDay(t, f.zone) + 1
<1>1. IsRunTime(f, t) <=> \E d \in days : /\ RunsOn(f, d)
                                          /\ IF shown(d) # {} THEN t = Earliest(shown(d))
                                                              ELSE t = At(f, d) - f.zone.before
  BY DEF IsRunTime, At
<1>2. LocalDay(t, f.zone) \in Int /\ days \subseteq Int
  <2> PICK x \in Int : x = t + OffsetAt(f.zone, t)
    BY DEF OffsetAt, Typed, Zones, Zone
  <2> QED
    BY DayOf DEF LocalDay
<1>3. /\ DayLength \in Nat /\ HourLength \in Nat /\ HourLength < DayLength
      /\ \A u \in Int : t - HourLength <= u /\ u <= t + HourLength => u \in t - 2 * DayLength..t + 2 * DayLength
  BY SchedulesAssumption DEF SchedulesAssumption, ClocksChangeByTheHour
<1>4. \A d \in Int : shown(d) \in SUBSET Int
  BY <1>3
<1>5. ASSUME NEW d \in Int
      PROVE  (IF shown(d) # {} THEN t = Earliest(shown(d)) ELSE t = At(f, d) - f.zone.before)
               <=> t = Stands(At(f, d), f.zone)
  <2>1. PICK z \in Zones : z = f.zone
    BY DEF Typed
  <2>2. PICK w \in Int : w = At(f, d)
    BY StandsOnItsDay
  <2>3. PICK s \in Int : s = Stands(w, z)
    BY LocalToUtcStands
  <2>4. /\ \A u \in Int : u + OffsetAt(z, u) = w => s <= u /\ s + OffsetAt(z, s) = w /\ u <= s + HourLength
        /\ s + OffsetAt(z, s) # w => s = w - z.before
    BY <2>3, LocalToUtcStands
  <2>5. shown(d) = {u \in t - 2 * DayLength..t + 2 * DayLength : u + OffsetAt(z, u) = w}
    BY <2>1, <2>2
  <2>6. \A u, v \in Int : u + OffsetAt(z, u) = w /\ v + OffsetAt(z, v) = w => u = s \/ v = s \/ u = v
    <3>1. PICK b \in Int, a \in Int, c \in Int : b = z.before /\ a = z.after /\ c = z.change
      BY DEF Zones, Zone
    <3>2. \A u \in Int : u + OffsetAt(z, u) = IF u < c THEN u + b ELSE u + a
      BY <3>1 DEF OffsetAt
    <3>3. s \in {w - a, w - b}
      BY <2>3, <3>1 DEF Stands
    <3>4. s + OffsetAt(z, s) # w => \A u \in Int : u + OffsetAt(z, u) # w
      BY <2>4
    <3> SUFFICES ASSUME NEW u \in Int, NEW v \in Int, u + OffsetAt(z, u) = w, v + OffsetAt(z, v) = w
                 PROVE  u = s \/ v = s \/ u = v
      OBVIOUS
    <3>5. u \in {w - a, w - b} /\ v \in {w - a, w - b}
      BY <3>2
    <3> QED
      BY <3>3, <3>5
  <2>7. w - z.before \in Int /\ s - HourLength <= w - z.before /\ w - z.before <= s + HourLength
    <3> PICK b \in Int, a \in Int, c \in Int : b = z.before /\ a = z.after /\ c = z.change
      BY DEF Zones, Zone
    <3>1. s = w - a \/ s = w - b
      BY <2>3 DEF Stands
    <3>2. a - b \in {0, HourLength, -HourLength}
      BY DEF Zones
    <3> HIDE DEF shown, days
    <3> QED
      BY <1>3, <3>1, <3>2
  <2>8. ASSUME t = s PROVE IF shown(d) # {} THEN t = Earliest(shown(d)) ELSE t = w - z.before
    <3>1. t \in t - 2 * DayLength..t + 2 * DayLength
      BY <1>3
    <3>2. CASE shown(d) # {}
      <4>1. PICK u \in shown(d) : TRUE
        BY <3>2
      <4>2. u \in Int /\ u + OffsetAt(z, u) = w
        BY <1>4, <2>5, <4>1
      <4>3. t \in shown(d)
        BY <2>4, <2>5, <2>8, <3>1, <4>2
      <4>4. \A v \in shown(d) : t <= v
        BY <1>4, <2>4, <2>5, <2>8
      <4> QED
        BY <1>4, <3>2, <4>3, <4>4, EarliestIs
    <3>3. CASE shown(d) = {}
      <4>1. t + OffsetAt(z, t) # w
        BY <2>5, <3>1, <3>3
      <4> QED
        BY <2>4, <2>8, <3>3, <4>1
    <3> QED
      BY <3>2, <3>3
  <2>9. ASSUME shown(d) # {}, t = Earliest(shown(d)) PROVE t = s
    <3>1. \A v \in shown(d) : v \in Int /\ v + OffsetAt(z, v) = w /\ s <= v /\ v <= s + HourLength
      BY <1>4, <2>4, <2>5
    <3>2. CASE s \in shown(d)
      <4>1. \A v \in shown(d) : s <= v
        BY <3>1
      <4> QED
        BY <1>4, <2>9, <3>2, <4>1, EarliestIs
    <3>3. CASE s \notin shown(d)
      <4>1. PICK u \in shown(d) : TRUE
        BY <2>9
      <4>2. \A v \in shown(d) : v = u
        BY <2>6, <3>1, <3>3, <4>1
      <4>3. \A v \in shown(d) : u <= v
        BY <3>1, <4>2
      <4>4. t = u
        BY <1>4, <2>9, <4>1, <4>3, EarliestIs
      <4>5. s \in t - 2 * DayLength..t + 2 * DayLength
        BY <1>3, <3>1, <4>1, <4>4
      <4>6. s + OffsetAt(z, s) = w
        BY <2>4, <3>1, <4>1
      <4> QED
        BY <2>5, <3>3, <4>5, <4>6
    <3> QED
      BY <3>2, <3>3
  <2>10. ASSUME shown(d) = {}, t = w - z.before PROVE t = s
    <3>1. s \in t - 2 * DayLength..t + 2 * DayLength
      BY <1>3, <2>7, <2>10
    <3>2. s + OffsetAt(z, s) # w
      BY <2>5, <2>10, <3>1
    <3> QED
      BY <2>4, <2>10, <3>2
  <2> HIDE DEF shown
  <2> QED
    BY <2>1, <2>2, <2>3, <2>8, <2>9, <2>10
<1>6. \A d \in Int : t = Stands(At(f, d), f.zone) => d \in days
  <2> SUFFICES ASSUME NEW d \in Int, t = Stands(At(f, d), f.zone) PROVE d \in days
    OBVIOUS
  <2>1. LocalDay(t, f.zone) = d
    BY StandsOnItsDay
  <2> QED
    BY <2>1
<1> HIDE DEF shown, days
<1> QED
  BY <1>1, <1>2, <1>5, <1>6

\* The first run after an instant is a time that the settings run at, and they run at none between.
LEMMA NextRunIsTheNext ==
  ASSUME ClocksChangeByTheHour, NEW f \in Typed, NEW after \in Int, NextRun(f, after) # None
  PROVE  /\ NextRun(f, after) \in Int /\ NextRun(f, after) > after
         /\ IsRunTime(f, NextRun(f, after))
         /\ \A t \in after + 1..NextRun(f, after) - 1 : ~IsRunTime(f, t)
<1> DEFINE today == LocalDay(after, f.zone)
           days == IF f.kind = "once" THEN f.days ELSE {d \in today..today + 9 : RunsOn(f, d)}
           later == {t \in {LocalToUtc(d * DayLength + f.at, f.zone) : d \in days} : t > after}
<1>1. NextRun(f, after) = IF later = {} THEN None ELSE Earliest(later)
  BY DEF NextRun
<1>2. today \in Int /\ days \in SUBSET Int /\ f.zone \in Zones
  <2> PICK x \in Int : x = after + OffsetAt(f.zone, after)
    BY DEF OffsetAt, Typed, Zones, Zone
  <2> QED
    BY DayOf DEF LocalDay, Typed
<1>3. \A d \in days : RunsOn(f, d)
  BY DEF RunsOn
<1>4. \A d \in Int : LocalToUtc(d * DayLength + f.at, f.zone) = Stands(At(f, d), f.zone)
  <2> SUFFICES ASSUME NEW d \in Int PROVE LocalToUtc(At(f, d), f.zone) = Stands(At(f, d), f.zone)
    BY DEF At
  <2> QED
    BY <1>2, StandsOnItsDay, LocalToUtcStands
<1> HIDE DEF today, days
<1>5. \A t : t \in later <=> t > after /\ \E d \in days : t = Stands(At(f, d), f.zone)
  BY <1>2, <1>4
<1> HIDE DEF later
<1>6. \A t \in later : t \in Int /\ t > after
  BY <1>2, <1>5, StandsOnItsDay
<1>7. PICK n : n = NextRun(f, after)
  OBVIOUS
<1>8. n \in later /\ \A t \in later : n <= t
  <2>1. later # {} /\ later \in SUBSET Int
    BY <1>1, <1>6
  <2> QED
    BY <1>1, <1>6, <1>7, <2>1, EarliestOf
<1>9. PICK e \in days : n = Stands(At(f, e), f.zone)
  BY <1>5, <1>8
<1>10. n \in Int /\ n > after /\ IsRunTime(f, n)
  BY <1>2, <1>3, <1>6, <1>8, <1>9, RunTimeStands
<1>11. ASSUME NEW t \in after + 1..n - 1, IsRunTime(f, t) PROVE FALSE
  <2>1. t \in Int /\ t > after /\ t < n
    BY <1>10, <1>11
  <2>2. PICK d \in Int : RunsOn(f, d) /\ t = Stands(At(f, d), f.zone)
    BY <1>11, <2>1, RunTimeStands
  <2>3. d \notin days
    BY <1>5, <1>8, <1>10, <2>1, <2>2
  <2>4. f.kind # "once" /\ d \notin today..today + 9 /\ e \in today..today + 9
    BY <2>2, <2>3 DEF days, RunsOn
  <2>5. CASE d < today
    <3>1. t <= after
      BY <2>2, <2>5, StandsBefore DEF today
    <3> QED
      BY <2>1, <3>1
  <2>6. CASE e < d
    <3>1. n < t
      BY <1>2, <1>9, <2>2, <2>6, StandsInOrder
    <3> QED
      BY <1>10, <2>1, <3>1
  <2> QED
    BY <1>2, <2>4, <2>5, <2>6
<1> QED
  BY <1>7, <1>10, <1>11
-----------------------------------------------------------------------------
(***************************************************************************)
(* Schedules: rows, rounds and tasks                                       *)
(***************************************************************************)
Round == [at: {"idle", "choosing", "submitting", "accepted", "creating", "missed", "error"},
          claims: SUBSET Claim, claim: {None} \union Claim, left: SUBSET Machines,
          machine: {None} \union Machines]

\* What an enabled schedule waits for was reckoned from the instant of its last change.
RowsStand ==
  \A s \in ScheduleIds : schedules[s] # None /\ schedules[s].fields.enabled =>
    schedules[s].next # None /\ schedules[s].next = NextRun(schedules[s].fields, schedules[s].changed)

\* A task's key is its plan and its machine, and there is one of each.
TasksStand ==
  /\ \A t \in tasks : t \in [key: {<<t.plan, t.machine>>}, plan: {t.plan}, machine: Machines, active: BOOLEAN]
  /\ \A t, u \in tasks : t.key = u.key => t = u

\* A round at rest holds nothing, and one that chooses holds no claim apart from the others.
RoundsStand ==
  \A e \in Executors : /\ executors[e].at = "idle" => executors[e] = NoRound
                       /\ executors[e].at = "choosing" => executors[e].claim = None
                       /\ executors[e].machine # None <=> executors[e].at \in {"accepted", "creating"}

ExecutorsTyped == executors \in [Executors -> Round]
CountsTyped == /\ time \in 0..MaxTime /\ owner \in BOOLEAN /\ saves \in 0..MaxSaves /\ stops \in 0..MaxStops
RowsTyped == schedules \in [ScheduleIds -> {None} \union Row] /\ save \in {None} \union Save

RunsStand == ExecutorsTyped /\ RoundsStand /\ ClaimedIsKept

SchedulesInv == CountsTyped /\ RowsTyped /\ RowsStand /\ TasksStand /\ RunsStand

LEMMA NoRoundIsTyped ==
  /\ NoRound \in Round /\ NoRound.at = "idle" /\ NoRound.claim = None /\ NoRound.claims = {} /\ NoRound.machine = None
BY DEF NoRound, Round

LEMMA SchedulesBegin == SchedulesInit => SchedulesInv
<1> SUFFICES ASSUME SchedulesInit PROVE SchedulesInv
  OBVIOUS
<1> USE SchedulesAssumption DEF SchedulesAssumption
<1>1. CountsTyped /\ RowsTyped /\ RowsStand /\ TasksStand
  BY DEF SchedulesInit, CountsTyped, RowsTyped, RowsStand, TasksStand
<1>2. ExecutorsTyped /\ RoundsStand
  BY NoRoundIsTyped DEF SchedulesInit, ExecutorsTyped, RoundsStand
<1>3. ClaimedIsKept
  BY DEF SchedulesInit, ClaimedIsKept
<1> QED
  BY <1>1, <1>2, <1>3 DEF SchedulesInv, RunsStand

\* What a typed round holds besides none: its claims and, chosen from them, its claim.
LEMMA OneRound ==
  ASSUME RunsStand, NEW e \in Executors, NEW x \in Round, Proceeds(e, x),
         x.at = "idle" => x = NoRound,
         x.at = "choosing" => x.claim = None,
         x.machine # None <=> x.at \in {"accepted", "creating"}
  PROVE  /\ ExecutorsTyped' /\ RoundsStand'
         /\ executors'[e] = x /\ \A d \in Executors \ {e} : executors'[d] = executors[d]
<1>1. /\ executors' \in [Executors -> Round] /\ executors'[e] = x
      /\ \A d \in Executors \ {e} : executors'[d] = executors[d]
  BY DEF Proceeds, RunsStand, ExecutorsTyped
<1>2. \A d \in Executors : \/ executors'[d] = x
                           \/ executors'[d] = executors[d]
  BY <1>1
<1> QED
  BY <1>1, <1>2 DEF RunsStand, ExecutorsTyped, RoundsStand

\* A round that drops nothing leaves no claim behind.
LEMMA KeepsItsClaims ==
  ASSUME RunsStand, NEW e \in Executors, NEW x \in Round, Proceeds(e, x),
         x.at = "idle" => x = NoRound,
         x.at = "choosing" => x.claim = None,
         x.machine # None <=> x.at \in {"accepted", "creating"},
         \A c \in InHand(e) : c \in x.claims \union ({x.claim} \ {None}) \/ Plan(c) \notin unkept',
         unkept' \subseteq unkept
  PROVE  RunsStand'
<1>1. /\ ExecutorsTyped' /\ RoundsStand'
      /\ executors'[e] = x /\ \A d \in Executors \ {e} : executors'[d] = executors[d]
  BY OneRound
<1>2. ClaimedIsKept'
  <2> SUFFICES ASSUME NEW p \in unkept' PROVE \E r \in Runners : \E c \in InHand(r)' : Plan(c) = p
    BY DEF ClaimedIsKept
  <2>1. PICK r \in Runners : \E c \in InHand(r) : Plan(c) = p
    BY DEF RunsStand, ClaimedIsKept
  <2>2. PICK c \in InHand(r) : Plan(c) = p
    BY <2>1
  <2>3. c \in InHand(r)'
    BY <1>1, <2>2 DEF InHand, Executors
  <2> QED
    BY <2>2, <2>3
<1> QED
  BY <1>1, <1>2 DEF RunsStand

\* A machine is done with, or another is taken up: the same claims.
LEMMA KeepsOnSubmitting ==
  ASSUME RunsStand, NEW e \in Executors, NEW place \in {"submitting", "accepted", "creating"},
         NEW left \in SUBSET Machines, NEW m \in {None} \union Machines,
         m # None <=> place \in {"accepted", "creating"},
         Proceeds(e, [executors[e] EXCEPT !.at = place, !.left = left, !.machine = m]), UNCHANGED unkept
  PROVE  RunsStand'
<1>1. executors[e] \in Round
  BY DEF RunsStand, ExecutorsTyped
<1>2. PICK x : x = [executors[e] EXCEPT !.at = place, !.left = left, !.machine = m]
  OBVIOUS
<1>3. /\ x \in Round /\ x.at = place /\ x.machine = m
      /\ x.claims = executors[e].claims /\ x.claim = executors[e].claim
  BY <1>1, <1>2 DEF Round
<1> QED
  BY <1>2, <1>3, KeepsItsClaims DEF InHand

LEMMA MachineDoneStands ==
  ASSUME RunsStand, NEW e \in Executors, MachineDone(e), UNCHANGED unkept
  PROVE  RunsStand'
<1>1. executors[e] \in Round
  BY DEF RunsStand, ExecutorsTyped
<1>2. \A q \in Round : [q EXCEPT !.at = "submitting", !.machine = None] =
                         [q EXCEPT !.at = "submitting", !.left = q.left, !.machine = None]
  BY DEF Round
<1>3. executors[e].left \in SUBSET Machines
  BY <1>1 DEF Round
<1> QED
  BY <1>1, <1>2, <1>3, KeepsOnSubmitting DEF MachineDone

-----------------------------------------------------------------------------
(***************************************************************************)
(* Schedules: the steps                                                    *)
(***************************************************************************)
\* What every schedule's settings are, in whatever zone.
Loose == [kind: {"once", "daily", "weekly"}, at: 0..(DayLength - 1), days: SUBSET Int, zone: Zone, enabled: BOOLEAN]

LEMMA FieldsAreLoose == Fields \subseteq Loose
<1>1. \A f \in Settings : f \in Loose /\ [f EXCEPT !.enabled = FALSE] \in Loose
  BY SchedulesAssumption DEF SchedulesAssumption, Loose, Zone
<1> QED
  BY <1>1 DEF Fields

\* In whatever zone, a time of the wall clock comes to an instant.
LEMMA LocalToUtcIsTyped ==
  ASSUME NEW w \in Int, NEW z \in Zone
  PROVE  LocalToUtc(w, z) \in Int
<1>1. \A t \in Int : OffsetAt(z, t) \in Int
  BY DEF OffsetAt, Zone
<1> PICK H \in Nat : H = HourLength
  BY SchedulesAssumption DEF SchedulesAssumption
<1> PICK first \in Int : first = w - OffsetAt(z, w)
  BY <1>1
<1> PICK second \in Int : second = w - OffsetAt(z, first)
  BY <1>1
<1> DEFINE matches == {v \in {t + h : t \in {first, second}, h \in {0, -HourLength, HourLength}} : v + OffsetAt(z, v) = w}
<1>2. LocalToUtc(w, z) = IF matches # {} THEN Earliest(matches) ELSE Latest({first, second})
  BY DEF LocalToUtc
<1>3. PICK low \in Int : low < first - H /\ low < second - H
  <2>1. first <= second => first - H - 1 < first - H /\ first - H - 1 < second - H
    OBVIOUS
  <2>2. ~(first <= second) => second - H - 1 < first - H /\ second - H - 1 < second - H
    OBVIOUS
  <2>3. first - H - 1 \in Int /\ second - H - 1 \in Int
    OBVIOUS
  <2> QED
    BY <2>1, <2>2, <2>3
<1>4. matches \in SUBSET Int /\ \A t \in matches : t > low
  BY <1>3
<1> HIDE DEF matches
<1>5. CASE matches # {}
  BY <1>2, <1>3, <1>4, <1>5, EarliestOf
<1>6. Latest({first, second}) \in Int
  <2> DEFINE S == {first, second}
  <2>1. CASE first <= second
    <3>1. S \in SUBSET Int /\ second \in S /\ \A u \in S : second >= u
      BY <2>1
    <3> HIDE DEF S
    <3>2. Latest(S) = second
      BY <3>1, LatestIs
    <3> QED
      BY <3>2 DEF S
  <2>2. CASE ~(first <= second)
    <3>1. S \in SUBSET Int /\ first \in S /\ \A u \in S : first >= u
      BY <2>2
    <3> HIDE DEF S
    <3>2. Latest(S) = first
      BY <3>1, LatestIs
    <3> QED
      BY <3>2 DEF S
  <2> QED
    BY <2>1, <2>2
<1> QED
  BY <1>2, <1>5, <1>6

LEMMA NextRunIsTyped ==
  ASSUME NEW f \in Fields, NEW after \in Int
  PROVE  NextRun(f, after) \in Int \union {None}
<1> DEFINE today == LocalDay(after, f.zone)
           days == IF f.kind = "once" THEN f.days ELSE {d \in today..today + 9 : RunsOn(f, d)}
           later == {t \in {LocalToUtc(d * DayLength + f.at, f.zone) : d \in days} : t > after}
<1>1. NextRun(f, after) = IF later = {} THEN None ELSE Earliest(later)
  BY DEF NextRun
<1>2. f \in Loose
  BY FieldsAreLoose
<1>3. today \in Int
  <2> PICK x \in Int : x = after + OffsetAt(f.zone, after)
    BY <1>2 DEF OffsetAt, Loose, Zone
  <2> QED
    BY DayOf DEF LocalDay
<1>4. days \in SUBSET Int
  BY <1>2, <1>3 DEF Loose
<1>5. f.zone \in Zone /\ f.at \in Int
  BY <1>2, SchedulesAssumption DEF Loose, SchedulesAssumption
<1> HIDE DEF today, days
<1>6. \A d \in days : LocalToUtc(d * DayLength + f.at, f.zone) \in Int
  <2> SUFFICES ASSUME NEW d \in days PROVE LocalToUtc(d * DayLength + f.at, f.zone) \in Int
    OBVIOUS
  <2> PICK m \in Int : m = d * DayLength
    BY <1>4, DayOf
  <2> QED
    BY <1>5, LocalToUtcIsTyped
<1>7. later \in SUBSET Int /\ \A t \in later : t > after
  BY <1>6
<1> HIDE DEF later
<1> QED
  BY <1>1, <1>7, EarliestOf

LEMMA SaveBeginsStands ==
  ASSUME SchedulesInv, NEW s \in ScheduleIds, NEW f \in Settings, SaveBegins(s, f)
  PROVE  SchedulesInv'
<1>1. f \in Fields /\ time \in Nat
  BY SchedulesAssumption DEF Fields, SchedulesInv, CountsTyped, SchedulesAssumption
<1>2. PICK v : v = IF schedules[s] = None THEN 0 ELSE schedules[s].version
  OBVIOUS
<1>3. v \in Nat
  BY <1>2 DEF SchedulesInv, RowsTyped, Row
<1>4. [schedule |-> s, fields |-> f, now |-> time, version |-> v] \in Save
  BY <1>1, <1>3 DEF Save
<1>5. RowsTyped'
  BY <1>2, <1>4 DEF SaveBegins, SchedulesInv, RowsTyped
<1>6. CountsTyped'
  BY SchedulesAssumption DEF SchedulesAssumption, SchedulesInv, CountsTyped, SaveBegins, Saving
<1>7. RowsStand' /\ TasksStand' /\ RunsStand'
  BY DEF SaveBegins, SchedulesInv, RowsStand, TasksStand, RunsStand, ExecutorsTyped, RoundsStand, ClaimedIsKept, InHand
<1> QED
  BY <1>5, <1>6, <1>7 DEF SchedulesInv

LEMMA SaveWritesStands ==
  ASSUME SchedulesInv, SaveWrites
  PROVE  SchedulesInv'
<1>1. save \in Save /\ save.schedule \in ScheduleIds /\ save.fields \in Fields /\ save.now \in Nat /\ save.version \in Nat
  BY DEF SaveWrites, SchedulesInv, RowsTyped, Save
<1> PICK s \in ScheduleIds, f \in Fields, t \in Nat, v \in Nat :
      s = save.schedule /\ f = save.fields /\ t = save.now /\ v = save.version
  BY <1>1
<1> PICK n : n = PlanNext(f, t)
  OBVIOUS
<1>2. n \in Int \union {None} /\ (f.enabled => n = NextRun(f, t))
  BY NextRunIsTyped DEF PlanNext
<1> PICK x : x = [fields |-> f, next |-> n, version |-> v + 1, changed |-> t]
  OBVIOUS
<1>3. x \in Row /\ x.fields = f /\ x.next = n /\ x.changed = t
  BY <1>2 DEF Row
<1>4. /\ save' = None
      /\ \/ (f.enabled => n # None) /\ schedules' = [schedules EXCEPT ![s] = x]
         \/ schedules' = schedules
  BY DEF SaveWrites
<1>5. RowsTyped'
  BY <1>3, <1>4 DEF SchedulesInv, RowsTyped
<1>6. RowsStand'
  <2>1. CASE schedules' = schedules
    BY <2>1 DEF SchedulesInv, RowsStand
  <2>2. CASE (f.enabled => n # None) /\ schedules' = [schedules EXCEPT ![s] = x]
    <3>1. schedules'[s] = x /\ \A u \in ScheduleIds \ {s} : schedules'[u] = schedules[u]
      BY <2>2 DEF SchedulesInv, RowsTyped
    <3>2. x.fields.enabled => x.next # None /\ x.next = NextRun(x.fields, x.changed)
      BY <1>2, <1>3, <2>2
    <3> QED
      BY <3>1, <3>2 DEF SchedulesInv, RowsStand
  <2> QED
    BY <1>4, <2>1, <2>2
<1>7. CountsTyped' /\ TasksStand' /\ RunsStand'
  BY DEF SaveWrites, SchedulesInv, CountsTyped, TasksStand, RunsStand, ExecutorsTyped, RoundsStand, ClaimedIsKept, InHand
<1> QED
  BY <1>5, <1>6, <1>7 DEF SchedulesInv

LEMMA DeleteScheduleStands ==
  ASSUME SchedulesInv, NEW s \in ScheduleIds, DeleteSchedule(s)
  PROVE  SchedulesInv'
<1>1. RowsTyped' /\ RowsStand'
  BY DEF DeleteSchedule, SchedulesInv, RowsTyped, RowsStand
<1>2. CountsTyped'
  BY SchedulesAssumption DEF SchedulesAssumption, SchedulesInv, CountsTyped, DeleteSchedule, Saving
<1>3. TasksStand' /\ RunsStand'
  BY DEF DeleteSchedule, SchedulesInv, TasksStand, RunsStand, ExecutorsTyped, RoundsStand, ClaimedIsKept, InHand
<1> QED
  BY <1>1, <1>2, <1>3 DEF SchedulesInv

\* What is due has a time to run at, so its claim is one.
LEMMA DueIsClaim ==
  ASSUME SchedulesInv, NEW s \in ScheduleIds, IsDue(s)
  PROVE  /\ ClaimOf(s) \in Claim
         /\ Claimed(s) \in Row
         /\ Claimed(s).fields.enabled =>
              /\ Claimed(s).next # None
              /\ Claimed(s).next = NextRun(Claimed(s).fields, Claimed(s).changed)
<1>1. schedules[s] \in Row /\ schedules[s].fields.enabled /\ schedules[s].next # None
  BY DEF SchedulesInv, RowsTyped, RowsStand, IsDue
<1>2. time \in Nat /\ time \in Int
  BY SchedulesAssumption DEF SchedulesAssumption, SchedulesInv, CountsTyped
<1>3. schedules[s].next \in Int
  BY <1>1 DEF Row
<1>4. ClaimOf(s) \in Claim
  BY <1>2, <1>3 DEF ClaimOf, Claim, IsLate
<1> PICK x \in Row : x = schedules[s]
  BY <1>1
<1> PICK f \in Fields : f = x.fields
  BY DEF Row
<1> PICK n \in Int \union {None} : n = NextRun(f, time)
  <2>1. NextRun(f, time) \in Int \union {None}
    BY <1>2, NextRunIsTyped
  <2> QED
    BY <2>1
<1>5. Claimed(s) = [x EXCEPT !.next = n, !.fields = [f EXCEPT !.enabled = (n # None)], !.changed = time]
  BY DEF Claimed
<1>6. f \in Loose /\ f.enabled
  BY <1>1, FieldsAreLoose
<1>7. f \in Settings
  <2> SUFFICES ASSUME f \notin Settings PROVE FALSE
    OBVIOUS
  <2>1. PICK g \in Settings : f = [g EXCEPT !.enabled = FALSE]
    BY DEF Fields
  <2>2. g \in Loose
    BY FieldsAreLoose DEF Fields
  <2>3. f.enabled = FALSE
    BY <2>1, <2>2 DEF Loose
  <2> QED
    BY <1>6, <2>3
<1> PICK g : g = [f EXCEPT !.enabled = (n # None)]
  OBVIOUS
<1>8. /\ g \in Fields
      /\ n # None => g = f
      /\ g.enabled = (n # None)
  <2>1. n # None => g = f
    BY <1>6 DEF Loose
  <2>2. n = None => g = [f EXCEPT !.enabled = FALSE]
    OBVIOUS
  <2>3. g.enabled = (n # None)
    BY <1>6 DEF Loose
  <2> QED
    BY <1>7, <2>1, <2>2, <2>3 DEF Fields
<1>9. PICK y : y = [x EXCEPT !.next = n, !.fields = g, !.changed = time]
  OBVIOUS
<1>10. y \in Row /\ y.next = n /\ y.fields = g /\ y.changed = time
  BY <1>2, <1>8, <1>9 DEF Row
<1>11. Claimed(s) = y
  BY <1>5, <1>9
<1> QED
  BY <1>4, <1>8, <1>10, <1>11

LEMMA ClaimDueScheduleStands ==
  ASSUME SchedulesInv, NEW r \in Runners, ClaimDueSchedule(r)
  PROVE  SchedulesInv'
<1>1. PICK taken \in SUBSET ScheduleIds :
        /\ \A s \in taken : IsDue(s)
        /\ taken # {}
        /\ schedules' = [s \in ScheduleIds |-> IF s \in taken THEN Claimed(s) ELSE schedules[s]]
        /\ Proceeds(r, [NoRound EXCEPT !.at = "choosing", !.claims = {ClaimOf(s) : s \in taken}])
        /\ unkept' = unkept \union {Plan(ClaimOf(s)) : s \in taken}
  <2>1. PICK skipped \in SUBSET {s \in ScheduleIds : Locked(s)} :
          LET taken == {s \in ScheduleIds \ skipped : IsDue(s)} IN
          /\ taken # {}
          /\ schedules' = [s \in ScheduleIds |-> IF s \in taken THEN Claimed(s) ELSE schedules[s]]
          /\ Proceeds(r, [NoRound EXCEPT !.at = "choosing", !.claims = {ClaimOf(s) : s \in taken}])
          /\ unkept' = unkept \union {Plan(ClaimOf(s)) : s \in taken}
    BY DEF ClaimDueSchedule
  <2> DEFINE due == {s \in ScheduleIds \ skipped : IsDue(s)}
  <2>2. due \in SUBSET ScheduleIds /\ \A s \in due : IsDue(s)
    OBVIOUS
  <2> QED
    BY <2>1, <2>2
<1>2. executors[r].at = "idle" /\ r \in Executors
  BY DEF ClaimDueSchedule, Executors
<1>3. RowsTyped' /\ RowsStand'
  <2>1. \A s \in ScheduleIds : schedules'[s] = IF s \in taken THEN Claimed(s) ELSE schedules[s]
    BY <1>1
  <2>2. RowsTyped'
    BY <1>1, DueIsClaim DEF SchedulesInv, RowsTyped, ClaimDueSchedule
  <2>3. RowsStand'
    <3> SUFFICES ASSUME NEW s \in ScheduleIds, schedules'[s] # None, schedules'[s].fields.enabled
                 PROVE  schedules'[s].next # None /\ schedules'[s].next = NextRun(schedules'[s].fields, schedules'[s].changed)
      BY DEF RowsStand
    <3>1. CASE s \in taken
      BY <1>1, <2>1, <3>1, DueIsClaim
    <3>2. CASE s \notin taken
      BY <2>1, <3>2 DEF SchedulesInv, RowsStand
    <3> QED
      BY <3>1, <3>2
  <2> QED
    BY <2>2, <2>3
<1>4. RunsStand'
  <2> PICK claims \in SUBSET Claim : claims = {ClaimOf(s) : s \in taken}
    BY <1>1, DueIsClaim
  <2>1. PICK x : x = [NoRound EXCEPT !.at = "choosing", !.claims = claims]
    OBVIOUS
  <2>2. x \in Round /\ x.at = "choosing" /\ x.claims = claims /\ x.claim = None /\ x.machine = None
    BY <2>1, NoRoundIsTyped DEF Round
  <2>3. Proceeds(r, x)
    BY <1>1, <2>1
  <2>4. /\ ExecutorsTyped' /\ RoundsStand'
        /\ executors'[r] = x /\ \A d \in Executors \ {r} : executors'[d] = executors[d]
    BY <1>2, <2>2, <2>3, OneRound DEF SchedulesInv
  <2>5. executors[r] = NoRound /\ InHand(r) = {}
    BY <1>2, NoRoundIsTyped DEF SchedulesInv, RunsStand, RoundsStand, InHand
  <2>6. ClaimedIsKept'
    <3> SUFFICES ASSUME NEW p \in unkept' PROVE \E q \in Runners : \E c \in InHand(q)' : Plan(c) = p
      BY DEF ClaimedIsKept
    <3>1. CASE p \in unkept
      <4>1. PICK q \in Runners : \E c \in InHand(q) : Plan(c) = p
        BY <3>1 DEF SchedulesInv, RunsStand, ClaimedIsKept
      <4>2. q # r
        BY <2>5, <4>1
      <4>3. InHand(q)' = InHand(q)
        BY <2>4, <4>2 DEF InHand, Executors
      <4> QED
        BY <4>1, <4>3
    <3>2. CASE p \notin unkept
      <4>1. PICK s \in taken : p = Plan(ClaimOf(s))
        BY <1>1, <3>2
      <4>2. ClaimOf(s) \in InHand(r)'
        BY <2>2, <2>4 DEF InHand
      <4> QED
        BY <4>1, <4>2
    <3> QED
      BY <3>1, <3>2
  <2> QED
    BY <2>4, <2>6 DEF RunsStand
<1>5. CountsTyped' /\ TasksStand'
  BY DEF ClaimDueSchedule, SchedulesInv, CountsTyped, TasksStand
<1> QED
  BY <1>3, <1>4, <1>5 DEF SchedulesInv

\* A request's round begins on no plan of a schedule's.
LEMMA RequestBegins ==
  ASSUME SchedulesInv, NEW q \in Requests, executors[q].at = "idle", NEW c \in Claim,
         NEW left \in SUBSET Machines,
         Proceeds(q, [NoRound EXCEPT !.at = "submitting", !.left = left, !.claim = c]), UNCHANGED unkept
  PROVE  RunsStand'
<1>1. PICK x : x = [NoRound EXCEPT !.at = "submitting", !.left = left, !.claim = c]
  OBVIOUS
<1>2. x \in Round /\ x.at = "submitting" /\ x.machine = None
  BY <1>1, NoRoundIsTyped DEF Round
<1>3. q \in Executors /\ InHand(q) = {}
  BY NoRoundIsTyped DEF Executors, SchedulesInv, RunsStand, RoundsStand, InHand
<1> QED
  BY <1>1, <1>2, <1>3, KeepsItsClaims DEF SchedulesInv

LEMMA RunNowStands ==
  ASSUME SchedulesInv, NEW q \in Requests, NEW s \in ScheduleIds, RunNow(q, s)
  PROVE  SchedulesInv'
<1>1. time \in Int /\ CountsTyped'
  BY SchedulesAssumption DEF SchedulesAssumption, SchedulesInv, CountsTyped, RunNow, Saving
<1>2. [schedule |-> s, trigger |-> "manual", for |-> time, late |-> FALSE] \in Claim
  BY <1>1 DEF Claim
<1>3. PICK c \in Claim : c = [schedule |-> s, trigger |-> "manual", for |-> time, late |-> FALSE]
  BY <1>2
<1>4. Proceeds(q, [NoRound EXCEPT !.at = "submitting", !.left = Machines, !.claim = c])
  <2>1. [NoRound EXCEPT !.at = "submitting", !.left = Machines, !.claim = c] =
          [NoRound EXCEPT !.at = "submitting", !.left = Machines,
                          !.claim = [schedule |-> s, trigger |-> "manual", for |-> time, late |-> FALSE]]
    BY <1>3
  <2> QED
    BY <2>1 DEF RunNow
<1>5. RunsStand'
  BY <1>4, RequestBegins DEF RunNow
<1>6. RowsTyped' /\ RowsStand' /\ TasksStand'
  BY DEF RunNow, SchedulesInv, RowsTyped, RowsStand, TasksStand
<1> QED
  BY <1>1, <1>5, <1>6 DEF SchedulesInv

LEMMA RequestOperationStands ==
  ASSUME SchedulesInv, NEW q \in Requests, NEW m \in Machines, RequestOperation(q, m)
  PROVE  SchedulesInv'
<1>1. CountsTyped'
  BY SchedulesAssumption DEF SchedulesAssumption, SchedulesInv, CountsTyped, RequestOperation, Saving
<1>2. [schedule |-> None, trigger |-> q, for |-> 0, late |-> FALSE] \in Claim
  BY DEF Claim
<1>3. PICK c \in Claim : c = [schedule |-> None, trigger |-> q, for |-> 0, late |-> FALSE]
  BY <1>2
<1>4. Proceeds(q, [NoRound EXCEPT !.at = "submitting", !.left = {m}, !.claim = c])
  <2>1. [NoRound EXCEPT !.at = "submitting", !.left = {m}, !.claim = c] =
          [NoRound EXCEPT !.at = "submitting", !.left = {m},
                          !.claim = [schedule |-> None, trigger |-> q, for |-> 0, late |-> FALSE]]
    BY <1>3
  <2> QED
    BY <2>1 DEF RequestOperation
<1>5. RunsStand'
  <2>1. executors[q].at = "idle" /\ {m} \in SUBSET Machines /\ UNCHANGED unkept
    BY DEF RequestOperation
  <2> QED
    BY <1>4, <2>1, RequestBegins
<1>6. RowsTyped' /\ RowsStand' /\ TasksStand'
  BY DEF RequestOperation, SchedulesInv, RowsTyped, RowsStand, TasksStand
<1> QED
  BY <1>1, <1>5, <1>6 DEF SchedulesInv

LEMMA BeginsStands ==
  ASSUME SchedulesInv, NEW e \in Executors, Begins(e)
  PROVE  SchedulesInv'
<1>1. PICK c \in executors[e].claims, place \in {"missed", "submitting", "error"}, left \in SUBSET Machines :
        Proceeds(e, [executors[e] EXCEPT !.at = place, !.left = left, !.claim = c,
                                         !.claims = executors[e].claims \ {c}])
  BY DEF Begins
<1>2. executors[e] \in Round /\ executors[e].at = "choosing" /\ executors[e].claim = None
  BY DEF Begins, SchedulesInv, RunsStand, ExecutorsTyped, RoundsStand
<1>3. executors[e].machine = None /\ executors[e].claims \in SUBSET Claim
  BY <1>2 DEF SchedulesInv, RunsStand, RoundsStand, Round
<1>4. PICK x : x = [executors[e] EXCEPT !.at = place, !.left = left, !.claim = c,
                                        !.claims = executors[e].claims \ {c}]
  OBVIOUS
<1>5. /\ x \in Round /\ x.at = place /\ x.machine = None
      /\ x.claim = c /\ x.claims = executors[e].claims \ {c}
  BY <1>1, <1>2, <1>3, <1>4 DEF Round
<1>6. c # None
  BY <1>1, <1>3, RowsAssumption DEF RowsAssumption
<1>7. InHand(e) = executors[e].claims
  BY <1>2 DEF InHand
<1>8. \A d \in InHand(e) : d \in x.claims \union ({x.claim} \ {None})
  BY <1>5, <1>6, <1>7
<1>9. RunsStand'
  BY <1>1, <1>4, <1>5, <1>8, KeepsItsClaims DEF Begins, SchedulesInv
<1>10. CountsTyped' /\ RowsTyped' /\ RowsStand' /\ TasksStand'
  BY SchedulesAssumption DEF SchedulesAssumption, Begins, Stopping, SchedulesInv, CountsTyped, RowsTyped, RowsStand, TasksStand
<1> QED
  BY <1>9, <1>10 DEF SchedulesInv

LEMMA ValidatesStands ==
  ASSUME SchedulesInv, NEW e \in Executors, NEW m \in Machines, Validates(e, m)
  PROVE  SchedulesInv'
<1>1. executors[e] \in Round /\ executors[e].left \in SUBSET Machines /\ m # None
  BY SchedulesAssumption DEF SchedulesAssumption, SchedulesInv, RunsStand, ExecutorsTyped, Round
<1>2. PICK accepted \in BOOLEAN :
        Proceeds(e, [executors[e] EXCEPT !.left = executors[e].left \ {m},
                                         !.at = IF accepted THEN "accepted" ELSE "submitting",
                                         !.machine = IF accepted THEN m ELSE None])
  BY DEF Validates
<1>3. PICK place \in {"submitting", "accepted", "creating"}, n \in {None} \union Machines, left \in SUBSET Machines :
        /\ place = IF accepted THEN "accepted" ELSE "submitting"
        /\ n = IF accepted THEN m ELSE None
        /\ left = executors[e].left \ {m}
  BY <1>1
<1>4. \A q \in Round : [q EXCEPT !.left = left, !.at = place, !.machine = n] =
                         [q EXCEPT !.at = place, !.left = left, !.machine = n]
  BY DEF Round
<1>5. Proceeds(e, [executors[e] EXCEPT !.left = left, !.at = place, !.machine = n])
  BY <1>2, <1>3
<1>6. RunsStand'
  <2>1. RunsStand /\ UNCHANGED unkept
    BY DEF Validates, SchedulesInv
  <2>2. Proceeds(e, [executors[e] EXCEPT !.at = place, !.left = left, !.machine = n])
    BY <1>1, <1>4, <1>5
  <2>3. n # None <=> place \in {"accepted", "creating"}
    BY <1>1, <1>3
  <2> QED
    BY <2>1, <2>2, <2>3, KeepsOnSubmitting
<1>7. CountsTyped' /\ RowsTyped' /\ RowsStand' /\ TasksStand'
  BY DEF Validates, SchedulesInv, CountsTyped, RowsTyped, RowsStand, TasksStand
<1> QED
  BY <1>6, <1>7 DEF SchedulesInv

LEMMA LooksForActiveStands ==
  ASSUME SchedulesInv, NEW e \in Executors, LooksForActive(e)
  PROVE  SchedulesInv'
<1>1. executors[e] \in Round /\ executors[e].left \in SUBSET Machines
  BY DEF SchedulesInv, RunsStand, ExecutorsTyped, Round
<1>2. executors[e].machine # None /\ executors[e].machine \in {None} \union Machines
  BY <1>1 DEF LooksForActive, SchedulesInv, RunsStand, RoundsStand, Round
<1>0. RunsStand /\ UNCHANGED unkept
  BY DEF LooksForActive, SchedulesInv
<1>3. ASSUME MachineDone(e) PROVE RunsStand'
  BY <1>0, <1>3, MachineDoneStands
<1>4. ASSUME Proceeds(e, [executors[e] EXCEPT !.at = "creating"]) PROVE RunsStand'
  <2>1. \A q \in Round : [q EXCEPT !.at = "creating"] = [q EXCEPT !.at = "creating", !.left = q.left, !.machine = q.machine]
    BY DEF Round
  <2>2. Proceeds(e, [executors[e] EXCEPT !.at = "creating", !.left = executors[e].left, !.machine = executors[e].machine])
    BY <1>1, <1>4, <2>1
  <2> QED
    BY <1>0, <1>1, <1>2, <2>2, KeepsOnSubmitting
<1>5. RunsStand'
  <2>1. \/ MachineDone(e)
        \/ Proceeds(e, [executors[e] EXCEPT !.at = "creating"])
    BY DEF LooksForActive
  <2> QED
    BY <1>3, <1>4, <2>1
<1>6. CountsTyped' /\ RowsTyped' /\ RowsStand' /\ TasksStand'
  BY DEF LooksForActive, SchedulesInv, CountsTyped, RowsTyped, RowsStand, TasksStand
<1> QED
  BY <1>5, <1>6 DEF SchedulesInv

LEMMA CreatesStands ==
  ASSUME SchedulesInv, NEW e \in Executors, Creates(e)
  PROVE  SchedulesInv'
<1>1. executors[e] \in Round /\ executors[e].machine \in Machines
  BY DEF Creates, SchedulesInv, RunsStand, ExecutorsTyped, RoundsStand, Round
<1> PICK m \in Machines : m = executors[e].machine
  BY <1>1
<1> PICK p : p = Plan(executors[e].claim)
  OBVIOUS
<1> PICK k : k = <<p, m>>
  OBVIOUS
<1> PICK u : u = [key |-> k, plan |-> p, machine |-> m, active |-> TRUE]
  OBVIOUS
<1>2. \/ tasks' = tasks
      \/ tasks' = tasks \union {u} /\ ~\E t \in tasks : t.key = k
  BY DEF Creates, Key
<1>3. TasksStand'
  <2>1. CASE tasks' = tasks
    BY <2>1 DEF SchedulesInv, TasksStand
  <2>2. CASE tasks' = tasks \union {u} /\ ~\E t \in tasks : t.key = k
    <3>1. u.key = k /\ u \in [key: {<<u.plan, u.machine>>}, plan: {u.plan}, machine: Machines, active: BOOLEAN]
      OBVIOUS
    <3>2. \A t \in tasks' : t \in tasks \/ t = u
      BY <2>2
    <3>3. \A t \in tasks' : t \in [key: {<<t.plan, t.machine>>}, plan: {t.plan}, machine: Machines, active: BOOLEAN]
      BY <3>1, <3>2 DEF SchedulesInv, TasksStand
    <3>4. \A t, v \in tasks : t.key = v.key => t = v
      BY DEF SchedulesInv, TasksStand
    <3>5. \A t, v \in tasks' : t.key = v.key => t = v
      <4> SUFFICES ASSUME NEW t \in tasks', NEW v \in tasks', t.key = v.key PROVE t = v
        OBVIOUS
      <4>1. t \in tasks => t.key # k
        BY <2>2
      <4>2. v \in tasks => v.key # k
        BY <2>2
      <4>3. u.key = k
        BY <3>1
      <4> QED
        BY <3>2, <3>4, <4>1, <4>2, <4>3
    <3> QED
      BY <3>3, <3>5 DEF TasksStand
  <2> QED
    BY <1>2, <2>1, <2>2
<1>4. RunsStand'
  BY MachineDoneStands DEF Creates, SchedulesInv
<1>5. CountsTyped' /\ RowsTyped' /\ RowsStand'
  BY DEF Creates, SchedulesInv, CountsTyped, RowsTyped, RowsStand
<1> QED
  BY <1>3, <1>4, <1>5 DEF SchedulesInv

LEMMA SubmitFailsStands ==
  ASSUME SchedulesInv, NEW e \in Executors, SubmitFails(e)
  PROVE  SchedulesInv'
<1>1. RunsStand'
  BY MachineDoneStands DEF SubmitFails, SchedulesInv
<1>2. CountsTyped' /\ RowsTyped' /\ RowsStand' /\ TasksStand'
  BY SchedulesAssumption DEF SchedulesAssumption, SubmitFails, Stopping, SchedulesInv, CountsTyped, RowsTyped, RowsStand, TasksStand
<1> QED
  BY <1>1, <1>2 DEF SchedulesInv

LEMMA RecordsRunStands ==
  ASSUME SchedulesInv, NEW e \in Executors, RecordsRun(e)
  PROVE  SchedulesInv'
<1>1. executors[e] \in Round /\ executors[e].claims \in SUBSET Claim
  BY DEF SchedulesInv, RunsStand, ExecutorsTyped, Round
<1>2. PICK x : x = IF executors[e].claims = {} THEN NoRound
                   ELSE [NoRound EXCEPT !.at = "choosing", !.claims = executors[e].claims]
  OBVIOUS
<1>3. /\ x \in Round /\ x.claims = executors[e].claims /\ x.claim = None /\ x.machine = None
      /\ x.at = "idle" => x = NoRound
      /\ x.at \in {"idle", "choosing"}
  BY <1>1, <1>2, NoRoundIsTyped DEF Round
<1>4. Proceeds(e, x) /\ unkept' = unkept \ {Plan(executors[e].claim)}
  BY <1>2 DEF RecordsRun, GoesOn
<1>5. \A c \in InHand(e) : c \in x.claims \/ Plan(c) \notin unkept'
  BY <1>3, <1>4 DEF InHand
<1>6. RunsStand'
  BY <1>3, <1>4, <1>5, KeepsItsClaims DEF SchedulesInv
<1>7. CountsTyped' /\ RowsTyped' /\ RowsStand' /\ TasksStand'
  BY DEF RecordsRun, SchedulesInv, CountsTyped, RowsTyped, RowsStand, TasksStand
<1> QED
  BY <1>6, <1>7 DEF SchedulesInv

LEMMA ProcessStopsStands ==
  ASSUME SchedulesInv, NEW r \in Runners, ProcessStops(r)
  PROVE  SchedulesInv'
<1>1. r \in Executors /\ Proceeds(r, NoRound) /\ unkept' = unkept \ {Plan(c) : c \in InHand(r)}
  BY DEF ProcessStops, Executors
<1>2. RunsStand'
  BY <1>1, NoRoundIsTyped, KeepsItsClaims DEF SchedulesInv
<1>3. CountsTyped' /\ RowsTyped' /\ RowsStand' /\ TasksStand'
  BY SchedulesAssumption DEF SchedulesAssumption, ProcessStops, Stopping, SchedulesInv, CountsTyped, RowsTyped, RowsStand, TasksStand
<1> QED
  BY <1>2, <1>3 DEF SchedulesInv

LEMMA TaskEndsStands ==
  ASSUME SchedulesInv, NEW t \in tasks, TaskEnds(t)
  PROVE  SchedulesInv'
<1>1. PICK u : u = [t EXCEPT !.active = FALSE]
  OBVIOUS
<1>2. t \in [key: {<<t.plan, t.machine>>}, plan: {t.plan}, machine: Machines, active: BOOLEAN]
  BY DEF SchedulesInv, TasksStand
<1>3. /\ u.key = t.key /\ u.plan = t.plan /\ u.machine = t.machine
      /\ u \in [key: {<<u.plan, u.machine>>}, plan: {u.plan}, machine: Machines, active: BOOLEAN]
  BY <1>1, <1>2
<1>4. tasks' = (tasks \ {t}) \union {u}
  BY <1>1 DEF TaskEnds
<1>5. TasksStand'
  BY <1>3, <1>4 DEF SchedulesInv, TasksStand
<1>6. CountsTyped' /\ RowsTyped' /\ RowsStand' /\ RunsStand'
  BY DEF TaskEnds, SchedulesInv, CountsTyped, RowsTyped, RowsStand, RunsStand, ExecutorsTyped, RoundsStand, ClaimedIsKept, InHand
<1> QED
  BY <1>5, <1>6 DEF SchedulesInv

LEMMA TimePassesStands ==
  ASSUME SchedulesInv, TimePasses
  PROVE  SchedulesInv'
<1>1. CountsTyped'
  BY SchedulesAssumption DEF SchedulesAssumption, SchedulesInv, CountsTyped, TimePasses
<1>2. RowsTyped' /\ RowsStand' /\ TasksStand' /\ RunsStand'
  BY DEF TimePasses, SchedulesInv, RowsTyped, RowsStand, TasksStand, RunsStand, ExecutorsTyped, RoundsStand, ClaimedIsKept, InHand
<1> QED
  BY <1>1, <1>2 DEF SchedulesInv

LEMMA OwnerLosesPermissionStands ==
  ASSUME SchedulesInv, OwnerLosesPermission
  PROVE  SchedulesInv'
<1>1. CountsTyped'
  <2>1. time' = time /\ saves' = saves /\ owner' \in BOOLEAN /\ stops' \in 0..MaxStops
    <3>1. owner' \in BOOLEAN
      BY DEF OwnerLosesPermission
    <3>2. stops' = stops + 1 /\ stops < MaxStops /\ stops \in 0..MaxStops /\ MaxStops \in Nat
      BY SchedulesAssumption DEF SchedulesAssumption, SchedulesInv, CountsTyped, OwnerLosesPermission, Stopping
    <3> QED
      BY <3>1, <3>2 DEF OwnerLosesPermission
  <2> QED
    BY <2>1 DEF SchedulesInv, CountsTyped
<1>2. RowsTyped' /\ RowsStand' /\ TasksStand' /\ RunsStand'
  BY DEF OwnerLosesPermission, SchedulesInv, RowsTyped, RowsStand, TasksStand, RunsStand, ExecutorsTyped, RoundsStand, ClaimedIsKept, InHand
<1> QED
  BY <1>1, <1>2 DEF SchedulesInv

LEMMA SubmitStepStands ==
  ASSUME SchedulesInv, NEW e \in Executors, SubmitStep(e)
  PROVE  SchedulesInv'
BY ValidatesStands, LooksForActiveStands, CreatesStands DEF SubmitStep

LEMMA SchedulesKeep == SchedulesInv /\ [SchedulesNext]_scheduleVars => SchedulesInv'
<1> SUFFICES ASSUME SchedulesInv, [SchedulesNext]_scheduleVars PROVE SchedulesInv'
  OBVIOUS
<1>1. Runners \subseteq Executors /\ Requests \subseteq Executors
  BY DEF Executors
<1>2. CASE TimePasses \/ SaveWrites \/ OwnerLosesPermission
  BY <1>2, TimePassesStands, SaveWritesStands, OwnerLosesPermissionStands
<1>3. CASE \E s \in ScheduleIds : (\E f \in Settings : SaveBegins(s, f)) \/ DeleteSchedule(s)
  BY <1>3, SaveBeginsStands, DeleteScheduleStands
<1>4. CASE \E r \in Runners : RunnerStep(r) \/ ProcessStops(r)
  BY <1>1, <1>4, ClaimDueScheduleStands, BeginsStands, SubmitStepStands, RecordsRunStands, ProcessStopsStands
     DEF RunnerStep
<1>5. CASE \E q \in Requests : \/ \E s \in ScheduleIds : RunNow(q, s)
                               \/ \E m \in Machines : RequestOperation(q, m)
                               \/ SubmitStep(q) \/ RecordsRun(q)
  BY <1>1, <1>5, RunNowStands, RequestOperationStands, SubmitStepStands, RecordsRunStands
<1>6. CASE \E e \in Executors : SubmitFails(e)
  BY <1>6, SubmitFailsStands
<1>7. CASE \E t \in tasks : TaskEnds(t)
  BY <1>7, TaskEndsStands
<1>8. CASE UNCHANGED scheduleVars
  BY <1>8 DEF scheduleVars, SchedulesInv, CountsTyped, RowsTyped, RowsStand, TasksStand, RunsStand, ExecutorsTyped,
              RoundsStand, ClaimedIsKept, InHand
<1> QED
  BY <1>2, <1>3, <1>4, <1>5, <1>6, <1>7, <1>8 DEF SchedulesNext

\* What a schedule's row waits for was reckoned from its last change, a task has a key of its own, and
\* what a round holds is what the history still lacks (schedule-service.js, postgres-schedule-store.js).
THEOREM SchedulesInvariant == SchedulesSpec => []SchedulesInv
BY SchedulesBegin, SchedulesKeep, PTL DEF SchedulesSpec

\* SchedulesTypeOK, always.
THEOREM SchedulesTyped == SchedulesSpec => []SchedulesTypeOK
<1>1. SchedulesInv => SchedulesTypeOK
  BY DEF SchedulesInv, SchedulesTypeOK, CountsTyped, RowsTyped, RunsStand, ExecutorsTyped, RoundsStand, TasksStand, Round
<1> QED
  BY <1>1, SchedulesInvariant, PTL

LEMMA TasksAskOnce == SchedulesInv => AskedOnce
<1> SUFFICES ASSUME SchedulesInv, NEW t \in tasks, NEW u \in tasks, t.plan = u.plan, t.machine = u.machine
             PROVE  t = u
  BY DEF AskedOnce
<1>1. t.key = <<t.plan, t.machine>> /\ u.key = <<u.plan, u.machine>>
  BY DEF SchedulesInv, TasksStand
<1> QED
  BY <1>1 DEF SchedulesInv, TasksStand

\* PlannedRunsHappenOnce, always, in whatever zones: however processes share the rounds, stop and lose
\* the race for a machine, a planned run asks for an operation on a machine once, and one that was
\* claimed is in a round's hands or in the history.
THEOREM PlannedRunsAlwaysHappenOnce == SchedulesSpec => []PlannedRunsHappenOnce
<1>1. SchedulesInv => PlannedRunsHappenOnce
  BY TasksAskOnce DEF SchedulesInv, RunsStand, PlannedRunsHappenOnce
<1> QED
  BY <1>1, SchedulesInvariant, PTL

\* PlansHold, always, where the clocks change by the hour: the time an enabled schedule waits for is the
\* very next one of its own, also over such a change, and a planned run is neither repeated nor lost.
\* By half an hour it does not hold: localToUtc then takes the second of two equal times.
THEOREM PlansAlwaysHold == ClocksChangeByTheHour => (SchedulesSpec => []PlansHold)
<1> SUFFICES ASSUME ClocksChangeByTheHour PROVE SchedulesSpec => []PlansHold
  OBVIOUS
<1>1. SchedulesInv => PlansFollowTheClock
  <2> SUFFICES ASSUME SchedulesInv, NEW s \in ScheduleIds, schedules[s] # None, schedules[s].fields.enabled
               PROVE  LET row == schedules[s] IN
                      /\ row.next > row.changed
                      /\ IsRunTime(row.fields, row.next)
                      /\ \A t \in row.changed+1..row.next-1 : ~IsRunTime(row.fields, t)
    BY DEF PlansFollowTheClock
  <2>1. schedules[s] \in Row /\ schedules[s].next # None
        /\ schedules[s].next = NextRun(schedules[s].fields, schedules[s].changed)
    BY DEF SchedulesInv, RowsTyped, RowsStand
  <2>2. schedules[s].fields \in Typed /\ schedules[s].changed \in Int
    BY <2>1, FieldsAreTyped DEF Row
  <2> QED
    BY <2>1, <2>2, NextRunIsTheNext
<1>2. SchedulesInv => PlansHold
  BY <1>1, TasksAskOnce DEF SchedulesInv, RunsStand, PlansHold, PlannedRunsHappenOnce
<1> QED
  BY <1>2, SchedulesInvariant, PTL
=============================================================================
