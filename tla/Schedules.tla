----------------------------- MODULE Schedules -----------------------------
(***************************************************************************)
(* Scheduled operations: when a schedule runs, who claims the run, and how *)
(* runs and people's requests ask for operations on the same machines.     *)
(*                                                                         *)
(* Time is counted from 0 in the unit the constants choose.  A step ends   *)
(* where the code awaits; a transaction is a step.  A machine's state is   *)
(* the inventory's: validateOperation accepts or refuses.  What a task     *)
(* does after its creation is TaskEngine's: here it is active until it     *)
(* ends.  Names, tags, permissions and texts are left out.                 *)
(***************************************************************************)
EXTENDS Common, Integers, FiniteSets

CONSTANTS
  ScheduleIds,      \* schedules
  Machines,         \* the virtual machines every schedule covers
  Runners,          \* Nuvrion processes, each with its timer
  Requests,         \* people's requests: an operation, or "run now"
  Settings,         \* what people may make of a schedule: its shape, zone and on or off
  DayLength, HourLength, WeekLength, Grace,
  MaxTime,          \* bound of the model: the last instant
  MaxSaves,         \* bound of the model: creations, changes, deletions
  MaxStops          \* bound of the model: stops, failed calls, lost permissions

ASSUME SchedulesAssumption ==
  /\ DayLength \in Nat \ {0} /\ HourLength \in Nat /\ WeekLength \in Nat \ {0}
  /\ Grace \in Nat /\ MaxTime \in Nat /\ MaxSaves \in Nat /\ MaxStops \in Nat
  /\ Settings \subseteq [kind: {"once", "daily", "weekly"}, at: 0..(DayLength - 1), days: SUBSET Int,
                         zone: [before: Int, after: Int, change: Int], enabled: BOOLEAN]
  /\ Runners \intersect Requests = {}
  /\ None \notin Int /\ None \notin Machines

\* Nothing is assumed of the zones.  This is so of those whose clocks change by an hour, the one that
\* LocalToUtc looks around, and forward early enough for the hour they skip, and the hour that stands
\* for it, to be of one day.
ClocksChangeByTheHour ==
  /\ HourLength < DayLength
  /\ \A f \in Settings : /\ f.zone.after - f.zone.before \in {0, HourLength, -HourLength}
                         /\ f.zone.after > f.zone.before =>
                              ((f.zone.change + f.zone.before) % DayLength) + 2 * HourLength <= DayLength

VARIABLES
  time,      \* the instant
  schedules, \* operations.schedules; changed is history: when next was reckoned from
  save,      \* a createSchedule or updateSchedule that has not reached its row
  executors, \* each runner's runDue, and each request
  tasks,     \* the tasks asked for
  unkept,    \* history: plans claimed that operations.schedule_runs does not have, of
             \* those whose process did not stop and whose record did not fail
  owner,     \* the schedules' maker may operate machines
  saves, stops  \* how much of the bounds is used

scheduleVars == <<time, schedules, save, executors, tasks, unkept, owner,
                  saves, stops>>

-----------------------------------------------------------------------------
(***************************************************************************)
(* When: the wall clock of a zone, and the first run after an instant      *)
(***************************************************************************)
OffsetAt(z, t) == IF t < z.change THEN z.before ELSE z.after

Earliest(S) == CHOOSE t \in S : \A u \in S : t <= u
Latest(S)   == CHOOSE t \in S : \A u \in S : t >= u

\* Mutant: only the offsets of the wall time itself are tried.
LocalToUtcNearest(wanted, z) ==
  LET first  == wanted - OffsetAt(z, wanted)
      second == wanted - OffsetAt(z, first)
  IN  IF second + OffsetAt(z, second) = wanted THEN second ELSE Latest({first, second})

\* The instant at which the wall clock shows this time.  The candidates an hour
\* away find the first of two times that show the same.
LocalToUtc(wanted, z) ==
  LET first   == wanted - OffsetAt(z, wanted)
      second  == wanted - OffsetAt(z, first)
      matches == {c \in {t + h : t \in {first, second}, h \in {0, -HourLength, HourLength}} :
                    c + OffsetAt(z, c) = wanted}
  IN  IF matches # {} THEN Earliest(matches) ELSE Latest({first, second})

LocalDay(t, z) == (t + OffsetAt(z, t)) \div DayLength

RunsOn(f, day) == \/ f.kind = "daily"
                  \/ f.kind = "weekly" /\ day % WeekLength \in f.days
                  \/ f.kind = "once" /\ day \in f.days

\* The first run strictly after an instant; a schedule that repeats is sought
\* through ten days.
NextRun(f, after) ==
  LET days  == IF f.kind = "once" THEN f.days
               ELSE {d \in LocalDay(after, f.zone)..(LocalDay(after, f.zone) + 9) : RunsOn(f, d)}
      later == {t \in {LocalToUtc(d * DayLength + f.at, f.zone) : d \in days} : t > after}
  IN  IF later = {} THEN None ELSE Earliest(later)

\* planNext: a schedule turned off has no next run.
PlanNext(fields, after) ==
  IF fields.enabled THEN NextRun(fields, after) ELSE None

IsLate(for, t) == t - for > Grace

-----------------------------------------------------------------------------
Executors == Runners \union Requests

Proceeds(e, round) == executors' = [executors EXCEPT ![e] = round]

\* What a row keeps: a schedule that has run for the last time is turned off.
Fields == Settings \union {[f EXCEPT !.enabled = FALSE] : f \in Settings}
Row    == [fields: Fields, next: Int \union {None}, version: Nat, changed: Nat]
Save   == [schedule: ScheduleIds, fields: Fields, now: Nat, version: Nat]
Claim  == [schedule: ScheduleIds \union {None}, trigger: {"schedule", "manual"} \union Requests,
           for: Int, late: BOOLEAN]

ASSUME RowsAssumption == None \notin Row /\ None \notin Save /\ None \notin Claim

NoRound == [at |-> "idle", claims |-> {}, claim |-> None, left |-> {}, machine |-> None]

SchedulesInit ==
  /\ time = 0
  /\ schedules = [s \in ScheduleIds |-> None]
  /\ save = None
  /\ executors = [e \in Executors |-> NoRound]
  /\ tasks = {}
  /\ unkept = {}
  /\ owner = TRUE
  /\ saves = 0 /\ stops = 0

Saving == saves < MaxSaves /\ saves' = saves + 1
Stopping == stops < MaxStops /\ stops' = stops + 1

TimePasses ==
  /\ time < MaxTime
  /\ time' = time + 1
  /\ UNCHANGED <<schedules, save, executors, tasks, unkept, owner, saves, stops>>

-----------------------------------------------------------------------------
(***************************************************************************)
(* People change schedules.  The clock is read, and the version was, some  *)
(* time before the row is locked and written.                              *)
(***************************************************************************)
SaveBegins(s, fields) ==
  /\ Saving /\ save = None
  /\ save' = [schedule |-> s, fields |-> fields, now |-> time,
              version |-> IF schedules[s] = None THEN 0 ELSE schedules[s].version]
  /\ UNCHANGED <<time, schedules, executors, tasks, unkept, owner, stops>>

Version(row) == IF row = None THEN 0 ELSE row.version

\* A change that has gone stale, or an enabled schedule with no time ahead, is refused.
SaveWrites ==
  /\ save # None
  /\ save' = None
  /\ LET next == PlanNext(save.fields, save.now) IN
     IF Version(schedules[save.schedule]) = save.version
          /\ (save.fields.enabled => next # None)
     THEN schedules' = [schedules EXCEPT ![save.schedule] =
            [fields |-> save.fields, next |-> next, version |-> save.version + 1,
             changed |-> save.now]]
     ELSE UNCHANGED schedules
  /\ UNCHANGED <<time, executors, tasks, unkept, owner, saves, stops>>

DeleteSchedule(s) ==
  /\ Saving
  /\ schedules[s] # None
  /\ schedules' = [schedules EXCEPT ![s] = None]
  /\ UNCHANGED <<time, save, executors, tasks, unkept, owner, stops>>

\* The maker is deactivated or no longer may operate machines.
OwnerLosesPermission ==
  /\ Stopping
  /\ owner /\ owner' = FALSE
  /\ UNCHANGED <<time, schedules, save, executors, tasks, unkept, saves>>

-----------------------------------------------------------------------------
(***************************************************************************)
(* A runner claims what is due                                             *)
(***************************************************************************)
IsDue(s) == schedules[s] # None /\ schedules[s].fields.enabled /\ schedules[s].next <= time

\* SKIP LOCKED: a row that a change holds is left for the next round.
Locked(s) == save # None /\ save.schedule = s

Claimed(s) ==
  LET row == schedules[s]  next == NextRun(row.fields, time)
  IN  [row EXCEPT !.next = next, !.fields = [row.fields EXCEPT !.enabled = (next # None)],
                  !.changed = time]

ClaimOf(s) == [schedule |-> s, trigger |-> "schedule", for |-> schedules[s].next,
               late |-> IsLate(schedules[s].next, time)]

Plan(c) == [schedule |-> c.schedule, trigger |-> c.trigger, for |-> c.for]

\* A round is begun only when the process's last one has ended.
ClaimDueSchedule(r) ==
  /\ executors[r].at = "idle"
  /\ \E skipped \in SUBSET {s \in ScheduleIds : Locked(s)} :
       LET taken == {s \in ScheduleIds \ skipped : IsDue(s)} IN
       /\ taken # {}
       /\ schedules' = [s \in ScheduleIds |-> IF s \in taken THEN Claimed(s) ELSE schedules[s]]
       /\ Proceeds(r, [NoRound EXCEPT !.at = "choosing", !.claims = {ClaimOf(s) : s \in taken}])
       /\ unkept' = unkept \union {Plan(ClaimOf(s)) : s \in taken}
  /\ UNCHANGED <<time, save, tasks, owner, saves, stops>>

\* "Run now": executed as the person who asks, whatever the schedule's times.
RunNow(q, s) ==
  /\ Saving
  /\ executors[q].at = "idle" /\ schedules[s] # None
  /\ Proceeds(q, [NoRound EXCEPT !.at = "submitting", !.left = Machines,
                    !.claim = [schedule |-> s, trigger |-> "manual", for |-> time, late |-> FALSE]])
  /\ UNCHANGED <<time, schedules, save, tasks, unkept, owner, stops>>

\* An operation a person asks for, with an idempotency key of its own.
RequestOperation(q, m) ==
  /\ Saving
  /\ executors[q].at = "idle"
  /\ Proceeds(q, [NoRound EXCEPT !.at = "submitting", !.left = {m},
                    !.claim = [schedule |-> None, trigger |-> q, for |-> 0, late |-> FALSE]])
  /\ UNCHANGED <<time, schedules, save, tasks, unkept, owner, stops>>

-----------------------------------------------------------------------------
(***************************************************************************)
(* runDue goes through its claims, the earliest first                      *)
(***************************************************************************)
InHand(e) == executors[e].claims \union ({executors[e].claim} \ {None})

\* Mutant: a round that has gone through its claims is not over.
GoesOnChoosing(e) ==
  Proceeds(e, [NoRound EXCEPT !.at = "choosing", !.claims = executors[e].claims])

\* The claim is done with: the next one, or the end of the round.
GoesOn(e) ==
  Proceeds(e, IF executors[e].claims = {} THEN NoRound
              ELSE [NoRound EXCEPT !.at = "choosing", !.claims = executors[e].claims])

\* A late run is only recorded; a maker who may not operate, or an inventory that
\* does not answer, makes it a run that did nothing.
Begins(e) ==
  /\ executors[e].at = "choosing"
  /\ \E c \in executors[e].claims :
       /\ \A d \in executors[e].claims : c.for <= d.for
       /\ LET Chosen(place, left) == [executors[e] EXCEPT !.at = place, !.left = left, !.claim = c,
                                                          !.claims = executors[e].claims \ {c}]
          IN  \/ /\ c.late
                 /\ Proceeds(e, Chosen("missed", {}))
                 /\ UNCHANGED stops
              \/ /\ ~c.late /\ owner
                 /\ Proceeds(e, Chosen("submitting", Machines))
                 /\ UNCHANGED stops
              \/ /\ ~c.late
                 /\ IF owner THEN Stopping ELSE UNCHANGED stops
                 /\ Proceeds(e, Chosen("error", {}))
  /\ UNCHANGED <<time, schedules, save, tasks, unkept, owner, saves>>

\* A machine is skipped or failed: the next machine, or the summary of the run.
MachineDone(e) == Proceeds(e, [executors[e] EXCEPT !.at = "submitting", !.machine = None])

Validates(e, m) ==
  /\ executors[e].at = "submitting" /\ m \in executors[e].left
  /\ \E accepted \in BOOLEAN :
       Proceeds(e, [executors[e] EXCEPT !.left = executors[e].left \ {m},
                                        !.at = IF accepted THEN "accepted" ELSE "submitting",
                                        !.machine = IF accepted THEN m ELSE None])
  /\ UNCHANGED <<time, schedules, save, tasks, unkept, owner, saves, stops>>

\* activeForTarget.
LooksForActive(e) ==
  /\ executors[e].at = "accepted"
  /\ IF \E t \in tasks : t.active /\ t.machine = executors[e].machine
     THEN MachineDone(e)
     ELSE Proceeds(e, [executors[e] EXCEPT !.at = "creating"])
  /\ UNCHANGED <<time, schedules, save, tasks, unkept, owner, saves, stops>>

\* Mutant: the key is made of the time of the attempt, not of the planned time.
KeyOfAttempt(e, c, m) == <<c.schedule, c.trigger, time, m>>

Key(e, c, m) == <<Plan(c), m>>

\* store.create: the task of a known key is the one already made.
Creates(e) ==
  /\ executors[e].at = "creating"
  /\ LET c == executors[e].claim  m == executors[e].machine  key == Key(e, c, m) IN
     tasks' = IF \E t \in tasks : t.key = key THEN tasks
              ELSE tasks \union {[key |-> key, plan |-> Plan(c), machine |-> m, active |-> TRUE]}
  /\ MachineDone(e)
  /\ UNCHANGED <<time, schedules, save, unkept, owner, saves, stops>>

\* Any of the three calls may throw: the machine is failed, the run goes on.
SubmitFails(e) ==
  /\ Stopping
  /\ executors[e].at \in {"accepted", "creating"}
  /\ MachineDone(e)
  /\ UNCHANGED <<time, schedules, save, tasks, unkept, owner, saves>>

\* The history refers to the schedule: a run of one deleted meanwhile is not kept, and
\* a statement that fails is logged; the round goes on either way.
RecordsRun(e) ==
  /\ executors[e].at \in {"submitting", "missed", "error"}
  /\ executors[e].left = {}
  /\ unkept' = unkept \ {Plan(executors[e].claim)}
  /\ GoesOn(e)
  /\ UNCHANGED <<time, schedules, save, tasks, owner, saves, stops>>

\* The process stops and starts again; nothing of a round is kept.
ProcessStops(r) ==
  /\ Stopping
  /\ executors[r].at # "idle"
  /\ unkept' = unkept \ {Plan(c) : c \in InHand(r)}
  /\ Proceeds(r, NoRound)
  /\ UNCHANGED <<time, schedules, save, tasks, owner, saves>>

TaskEnds(t) ==
  /\ t.active
  /\ tasks' = (tasks \ {t}) \union {[t EXCEPT !.active = FALSE]}
  /\ UNCHANGED <<time, schedules, save, executors, unkept, owner, saves, stops>>

-----------------------------------------------------------------------------
SubmitStep(e) == \/ \E m \in Machines : Validates(e, m)
                 \/ LooksForActive(e) \/ Creates(e)
RunnerStep(e) == ClaimDueSchedule(e) \/ Begins(e) \/ SubmitStep(e) \/ RecordsRun(e)

SchedulesNext ==
  \/ TimePasses
  \/ \E s \in ScheduleIds : (\E f \in Settings : SaveBegins(s, f)) \/ DeleteSchedule(s)
  \/ SaveWrites
  \/ OwnerLosesPermission
  \/ \E r \in Runners : RunnerStep(r) \/ ProcessStops(r)
  \/ \E q \in Requests : \/ \E s \in ScheduleIds : RunNow(q, s)
                         \/ \E m \in Machines : RequestOperation(q, m)
                         \/ SubmitStep(q) \/ RecordsRun(q)
  \/ \E e \in Executors : SubmitFails(e)
  \/ \E t \in tasks : TaskEnds(t)

\* The timer goes on, and a round, once begun, is not abandoned.
SchedulesFairness ==
  \A r \in Runners : WF_scheduleVars(RunnerStep(r))

SchedulesSpec     == SchedulesInit /\ [][SchedulesNext]_scheduleVars
FairSchedulesSpec == SchedulesSpec /\ SchedulesFairness

-----------------------------------------------------------------------------
(***************************************************************************)
(* What is to be true                                                      *)
(***************************************************************************)
\* Every variable has its type.
SchedulesTypeOK ==
  /\ time \in 0..MaxTime
  /\ schedules \in [ScheduleIds -> {None} \union Row]
  /\ save \in {None} \union Save
  /\ executors \in [Executors ->
       [at: {"idle", "choosing", "submitting", "accepted", "creating", "missed", "error"},
        claims: SUBSET Claim, claim: {None} \union Claim, left: SUBSET Machines,
        machine: {None} \union Machines]]
  /\ \A e \in Executors :
       executors[e].machine # None <=> executors[e].at \in {"accepted", "creating"}
  /\ \A t \in tasks : t.machine \in Machines /\ t.active \in BOOLEAN
  /\ owner \in BOOLEAN /\ saves \in 0..MaxSaves /\ stops \in 0..MaxStops

\* An instant that the schedule is to run at: the first that shows the time of a day
\* the schedule runs on, or, when the clocks skip it, as long after the change as it
\* is after the last time shown before it.
IsRunTime(f, t) ==
  \E d \in LocalDay(t, f.zone)-1..LocalDay(t, f.zone)+1 :
    LET wanted == d * DayLength + f.at
        shown  == {u \in t-2*DayLength..t+2*DayLength : u + OffsetAt(f.zone, u) = wanted}
    IN  /\ RunsOn(f, d)
        /\ IF shown # {} THEN t = Earliest(shown) ELSE t = wanted - f.zone.before

\* The time an enabled schedule waits for is the very next one of its own: none that
\* the clocks repeat, skip or move is passed over or taken twice (docs/schedules.md).
PlansFollowTheClock ==
  \A s \in ScheduleIds : schedules[s] # None /\ schedules[s].fields.enabled =>
    LET row == schedules[s] IN
    /\ row.next > row.changed
    /\ IsRunTime(row.fields, row.next)
    /\ \A t \in row.changed+1..row.next-1 : ~IsRunTime(row.fields, t)

\* The same planned run asks for an operation on a machine once, also when a change
\* that read the clock before the claim sets the same time again.
AskedOnce == \A t, u \in tasks : t.plan = u.plan /\ t.machine = u.machine => t = u

\* A planned run that was claimed stays in a round's hands until the history has it:
\* only a stop of its own process, or a failure of its own record, loses it.
ClaimedIsKept == \A p \in unkept : \E r \in Runners : \E c \in InHand(r) : Plan(c) = p

\* So a planned run is neither repeated nor lost.
PlannedRunsHappenOnce == AskedOnce /\ ClaimedIsKept

\* Plans follow the clock, and each planned run happens once.
PlansHold == PlansFollowTheClock /\ PlannedRunsHappenOnce

\* A due schedule is claimed, turned off, changed or deleted; the timer sees to it.
DueIsClaimed == \A s \in ScheduleIds : IsDue(s) ~> ~IsDue(s)
=============================================================================
