# Formal model of Nuvrion

Nuvrion is a management platform for virtual machines: an API server with workers, a PostgreSQL
database, a RabbitMQ queue, adapters to VMware, AWS and Azure, and an agent for VMware Workstation
hosts. This directory holds TLA+ models of its core, the TLC runs that check them on small
instances, and theorems about them that TLAPS checks for every instance.

`PROJECT.json` lists components, runs, mutants, findings, hazards and theorems, and maps each
definition to the source lines it models.

## The system

| Part | State | Operations | Talks to |
|---|---|---|---|
| Task store (`modules/tasks/src/postgres-task-store.js`, local twin `task-store.js`) | `tasks`, `task_attempts`, `task_leases`, `outbox_messages` | create, claim, running, complete, fail, retry, verificationRequired, cancel, supersede, manualRetry, heartbeat, recoverExpired, reannounceStale, outbox reads and marks | called by API, worker, relay, reconciler |
| Worker (`apps/worker/src/worker.js`) | one invocation of `tick` per message, its heartbeat timer | claim, execute, record, verify, apply, report | store, provider, inventory |
| Relay and broker (`modules/messaging/src/task-broker.js`) | durable queue, unacknowledged messages, connection | publish with confirm, mark, consume, ack, nack, reconnect | store, worker |
| API wiring (`apps/api/src/server.js`) | timers | request routes, recovery every 30 s, relay every 500 ms, discovery every 5 s, schedules every 30 s | everything |
| Verification reconciler (`modules/tasks/src/verification-reconciler.js`) | none of its own | reconcile, reconcileConnection | store, provider, inventory |
| Schedules (`modules/tasks/src/schedule-*.js`) | `schedules`, `schedule_runs` | create, update, delete, claimDue, execute, recordRun | task store |
| Workstation agents (`modules/agents`, `apps/workstation-agent`, `providers/vmware-workstation-agent`) | agents, commands, journal | enroll, heartbeat, createCommand, pending, acknowledge, supersede, rotate, revoke, sweep | worker through the provider |
| Agent upgrades (`modules/agents/src/agent-upgrade*`) | releases, deployments, policies | stage, assign, progress, cancel, auto-upgrade, self-upgrade and rollback | agents |
| Webhooks (`modules/notifications`) | destinations, deliveries | enqueue, claimDue, send, recordResult, prune, test, edit | receivers outside |
| Alerts (`modules/monitoring/src/alert-*`) | rules, alerts, the pending map | evaluate, acknowledge, edit and delete rules | inventory, webhooks |
| Identity (`modules/identity`) | users, roles, sessions, two-factor records | sign-in, second step, codes, locks, resets, changes of accounts | every route |
| Connections, discovery, inventory (`modules/connections`, `modules/inventory`) | connections, resources, tags, views | discovery with retries and backoff, synchronise, applyOperation, tag operations, saved views | providers, reconciler |
| Backups and evidence (`modules/platform/src/backup-*.js`, `evidence-*.js`) | sets and releases on the host, the archive, its ledger | pull, check, file, thin out, archive | the backup script, operators |
| Gates of a build (`modules/platform/src/api-compat.js`, `license-policy.js`, `image-scan-gate.js`) | none | is the API compatible, are licences and images let through | CI and release scripts |
| Web console (`apps/web`) | the browser's | pages; the QR code of an enrolment | API |

What is hard here: a VM operation must not be run twice although its message may be delivered
twice, its process may stop anywhere, the provider's answer may be lost and a lease may lapse; a
task must not be stranded although its message may be lost; people, timers and workers write the
same rows through transactions that each look at little; and several decisions are taken on a state
read before an `await`. `hazards` in `PROJECT.json` lists each at its line.

What makes each part correct:

* task store: a lease exists exactly while its task runs; one open attempt at most; an ended task
  stays ended; a delayed retry has the message that wakes it.
* engine: one worker per attempt; while leases are renewed one worker per task; a claimable task is
  announced; what the provider accepted is not run again before its real state has been looked at
  or a person asked; every task ends or is put before a person.
* reconciler: only tasks whose outcome is unknown are judged, and each is judged in the end.
* schedules: a planned run is the clock's next one, is claimed once, asks once for each machine, and
  its record is lost only with its process.
* agents: one result per command, none from a revoked agent, one command per machine at a time; an
  upgrade ends with a running agent and a true report.
* webhooks: an event is queued once per destination while its row is kept, a failed one retried on
  schedule, none stuck.
* alerts: at most one open alert per rule and target; an alert fires only after its duration and ends
  with its rule.
* discovery: what is kept of a connection comes to agree with its provider; a deleted one stays at
  rest.
* broker: no connection but the current one stays open; a lost one is replaced.
* identity: there is always an active administrator; an account changes only by a request that saw
  what it was; a code is accepted once, a session is verified only by what is enrolled now, and
  guesses are limited however many sessions there are.
* tags and views: requests that run at once do what they would do one at a time, within the limits.
* backups: every set that retention keeps is whole and checked. Evidence: the ledger is a chain, with
  a folder for each line, and a run archives every release that was complete when it looked.
* gates: what is called compatible is; nothing passes that its policy does not allow; the QR code
  reads as the text it was drawn of.

## Modules

| Module | Models |
|---|---|
| `TaskLifecycle` | the abstract specification: phases of a task and the moves between them |
| `TaskStore` | the store, one action per transaction, called by anyone in any order |
| `TaskEngine` | requests, relay, queue, workers, recovery, time and faults around the store |
| `TaskReconciliation` | the engine with concurrent verification reconcilers |
| `Webhooks` | the delivery queue of webhooks and the dispatchers that work it |
| `AgentCommands` | the registry's commands and each agent's dispatcher and journal |
| `AgentUpgrades` | deployments, the automatic cycle, the agent that swaps its own executable, the watchdog |
| `Schedules` | when schedules run, who claims the run, what it asks for |
| `Alerts` | rules, evaluations, alerts, how long a condition has held |
| `Discovery` | a connection's health and alert, discoveries, the inventory, deletion |
| `Broker` | the one connection to RabbitMQ and its replacement |
| `TwoStep` | the second step of one person's sign-in: enrolment, codes, locks, resets |
| `Accounts` | who administers: `updateUser` statement by statement beside the other writes |
| `LocalTags`, `ResourceTags` | tags: the local store, a request a step; the store in the database |
| `LocalViews`, `SavedViews` | saved views, in the same two ways |
| `Backups` | backup sets that are pulled, checked, filed and thinned out |
| `Evidence` | the archive of release evidence and its ledger |
| `ApiCompat` | which changes of the API the compatibility check lets pass |
| `Gates` | the licence review and the policy for scanned images |
| `QrCode` | the code that the browser draws |
| `Common` | the value for "none" that the modules above share |
| `MCTaskEngine` | symmetry for the runs of the engine |
| `MCTasksAndUpgrades`, `MCServices`, `MCServicesLive`, `MCPlatform`, `MCRules` | parts that share no state, checked together |
| `TaskStoreProofs`, `TaskEngineProofs`, `WebhooksProofs`, `AgentProofs`, `ServiceProofs`, `ConnectionProofs`, `IdentityProofs`, `InventoryProofs` | theorems |

`TaskEngine` extends `TaskStore` and every engine action contains one store action or leaves the
store alone; `TaskReconciliation` extends `TaskEngine` in the same way. The others stand alone: a
dispatcher, a discovery or an evaluation reads other parts' tables and writes only its own, so what
it reads is an input that may be anything.

`MCTasksAndUpgrades` (tasks with their reconciliation, upgrades), `MCServices` (commands, schedules,
alerts, discovery, broker, tags, views), `MCServicesLive` (webhooks, schedules, alerts, discovery,
broker, upgrades) and `MCPlatform` (webhooks, second step, accounts, backups, evidence,
compatibility, gates, QR code; the last three from `MCRules`) put such independent parts into one
behaviour each. A behaviour chooses at its start the part it is about (`focus`); the others stay in
their initial state. Since no action of one reads or writes a variable of another, this checks each
of them exactly as a run of its own would, without the product of their states.

### TaskStore

`status`, `ref` and `retryDue` are columns of `tasks`; `lease` is the row of `task_leases`;
`attempts` and `open` are the rows of `task_attempts` and those not completed; `unsent`, `later`
and `recent` count a task's outbox messages. Audit rows, progress texts and results are left out.
Times are kept as what the queries ask: a lease is held or expired, a message's `occurred_at` is
reached (`unsent`) or not (`later`), `retry_at` has passed or not, some message is within the
re-announce window. Each answer changes in an action of its own, at any moment. A transaction is
one action, because each locks the task's row and commits or rolls back as a whole.
`RecoverExpired` and `ReannounceStale` take any non-empty subset of the rows they select: SKIP
LOCKED leaves out rows that another transaction holds.

### TaskEngine

A worker is one invocation of the queue consumer (no prefetch limit, so a process runs many). `at`
is the call it waits for, `job` its message's task, `turn` the attempt its claim made. Every awaited
call of `Worker.tick` is a step, so anything may happen between two of them. `held` holds the workers
whose message the broker still counts as unsettled: after `ChannelCloses` the message is back in the
queue while the worker goes on. `Aborts` ends an invocation without a write: the process stopped, or
a store call threw out of the handler and the message was refused with requeue. `ReplyLost` is a
provider that acted and answered with a time-out or server error, which the providers mark
retryable. `BrokerLoses` is the purge or loss of the queue that `reannounceStale` exists for.
`SkipLockedRow` is a claim that met a locked row. `runs` and `lost` are history: how often the
provider acted since a person last decided, and which claimable tasks suffered one of those two
losses.

### TaskReconciliation

A reconciler reads unverified tasks into `todo` (a request one, a scan all) with what the provider
reports of them (`seen`), decides on one, and writes the verdict with `complete` or `fail`: three
steps with awaits in between. Only scans refute. `unresolvedAfterMs` may have passed whenever a scan
looks, and once a task is `aged` it certainly has, so no scan leaves it. A request and several scans
run at once, as the API allows (the scheduler's own rounds do not overlap, but `POST
/connections/:id/discover` runs beside them).

### Webhooks

A row of `webhook_deliveries` is named by its pair of destination and event, the unique key that
`ON CONFLICT` uses; `queued` counts how often that pair was queued and so stands for the delivery
id, which tells a late result whether its row is still there. `hook`, `choice` and `before` are a
destination's `enabled`, its kinds and severity (as the set of events they choose) and its
`active_since` (as the events that lie before it). An event is in the future, within the day the
dispatchers look back (`recent`), or old.

A dispatcher's round is a step per awaited call: `Begin` reads the destinations and keeps what each
wants in `accepts`, `Collect` turns that into `todo`, `Enqueue` inserts one pair, `ClaimDue` claims,
`StartBatch` moves the next deliveries from `waiting` to `flight`, where each is fetched, posted and
recorded. When `recordResult` throws, `Promise.all` rejects and the round ends while the other posts
of its batch go on; `awaited` says which flights a round still waits for. `Prune` treats
destinations one at a time (its deletions relate no two of them) and leaves open which of the rows
queued at one instant are the oldest. A delivery may be pruned by age only once its event is old and
no round means to queue it, that is, no round lasts thirty days (`Outdated`). The clock that a
request reads for `active_since` and the write of the row are one instant in the model. `found` and
`taken` are history: what an event found each destination to be (on, off, absent, deleted, or off
but listed by a round while it was on), and how often a receiver took a message. `NothingReplayed`
says that only what found it on, or so listed, is queued; `QueuedOnce` is what the documents say of
queueing. Counters shown to people, names, addresses and signatures are left out.

### AgentCommands

The registry's statements are steps, and so is each await between them: a heartbeat authenticates
(`HeartbeatBegins`) and writes later (`HeartbeatWrites`), `createCommand` looks at the agent before
its INSERT. `Poll` hands out every queued command as often as it is asked; `host` holds the command
loop's request and the dispatcher's tails, one chain of commands per machine, with `power_off`
passing the others (`Overrides`). `memo` is the journal in memory and `journal` the file, which is
written over as a whole: a crash or an error in the writing leaves it as it was, or torn, and a torn
file is read as an empty one (`JournalTorn`). A command whose outcome was in no file when the host
stopped is `unrecorded`, and only such a command runs twice (`RunsAgainOnlyUnrecorded`). A command's
time may run out wherever it is.

### AgentUpgrades

Platform: `deployments` with the staging by several people (`asked`: those who have looked and found
no unfinished upgrade) and by the cycle, each looking first and inserting later. Host: the files
(executable, backup, staged build, state, flag of health, record of a rollback) survive a crash,
`agent` and `watchdog` do not. `apply` is a step per file operation and report, so a host may stop
between the two renames, before the state file, before the watchdog starts. Every report may be
refused, fail on its way, or arrive without its answer. A version is sound (its signature, digest
and self-check pass) or not, healthy (its heartbeats succeed) or not. `cutOff` says that an upgrade
was cut off: the host stopped between the renames and the watchdog's verdict, or the backup could
not be copied back. A host is `Stranded` when that has left it without an executable, or with one
that does not come up and that no watchdog watches; it then needs a person, although
`docs/workstation-agent.md:127` says that the agent returns to the previous version by itself.
`HostsComeBack` and `UpgradesEnd` leave stranded hosts out; `UpgradesEnd` also leaves out a host
whose rollback the platform refuses to hear, which is the subject of `agent_upgrades_stuck`. A
watchdog that has looked for health for the last time (`late`) restores although the new agent
proves healthy meanwhile (`HealthMayBeLate`): what was reported installed is then undone, with the
record of a rollback, and `ResultsHold` allows just this.

Two actions wait for what takes longer in the code: a poll begins when the watchdog has seen a flag
that is there (`WatchdogHasLooked`: it looks every two seconds, the agent polls every ten or more),
and the download of an executable does not end within the seconds of a watchdog's restore
(`Downloads`).

### Schedules

A schedule's clock is `time`, in a unit of which a day has `DayLength`; a zone has one offset before
and another after its change, so that local times that do not exist or exist twice occur.
`LocalToUtc` and `NextRun` are the code's functions over it. A save reads its clock when the request
begins (`SaveBegins`) and waits for its row (`SaveWrites`); `claimDue` skips the row a save has
locked. Executors are the runners' rounds and the people's requests; a round goes through its claims
as the code does, one submission at a time, each a look for an active task and a creation in
different steps. `unkept` is history: claimed runs that the table of runs does not have.

### Alerts

An evaluation collects readings, waits for the advisory lock, plans, and commits: the rows it locked
stay locked until then, and a failure rolls them back but leaves `pending` replaced, as in the code.
A process that restarts forgets `pending`. A rule that a person changes keeps what `pending` has of
it, so a changed condition inherits the time the old one held; `FiresOnlyAfterHolding` says what
holds all the same.

### Discovery

One machine and one infrastructure object stand for a connection's. A visit is a step per awaited
call: the provider's answer, the synchronization of machines, the connection's row, its alert, the
infrastructure. The scheduler retries three times and waits for `next_retry_at`; people's requests
run beside it, and so do operations, whose results are written when they come. A deletion is three
steps (machines, objects, row) and its alert.

### Broker

`attempt` is the attempt `open` waits for; one that was given up may still answer (`LateAnswer`).
A connection that breaks emits error and close; one that is dropped with its channel goes on with
its closing handshake while its successor is opened. With `ClosingMayBreak` that handshake can
break.

### TwoStep and Accounts

A request of the second step looks at its session and works in a transaction later; that transaction
locks the row of `user_mfa`, so it is one step. A secret is its number and a code the secret's at a
time step, so no two codes agree by chance; time is counted in time steps. Wrong codes are counted
for the session, which ends, and for the person, who is locked. `wrong` (when they came) and `spent`
are history.

`updateUser` runs at READ COMMITTED, so each of its statements is a step: the lock, the row, the
count of the other administrators, the writing. Every other write of an account is one statement or
holds the row, and so is one step.

### LocalTags and ResourceTags, LocalViews and SavedViews

The local stores do a request in one step and are the abstract specification of the stores in the
database, which look, wait for an advisory lock, read, plan and write while other requests do the
same, discovery removes resources, and a view is changed by the version its person saw. A key is
what may be typed and `Plain` what it stands for; a name is folded to lower case.

### Backups and Evidence

A directory is handled a step at a time, so a stop leaves a part of it. Backups: a set is a number,
its contents whole, a part or not what its list says; a pull lists, removes what is left in
`incoming`, fetches, checks, files and thins out. `shared` is history: sets that two pulls fetched
at the same time. Evidence: a line's hash covers the lines before it, so a line stands with the
releases of those its writer knew. A stop, or an error of a call (`AddingLineFails`), between filing
a folder and writing its line is `cutShort`, two runs at once are `overlapped`.

### ApiCompat, Gates, QrCode

Pure rules, each checked against what it is for. `ApiCompat`: values have a type, and an enum's are
compared as they are spelled, as the code does. `Satisfies` is JSON Schema itself, written without
the comparison's helpers. `CompatibleIsSafe` enumerates descriptions and values, and says that after
a change which the check lets pass a client may send what it could send, gets what it could expect,
and need not send more. The header of `api-compat.js` promises this of every change; the changes for
which the code does not keep it are named one by one and excepted (`Unseen`, `CallKept`): schemas
merged by `allOf`, keywords beside alternatives, enum values that differ only in type, a required
property that is not described, a `const` or `items` added to a request, a closed object that loses
or gains a property, a keyword dropped from a response, a number for an integer there, limits and
patterns there, and a body that becomes required where there was none. Each is needed: without it
TLC finds a change that is let pass and is not safe. `Gates`: the parser of licence expressions word
by word (an expression is read only if it is used up exactly, so a WITH that nothing follows
blocks), exceptions and their days, and the scan's findings; what passes is allowed by policy or an
exception that is in force. `QrCode`: a text is encoded, corrected, placed and masked as the code
does, and read back by a reader that follows the standard's order; the choice of the mask and the
picture are left out.

## Runs

| Run | Instance | Shows |
|---|---|---|
| `engine_faults` | 1 task, 2 workers, 1 fault, 1 manual retry, renewals may fail, replies lost | a claimable task is announced; leases, attempts and messages agree with the tasks; an attempt has one worker |
| `engine_rerun` | 1 fault | violation: accepted and run again |
| `reconciliation_and_upgrades` | tasks or upgrades per behaviour: 1 request, 2 scans, 2 workers, 1 fault, no manual retry; 1 agent, 4 versions (one unsound, one unhealthy), 2 people, 2 upgrades, 1 cancellation, 1 fault, health may be late | reconcilers judge only unverified tasks; one worker per task; without a fault the provider runs an operation once; the life cycle; the watchdog can restore, a build is tried once, results are true and undone only on record |
| `reconciliation_live` | 1 request, 1 scan, 1 worker, 1 fault, 1 manual retry, replies lost, fair | every task settles, unknown outcomes are settled |
| `reconciliation_late` | 1 request, 1 scan, 1 manual retry | violation: a late verdict on a retried task |
| `agent_upgrades_stuck` | 1 agent, 4 versions, 1 person, 2 upgrades, 1 fault, no cancellation, fair | violation: a rollback the platform refuses to hear holds every later upgrade back |
| `services` | one service per behaviour: 2 commands on 1 machine; 2 schedules, 1 runner, 1 request; 1 rule, 2 processes; 1 connection, the timer and a person; 3 broker connections; 2 tag requests on 2 resources; 2 view requests of 1 person | the safety properties of commands, schedules, alerts, discovery and broker; tags and views as if requests came one at a time |
| `services_live` | one service per behaviour, fair; 1 agent, 3 versions, 2 upgrades, 1 fault | deliveries end, events are queued; due runs are claimed; alerts follow their rule; what is kept of a connection comes to agree with the provider; a lost connection is replaced; hosts come back, upgrades end |
| `broker_stale_error` | 3 connections, a closing one may break | violation: a stale error makes a good broker unhealthy |
| `discovery_retired` | 1 connection, 1 discovery, 1 deletion | violation: retired objects become active again |
| `platform` | one part per behaviour: 1 webhook, 2 events, 2 processes, 1 fault, 1 change; 2 sessions of 1 person; 2 updates of 2 accounts; 2 pulls of 3 sets; 2 archivers of 2 releases; small sets of descriptions, licences, scans and texts | webhooks: one sender, nothing replayed, a message again only after a fault; identity, backups and evidence as above; the rules of compatibility, gates and QR codes |
| `webhooks_requeued` | 1 webhook, 2 events, 1 process, no fault, 1 delivery kept | violation: an event whose delivery was pruned by number is queued again |

Bounds. One task is enough for most runs because no transaction relates two tasks but recovery and
the relay. Two workers meet on one task, which is where duplicates matter. `MaxFaults` bounds
aborts, relay failures, lost messages, closed channels and locked rows together; one of them gives a
crash, after which the message is delivered again to a second worker, or a lease that lapses under a
first one. `MaxClaims` bounds attempts; the worker's retry, a recovery and a manual retry fit.
`MaxUnsent` and `MaxCopies` bound messages; two make duplicates. `MaxManualRetries` bounds what
people ask. The bounds appear in guards only (`OutboxHasRoom`, `Fault`, the guards of `Claim`,
`Publish` and `RequestRetry`). For webhooks one destination is enough: no statement but the claim's
limit relates two, and deliveries of two events compete for it too. `MaxAttempts` is 2 instead of 6:
the first attempt, the last and the step between them. `Kept` is 1, so that pruning by number
happens, or 2, so that it does not. `MaxFaults` bounds crashes, failed calls and lost answers,
`MaxChanges` what people change, test and prune (`Fault`, `Change`). In `services` two commands are
what an override needs, two processes what an evaluation or a claim can meet, three broker
connections a current one, a dropped one and an attempt; `MaxDisturbances`, `MaxStops`,
`MaxAlertFaults`, `MaxBrokerFaults`, `MaxUpgradeFaults` bound faults, `MaxSaves`, `MaxRuleChanges`,
`MaxPeopleSteps`, `MaxCancels`, `MaxDeployments`, `MaxProviderChanges` what people and providers do,
`MaxTime` the clock. Schedules run in zones that move by a whole hour. The runs of upgrades that
check liveness have no cancellation and no late health, which a run of the safety properties has.
Two requests for tags or views meet on a limit of one tag (`PerResource`) or two views (`PerPerson`)
of three names; `MaxRemovals`, `MaxViewChanges`, `MaxViews` bound the rest. In `platform` two wrong
codes lock a person and one ends a session, in three time steps (`MaxSteps`) with a window and a
lock of one step, so that both end and a second window follows, with two secrets and two batches of
one code, so that an enrolment follows another; three sets meet a retention of one set, one day and
one week, with two sets to a day; texts of 14, 15 and 152 bytes are the longest of a code of version
1, the shortest of version 2, which has an alignment pattern, and one of version 8, which shows its
version and interleaves blocks. The symmetry of `platform` exchanges the two members of all of
`Twins` together: they are alike, and none of those sets names an order.

### Where code and documents disagree

Shown by a run (`findings`):

* an accepted operation is run again when the process stops before recording the reference
  (`engine_rerun`; comment in `task-store.js:32`);
* a task that is not verification-required is completed by a reconciler (`reconciliation_late`;
  message in `verification-reconciler.js:6`);
* a refused rollback report is offered for ever and no later upgrade is looked at
  (`agent_upgrades_stuck`; `docs/workstation-agent.md:148`);
* an error of a connection that is no longer the current one makes the broker unhealthy for good
  (`broker_stale_error`; `task-broker.test.js:294`);
* a discovery in flight brings a deleted connection's objects back (`discovery_retired`;
  `docs/infrastructure.md:57`);
* an event whose delivery was pruned by number is queued and sent again (`webhooks_requeued`;
  `docs/webhooks.md:23`, `dispatcher.js:1`).

Without a run of their own, as exceptions that properties name:

* `docs/webhooks.md:19` says that turning a webhook on does not send what happened while it was off.
  A round that listed it while it was on queues what happens until it collects the events, also after
  it was turned off (`NothingReplayed`: "listed").
* `docs/mfa.md:57` says that ten wrong codes in fifteen minutes lock the account. The window begins
  at a wrong code and does not slide, so fifteen minutes across two windows hold up to nineteen
  (`GuessesAreLimited`).
* `docs/workstation-agent.md:127` says that the agent returns to the previous version by itself. A
  host that stops between the renames and the watchdog's verdict may not (`Stranded`).
* `docs/schedules.md:27` says that of two equal times the first is run. Where clocks move by half an
  hour `localToUtc` picks the second; and a gap that spans midnight would let a planned run be
  missed. `ClocksChangeByTheHour` leaves both out; that a planned run happens once does not depend
  on it.
* `docs/backups.md:87` calls a pull by hand safe. Two pulls that fetch one set at the same time can
  file a part of it (`shared`).
* The header of `api-compat.js` says what is breaking; the changes that it does not see are listed
  above under `ApiCompat`.

Other limits of what holds:

* `TakenAgainOnlyByFault` allows one more post for each time an event is queued and for a process
  that stops before it records a result; `OneSender` fails with `ClaimsMayLapse = TRUE`, because a
  claim of two minutes can run out while its process is still sending.
* `WorkerOwnsTask` fails with `HeartbeatsMayFail = TRUE`, because a lease can expire although its
  process lives.
* A heartbeat that authenticated before a revocation puts the agent online again (`HeartbeatWrites`).
* Two requests, or a request and a planned run, can create two active tasks on one machine, and an
  override may leave the overridden command queued beside the new one; no property forbids either.
* A run of the archive that stops or fails between a folder and its line makes every later one fail
  (`cutShort`), and two at once, with a release skipped, can break the chain (`overlapped`).
* The image gate takes the two listings of a scan to agree.

Fairness (`Fairness`, `ReconcilerFairness`). Weak for what a timer repeats (marking, recovery,
re-announcement, time itself), for the steps of a live worker and for scans (discovery is repeated
for ever and sometimes succeeds); strong for publishing a given task's rows and delivering its
messages, since the relay takes rows by age and the queue is first-in first-out. For webhooks weak
fairness of a dispatcher's rounds and of its sends (the timer begins a round for ever, and every
call returns or throws) and of time (`ComesDue`, `ClaimEnds`). For schedules, alerts and discovery
weak fairness of the steps of a round under way and of the timer that begins one, for the broker of
the subscription, the reconnect timer, an attempt's answer and the connections' own events; attempts
fail only within `MaxBrokerFaults`. For upgrades weak of polls, of the watchdog and of the host's
task scheduler, strong of a report's success and of a poll that takes an upgrade which is there. In
`MCServicesLive` each assumption is that of the service in focus. Nothing is assumed of people or
faults.

## Proofs

`TaskStoreProofs` proves the four store properties for any number of tasks and any callers. The
inductive invariant `StoreInv` is the types with `LeaseWhileRunning`, `OneOpenAttempt` and
`DelayedRetryHasMessage`: each needs the types and its own, and the single open attempt needs that a
claimed task was queued and so had none.

`TaskEngineProofs` proves, for any numbers of tasks, workers, faults and retries:

* `EngineCorrect`: `EngineInv`, which adds to `StoreInv` and `TypeOK` that a relayed row is still
  unsent (`RelayedRowIsUnsent`), that a working worker's turn is one of its task's attempts
  (`TurnIsAnAttempt`) and the bound on attempts. From it follow the store properties in the engine
  (`EngineUsesStore` also states it as `Spec => StoreSpec`) and `EngineAttemptHasOneWorker`: a claim
  takes a number larger than every earlier turn.
* `EngineClaimableIsAnnounced`, inductive on top of `EngineInv`.
* `EngineWorkerOwnsTask`, assuming `HeartbeatsMayFail = FALSE`. The strengthening says that a lapsed
  lease belongs to a task nobody works on (`LapsedIsAbandoned`) and that a recorded reference is the
  running attempt's (`RecordedWhenAccepted`).
* `EngineImplementsLifecycle`, under the same assumption: initial states map to initial states and
  every step to moves of `TaskLifecycle`. Without the assumption it is false: a lapsed lease gives
  the task to a second worker while the first goes on. Lost
  replies are allowed: the phase "started" covers an operation the provider may have begun without
  accepting it.
* `EngineRunsTwiceOnlyByFault`, under the same assumption. `RunsStand` says that the operation of a
  task that waits has not been run since a person last decided, that a running task has its worker,
  so that recovery finds nothing, and that a worker that may still call has not been accepted,
  unless a fault happened.
* `ReconcilerReconcilesOnlyUnverified`, `ReconcilerKeepsEngine` and `ReconcilerImplementsLifecycle`
  for engine and reconcilers, for any numbers of them, assuming also `MaxManualRetries = 0`; the run
  `reconciliation_late` is the counterexample without it. `VerdictsStand`: what a reconciler read as
  unverified is so still, or has ended.

`WebhooksProofs` proves, for any numbers of destinations, events, processes, faults and changes:

* `WebhooksOneSender`, assuming `ClaimsMayLapse = FALSE` (without it the property is false). The
  inductive invariant `ClaimInv` is `TypeOK` with: a delivery a process holds and whose row is still
  there has its claim running (`HeldIsClaimed`); no two processes hold it (`HeldByOne`); a process
  holds it once (`HeldOnce`); a settled delivery has no claim (`SettledIsFree`); and the bound on
  attempts. `OneSender` alone is not inductive: a claim could take a delivery that another process
  holds with its claim already over, or holds unsent.
* `WebhooksAttempts` and `WebhooksSettledStaysSettled` from the same invariant.
* `WebhooksNothingReplayed`, with no assumption: an event that found no destination, or found it off
  and unlisted, lies before its `active_since` once it is on (`FoundWhenItHappened`), so that no
  round lists it, however old its copy (`ListedWasThere`).
* `WebhooksTakenAgainOnlyByFault`, assuming `ClaimsMayLapse = FALSE`: who has a delivery in hand has
  its latest queueing in hand (`HolderStands`), and while a message is being posted, or a pending row
  has no answer on its way that says it is delivered, one taking is left to the pair (`OneIsLeft`).

`AgentProofs` proves, for any numbers of agents, versions, machines, deployments, commands and
faults:

* `BackupIsKept`, `BuildsAreTriedOnce`, `ResultsOfUpgradesHold`, with no assumption on health.
  `UpgradesInv` is `CycleStands` (between looking and staging, the automatic cycle's earlier
  deployments are finished) with, for every host, what its files, process, poll and watchdog say of
  each other and of its own deployments (`ProcessStands`, `PollStands`, `FilesStand`, `WatchStands`)
  and that an installed version is kept by the executable, and by its backup while that may come
  back, but for a rollback that the host has on record (`InstalledStand`). It has cases that need
  three deployments on one host, more than the run has; the proof covers them.
* `CommandsKeepTheirWord` and `CommandsCloseOnce`, with no assumption. `CommandsInv`: the commands
  that wait for one machine form a line (`QueuesStand`, by a rank that falls along it), an agent is
  offered only its own (`PolledStands`), a job in flight is with an agent that is up and has its
  outcome in memory once there is one (`JobStands`, `Knows`), and what is still queued of a revoked
  agent has not reached it (`RevokedHasNothing`).

`ServiceProofs` proves, for any processes, rules, targets, schedules, sets, releases and bounds:

* `AlertsAreTrue`: what a process remembers of a condition never exceeds the time it has held
  (`RemembersNoMore`).
* `PlannedRunsAlwaysHappenOnce`, for whatever zones: a task has a key of its own (`TasksStand`), and
  a round has in hand what the history lacks (`RunsStand`, `RoundsStand`).
* `PlansAlwaysHold`, where the zones satisfy `ClocksChangeByTheHour`: a row's next run is what
  `NextRun` gave for the moment of its last change (`RowsStand`), and that is the first time the
  zone's clock shows after that moment (`Stands`). Without the condition it is false, see above.
* `EvidenceStaysKept`: what a run knows is the ledger, and what was complete at its start has its
  line or is still to come, unless a run stopped or failed in between or two overlapped.
  `KeptSetsStayWhole`: a set under removal is one that retention would not keep, whatever is filed
  or removed meanwhile (`Removable`); this rests on a fact about the retention, that removing such a
  set leaves what is kept as it was.

`ConnectionProofs`: `NoConnectionStrays`, from who waits to open doing so because there is no
connection (`OpensBecauseThereIsNone`) and the current one being open (`TheCurrentIsOpen`);
`RemovedStays`, from a removed row never being enabled again (`RemovedIsDeleted`); and types.

`IdentityProofs`: `AdministratorsStay` and `UpdatesAreOfWhatWasSeen`, because one update at a time is
between its look and its commit (`UnderTheLock`), what it was shown is the row while the version is
the same (`AsItWasShown`), and the other administrator whom it counted is still there when it writes
(`AnotherRemains`). `SecondStepIsProved`, because what has been accepted is of no secret that
an enrolment waits for, lies at or before the last step where it is of the secret enrolled now, and
is no backup code that is left (`RowIsWhole`, `SpentInv`). `GuessesStayLimited`, because the row
counts the last wrong codes (`CountsAgree`) and a window begins when the one before it is past
(`EarlierIsPast`); it needs a lock at least as long as the window (`LimitsAssumption`; in the code
they are equal, and then one code more than the limit can come at the moment both end).

`InventoryProofs`: `TagsImplementLocalTags` and `ViewsImplementLocalViews`, the refinements of the
local stores step by step. Who writes tags holds the lock and has read what the resources that are
still there have (`ReadsStand`), and a resource that is gone has none (`GoneHaveNone`). The lock of
one person keeps the count that an insertion relies on (`RoomIsLeft`), so views fit the limit and
their names differ (`ViewsFit`, also a theorem).

Assumptions on constants are those that the modules name; TLC evaluates them in every run. The
further assumptions of theorems (`HeartbeatsMayFail`, `ClaimsMayLapse`, `ClocksChangeByTheHour`,
`MaxManualRetries = 0`) say where the code does not promise the property, as listed above.

Only model-checked: the liveness properties (reasoning under fairness is out of the proof system's
reach); `RulesHold` and `CompatibleIsSafe`, whose rules are recursive operators; and
`ServicesTypeOK` and `PlatformTypeOK`, the conjunctions of types over the instances, of which the
parts are proved (`CommandsTyped`, `SchedulesTyped`, `AlertsTyped`, `BrokerTyped`, `DiscoveryTyped`,
`BackupsTyped`, `EvidenceTyped`, `WebhooksTypeOK`, and within the invariants of accounts, second
step, tags and views).

## Not modelled, and the plan

Not modelled: passwords, the expiry of sessions, roles and the limits of sign-in by address;
enrolment and secrets of agents, the inventory a heartbeat carries, media files; credentials and
diagnostics of connections; the platform's own upgrade; authorisation of requests. They are listed
under `components` with the reason. Of the local single-process mode only tags and views are
modelled; its other stores have the same operations without concurrent transactions. A copy by rsync
into a directory that is moved away meanwhile is taken to fail.

Left out for good: capacity statistics (floating-point regression), vendor request formats,
cryptography, rendering and browser state, deployment scripts.

What could still be proved: facts about the rules of the gates, if their recursion is written as
functions, and that a behaviour about one part is a behaviour of that part's own specification, so
that its theorems hold of the compositions too.
