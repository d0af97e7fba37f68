--------------------------- MODULE AgentUpgrades ---------------------------
(***************************************************************************)
(* Upgrades of Workstation agents: the platform's deployments, the cycle   *)
(* that stages them automatically, the agent that downloads and swaps its  *)
(* own executable, and the watchdog that runs from the previous executable *)
(* and puts it back when the new one does not prove that it is healthy.    *)
(*                                                                         *)
(* A version is a positive number in the order of compareVersions, and     *)
(* stands for the executable of that version; 0 is no executable, or no    *)
(* running process.  A deployment is named by its place in the order of    *)
(* staged_at.  What survives a crash is in files, what does not in memory; *)
(* a step of the agent or the watchdog ends at each call it waits for.     *)
(*                                                                         *)
(* Every call to the platform may fail; one that reached it and whose      *)
(* answer is lost is a fault.  Signatures, digests and the self-check are  *)
(* abstracted to the set of versions they accept.                          *)
(***************************************************************************)
EXTENDS Integers, Sequences, FiniteSets

CONSTANTS
  Agents,            \* Workstation agents
  Versions,          \* versions of the agent that exist
  FirstVersion,      \* the version every agent is installed with
  Sound,             \* versions that verifyRelease, the digest and the self-check accept
  Healthy,           \* versions whose heartbeats succeed
  Nobody,            \* no agent is chosen
  Admins,            \* people who stage upgrades
  MaxUnreported,     \* MAX_UNREPORTED_ATTEMPTS
  HealthMayBeLate,   \* a healthy version may not prove it before its deadline
  MaxDeployments,    \* bound of the model: deployments staged
  MaxCancels,        \* bound of the model: deployments people cancel
  MaxUpgradeFaults   \* bound of the model: crashes, lost answers, failed file operations

ASSUME UpgradesAssumption ==
  /\ Versions \subseteq Nat \ {0}
  /\ FirstVersion \in Versions
  /\ Sound \subseteq Versions
  /\ Healthy \subseteq Versions
  /\ Nobody \notin Agents
  /\ MaxUnreported \in Nat \ {0}
  /\ HealthMayBeLate \in BOOLEAN
  /\ MaxDeployments \in Nat
  /\ MaxCancels \in Nat
  /\ MaxUpgradeFaults \in Nat

VARIABLES
  deployments,  \* the rows of agents.upgrade_deployments, oldest first
  asked,        \* requests to stage that have found nothing unfinished: person, agent and version
  reported,     \* the version of each agent's last heartbeat
  cycle,        \* the automatic cycle: where it is, and what it means to stage
  files,        \* each host's executable, its backup and the upgrade's three files
  agent,        \* each host's agent process: its version and what its poll does
  watchdog,     \* each host's watchdog
  restarts,     \* the host's task scheduler will start the agent
  cutOff,       \* history: an upgrade lost its watchdog before a verdict, or a restore failed
  cancels, upgradeFaults  \* how much of the bounds is used

platformVars == <<deployments, asked, reported, cycle>>
hostVars     == <<files, agent, watchdog, restarts, cutOff>>
upgradeVars  == <<platformVars, hostVars, cancels, upgradeFaults>>

-----------------------------------------------------------------------------
Unfinished == {"staged", "downloading", "ready"}
Finished   == {"installed", "failed", "rolled_back"}
DeploymentIds == 0..MaxDeployments   \* 0: none

Deployment == [agent: Agents, version: Versions, status: Unfinished \union Finished, auto: BOOLEAN]
Cycle == [at: {"idle", "looking", "staging"}, agent: Agents \union {Nobody}, version: Versions \union {0}]

\* upgrade-state.json, and what a step of poll works on.
State == [phase: {"none", "swapped", "unreported"}, dep: DeploymentIds,
          version: Versions \union {0}, status: Finished, tries: 0..MaxUnreported]
NoState == [phase |-> "none", dep |-> 0, version |-> 0, status |-> "failed", tries |-> 0]
Swapped(d, v) == [NoState EXCEPT !.phase = "swapped", !.dep = d, !.version = v]
Unreported(d, s) == [NoState EXCEPT !.phase = "unreported", !.dep = d, !.status = s]

Files == [exe: Versions \union {0}, backup: Versions \union {0}, state: State,
          okFlag: BOOLEAN, rolledBack: DeploymentIds, restored: BOOLEAN]
Polls == {"idle", "rolledBack", "unreported", "asking", "announcing", "downloading",
          "checking", "ready", "reporting"}
Agent == [runs: Versions \union {0}, poll: Polls, dep: DeploymentIds, version: Versions \union {0},
          status: Finished, signalled: BOOLEAN, healing: DeploymentIds]
Watchdog == [at: {"none", "waiting", "watching", "late", "restoring"}, dep: DeploymentIds, version: Versions \union {0}]

Stopped == [runs |-> 0, poll |-> "idle", dep |-> 0, version |-> 0, status |-> "failed",
            signalled |-> FALSE, healing |-> 0]
Started(v) == [Stopped EXCEPT !.runs = v]
NoWatchdog == [at |-> "none", dep |-> 0, version |-> 0]

UpgradeInit ==
  /\ deployments = <<>>
  /\ asked = {}
  /\ reported = [a \in Agents |-> FirstVersion]
  /\ cycle = [at |-> "idle", agent |-> Nobody, version |-> 0]
  /\ files = [a \in Agents |-> [exe |-> FirstVersion, backup |-> 0, state |-> NoState,
                                okFlag |-> FALSE, rolledBack |-> 0, restored |-> FALSE]]
  /\ agent = [a \in Agents |-> Started(FirstVersion)]
  /\ watchdog = [a \in Agents |-> NoWatchdog]
  /\ restarts = [a \in Agents |-> FALSE]
  /\ cutOff = [a \in Agents |-> FALSE]
  /\ cancels = 0
  /\ upgradeFaults = 0

UpgradeFault == /\ upgradeFaults < MaxUpgradeFaults
                /\ upgradeFaults' = upgradeFaults + 1

-----------------------------------------------------------------------------
(***************************************************************************)
(* The platform                                                            *)
(***************************************************************************)
IsUnfinished(d) == deployments[d].status \in Unfinished

\* The deployments the agent is offered, of which it takes the first.
Pending(a) == {d \in DOMAIN deployments : deployments[d].agent = a /\ IsUnfinished(d)}

Stage(a, v, auto) ==
  /\ Len(deployments) < MaxDeployments
  /\ deployments' = Append(deployments, [agent |-> a, version |-> v, status |-> "staged", auto |-> auto])

\* A person asks for one of the releases; refused while an upgrade is unfinished for the agent ...
RequestUpgrade(p, a, v) ==
  /\ Len(deployments) + Cardinality(asked) < MaxDeployments
  /\ \A r \in asked : r[1] # p
  /\ Pending(a) = {}
  /\ asked' = asked \union {<<p, a, v>>}
  /\ UNCHANGED <<deployments, reported, cycle, hostVars, cancels, upgradeFaults>>

\* ... and staged, without a second look, once the release has been read again.
RequestStages(p, a, v) ==
  /\ <<p, a, v>> \in asked
  /\ Stage(a, v, FALSE)
  /\ asked' = asked \ {<<p, a, v>>}
  /\ UNCHANGED <<reported, cycle, hostVars, cancels, upgradeFaults>>

RequestCancelUpgrade(d) ==
  /\ cancels < MaxCancels
  /\ IsUnfinished(d)
  /\ deployments' = [deployments EXCEPT ![d].status = "failed"]
  /\ cancels' = cancels + 1
  /\ UNCHANGED <<asked, reported, cycle, hostVars, upgradeFaults>>

\* The automatic cycle goes on only while no deployment of any agent is unfinished.
CycleBegins ==
  /\ cycle.at = "idle"
  /\ \A d \in DOMAIN deployments : ~IsUnfinished(d)
  /\ cycle' = [cycle EXCEPT !.at = "looking"]
  /\ UNCHANGED <<deployments, asked, reported, hostVars, cancels, upgradeFaults>>

\* Mutant of CycleChooses: a rolled-back build is tried again.
CycleChoosesAgain(a, v) ==
  /\ cycle.at = "looking"
  /\ v > reported[a]
  /\ ~ \E d \in DOMAIN deployments : /\ deployments[d].agent = a
                                     /\ deployments[d].version = v
                                     /\ deployments[d].status = "failed"
  /\ cycle' = [at |-> "staging", agent |-> a, version |-> v]
  /\ UNCHANGED <<deployments, asked, reported, hostVars, cancels, upgradeFaults>>

\* It reads the agent and its history, for the newest release v on the platform.
CycleChooses(a, v) ==
  /\ cycle.at = "looking"
  /\ v > reported[a]
  /\ ~ \E d \in DOMAIN deployments : /\ deployments[d].agent = a
                                     /\ deployments[d].version = v
                                     /\ deployments[d].status \in {"failed", "rolled_back"}
  /\ cycle' = [at |-> "staging", agent |-> a, version |-> v]
  /\ UNCHANGED <<deployments, asked, reported, hostVars, cancels, upgradeFaults>>

\* No agent is behind, online, in its window and free of a failed attempt.
CycleEnds ==
  /\ cycle.at = "looking"
  /\ cycle' = [cycle EXCEPT !.at = "idle"]
  /\ UNCHANGED <<deployments, asked, reported, hostVars, cancels, upgradeFaults>>
CycleStages ==
  /\ cycle.at = "staging"
  /\ Stage(cycle.agent, cycle.version, TRUE)
  /\ cycle' = [at |-> "idle", agent |-> Nobody, version |-> 0]
  /\ UNCHANGED <<asked, reported, hostVars, cancels, upgradeFaults>>

\* The agent's report call: heard and answered, ...
Heard(d, s) ==
  /\ IsUnfinished(d)
  /\ deployments' = [deployments EXCEPT ![d].status = s]
  /\ UNCHANGED upgradeFaults

\* ... or refused, failed on the way, or answered in vain.
Unanswered(d, s) ==
  \/ UNCHANGED <<deployments, upgradeFaults>>
  \/ /\ IsUnfinished(d)
     /\ UpgradeFault
     /\ deployments' = [deployments EXCEPT ![d].status = s]

-----------------------------------------------------------------------------
(***************************************************************************)
(* The agent                                                               *)
(***************************************************************************)
Runs(a) == agent[a].runs # 0
PollGoesTo(a, p) == agent' = [agent EXCEPT ![a].poll = p]
Work(a, p, d, s) == agent' = [agent EXCEPT ![a].poll = p, ![a].dep = d, ![a].status = s]
GoIdle(a) == agent' = [agent EXCEPT ![a].poll = "idle", ![a].dep = 0, ![a].version = 0, ![a].status = "failed"]
SetState(a, s) == files' = [files EXCEPT ![a].state = s]

\* The watchdog waits half a second for the exit of the agent that started it and then looks for the
\* flag every two seconds; the agent polls when it starts, and then every ten seconds or more, by
\* when the report of its installation has been answered, too.
WatchdogHasLooked(a) ==
  /\ ~ (watchdog[a].at \in {"waiting", "watching"} /\ files[a].okFlag)
  /\ agent[a].healing = 0

\* Mutant of PollBegins: a kept result is not looked at.
PollBeginsForgetting(a) ==
  LET f == files[a] IN
  /\ Runs(a) /\ agent[a].poll = "idle"
  /\ WatchdogHasLooked(a)
  /\ \/ f.rolledBack # 0 /\ Work(a, "rolledBack", f.rolledBack, "rolled_back")
     \/ f.rolledBack = 0 /\ f.state.phase = "none" /\ PollGoesTo(a, "asking")
  /\ UNCHANGED <<platformVars, files, watchdog, restarts, cutOff, cancels, upgradeFaults>>

\* A poll begins with what an earlier run left behind.  While the new version waits for its
\* first heartbeat it does nothing.
PollBegins(a) ==
  LET f == files[a] IN
  /\ Runs(a) /\ agent[a].poll = "idle"
  /\ WatchdogHasLooked(a)
  /\ \/ /\ f.rolledBack # 0
        /\ Work(a, "rolledBack", f.rolledBack, "rolled_back")
     \/ /\ f.rolledBack = 0 /\ f.state.phase = "none"
        /\ PollGoesTo(a, "asking")
     \/ /\ f.rolledBack = 0 /\ f.state.phase = "unreported"
        /\ Work(a, "unreported", f.state.dep, f.state.status)
     \/ /\ f.rolledBack = 0 /\ f.state.phase = "swapped" /\ f.state.version # agent[a].runs
        /\ Work(a, "reporting", f.state.dep, "failed")
  /\ UNCHANGED <<platformVars, files, watchdog, restarts, cutOff, cancels, upgradeFaults>>

ReportRolledBack(a) ==
  LET d == agent[a].dep IN
  /\ agent[a].poll = "rolledBack"
  /\ \/ /\ Heard(d, "rolled_back")
        /\ files' = [files EXCEPT ![a].rolledBack = 0, ![a].state = NoState, ![a].okFlag = FALSE]
     \/ /\ Unanswered(d, "rolled_back")
        /\ UNCHANGED files
  /\ GoIdle(a)
  /\ UNCHANGED <<asked, reported, cycle, watchdog, restarts, cutOff, cancels>>

\* Mutant of ReportAgain: a result is never given up.
ReportAgainForEver(a) ==
  LET d == agent[a].dep
      s == agent[a].status IN
  /\ agent[a].poll = "unreported"
  /\ \/ Heard(d, s) /\ SetState(a, NoState)
     \/ Unanswered(d, s) /\ files' = [files EXCEPT ![a].state.tries = @ + 1]
  /\ GoIdle(a)
  /\ UNCHANGED <<asked, reported, cycle, watchdog, restarts, cutOff, cancels>>

\* A result that could not be sent is sent again, up to a limit; then the poll goes on.
ReportAgain(a) ==
  LET d == agent[a].dep
      s == agent[a].status
      tries == files[a].state.tries + 1 IN
  /\ agent[a].poll = "unreported"
  /\ \/ Heard(d, s) /\ SetState(a, NoState) /\ GoIdle(a)
     \/ /\ Unanswered(d, s)
        /\ \/ tries < MaxUnreported /\ files' = [files EXCEPT ![a].state.tries = tries] /\ GoIdle(a)
           \/ tries >= MaxUnreported /\ SetState(a, NoState) /\ PollGoesTo(a, "asking")
  /\ UNCHANGED <<asked, reported, cycle, watchdog, restarts, cutOff, cancels>>

\* reportTerminal: a result is kept in the state file until it has been sent.
ReportResult(a) ==
  LET d == agent[a].dep
      s == agent[a].status IN
  /\ agent[a].poll = "reporting"
  /\ \/ Heard(d, s) /\ SetState(a, NoState)
     \/ Unanswered(d, s) /\ SetState(a, Unreported(d, s))
  /\ GoIdle(a)
  /\ UNCHANGED <<asked, reported, cycle, watchdog, restarts, cutOff, cancels>>

\* The poll's answer, the signature and the comparison of versions.
TakesDeployment(a, d) ==
  LET v == deployments[d].version
      now == agent[a].runs IN
  /\ agent[a].poll = "asking"
  /\ d \in Pending(a) /\ \A e \in Pending(a) : d <= e
  /\ \/ v \notin Sound /\ Work(a, "reporting", d, "failed")
     \/ v = now /\ Work(a, "reporting", d, "installed")
     \/ v < now /\ Work(a, "reporting", d, "failed")
     \/ v > now /\ agent' = [agent EXCEPT ![a].poll = "announcing", ![a].dep = d, ![a].version = v]
  /\ UNCHANGED <<platformVars, files, watchdog, restarts, cutOff, cancels, upgradeFaults>>

\* Nothing is pending, or the call failed.
FindsNoUpgrade(a) ==
  /\ agent[a].poll = "asking"
  /\ GoIdle(a)
  /\ UNCHANGED <<platformVars, files, watchdog, restarts, cutOff, cancels, upgradeFaults>>

AnnouncesDownload(a) ==
  LET d == agent[a].dep IN
  /\ agent[a].poll = "announcing"
  /\ \/ Heard(d, "downloading")
     \/ Unanswered(d, "downloading")
  /\ PollGoesTo(a, "downloading")
  /\ UNCHANGED <<asked, reported, cycle, files, watchdog, restarts, cutOff, cancels>>

\* Mutant of Downloads: an executable that an earlier poll fetched is used again, at once.
DownloadsFromCache(a) ==
  /\ agent[a].poll = "downloading"
  /\ \E d \in Pending(a) : deployments[d].version = agent[a].version
  /\ PollGoesTo(a, "checking")
  /\ UNCHANGED <<platformVars, files, watchdog, restarts, cutOff, cancels, upgradeFaults>>

\* The platform serves the executable only while it is staged for this agent.  It is larger than what
\* is fetched in the seconds between a watchdog's last look and its restore.
Downloads(a) ==
  /\ agent[a].poll = "downloading"
  /\ watchdog[a].at = "none"
  /\ \E d \in Pending(a) : deployments[d].version = agent[a].version
  /\ PollGoesTo(a, "checking")
  /\ UNCHANGED <<platformVars, files, watchdog, restarts, cutOff, cancels, upgradeFaults>>

Fails(a) == agent' = [agent EXCEPT ![a].poll = "reporting", ![a].status = "failed"]

DownloadFails(a) ==
  /\ agent[a].poll = "downloading"
  /\ \/ (~ \E d \in Pending(a) : deployments[d].version = agent[a].version) /\ UNCHANGED upgradeFaults
     \/ UpgradeFault
  /\ Fails(a)
  /\ UNCHANGED <<platformVars, files, watchdog, restarts, cutOff, cancels>>

CheckFails(a) ==
  /\ agent[a].poll = "checking"
  /\ \/ agent[a].version \notin Sound /\ UNCHANGED upgradeFaults
     \/ UpgradeFault
  /\ Fails(a)
  /\ UNCHANGED <<platformVars, files, watchdog, restarts, cutOff, cancels>>

\* After the self-check, without waiting: the old flags removed, the executables swapped, the
\* state written.
SwapsIn(a) ==
  LET v == agent[a].version IN
  /\ agent[a].poll = "checking"
  /\ v \in Sound
  /\ files' = [files EXCEPT ![a].exe = v, ![a].backup = files[a].exe, ![a].okFlag = FALSE,
                            ![a].rolledBack = 0, ![a].state = Swapped(agent[a].dep, v)]
  /\ PollGoesTo(a, "ready")
  /\ UNCHANGED <<platformVars, watchdog, restarts, cutOff, cancels, upgradeFaults>>

\* The host stops between the renames, or between them and the state file.
TearsSwap(a) ==
  /\ agent[a].poll = "checking" /\ agent[a].version \in Sound
  /\ UpgradeFault
  /\ \E v \in {0, agent[a].version} :
       files' = [files EXCEPT ![a].exe = v, ![a].backup = files[a].exe, ![a].okFlag = FALSE, ![a].rolledBack = 0]
  /\ agent' = [agent EXCEPT ![a] = Stopped]
  /\ watchdog' = [watchdog EXCEPT ![a] = NoWatchdog]
  /\ restarts' = [restarts EXCEPT ![a] = TRUE]
  /\ cutOff' = [cutOff EXCEPT ![a] = TRUE]
  /\ UNCHANGED <<platformVars, cancels>>

\* runWatchdog has nothing to do when the state file does not tell of a swap.
Watched(s) == IF s.phase = "swapped" THEN [at |-> "waiting", dep |-> s.dep, version |-> s.version] ELSE NoWatchdog

\* Mutant of HandsOver: the swap is reported as the installation.
HandsOverInstalled(a) ==
  LET d == agent[a].dep IN
  /\ agent[a].poll = "ready"
  /\ Heard(d, "installed") \/ Unanswered(d, "installed")
  /\ watchdog' = [watchdog EXCEPT ![a] = Watched(files[a].state)]
  /\ agent' = [agent EXCEPT ![a] = Stopped]
  /\ UNCHANGED <<asked, reported, cycle, files, restarts, cutOff, cancels>>

\* "ready" is reported, whatever comes of that; then the watchdog is started and the agent exits.
HandsOver(a) ==
  LET d == agent[a].dep IN
  /\ agent[a].poll = "ready"
  /\ Heard(d, "ready") \/ Unanswered(d, "ready")
  /\ watchdog' = [watchdog EXCEPT ![a] = Watched(files[a].state)]
  /\ agent' = [agent EXCEPT ![a] = Stopped]
  /\ UNCHANGED <<asked, reported, cycle, files, restarts, cutOff, cancels>>

\* The watchdog cannot be started: the old executable is put back.
RestartFails(a) ==
  /\ agent[a].poll = "ready"
  /\ UpgradeFault
  /\ files' = [files EXCEPT ![a].exe = files[a].backup, ![a].backup = 0, ![a].state = NoState]
  /\ Fails(a)
  /\ UNCHANGED <<platformVars, watchdog, restarts, cutOff, cancels>>

\* The first heartbeat of a process that succeeds is its proof of health.
Heartbeats(a) ==
  LET s == files[a].state
      proof == s.phase = "swapped" /\ s.version = agent[a].runs IN
  /\ agent[a].runs \in Healthy
  /\ ~agent[a].signalled
  /\ reported' = [reported EXCEPT ![a] = agent[a].runs]
  /\ agent' = [agent EXCEPT ![a].signalled = TRUE, ![a].healing = IF proof THEN s.dep ELSE agent[a].healing]
  /\ files' = [files EXCEPT ![a].okFlag = files[a].okFlag \/ proof]
  /\ UNCHANGED <<deployments, asked, cycle, watchdog, restarts, cutOff, cancels, upgradeFaults>>

ReportInstalled(a) ==
  LET d == agent[a].healing IN
  /\ d # 0
  /\ \/ Heard(d, "installed") /\ SetState(a, NoState)
     \/ Unanswered(d, "installed") /\ SetState(a, Unreported(d, "installed"))
  /\ agent' = [agent EXCEPT ![a].healing = 0]
  /\ UNCHANGED <<asked, reported, cycle, watchdog, restarts, cutOff, cancels>>

-----------------------------------------------------------------------------
(***************************************************************************)
(* The watchdog, the task scheduler and faults                             *)
(***************************************************************************)
\* startAgent: harmless when an agent runs already.
StartAgent(a, v) ==
  agent' = [agent EXCEPT ![a] = IF Runs(a) THEN agent[a] ELSE Started(v)]

WatchdogStarts(a) ==
  /\ watchdog[a].at = "waiting"
  /\ StartAgent(a, files[a].exe)
  /\ watchdog' = [watchdog EXCEPT ![a].at = "watching"]
  /\ UNCHANGED <<platformVars, files, restarts, cutOff, cancels, upgradeFaults>>

WatchdogSeesHealth(a) ==
  /\ watchdog[a].at = "watching"
  /\ files[a].okFlag
  /\ watchdog' = [watchdog EXCEPT ![a] = NoWatchdog]
  /\ UNCHANGED <<platformVars, files, agent, restarts, cutOff, cancels, upgradeFaults>>

\* The last look before the deadline finds no flag.
DeadlinePasses(a) ==
  /\ watchdog[a].at = "watching"
  /\ ~files[a].okFlag
  /\ HealthMayBeLate \/ files[a].exe \notin Healthy
  /\ watchdog' = [watchdog EXCEPT ![a].at = "late"]
  /\ UNCHANGED <<platformVars, files, agent, restarts, cutOff, cancels, upgradeFaults>>

WatchdogKills(a) ==
  /\ watchdog[a].at = "late"
  /\ agent' = [agent EXCEPT ![a] = Stopped]
  /\ watchdog' = [watchdog EXCEPT ![a].at = "restoring"]
  /\ UNCHANGED <<platformVars, files, restarts, cutOff, cancels, upgradeFaults>>

\* Mutant of WatchdogRestores: the restored agent is not started.
RestoresOnly(a) ==
  /\ watchdog[a].at = "restoring"
  /\ files' = [files EXCEPT ![a].exe = files[a].backup, ![a].rolledBack = watchdog[a].dep, ![a].restored = TRUE]
  /\ watchdog' = [watchdog EXCEPT ![a] = NoWatchdog]
  /\ UNCHANGED <<platformVars, agent, restarts, cutOff, cancels, upgradeFaults>>

\* The previous executable is copied back, which fails while the new one runs again; the
\* rollback is written down and the agent started.
WatchdogRestores(a) ==
  /\ watchdog[a].at = "restoring"
  /\ \E copied \in BOOLEAN :
       /\ IF copied THEN ~Runs(a) /\ UNCHANGED upgradeFaults
                    ELSE IF Runs(a) THEN UNCHANGED upgradeFaults ELSE UpgradeFault
       /\ LET v == IF copied THEN files[a].backup ELSE files[a].exe IN
            /\ files' = [files EXCEPT ![a].exe = v, ![a].rolledBack = watchdog[a].dep, ![a].restored = copied]
            /\ StartAgent(a, v)
       /\ cutOff' = [cutOff EXCEPT ![a] = cutOff[a] \/ ~copied]
  /\ watchdog' = [watchdog EXCEPT ![a] = NoWatchdog]
  /\ UNCHANGED <<platformVars, restarts, cancels>>

\* The agent's process ends; the task scheduler starts it again, as it does at logon.
AgentCrashes(a) ==
  /\ Runs(a)
  /\ UpgradeFault
  /\ agent' = [agent EXCEPT ![a] = Stopped]
  /\ restarts' = [restarts EXCEPT ![a] = TRUE]
  /\ cutOff' = [cutOff EXCEPT ![a] = cutOff[a] \/ agent[a].poll = "ready"]
  /\ UNCHANGED <<platformVars, files, watchdog, cancels>>

HostRestarts(a) ==
  /\ UpgradeFault
  /\ agent' = [agent EXCEPT ![a] = Stopped]
  /\ watchdog' = [watchdog EXCEPT ![a] = NoWatchdog]
  /\ restarts' = [restarts EXCEPT ![a] = TRUE]
  /\ cutOff' = [cutOff EXCEPT ![a] = cutOff[a] \/ agent[a].poll = "ready" \/ watchdog[a].at # "none"]
  /\ UNCHANGED <<platformVars, files, cancels>>

TaskStarts(a) ==
  /\ restarts[a] /\ files[a].exe # 0
  /\ StartAgent(a, files[a].exe)
  /\ restarts' = [restarts EXCEPT ![a] = FALSE]
  /\ UNCHANGED <<platformVars, files, watchdog, cutOff, cancels, upgradeFaults>>

-----------------------------------------------------------------------------
PollStep(a) ==
  \/ PollBegins(a) \/ ReportRolledBack(a) \/ ReportAgain(a) \/ ReportResult(a)
  \/ (\E d \in DOMAIN deployments : TakesDeployment(a, d))
  \/ FindsNoUpgrade(a) \/ AnnouncesDownload(a) \/ Downloads(a) \/ DownloadFails(a)
  \/ CheckFails(a) \/ SwapsIn(a) \/ HandsOver(a)

WatchdogStep(a) ==
  \/ WatchdogStarts(a) \/ WatchdogSeesHealth(a) \/ DeadlinePasses(a)
  \/ WatchdogKills(a) \/ WatchdogRestores(a)

PlatformStep ==
  \/ \E a \in Agents, v \in Versions : CycleChooses(a, v)
  \/ \E p \in Admins, a \in Agents, v \in Versions : RequestUpgrade(p, a, v) \/ RequestStages(p, a, v)
  \/ \E d \in DOMAIN deployments : RequestCancelUpgrade(d)
  \/ CycleBegins \/ CycleEnds \/ CycleStages

UpgradeNext ==
  \/ PlatformStep
  \/ \E a \in Agents :
       \/ PollStep(a) \/ Heartbeats(a) \/ ReportInstalled(a) \/ WatchdogStep(a)
       \/ TearsSwap(a) \/ RestartFails(a)
       \/ AgentCrashes(a) \/ HostRestarts(a) \/ TaskStarts(a)

UpgradeSpec == UpgradeInit /\ [][UpgradeNext]_upgradeVars

\* A result that is reported again and again is heard in the end.
IsHeard(a) ==
  \/ ReportRolledBack(a) /\ files'[a].rolledBack = 0
  \/ (ReportAgain(a) \/ ReportResult(a)) /\ Heard(agent[a].dep, agent[a].status)

\* An agent that asks again and again is answered in the end.
TakesSome(a) == \E d \in DOMAIN deployments : TakesDeployment(a, d)

\* The loops of a healthy agent and of a watchdog go on, and the task scheduler starts what it owes.
UpgradeFairness ==
  \A a \in Agents :
    /\ WF_upgradeVars(agent[a].runs \in Healthy /\ PollStep(a))
    /\ SF_upgradeVars(agent[a].runs \in Healthy /\ IsHeard(a))
    /\ SF_upgradeVars(agent[a].runs \in Healthy /\ TakesSome(a))
    /\ WF_upgradeVars(Heartbeats(a))
    /\ WF_upgradeVars(ReportInstalled(a))
    /\ WF_upgradeVars(WatchdogStep(a))
    /\ WF_upgradeVars(TaskStarts(a))

FairUpgradeSpec == UpgradeSpec /\ UpgradeFairness

-----------------------------------------------------------------------------
\* Every variable has its type.
UpgradeTypeOK ==
  /\ deployments \in Seq(Deployment) /\ Len(deployments) <= MaxDeployments
  /\ asked \subseteq Admins \X Agents \X Versions
  /\ reported \in [Agents -> Versions]
  /\ cycle \in Cycle
  /\ files \in [Agents -> Files]
  /\ agent \in [Agents -> Agent]
  /\ watchdog \in [Agents -> Watchdog]
  /\ restarts \in [Agents -> BOOLEAN]
  /\ cutOff \in [Agents -> BOOLEAN]
  /\ cancels \in 0..MaxCancels
  /\ upgradeFaults \in 0..MaxUpgradeFaults

\* While a watchdog may have to restore it, the backup is there and older than what the
\* watchdog watches: no later upgrade of the same agent has replaced it.
WatchdogCanRestore ==
  \A a \in Agents : watchdog[a].at # "none" =>
    /\ files[a].backup # 0
    /\ files[a].backup < watchdog[a].version

\* A deployment the platform shows as installed is undone only by a watchdog whose last look came
\* before the proof of health, and that leaves a record: unless the host keeps, or the platform has
\* been told of, a rollback of that version, its executable, if it has one, is that or a later one.
InstalledStays ==
  \A d \in DOMAIN deployments :
    LET a == deployments[d].agent
        v == deployments[d].version IN
    (deployments[d].status = "installed" /\ files[a].exe # 0 /\ files[a].exe < v)
      => \E e \in DOMAIN deployments :
           /\ deployments[e].agent = a /\ deployments[e].version = v
           /\ files[a].rolledBack = e \/ deployments[e].status = "rolled_back"

\* A build is staged automatically for an agent once: it is staged again only after it was
\* installed there, never after it failed or was rolled back.
AutoTriesABuildOnce ==
  \A d, e \in DOMAIN deployments :
    (/\ d < e /\ deployments[d].auto /\ deployments[e].auto
     /\ deployments[d].agent = deployments[e].agent
     /\ deployments[d].version = deployments[e].version) => deployments[d].status = "installed"

\* What the platform is told at the end of an upgrade is so on the host at that moment: an agent
\* says "installed" only when it runs that version, and "rolled back", once the watchdog has
\* restored the old executable, only when it runs another.
ResultsAreTrue ==
  [][\A d \in DOMAIN deployments :
       LET a == deployments[d].agent IN
       /\ (deployments'[d].status = "installed" /\ IsUnfinished(d))
             => agent[a].runs = deployments[d].version
       /\ (deployments'[d].status = "rolled_back" /\ IsUnfinished(d) /\ files[a].restored)
             => agent[a].runs # deployments[d].version]_upgradeVars

\* Together: what the platform shows of an upgrade was so when it was told, and stays so or is
\* undone by a rollback on record.
ResultsHold == []InstalledStays /\ ResultsAreTrue

\* A host that needs a person, after an upgrade was cut off: no executable, or one that does not come
\* up and nobody watches.
Stranded(a) ==
  /\ cutOff[a]
  /\ \/ files[a].exe = 0
     \/ watchdog[a].at = "none" /\ {files[a].exe, agent[a].runs} \ {0} \notin SUBSET Healthy

\* Whenever its agent has stopped, a host comes to run a version that is healthy, the new one or the
\* previous one after the watchdog's rollback, unless the upgrade was cut off: the host stopped
\* between the renames and the watchdog's verdict, or the backup could not be copied back.
AgentComesBack ==
  \A a \in Agents : ~Runs(a) ~> (agent[a].runs \in Healthy \/ Stranded(a))

\* The platform already has a result of the deployment whose rollback the host wants to report.
RollbackRefused(a) == files[a].rolledBack # 0 /\ ~IsUnfinished(files[a].rolledBack)

\* Every deployment gets a result, though reports fail and processes crash, unless its agent is
\* occupied with the report of a rollback that the platform refuses.
EveryUpgradeEnds ==
  \A d \in 1..MaxDeployments :
    (d \in DOMAIN deployments)
      ~> /\ d \in DOMAIN deployments
         /\ LET a == deployments[d].agent IN ~IsUnfinished(d) \/ Stranded(a) \/ RollbackRefused(a)

\* docs/workstation-agent.md: "A result the platform keeps refusing is given up on after about an
\* hour of polls."
RefusalNeverHoldsBack ==
  \A a \in Agents : \A d \in 1..MaxDeployments :
    files[a].rolledBack = d ~> (files[a].rolledBack # d \/ Stranded(a))
=============================================================================
