---------------------------- MODULE AgentProofs ----------------------------
(***************************************************************************)
(* What AgentUpgrades and AgentCommands promise, for every number of       *)
(* agents, versions, deployments, machines, commands and faults.           *)
(***************************************************************************)
EXTENDS AgentCommands, AgentUpgrades, SequenceTheorems, WellFoundedInduction, TLAPS

-----------------------------------------------------------------------------
(***************************************************************************)
(* Upgrades.  Each host is described by what its files, its process and    *)
(* its watchdog say of each other and of the agent's own deployments.      *)
(***************************************************************************)
Own(a, d) == d \in DOMAIN deployments /\ deployments[d].agent = a
OwnOf(a, d, v) == Own(a, d) /\ deployments[d].version = v

\* While the automatic cycle is between looking and staging, every deployment it made before is
\* finished, and those of the build it is to stage were installed.
CycleStands ==
  /\ cycle.at = "staging" => cycle.agent \in Agents /\ cycle.version \in Versions
  /\ cycle.at \in {"looking", "staging"} =>
       \A d \in DOMAIN deployments : deployments[d].auto => ~IsUnfinished(d)
  /\ cycle.at = "staging" =>
       \A d \in DOMAIN deployments :
         (/\ deployments[d].auto /\ deployments[d].agent = cycle.agent
          /\ deployments[d].version = cycle.version) => deployments[d].status = "installed"

\* A watchdog may yet see the flag.
Looking(a) == watchdog[a].at \in {"waiting", "watching"}

\* A process runs the executable that is there, or the backup of it just after the swap; it polls
\* only while no watchdog watches or after its last look, and reports its health as the version of
\* the swap.
ProcessStands(a) ==
  /\ agent[a].runs # 0 => agent[a].runs = IF agent[a].poll = "ready" THEN files[a].backup ELSE files[a].exe
  /\ agent[a].poll # "idle" => agent[a].runs # 0 /\ ~Looking(a)
  /\ agent[a].poll \in {"checking", "ready"} => watchdog[a].at = "none"
  /\ agent[a].healing # 0 =>
       /\ agent[a].poll \in {"idle", "rolledBack"} /\ agent[a].runs \in Healthy /\ agent[a].runs # 0
       /\ OwnOf(a, agent[a].healing, agent[a].runs)
       /\ Looking(a) => files[a].okFlag

\* What a step of the poll works on is the agent's own, and its result is so.
PollStands(a) ==
  LET g == agent[a]
      f == files[a]
      s == f.state IN
  /\ g.poll = "rolledBack" => f.rolledBack # 0 /\ g.dep = f.rolledBack /\ g.status = "rolled_back"
  /\ g.poll = "unreported" => s.phase = "unreported" /\ g.dep = s.dep /\ g.status = s.status
  /\ g.poll \notin {"idle", "rolledBack"} => f.rolledBack = 0 \/ ~f.restored
  /\ g.poll \in {"asking", "announcing", "downloading", "checking"} => s.phase = "none"
  /\ g.poll \in {"announcing", "downloading", "checking", "ready"} =>
       OwnOf(a, g.dep, g.version) /\ g.runs < g.version
  /\ g.poll = "ready" => /\ f.exe = g.version /\ ~f.okFlag /\ f.rolledBack = 0
                         /\ s.phase = "swapped" /\ s.version = g.version /\ s.dep = g.dep
  /\ g.poll = "reporting" => /\ Own(a, g.dep) /\ g.status # "rolled_back"
                             /\ s.phase = "none" \/ (s.phase = "swapped" /\ s.version # f.exe)
                             /\ g.status = "installed" => deployments[g.dep].version = f.exe

\* So are the results and the rollback that wait in the files.
FilesStand(a) ==
  LET f == files[a]
      s == f.state IN
  /\ s.phase # "none" => Own(a, s.dep)
  /\ s.phase = "swapped" => deployments[s.dep].version = s.version
  /\ s.phase = "unreported" =>
       /\ s.status # "rolled_back"
       /\ (s.status = "installed" /\ (f.rolledBack = 0 \/ ~f.restored)) => deployments[s.dep].version = f.exe
  /\ f.rolledBack # 0 =>
       /\ Own(a, f.rolledBack)
       /\ f.restored <=> f.exe # deployments[f.rolledBack].version

\* A watchdog watches the version in the executable, over an older one in the backup; until its last
\* look health is proved, or the state file still tells of the swap.
WatchStands(a) ==
  LET f == files[a]
      w == watchdog[a] IN
  w.at # "none" =>
    /\ OwnOf(a, w.dep, w.version)
    /\ f.exe = w.version /\ f.backup # 0 /\ f.backup < w.version /\ f.rolledBack = 0
    /\ Looking(a) =>
         f.okFlag \/ (f.state.phase = "swapped" /\ f.state.version = f.exe)

\* A rollback of version v is on record, on the host or on the platform.
Undone(a, v) ==
  \E e : OwnOf(a, e, v) /\ (files[a].rolledBack = e \/ deployments[e].status = "rolled_back")

\* What is installed is kept by the executable, and by its backup as long as that may come back,
\* unless it is what the watchdog watches or its rollback is on record.
InstalledStand(a) ==
  \A d \in DOMAIN deployments :
    LET v == deployments[d].version IN
    (deployments[d].agent = a /\ deployments[d].status = "installed" /\ ~Undone(a, v)) =>
      /\ files[a].exe # 0 => files[a].exe >= v
      /\ agent[a].poll = "ready" => files[a].backup >= v
      /\ watchdog[a].at # "none" => files[a].exe = v \/ files[a].backup >= v

HostStands(a) ==
  ProcessStands(a) /\ PollStands(a) /\ FilesStand(a) /\ WatchStands(a) /\ InstalledStand(a)

\* Every variable has its type, but for the requests under way, which no host depends on.
HostsTypeOK ==
  /\ deployments \in Seq(Deployment) /\ Len(deployments) <= MaxDeployments
  /\ reported \in [Agents -> Versions]
  /\ cycle \in Cycle
  /\ files \in [Agents -> Files]
  /\ agent \in [Agents -> Agent]
  /\ watchdog \in [Agents -> Watchdog]
  /\ restarts \in [Agents -> BOOLEAN]
  /\ cutOff \in [Agents -> BOOLEAN]
  /\ cancels \in 0..MaxCancels
  /\ upgradeFaults \in 0..MaxUpgradeFaults

UpgradesInv ==
  /\ HostsTypeOK
  /\ CycleStands /\ AutoTriesABuildOnce
  /\ \A a \in Agents : HostStands(a)

-----------------------------------------------------------------------------
(***************************************************************************)
(* Rows                                                                    *)
(***************************************************************************)
\* The places of a sequence.
LEMMA Places ==
  ASSUME NEW S, NEW s \in Seq(S)
  PROVE  /\ Len(s) \in Nat /\ DOMAIN s = 1..Len(s)
         /\ \A i \in DOMAIN s : s[i] \in S
  BY LenProperties, ElementOfSeq

\* An update of an element is a sequence of the same length.
LEMMA Updates ==
  ASSUME NEW S, NEW s \in Seq(S), NEW i \in DOMAIN s, NEW e \in S
  PROVE  LET t == [s EXCEPT ![i] = e] IN
         /\ t \in Seq(S) /\ Len(t) = Len(s) /\ DOMAIN t = DOMAIN s
         /\ \A j \in DOMAIN s : t[j] = IF j = i THEN e ELSE s[j]
  <1>1. i \in 1..Len(s)
    BY LenProperties
  <1> QED
    BY <1>1, ExceptSeq, LenProperties

LEMMA Appended ==
  ASSUME NEW S, NEW s \in Seq(S), NEW e \in S
  PROVE  LET t == Append(s, e) IN
         /\ t \in Seq(S) /\ Len(t) = Len(s) + 1 /\ DOMAIN t = DOMAIN s \union {Len(s) + 1}
         /\ t[Len(s) + 1] = e
         /\ \A j \in DOMAIN s : t[j] = s[j]
  <1>1. Append(s, e) \in Seq(S) /\ Len(Append(s, e)) = Len(s) + 1
    BY AppendProperties
  <1>2. DOMAIN s = 1..Len(s) /\ Len(s) \in Nat /\ DOMAIN Append(s, e) = 1..(Len(s) + 1)
    BY <1>1, LenProperties
  <1>3. 1..(Len(s) + 1) = 1..Len(s) \union {Len(s) + 1}
    BY <1>2
  <1> QED
    BY <1>1, <1>2, <1>3, AppendProperties

Statuses == Unfinished \union Finished

\* A deployment's places are numbers of deployments.
LEMMA DeploymentPlaces ==
  ASSUME HostsTypeOK
  PROVE  /\ DOMAIN deployments = 1..Len(deployments) /\ Len(deployments) \in 0..MaxDeployments
         /\ DOMAIN deployments \subseteq DeploymentIds
         /\ \A d \in DOMAIN deployments :
              /\ deployments[d] \in Deployment
              /\ deployments[d].agent \in Agents /\ deployments[d].version \in Versions
              /\ deployments[d].status \in Statuses /\ deployments[d].auto \in BOOLEAN
  <1>1. deployments \in Seq(Deployment) /\ Len(deployments) <= MaxDeployments /\ MaxDeployments \in Nat
    BY UpgradesAssumption DEF HostsTypeOK, UpgradesAssumption
  <1>2. /\ Len(deployments) \in Nat /\ DOMAIN deployments = 1..Len(deployments)
        /\ \A d \in DOMAIN deployments : deployments[d] \in Deployment
    BY <1>1, Places
  <1> QED
    BY <1>1, <1>2 DEF DeploymentIds, Deployment, Statuses

\* Deployments stay what they are; a status changes for agent a only, of one that is unfinished.
Moves(a) ==
  /\ deployments' \in Seq(Deployment) /\ Len(deployments') = Len(deployments)
  /\ DOMAIN deployments' = DOMAIN deployments
  /\ \A d \in DOMAIN deployments :
       /\ deployments'[d].agent = deployments[d].agent
       /\ deployments'[d].version = deployments[d].version
       /\ deployments'[d].auto = deployments[d].auto
       /\ deployments'[d].status = deployments[d].status \/ (IsUnfinished(d) /\ deployments[d].agent = a)

\* The status of one deployment.
LEMMA StatusMoves ==
  ASSUME HostsTypeOK, NEW a, NEW d, Own(a, d), NEW s \in Statuses, IsUnfinished(d),
         deployments' = [deployments EXCEPT ![d].status = s]
  PROVE  /\ Moves(a)
         /\ \A e \in DOMAIN deployments : deployments'[e].status = IF e = d THEN s ELSE deployments[e].status
  <1> DEFINE r == [deployments[d] EXCEPT !.status = s]
  <1>1. d \in DOMAIN deployments /\ deployments[d] \in Deployment
    BY DeploymentPlaces DEF Own
  <1>2. /\ r \in Deployment /\ r.status = s /\ r.agent = deployments[d].agent
        /\ r.version = deployments[d].version /\ r.auto = deployments[d].auto
    BY <1>1 DEF Deployment, Statuses
  <1>3. deployments' = [deployments EXCEPT ![d] = r]
    OBVIOUS
  <1> HIDE DEF r
  <1>4. deployments \in Seq(Deployment)
    BY DEF HostsTypeOK
  <1>5. /\ deployments' \in Seq(Deployment) /\ Len(deployments') = Len(deployments)
        /\ DOMAIN deployments' = DOMAIN deployments
        /\ \A e \in DOMAIN deployments : deployments'[e] = IF e = d THEN r ELSE deployments[e]
    BY <1>1, <1>2, <1>3, <1>4, Updates
  <1> QED
    BY <1>1, <1>2, <1>5 DEF Moves, Own

LEMMA NothingMoves ==
  ASSUME HostsTypeOK, NEW a, deployments' = deployments
  PROVE  Moves(a)
  BY DEF Moves, HostsTypeOK

\* A fault is within its bound.
LEMMA FaultCounts ==
  ASSUME HostsTypeOK, UpgradeFault
  PROVE  upgradeFaults' \in 0..MaxUpgradeFaults
  BY UpgradesAssumption DEF HostsTypeOK, UpgradeFault, UpgradesAssumption

\* A report of an agent's own deployment, heard or not.
LEMMA Reports ==
  ASSUME HostsTypeOK, NEW a, NEW d, Own(a, d), NEW s \in Statuses, Heard(d, s) \/ Unanswered(d, s)
  PROVE  /\ Moves(a) /\ upgradeFaults' \in 0..MaxUpgradeFaults
         /\ \A e \in DOMAIN deployments :
              deployments'[e].status = deployments[e].status \/ (e = d /\ IsUnfinished(d) /\ deployments'[e].status = s)
  <1>1. CASE deployments' = deployments /\ upgradeFaults' = upgradeFaults
    BY <1>1, NothingMoves DEF HostsTypeOK
  <1>2. CASE /\ IsUnfinished(d)
             /\ UpgradeFault \/ upgradeFaults' = upgradeFaults
             /\ deployments' = [deployments EXCEPT ![d].status = s]
    <2>1. upgradeFaults' \in 0..MaxUpgradeFaults
      BY <1>2, FaultCounts DEF HostsTypeOK
    <2> QED
      BY <1>2, <2>1, StatusMoves
  <1> QED
    BY <1>1, <1>2 DEF Heard, Unanswered

-----------------------------------------------------------------------------
(***************************************************************************)
(* A step of one host                                                      *)
(***************************************************************************)
OnlyHost(a) ==
  \A b \in Agents \ {a} : files'[b] = files[b] /\ agent'[b] = agent[b] /\ watchdog'[b] = watchdog[b]

\* The other hosts stand, whatever becomes of a's deployments.
\* A rollback on record stays on record while the host's own record does.
LEMMA UndoneStays ==
  ASSUME NEW b, Moves(b), NEW a, NEW v, files'[a].rolledBack = files[a].rolledBack, Undone(a, v)
  PROVE  Undone(a, v)'
  <1>1. PICK e : OwnOf(a, e, v) /\ (files[a].rolledBack = e \/ deployments[e].status = "rolled_back")
    BY DEF Undone
  <1>2. OwnOf(a, e, v)' /\ (deployments[e].status = "rolled_back" => deployments'[e].status = "rolled_back")
    BY <1>1 DEF OwnOf, Own, Moves, IsUnfinished, Unfinished
  <1> QED
    BY <1>1, <1>2 DEF Undone

\* What is installed is kept when neither the executables nor the record of a rollback change.
LEMMA InstalledKept ==
  ASSUME NEW b, Moves(b), NEW a, InstalledStand(a),
         \A d \in DOMAIN deployments :
           (deployments[d].agent = a /\ deployments'[d].status = "installed") => deployments[d].status = "installed",
         files'[a].exe = files[a].exe, files'[a].backup = files[a].backup,
         files'[a].rolledBack = files[a].rolledBack,
         agent'[a].poll = "ready" => agent[a].poll = "ready",
         watchdog'[a].at # "none" => watchdog[a].at # "none"
  PROVE  InstalledStand(a)'
  <1> SUFFICES ASSUME NEW d \in DOMAIN deployments', NEW v, v = deployments[d].version,
                      deployments'[d].agent = a, deployments'[d].status = "installed", ~Undone(a, v)'
               PROVE  /\ files[a].exe # 0 => files[a].exe >= v
                      /\ agent'[a].poll = "ready" => files[a].backup >= v
                      /\ watchdog'[a].at # "none" => files[a].exe = v \/ files[a].backup >= v
    BY DEF InstalledStand, Moves
  <1>1. d \in DOMAIN deployments /\ deployments[d].agent = a /\ deployments[d].status = "installed"
    BY DEF Moves
  <1>2. ~Undone(a, v)
    BY UndoneStays
  <1> QED
    BY <1>1, <1>2 DEF InstalledStand

LEMMA OthersStand ==
  ASSUME UpgradesInv, NEW a \in Agents, OnlyHost(a), Moves(a), NEW b \in Agents, b # a
  PROVE  HostStands(b)'
  <1>1. /\ files'[b] = files[b] /\ agent'[b] = agent[b] /\ watchdog'[b] = watchdog[b]
        /\ HostStands(b)
    BY DEF OnlyHost, UpgradesInv
  <1>2. \A d : /\ Own(b, d) => Own(b, d)' /\ deployments'[d].version = deployments[d].version
               /\ \A v : OwnOf(b, d, v) => OwnOf(b, d, v)'
    BY DEF Own, OwnOf, Moves
  <1>3. ProcessStands(b)'
    BY <1>1, <1>2 DEF HostStands, ProcessStands, Looking
  <1>4. PollStands(b)'
    BY <1>1, <1>2 DEF HostStands, PollStands
  <1>5. FilesStand(b)'
    BY <1>1, <1>2 DEF HostStands, FilesStand
  <1>6. WatchStands(b)'
    BY <1>1, <1>2 DEF HostStands, WatchStands, Looking
  <1>7. InstalledStand(b)'
    <2>1. \A d \in DOMAIN deployments :
            deployments[d].agent = b => deployments'[d].status = deployments[d].status
      BY DEF Moves
    <2> QED
      BY <1>1, <2>1, InstalledKept DEF HostStands
  <1> QED
    BY <1>3, <1>4, <1>5, <1>6, <1>7 DEF HostStands

\* The cycle stands while deployments only move: what is finished stays as it is.
LEMMA CycleStaysPut ==
  ASSUME UpgradesInv, NEW a, Moves(a), cycle' = cycle
  PROVE  CycleStands' /\ AutoTriesABuildOnce'
  <1>1. \A d \in DOMAIN deployments : ~IsUnfinished(d) => deployments'[d].status = deployments[d].status
    BY DEF Moves
  <1>2. \A d \in DOMAIN deployments : deployments[d].status = "installed" => ~IsUnfinished(d)
    BY DEF IsUnfinished, Unfinished
  <1>3. \A d \in DOMAIN deployments : ~IsUnfinished(d) => ~IsUnfinished(d)'
    BY <1>1 DEF IsUnfinished
  <1>4. CycleStands'
    BY <1>1, <1>2, <1>3 DEF CycleStands, UpgradesInv, Moves
  <1>5. AutoTriesABuildOnce'
    BY <1>1, <1>2 DEF AutoTriesABuildOnce, UpgradesInv, Moves
  <1> QED
    BY <1>4, <1>5

HostTyped ==
  /\ files \in [Agents -> Files] /\ agent \in [Agents -> Agent] /\ watchdog \in [Agents -> Watchdog]
  /\ restarts \in [Agents -> BOOLEAN] /\ cutOff \in [Agents -> BOOLEAN]

\* So a step of one host need only be looked at there.
LEMMA HostStep ==
  ASSUME UpgradesInv, NEW a \in Agents, OnlyHost(a), Moves(a), cycle' = cycle, cancels' = cancels,
         reported' \in [Agents -> Versions], upgradeFaults' \in 0..MaxUpgradeFaults,
         HostTyped', HostStands(a)'
  PROVE  UpgradesInv'
  <1>1. HostsTypeOK'
    BY DEF UpgradesInv, HostsTypeOK, Moves, HostTyped
  <1>2. \A b \in Agents : HostStands(b)'
    BY OthersStand
  <1> QED
    BY <1>1, <1>2, CycleStaysPut DEF UpgradesInv

-----------------------------------------------------------------------------
(***************************************************************************)
(* What a step writes of the process and of the files                      *)
(***************************************************************************)
\* The process of a host is another, and no other host's.
LEMMA AgentWritten ==
  ASSUME HostsTypeOK, NEW a \in Agents, NEW r \in Agent, agent' = [agent EXCEPT ![a] = r]
  PROVE  /\ agent' \in [Agents -> Agent] /\ agent'[a] = r
         /\ \A b \in Agents \ {a} : agent'[b] = agent[b]
  BY DEF HostsTypeOK

LEMMA FilesWritten ==
  ASSUME HostsTypeOK, NEW a \in Agents, NEW r \in Files, files' = [files EXCEPT ![a] = r]
  PROVE  /\ files' \in [Agents -> Files] /\ files'[a] = r
         /\ \A b \in Agents \ {a} : files'[b] = files[b]
  BY DEF HostsTypeOK

LEMMA WatchdogWritten ==
  ASSUME HostsTypeOK, NEW a \in Agents, NEW r \in Watchdog, watchdog' = [watchdog EXCEPT ![a] = r]
  PROVE  /\ watchdog' \in [Agents -> Watchdog] /\ watchdog'[a] = r
         /\ \A b \in Agents \ {a} : watchdog'[b] = watchdog[b]
  BY DEF HostsTypeOK

LEMMA NoneIsTyped ==
  /\ NoState \in State /\ Stopped \in Agent /\ NoWatchdog \in Watchdog /\ 0 \in DeploymentIds
  /\ NoState.phase = "none" /\ NoWatchdog.at = "none"
  /\ Stopped.runs = 0 /\ Stopped.poll = "idle" /\ Stopped.healing = 0
  <1>1. 0 \in DeploymentIds /\ 0 \in 0..MaxUnreported
    BY UpgradesAssumption DEF UpgradesAssumption, DeploymentIds
  <1>2. NoState \in State /\ Stopped \in Agent /\ NoWatchdog \in Watchdog
    BY <1>1 DEF NoState, State, Stopped, Agent, Polls, NoWatchdog, Watchdog, Finished
  <1> QED
    BY <1>1, <1>2 DEF NoState, NoWatchdog, Stopped

\* The fields of what is there.
LEMMA HostFields ==
  ASSUME HostsTypeOK, NEW a \in Agents
  PROVE  /\ agent[a] \in Agent /\ files[a] \in Files /\ watchdog[a] \in Watchdog
         /\ agent[a].runs \in Versions \union {0} /\ agent[a].version \in Versions \union {0}
         /\ agent[a].dep \in DeploymentIds /\ agent[a].healing \in DeploymentIds /\ agent[a].status \in Finished
         /\ agent[a].poll \in Polls
         /\ files[a].exe \in Versions \union {0} /\ files[a].backup \in Versions \union {0}
         /\ files[a].state \in State /\ files[a].state.dep \in DeploymentIds /\ files[a].okFlag \in BOOLEAN
         /\ files[a].state.status \in Finished /\ files[a].state.version \in Versions \union {0}
         /\ files[a].rolledBack \in DeploymentIds
         /\ watchdog[a].dep \in DeploymentIds /\ watchdog[a].version \in Versions \union {0}
         /\ Versions \subseteq Nat
  BY UpgradesAssumption DEF HostsTypeOK, Agent, Files, Watchdog, State, UpgradesAssumption

LEMMA GotoMoves ==
  ASSUME HostsTypeOK, NEW a \in Agents, NEW p \in Polls, PollGoesTo(a, p)
  PROVE  /\ agent' \in [Agents -> Agent] /\ \A b \in Agents \ {a} : agent'[b] = agent[b]
         /\ agent'[a].poll = p /\ agent'[a].runs = agent[a].runs /\ agent'[a].healing = agent[a].healing
         /\ agent'[a].dep = agent[a].dep /\ agent'[a].version = agent[a].version
         /\ agent'[a].status = agent[a].status
  <1> DEFINE r == [agent[a] EXCEPT !.poll = p]
  <1>1. agent[a] \in Agent
    BY HostFields
  <1>2. /\ r \in Agent /\ r.poll = p /\ r.runs = agent[a].runs /\ r.healing = agent[a].healing
        /\ r.dep = agent[a].dep /\ r.version = agent[a].version /\ r.status = agent[a].status
    BY <1>1 DEF Agent
  <1>3. agent' = [agent EXCEPT ![a] = r]
    BY DEF PollGoesTo
  <1> HIDE DEF r
  <1> QED
    BY <1>2, <1>3, AgentWritten

LEMMA WorkMoves ==
  ASSUME HostsTypeOK, NEW a \in Agents, NEW p \in Polls, NEW d \in DeploymentIds, NEW s \in Finished,
         Work(a, p, d, s)
  PROVE  /\ agent' \in [Agents -> Agent] /\ \A b \in Agents \ {a} : agent'[b] = agent[b]
         /\ agent'[a].poll = p /\ agent'[a].dep = d /\ agent'[a].status = s
         /\ agent'[a].runs = agent[a].runs /\ agent'[a].healing = agent[a].healing
  <1> DEFINE r == [agent[a] EXCEPT !.poll = p, !.dep = d, !.status = s]
  <1>1. agent[a] \in Agent
    BY HostFields
  <1>2. /\ r \in Agent /\ r.poll = p /\ r.runs = agent[a].runs /\ r.healing = agent[a].healing
        /\ r.dep = d /\ r.status = s
    BY <1>1 DEF Agent
  <1>3. agent' = [agent EXCEPT ![a] = r]
    BY DEF Work
  <1> HIDE DEF r
  <1> QED
    BY <1>2, <1>3, AgentWritten

LEMMA GoIdleMoves ==
  ASSUME HostsTypeOK, NEW a \in Agents, GoIdle(a)
  PROVE  /\ agent' \in [Agents -> Agent] /\ \A b \in Agents \ {a} : agent'[b] = agent[b]
         /\ agent'[a].poll = "idle" /\ agent'[a].runs = agent[a].runs /\ agent'[a].healing = agent[a].healing
  <1> DEFINE r == [agent[a] EXCEPT !.poll = "idle", !.dep = 0, !.version = 0, !.status = "failed"]
  <1>1. agent[a] \in Agent /\ 0 \in DeploymentIds
    BY HostFields, NoneIsTyped
  <1>2. /\ r \in Agent /\ r.poll = "idle" /\ r.runs = agent[a].runs /\ r.healing = agent[a].healing
    BY <1>1 DEF Agent, Polls, Finished
  <1>3. agent' = [agent EXCEPT ![a] = r]
    BY DEF GoIdle
  <1> HIDE DEF r
  <1> QED
    BY <1>2, <1>3, AgentWritten

LEMMA FailsMoves ==
  ASSUME HostsTypeOK, NEW a \in Agents, Fails(a)
  PROVE  /\ agent' \in [Agents -> Agent] /\ \A b \in Agents \ {a} : agent'[b] = agent[b]
         /\ agent'[a].poll = "reporting" /\ agent'[a].status = "failed" /\ agent'[a].dep = agent[a].dep
         /\ agent'[a].runs = agent[a].runs /\ agent'[a].healing = agent[a].healing
  <1> DEFINE r == [agent[a] EXCEPT !.poll = "reporting", !.status = "failed"]
  <1>1. agent[a] \in Agent
    BY HostFields
  <1>2. /\ r \in Agent /\ r.poll = "reporting" /\ r.runs = agent[a].runs /\ r.healing = agent[a].healing
        /\ r.status = "failed" /\ r.dep = agent[a].dep
    BY <1>1 DEF Agent, Polls, Finished
  <1>3. agent' = [agent EXCEPT ![a] = r]
    BY DEF Fails
  <1> HIDE DEF r
  <1> QED
    BY <1>2, <1>3, AgentWritten

LEMMA StopMoves ==
  ASSUME HostsTypeOK, NEW a \in Agents, agent' = [agent EXCEPT ![a] = Stopped]
  PROVE  /\ agent' \in [Agents -> Agent] /\ \A b \in Agents \ {a} : agent'[b] = agent[b]
         /\ agent'[a].runs = 0 /\ agent'[a].poll = "idle" /\ agent'[a].healing = 0
  BY AgentWritten, NoneIsTyped

LEMMA StartMoves ==
  ASSUME HostsTypeOK, NEW a \in Agents, NEW v \in Versions \union {0}, StartAgent(a, v)
  PROVE  /\ agent' \in [Agents -> Agent] /\ \A b \in Agents \ {a} : agent'[b] = agent[b]
         /\ Runs(a) => agent'[a] = agent[a]
         /\ ~Runs(a) => agent'[a].runs = v /\ agent'[a].poll = "idle" /\ agent'[a].healing = 0
  <1>1. /\ agent[a] \in Agent /\ Started(v) \in Agent
        /\ Started(v).runs = v /\ Started(v).poll = "idle" /\ Started(v).healing = 0
    <2>1. \A q \in Agent : LET r == [q EXCEPT !.runs = v] IN
            r \in Agent /\ r.runs = v /\ r.poll = q.poll /\ r.healing = q.healing
      BY DEF Agent
    <2> QED
      BY <2>1, HostFields, NoneIsTyped DEF Started
  <1>2. CASE Runs(a)
    BY <1>1, <1>2, AgentWritten DEF StartAgent
  <1>3. CASE ~Runs(a)
    BY <1>1, <1>3, AgentWritten DEF StartAgent
  <1> QED
    BY <1>2, <1>3

LEMMA StateMoves ==
  ASSUME HostsTypeOK, NEW a \in Agents, NEW s \in State, SetState(a, s)
  PROVE  /\ files' \in [Agents -> Files] /\ \A b \in Agents \ {a} : files'[b] = files[b]
         /\ files'[a].state = s /\ files'[a].exe = files[a].exe /\ files'[a].backup = files[a].backup
         /\ files'[a].okFlag = files[a].okFlag /\ files'[a].rolledBack = files[a].rolledBack
         /\ files'[a].restored = files[a].restored
  <1> DEFINE r == [files[a] EXCEPT !.state = s]
  <1>1. files[a] \in Files
    BY HostFields
  <1>2. /\ r \in Files /\ r.state = s /\ r.exe = files[a].exe /\ r.backup = files[a].backup
        /\ r.okFlag = files[a].okFlag /\ r.rolledBack = files[a].rolledBack /\ r.restored = files[a].restored
    BY <1>1 DEF Files
  <1>3. files' = [files EXCEPT ![a] = r]
    BY DEF SetState
  <1> HIDE DEF r
  <1> QED
    BY <1>2, <1>3, FilesWritten

LEMMA UnreportedIsTyped ==
  ASSUME NEW d \in DeploymentIds, NEW s \in Finished
  PROVE  /\ Unreported(d, s) \in State /\ Unreported(d, s).phase = "unreported"
         /\ Unreported(d, s).dep = d /\ Unreported(d, s).status = s
  <1>1. \A q \in State : LET r == [q EXCEPT !.phase = "unreported", !.dep = d, !.status = s] IN
          r \in State /\ r.phase = "unreported" /\ r.dep = d /\ r.status = s
    BY DEF State
  <1> QED
    BY <1>1, NoneIsTyped DEF Unreported

LEMMA SwappedIsTyped ==
  ASSUME NEW d \in DeploymentIds, NEW v \in Versions
  PROVE  /\ Swapped(d, v) \in State /\ Swapped(d, v).phase = "swapped"
         /\ Swapped(d, v).dep = d /\ Swapped(d, v).version = v
  <1>1. \A q \in State : LET r == [q EXCEPT !.phase = "swapped", !.dep = d, !.version = v] IN
          r \in State /\ r.phase = "swapped" /\ r.dep = d /\ r.version = v
    BY DEF State
  <1> QED
    BY <1>1, NoneIsTyped DEF Swapped

-----------------------------------------------------------------------------
(***************************************************************************)
(* Polls that change nothing but the process                               *)
(***************************************************************************)
LEMMA InvGives ==
  ASSUME UpgradesInv, NEW a \in Agents
  PROVE  /\ HostsTypeOK /\ HostTyped /\ reported \in [Agents -> Versions]
         /\ upgradeFaults \in 0..MaxUpgradeFaults
         /\ ProcessStands(a) /\ PollStands(a) /\ FilesStand(a) /\ WatchStands(a) /\ InstalledStand(a)
  BY DEF UpgradesInv, HostsTypeOK, HostTyped, HostStands

UnchangedButAgent == UNCHANGED <<files, watchdog, restarts, cutOff, reported, cycle, cancels>>

\* The process goes on running what it ran; the poll is elsewhere, and a watchdog that may yet see the
\* flag sees it idle.
LEMMA PollGoesOn ==
  ASSUME UpgradesInv, NEW a \in Agents, UnchangedButAgent,
         Moves(a), upgradeFaults' \in 0..MaxUpgradeFaults,
         \A d \in DOMAIN deployments :
           deployments'[d].status = "installed" => deployments[d].status = "installed",
         agent' \in [Agents -> Agent], \A b \in Agents \ {a} : agent'[b] = agent[b],
         agent'[a].runs = agent[a].runs, agent'[a].healing = agent[a].healing,
         agent'[a].poll = "ready" <=> agent[a].poll = "ready",
         agent'[a].poll # "idle" => /\ agent[a].runs # 0 /\ ~Looking(a)
                                    /\ agent'[a].poll = "rolledBack" \/ agent[a].healing = 0,
         agent'[a].poll = "checking" => watchdog[a].at = "none",
         PollStands(a)'
  PROVE  UpgradesInv'
  <1> USE InvGives
  <1>1. OnlyHost(a) /\ HostTyped'
    BY DEF OnlyHost, UnchangedButAgent, HostTyped
  <1>2. /\ files'[a] = files[a] /\ watchdog'[a] = watchdog[a]
        /\ \A d : Own(a, d) => Own(a, d)' /\ deployments'[d].version = deployments[d].version
    BY DEF UnchangedButAgent, Own, Moves
  <1>3. ProcessStands(a)'
    BY <1>2 DEF ProcessStands, OwnOf, Looking
  <1>4. FilesStand(a)'
    BY <1>2 DEF FilesStand
  <1>5. WatchStands(a)'
    BY <1>2 DEF WatchStands, OwnOf, Looking
  <1>6. InstalledStand(a)'
    BY <1>2, InstalledKept
  <1>7. HostStands(a)'
    BY <1>3, <1>4, <1>5, <1>6 DEF HostStands
  <1> QED
    BY <1>1, <1>7, HostStep DEF UnchangedButAgent

\* A host is not polled from while its watchdog may yet see the flag.
LEMMA WatchedIsIdle ==
  ASSUME UpgradesInv, NEW a \in Agents, Runs(a), agent[a].poll = "idle", WatchdogHasLooked(a),
         files[a].rolledBack = 0 =>
           \/ files[a].state.phase # "swapped" \/ files[a].state.version # agent[a].runs
  PROVE  ~Looking(a) /\ agent[a].healing = 0
  <1>1. ProcessStands(a) /\ WatchStands(a)
    BY InvGives
  <1>2. agent[a].runs = files[a].exe
    BY <1>1 DEF ProcessStands, Runs
  <1> QED
    BY <1>1, <1>2 DEF WatchStands, WatchdogHasLooked, Looking

LEMMA PollBeginsStep ==
  ASSUME UpgradesInv, NEW a \in Agents, PollBegins(a)
  PROVE  UpgradesInv'
  <1>0. /\ HostsTypeOK /\ ProcessStands(a) /\ FilesStand(a) /\ Moves(a) /\ UnchangedButAgent
        /\ deployments' = deployments /\ upgradeFaults' \in 0..MaxUpgradeFaults
        /\ Runs(a) /\ agent[a].poll = "idle" /\ WatchdogHasLooked(a)
    BY InvGives, NothingMoves DEF PollBegins, UnchangedButAgent, platformVars
  <1>1. /\ files[a].rolledBack \in DeploymentIds /\ files[a].state.dep \in DeploymentIds
        /\ files[a].state.status \in Finished /\ agent[a].runs = files[a].exe /\ agent[a].runs # 0
    BY <1>0, HostFields DEF ProcessStands, Runs
  <1>2. CASE files[a].rolledBack # 0 /\ Work(a, "rolledBack", files[a].rolledBack, "rolled_back")
    <2>1. ~Looking(a) /\ agent[a].healing = 0
      BY <1>0, <1>2, WatchedIsIdle
    <2>2. "rolledBack" \in Polls /\ "rolled_back" \in Finished
      BY DEF Polls, Finished
    <2>3. /\ agent' \in [Agents -> Agent] /\ \A b \in Agents \ {a} : agent'[b] = agent[b]
          /\ agent'[a].poll = "rolledBack" /\ agent'[a].dep = files[a].rolledBack
          /\ agent'[a].status = "rolled_back"
          /\ agent'[a].runs = agent[a].runs /\ agent'[a].healing = agent[a].healing
      BY <1>0, <1>1, <1>2, <2>2, WorkMoves
    <2>4. PollStands(a)'
      BY <1>0, <1>2, <2>3 DEF PollStands, UnchangedButAgent
    <2> QED
      BY <1>0, <1>1, <2>1, <2>3, <2>4, PollGoesOn
  <1>3. CASE files[a].rolledBack = 0 /\ files[a].state.phase = "none" /\ PollGoesTo(a, "asking")
    <2>1. ~Looking(a) /\ agent[a].healing = 0
      BY <1>0, <1>3, WatchedIsIdle
    <2>2. "asking" \in Polls
      BY DEF Polls
    <2>3. /\ agent' \in [Agents -> Agent] /\ \A b \in Agents \ {a} : agent'[b] = agent[b]
          /\ agent'[a].poll = "asking"
          /\ agent'[a].runs = agent[a].runs /\ agent'[a].healing = agent[a].healing
      BY <1>0, <1>3, <2>2, GotoMoves
    <2>4. PollStands(a)'
      BY <1>0, <1>3, <2>3 DEF PollStands, UnchangedButAgent
    <2> QED
      BY <1>0, <1>1, <2>1, <2>3, <2>4, PollGoesOn
  <1>4. CASE /\ files[a].rolledBack = 0 /\ files[a].state.phase = "unreported"
             /\ Work(a, "unreported", files[a].state.dep, files[a].state.status)
    <2>1. ~Looking(a) /\ agent[a].healing = 0
      BY <1>0, <1>4, WatchedIsIdle
    <2>2. "unreported" \in Polls
      BY DEF Polls
    <2>3. /\ agent' \in [Agents -> Agent] /\ \A b \in Agents \ {a} : agent'[b] = agent[b]
          /\ agent'[a].poll = "unreported" /\ agent'[a].dep = files[a].state.dep
          /\ agent'[a].status = files[a].state.status
          /\ agent'[a].runs = agent[a].runs /\ agent'[a].healing = agent[a].healing
      BY <1>0, <1>1, <1>4, <2>2, WorkMoves
    <2>4. PollStands(a)'
      BY <1>0, <1>4, <2>3 DEF PollStands, UnchangedButAgent
    <2> QED
      BY <1>0, <1>1, <2>1, <2>3, <2>4, PollGoesOn
  <1>5. CASE /\ files[a].rolledBack = 0 /\ files[a].state.phase = "swapped"
             /\ files[a].state.version # agent[a].runs
             /\ Work(a, "reporting", files[a].state.dep, "failed")
    <2>1. ~Looking(a) /\ agent[a].healing = 0
      BY <1>0, <1>5, WatchedIsIdle
    <2>2. "reporting" \in Polls /\ "failed" \in Finished
      BY DEF Polls, Finished
    <2>3. /\ agent' \in [Agents -> Agent] /\ \A b \in Agents \ {a} : agent'[b] = agent[b]
          /\ agent'[a].poll = "reporting" /\ agent'[a].dep = files[a].state.dep
          /\ agent'[a].status = "failed"
          /\ agent'[a].runs = agent[a].runs /\ agent'[a].healing = agent[a].healing
      BY <1>0, <1>1, <1>5, <2>2, WorkMoves
    <2>4. Own(a, files[a].state.dep)'
      BY <1>0, <1>5 DEF FilesStand, Own, UnchangedButAgent
    <2>5. PollStands(a)'
      BY <1>0, <1>1, <1>5, <2>3, <2>4 DEF PollStands, UnchangedButAgent
    <2> QED
      BY <1>0, <1>1, <2>1, <2>3, <2>5, PollGoesOn
  <1> QED
    BY <1>2, <1>3, <1>4, <1>5 DEF PollBegins

\* While a poll goes on no watchdog may yet see the flag, and before a rollback is told no health is
\* being reported.
LEMMA Polling ==
  ASSUME UpgradesInv, NEW a \in Agents, agent[a].poll # "idle"
  PROVE  /\ agent[a].runs # 0 /\ ~Looking(a)
         /\ agent[a].poll \in {"checking", "ready"} => watchdog[a].at = "none"
         /\ agent[a].poll # "rolledBack" => /\ agent[a].healing = 0
                                            /\ files[a].rolledBack = 0 \/ ~files[a].restored
         /\ agent[a].poll # "ready" => agent[a].runs = files[a].exe
         /\ agent[a].runs \in Versions
  BY InvGives, HostFields DEF ProcessStands, PollStands

LEMMA TakesDeploymentStep ==
  ASSUME UpgradesInv, NEW a \in Agents, NEW d \in DOMAIN deployments, TakesDeployment(a, d)
  PROVE  UpgradesInv'
  <1>0. /\ HostsTypeOK /\ PollStands(a) /\ Moves(a) /\ UnchangedButAgent
        /\ deployments' = deployments /\ upgradeFaults' \in 0..MaxUpgradeFaults
        /\ agent[a].poll = "asking" /\ Own(a, d)
    BY InvGives, NothingMoves DEF TakesDeployment, UnchangedButAgent, platformVars, Pending, Own
  <1>1. /\ agent[a].runs # 0 /\ ~Looking(a) /\ agent[a].healing = 0
        /\ agent[a].runs = files[a].exe /\ agent[a].runs \in Versions
        /\ (files[a].rolledBack = 0 \/ ~files[a].restored) /\ files[a].state.phase = "none"
    BY <1>0, Polling DEF PollStands
  <1>2. d \in DeploymentIds /\ deployments[d].version \in Versions /\ Versions \subseteq Nat
    BY <1>0, DeploymentPlaces, HostFields
  <1>3. "reporting" \in Polls /\ "announcing" \in Polls /\ "failed" \in Finished /\ "installed" \in Finished
    BY DEF Polls, Finished
  <1>4. ASSUME NEW s \in {"failed", "installed"}, Work(a, "reporting", d, s),
               s = "installed" => deployments[d].version = agent[a].runs
        PROVE  UpgradesInv'
    <2>1. /\ agent' \in [Agents -> Agent] /\ \A b \in Agents \ {a} : agent'[b] = agent[b]
          /\ agent'[a].poll = "reporting" /\ agent'[a].dep = d /\ agent'[a].status = s
          /\ agent'[a].runs = agent[a].runs /\ agent'[a].healing = agent[a].healing
      BY <1>0, <1>2, <1>3, <1>4, WorkMoves
    <2>2. Own(a, d)'
      BY <1>0 DEF Own
    <2>3. PollStands(a)'
      BY <1>0, <1>1, <1>4, <2>1, <2>2 DEF PollStands, UnchangedButAgent
    <2> QED
      BY <1>0, <1>1, <2>1, <2>3, PollGoesOn
  <1>5. CASE /\ deployments[d].version > agent[a].runs
             /\ agent' = [agent EXCEPT ![a].poll = "announcing", ![a].dep = d, ![a].version = deployments[d].version]
    <2> DEFINE r == [agent[a] EXCEPT !.poll = "announcing", !.dep = d, !.version = deployments[d].version]
    <2>1. agent[a] \in Agent
      BY <1>0, HostFields
    <2>2. /\ r \in Agent /\ r.poll = "announcing" /\ r.runs = agent[a].runs /\ r.healing = agent[a].healing
          /\ r.dep = d /\ r.version = deployments[d].version
      BY <1>2, <1>3, <2>1 DEF Agent
    <2>3. agent' = [agent EXCEPT ![a] = r]
      BY <1>5
    <2> HIDE DEF r
    <2>4. /\ agent' \in [Agents -> Agent] /\ agent'[a] = r
          /\ \A b \in Agents \ {a} : agent'[b] = agent[b]
      BY <1>0, <2>2, <2>3, AgentWritten
    <2>5. OwnOf(a, d, deployments[d].version)'
      BY <1>0 DEF Own, OwnOf
    <2>6. agent'[a].runs < agent'[a].version
      BY <1>1, <1>2, <1>5, <2>2, <2>4
    <2>7. PollStands(a)'
      BY <1>0, <1>1, <2>2, <2>4, <2>5, <2>6 DEF PollStands, UnchangedButAgent
    <2> QED
      BY <1>0, <1>1, <2>2, <2>4, <2>7, PollGoesOn
  <1> QED
    BY <1>4, <1>5 DEF TakesDeployment

LEMMA FindsNoUpgradeStep ==
  ASSUME UpgradesInv, NEW a \in Agents, FindsNoUpgrade(a)
  PROVE  UpgradesInv'
  <1>0. /\ HostsTypeOK /\ Moves(a) /\ UnchangedButAgent
        /\ deployments' = deployments /\ upgradeFaults' \in 0..MaxUpgradeFaults
        /\ agent[a].poll = "asking" /\ GoIdle(a)
    BY InvGives, NothingMoves DEF FindsNoUpgrade, UnchangedButAgent, platformVars
  <1>1. /\ agent' \in [Agents -> Agent] /\ \A b \in Agents \ {a} : agent'[b] = agent[b]
        /\ agent'[a].poll = "idle" /\ agent'[a].runs = agent[a].runs /\ agent'[a].healing = agent[a].healing
    BY <1>0, GoIdleMoves
  <1>2. PollStands(a)'
    BY <1>1 DEF PollStands
  <1> QED
    BY <1>0, <1>1, <1>2, PollGoesOn

LEMMA AnnouncesDownloadStep ==
  ASSUME UpgradesInv, NEW a \in Agents, AnnouncesDownload(a)
  PROVE  UpgradesInv'
  <1>0. /\ HostsTypeOK /\ PollStands(a) /\ UnchangedButAgent
        /\ agent[a].poll = "announcing" /\ PollGoesTo(a, "downloading")
        /\ Heard(agent[a].dep, "downloading") \/ Unanswered(agent[a].dep, "downloading")
    BY InvGives DEF AnnouncesDownload, UnchangedButAgent
  <1>1. /\ OwnOf(a, agent[a].dep, agent[a].version) /\ agent[a].runs < agent[a].version
        /\ (files[a].rolledBack = 0 \/ ~files[a].restored) /\ files[a].state.phase = "none"
    BY <1>0 DEF PollStands
  <1>2. "downloading" \in Statuses /\ "downloading" \in Polls /\ Own(a, agent[a].dep)
    BY <1>1 DEF Statuses, Unfinished, Polls, OwnOf
  <1>3. /\ Moves(a) /\ upgradeFaults' \in 0..MaxUpgradeFaults
        /\ \A d \in DOMAIN deployments :
             deployments'[d].status = "installed" => deployments[d].status = "installed"
    BY <1>0, <1>2, Reports
  <1>4. /\ agent' \in [Agents -> Agent] /\ \A b \in Agents \ {a} : agent'[b] = agent[b]
        /\ agent'[a].poll = "downloading" /\ agent'[a].runs = agent[a].runs
        /\ agent'[a].healing = agent[a].healing
        /\ agent'[a].dep = agent[a].dep /\ agent'[a].version = agent[a].version
    BY <1>0, <1>2, GotoMoves
  <1>5. OwnOf(a, agent[a].dep, agent[a].version)'
    BY <1>1, <1>3, <1>4 DEF OwnOf, Own, Moves
  <1>6. PollStands(a)'
    BY <1>0, <1>1, <1>4, <1>5 DEF PollStands, UnchangedButAgent
  <1>7. agent[a].runs # 0 /\ ~Looking(a) /\ agent[a].healing = 0
    BY <1>0, Polling
  <1> QED
    BY <1>0, <1>3, <1>4, <1>6, <1>7, PollGoesOn

LEMMA DownloadsStep ==
  ASSUME UpgradesInv, NEW a \in Agents, Downloads(a)
  PROVE  UpgradesInv'
  <1>0. /\ HostsTypeOK /\ PollStands(a) /\ Moves(a) /\ UnchangedButAgent
        /\ deployments' = deployments /\ upgradeFaults' \in 0..MaxUpgradeFaults
        /\ agent[a].poll = "downloading" /\ PollGoesTo(a, "checking") /\ watchdog[a].at = "none"
    BY InvGives, NothingMoves DEF Downloads, UnchangedButAgent, platformVars
  <1>1. /\ OwnOf(a, agent[a].dep, agent[a].version) /\ agent[a].runs < agent[a].version
        /\ (files[a].rolledBack = 0 \/ ~files[a].restored) /\ files[a].state.phase = "none"
    BY <1>0 DEF PollStands
  <1>2. "checking" \in Polls
    BY DEF Polls
  <1>3. /\ agent' \in [Agents -> Agent] /\ \A b \in Agents \ {a} : agent'[b] = agent[b]
        /\ agent'[a].poll = "checking" /\ agent'[a].runs = agent[a].runs
        /\ agent'[a].healing = agent[a].healing
        /\ agent'[a].dep = agent[a].dep /\ agent'[a].version = agent[a].version
    BY <1>0, <1>2, GotoMoves
  <1>4. OwnOf(a, agent[a].dep, agent[a].version)'
    BY <1>0, <1>1, <1>3 DEF OwnOf, Own
  <1>5. PollStands(a)'
    BY <1>0, <1>1, <1>3, <1>4 DEF PollStands, UnchangedButAgent
  <1>6. agent[a].runs # 0 /\ ~Looking(a) /\ agent[a].healing = 0
    BY <1>0, Polling
  <1> QED
    BY <1>0, <1>3, <1>5, <1>6, PollGoesOn

\* fail, before the swap.
LEMMA FailsStep ==
  ASSUME UpgradesInv, NEW a \in Agents, agent[a].poll \in {"downloading", "checking"}, Fails(a),
         UnchangedButAgent, deployments' = deployments, upgradeFaults' \in 0..MaxUpgradeFaults
  PROVE  UpgradesInv'
  <1>0. HostsTypeOK /\ PollStands(a) /\ Moves(a)
    BY InvGives, NothingMoves
  <1>1. /\ OwnOf(a, agent[a].dep, agent[a].version)
        /\ (files[a].rolledBack = 0 \/ ~files[a].restored) /\ files[a].state.phase = "none"
    BY <1>0 DEF PollStands
  <1>2. /\ agent' \in [Agents -> Agent] /\ \A b \in Agents \ {a} : agent'[b] = agent[b]
        /\ agent'[a].poll = "reporting" /\ agent'[a].status = "failed" /\ agent'[a].dep = agent[a].dep
        /\ agent'[a].runs = agent[a].runs /\ agent'[a].healing = agent[a].healing
    BY <1>0, FailsMoves
  <1>3. Own(a, agent[a].dep)'
    BY <1>1, <1>2 DEF OwnOf, Own
  <1>4. PollStands(a)'
    BY <1>0, <1>1, <1>2, <1>3 DEF PollStands, UnchangedButAgent
  <1>5. agent[a].runs # 0 /\ ~Looking(a) /\ agent[a].healing = 0
    BY Polling
  <1> QED
    BY <1>0, <1>2, <1>4, <1>5, PollGoesOn

LEMMA DownloadFailsStep ==
  ASSUME UpgradesInv, NEW a \in Agents, DownloadFails(a) \/ CheckFails(a)
  PROVE  UpgradesInv'
  <1>1. HostsTypeOK /\ upgradeFaults \in 0..MaxUpgradeFaults
    BY InvGives
  <1>2. upgradeFaults' \in 0..MaxUpgradeFaults
    BY <1>1, FaultCounts DEF DownloadFails, CheckFails
  <1>3. /\ agent[a].poll \in {"downloading", "checking"} /\ Fails(a)
        /\ UnchangedButAgent /\ deployments' = deployments
    BY DEF DownloadFails, CheckFails, UnchangedButAgent, platformVars
  <1> QED
    BY <1>2, <1>3, FailsStep

-----------------------------------------------------------------------------
(***************************************************************************)
(* Reports that settle what the files keep                                 *)
(***************************************************************************)
UnchangedButReport == UNCHANGED <<reported, cycle, watchdog, restarts, cutOff, cancels>>

\* The poll ends with the state file empty or with a result in it that is so.
LEMMA ReportSettles ==
  ASSUME UpgradesInv, NEW a \in Agents, UnchangedButReport, agent[a].poll \notin {"idle", "ready"},
         Moves(a), upgradeFaults' \in 0..MaxUpgradeFaults,
         agent' \in [Agents -> Agent], \A b \in Agents \ {a} : agent'[b] = agent[b],
         agent'[a].poll \in {"idle", "asking"},
         agent'[a].runs = agent[a].runs, agent'[a].healing = agent[a].healing,
         files' \in [Agents -> Files], \A b \in Agents \ {a} : files'[b] = files[b],
         files'[a].exe = files[a].exe, files'[a].backup = files[a].backup,
         \/ files'[a].rolledBack = files[a].rolledBack
         \/ files'[a].rolledBack = 0 /\ deployments'[files[a].rolledBack].status = "rolled_back",
         agent'[a].poll = "asking" => /\ agent[a].poll # "rolledBack" /\ files'[a].state.phase = "none"
                                      /\ files'[a].rolledBack = 0 \/ ~files'[a].restored,
         FilesStand(a)',
         \A d \in DOMAIN deployments :
           (deployments[d].agent = a /\ deployments'[d].status = "installed" /\ deployments[d].status # "installed")
             => deployments[d].version = files[a].exe
  PROVE  UpgradesInv'
  <1>1. OnlyHost(a) /\ HostTyped' /\ watchdog'[a] = watchdog[a]
    BY InvGives DEF OnlyHost, UnchangedButReport, HostTyped
  <1>2. /\ agent[a].runs # 0 /\ ~Looking(a) /\ agent[a].runs = files[a].exe
        /\ agent[a].poll # "rolledBack" => agent[a].healing = 0
    BY Polling
  <1>3. ~Looking(a)' /\ \A d, v : OwnOf(a, d, v) => OwnOf(a, d, v)'
    BY <1>1, <1>2 DEF Looking, OwnOf, Own, Moves
  <1>4. ProcessStands(a)'
    BY <1>1, <1>2, <1>3, InvGives DEF ProcessStands
  <1>5. PollStands(a)'
    BY <1>1, <1>2 DEF PollStands
  <1>6. WatchStands(a)'
    BY <1>1, <1>2, <1>3, InvGives DEF WatchStands
  <1>7. InstalledStand(a)'
    <2>1. InstalledStand(a) /\ HostsTypeOK
      BY InvGives
    <2>2. \A d \in DOMAIN deployments : deployments[d].version \in Versions
      BY <2>1, DeploymentPlaces
    <2>3. Versions \subseteq Nat
      BY UpgradesAssumption DEF UpgradesAssumption
    <2>4. \A v : Undone(a, v) => Undone(a, v)'
      <3> SUFFICES ASSUME NEW v, Undone(a, v)
                   PROVE  Undone(a, v)'
        OBVIOUS
      <3>1. PICK e : OwnOf(a, e, v) /\ (files[a].rolledBack = e \/ deployments[e].status = "rolled_back")
        BY DEF Undone
      <3>2. OwnOf(a, e, v)' /\ (deployments[e].status = "rolled_back" => deployments'[e].status = "rolled_back")
        BY <3>1 DEF OwnOf, Own, Moves, IsUnfinished, Unfinished
      <3> QED
        BY <3>1, <3>2 DEF Undone
    <2> SUFFICES ASSUME NEW d \in DOMAIN deployments', NEW v, v = deployments'[d].version,
                        deployments'[d].agent = a, deployments'[d].status = "installed", ~Undone(a, v)'
                 PROVE  /\ files[a].exe # 0 => files[a].exe >= v
                        /\ watchdog[a].at # "none" => files[a].exe = v \/ files[a].backup >= v
      BY <1>1 DEF InstalledStand
    <2>5. d \in DOMAIN deployments /\ deployments[d].agent = a /\ v = deployments[d].version /\ ~Undone(a, v)
      BY <2>4 DEF Moves
    <2>6. CASE deployments[d].status = "installed"
      BY <2>1, <2>5, <2>6 DEF InstalledStand
    <2>7. CASE deployments[d].status # "installed"
      <3>1. v = files[a].exe /\ v \in Nat
        BY <2>2, <2>3, <2>5, <2>7
      <3> QED
        BY <3>1
    <2> QED
      BY <2>6, <2>7
  <1>8. HostStands(a)'
    BY <1>4, <1>5, <1>6, <1>7 DEF HostStands
  <1> QED
    BY <1>1, <1>8, InvGives, HostStep DEF UnchangedButReport

\* An agent's own deployments stay its own.
LEMMA OwnStays ==
  ASSUME NEW a, Moves(a), NEW b, NEW d, Own(b, d)
  PROVE  Own(b, d)' /\ deployments'[d].version = deployments[d].version
  BY DEF Own, Moves

LEMMA ReportRolledBackStep ==
  ASSUME UpgradesInv, NEW a \in Agents, ReportRolledBack(a)
  PROVE  UpgradesInv'
  <1> DEFINE d == agent[a].dep
  <1>0. /\ HostsTypeOK /\ PollStands(a) /\ FilesStand(a) /\ UnchangedButReport
        /\ agent[a].poll = "rolledBack" /\ GoIdle(a)
        /\ Heard(d, "rolled_back") \/ Unanswered(d, "rolled_back")
        /\ \/ /\ Heard(d, "rolled_back")
              /\ files' = [files EXCEPT ![a].rolledBack = 0, ![a].state = NoState, ![a].okFlag = FALSE]
           \/ files' = files
    BY InvGives DEF ReportRolledBack, UnchangedButReport
  <1>1. files[a].rolledBack # 0 /\ d = files[a].rolledBack /\ Own(a, d) /\ "rolled_back" \in Statuses
    BY <1>0 DEF PollStands, FilesStand, Statuses, Finished
  <1>2. /\ Moves(a) /\ upgradeFaults' \in 0..MaxUpgradeFaults
        /\ \A e \in DOMAIN deployments :
             deployments'[e].status = "installed" => deployments[e].status = "installed"
    BY <1>0, <1>1, Reports
  <1>3. /\ agent' \in [Agents -> Agent] /\ \A b \in Agents \ {a} : agent'[b] = agent[b]
        /\ agent'[a].poll = "idle" /\ agent'[a].runs = agent[a].runs /\ agent'[a].healing = agent[a].healing
    BY <1>0, GoIdleMoves
  <1>4. CASE files' = files
    <2>1. FilesStand(a)'
      BY <1>0, <1>2, <1>4, OwnStays DEF FilesStand
    <2> QED
      BY <1>0, <1>2, <1>3, <1>4, <2>1, InvGives, ReportSettles DEF HostTyped
  <1>5. CASE /\ Heard(d, "rolled_back")
             /\ files' = [files EXCEPT ![a].rolledBack = 0, ![a].state = NoState, ![a].okFlag = FALSE]
    <2> DEFINE r == [files[a] EXCEPT !.rolledBack = 0, !.state = NoState, !.okFlag = FALSE]
    <2>1. files[a] \in Files
      BY <1>0, HostFields
    <2>2. /\ r \in Files /\ r.rolledBack = 0 /\ r.state = NoState
          /\ r.exe = files[a].exe /\ r.backup = files[a].backup
      BY <2>1, NoneIsTyped DEF Files
    <2>3. files' = [files EXCEPT ![a] = r]
      BY <1>5
    <2> HIDE DEF r
    <2>4. /\ files' \in [Agents -> Files] /\ files'[a] = r
          /\ \A b \in Agents \ {a} : files'[b] = files[b]
      BY <1>0, <2>2, <2>3, FilesWritten
    <2>5. FilesStand(a)'
      BY <2>2, <2>4, NoneIsTyped DEF FilesStand
    <2>6. deployments'[files[a].rolledBack].status = "rolled_back"
      <3>1. IsUnfinished(d) /\ deployments' = [deployments EXCEPT ![d].status = "rolled_back"] /\ d \in DOMAIN deployments
        BY <1>1, <1>5 DEF Heard, Own
      <3>2. \A e \in DOMAIN deployments : deployments'[e].status = IF e = d THEN "rolled_back" ELSE deployments[e].status
        BY <1>0, <1>1, <3>1, StatusMoves
      <3> QED
        BY <1>1, <3>1, <3>2
    <2> QED
      BY <1>0, <1>2, <1>3, <2>2, <2>4, <2>5, <2>6, ReportSettles
  <1> QED
    BY <1>0, <1>4, <1>5

\* reportTerminal, and the end of the poll.
LEMMA ReportResultStep ==
  ASSUME UpgradesInv, NEW a \in Agents, ReportResult(a)
  PROVE  UpgradesInv'
  <1> SUFFICES ASSUME NEW d, d = agent[a].dep, NEW s, s = agent[a].status
               PROVE  UpgradesInv'
    OBVIOUS
  <1>0. /\ HostsTypeOK /\ PollStands(a) /\ FilesStand(a) /\ UnchangedButReport
        /\ agent[a].poll = "reporting" /\ GoIdle(a)
        /\ Heard(d, s) \/ Unanswered(d, s)
        /\ SetState(a, NoState) \/ SetState(a, Unreported(d, s))
    BY InvGives DEF ReportResult, UnchangedButReport
  <1>1. /\ d \in DeploymentIds /\ s \in Finished /\ s \in Statuses
        /\ Own(a, d) /\ s # "rolled_back" /\ (files[a].rolledBack = 0 \/ ~files[a].restored)
        /\ s = "installed" => deployments[d].version = files[a].exe
    BY <1>0, HostFields DEF PollStands, Statuses
  <1>2. /\ Moves(a) /\ upgradeFaults' \in 0..MaxUpgradeFaults
        /\ \A e \in DOMAIN deployments :
             deployments'[e].status = deployments[e].status \/ (e = d /\ deployments'[e].status = s)
    BY <1>0, <1>1, Reports
  <1>3. /\ agent' \in [Agents -> Agent] /\ \A b \in Agents \ {a} : agent'[b] = agent[b]
        /\ agent'[a].poll = "idle" /\ agent'[a].runs = agent[a].runs /\ agent'[a].healing = agent[a].healing
    BY <1>0, GoIdleMoves
  <1>4. PICK t \in State : SetState(a, t) /\ (t.phase = "none" \/ (t.phase = "unreported" /\ t.dep = d /\ t.status = s))
    BY <1>0, <1>1, NoneIsTyped, UnreportedIsTyped
  <1>5. /\ files' \in [Agents -> Files] /\ \A b \in Agents \ {a} : files'[b] = files[b]
        /\ files'[a].state = t /\ files'[a].exe = files[a].exe /\ files'[a].backup = files[a].backup
        /\ files'[a].rolledBack = files[a].rolledBack /\ files'[a].restored = files[a].restored
    BY <1>0, <1>4, StateMoves
  <1>6. Own(a, d)' /\ deployments'[d].version = deployments[d].version
    BY <1>1, <1>2, OwnStays
  <1>7. FilesStand(a)'
    BY <1>0, <1>1, <1>2, <1>4, <1>5, <1>6, OwnStays DEF FilesStand
  <1> QED
    BY <1>0, <1>1, <1>2, <1>3, <1>5, <1>7, ReportSettles

LEMMA ReportAgainStep ==
  ASSUME UpgradesInv, NEW a \in Agents, ReportAgain(a)
  PROVE  UpgradesInv'
  <1> SUFFICES ASSUME NEW d, d = agent[a].dep, NEW s, s = agent[a].status,
                      NEW tries, tries = files[a].state.tries + 1
               PROVE  UpgradesInv'
    OBVIOUS
  <1>0. /\ HostsTypeOK /\ PollStands(a) /\ FilesStand(a) /\ UnchangedButReport
        /\ agent[a].poll = "unreported"
        /\ Heard(d, s) \/ Unanswered(d, s)
        /\ \/ SetState(a, NoState) /\ (GoIdle(a) \/ PollGoesTo(a, "asking"))
           \/ tries < MaxUnreported /\ files' = [files EXCEPT ![a].state.tries = tries] /\ GoIdle(a)
    BY InvGives DEF ReportAgain, UnchangedButReport
  <1>1. /\ d \in DeploymentIds /\ s \in Finished /\ s \in Statuses /\ "asking" \in Polls
        /\ files[a].state.phase = "unreported" /\ d = files[a].state.dep /\ s = files[a].state.status
        /\ Own(a, d) /\ s # "rolled_back" /\ (files[a].rolledBack = 0 \/ ~files[a].restored)
        /\ s = "installed" => deployments[d].version = files[a].exe
    BY <1>0, HostFields DEF PollStands, FilesStand, Statuses, Polls
  <1>2. /\ Moves(a) /\ upgradeFaults' \in 0..MaxUpgradeFaults
        /\ \A e \in DOMAIN deployments :
             deployments'[e].status = deployments[e].status \/ (e = d /\ deployments'[e].status = s)
    BY <1>0, <1>1, Reports
  <1>3. /\ agent' \in [Agents -> Agent] /\ \A b \in Agents \ {a} : agent'[b] = agent[b]
        /\ agent'[a].poll = "idle" \/ (agent'[a].poll = "asking" /\ SetState(a, NoState))
        /\ agent'[a].runs = agent[a].runs /\ agent'[a].healing = agent[a].healing
    BY <1>0, <1>1, GoIdleMoves, GotoMoves
  <1>4. CASE SetState(a, NoState)
    <2>1. /\ files' \in [Agents -> Files] /\ \A b \in Agents \ {a} : files'[b] = files[b]
          /\ files'[a].state = NoState /\ files'[a].exe = files[a].exe /\ files'[a].backup = files[a].backup
          /\ files'[a].rolledBack = files[a].rolledBack /\ files'[a].restored = files[a].restored
      BY <1>0, <1>4, NoneIsTyped, StateMoves
    <2>2. FilesStand(a)'
      BY <1>0, <1>2, <2>1, NoneIsTyped, OwnStays DEF FilesStand
    <2> QED
      BY <1>0, <1>1, <1>2, <1>3, <2>1, <2>2, NoneIsTyped, ReportSettles
  <1>5. CASE /\ tries < MaxUnreported /\ files' = [files EXCEPT ![a].state.tries = tries] /\ GoIdle(a)
    <2> DEFINE t == [files[a].state EXCEPT !.tries = tries]
    <2>1. files[a] \in Files /\ files[a].state \in State /\ MaxUnreported \in Nat
      BY <1>0, HostFields, UpgradesAssumption DEF UpgradesAssumption
    <2>2. files[a].state.tries \in Nat
      BY <2>1 DEF State
    <2>3. tries \in 0..MaxUnreported
      BY <1>5, <2>1, <2>2
    <2>4. /\ t \in State /\ t.phase = files[a].state.phase /\ t.dep = files[a].state.dep
          /\ t.status = files[a].state.status
      BY <2>1, <2>3 DEF State
    <2>5. SetState(a, t)
      BY <1>5 DEF SetState
    <2> HIDE DEF t
    <2>6. /\ files' \in [Agents -> Files] /\ \A b \in Agents \ {a} : files'[b] = files[b]
          /\ files'[a].state = t /\ files'[a].exe = files[a].exe /\ files'[a].backup = files[a].backup
          /\ files'[a].rolledBack = files[a].rolledBack /\ files'[a].restored = files[a].restored
      BY <1>0, <2>4, <2>5, StateMoves
    <2>7. Own(a, d)' /\ deployments'[d].version = deployments[d].version
      BY <1>1, <1>2, OwnStays
    <2>8. FilesStand(a)'
      BY <1>0, <1>1, <1>2, <2>4, <2>6, <2>7, OwnStays DEF FilesStand
    <2>9. agent'[a].poll = "idle"
      BY <1>0, <1>5, GoIdleMoves
    <2> QED
      BY <1>0, <1>1, <1>2, <1>3, <2>6, <2>8, <2>9, ReportSettles
  <1> QED
    BY <1>0, <1>4, <1>5

-----------------------------------------------------------------------------
(***************************************************************************)
(* The swap                                                                *)
(***************************************************************************)
\* The deployments stay, and so does what the host owes to them.
LEMMA DeploymentsStay ==
  ASSUME UpgradesInv, NEW a \in Agents, deployments' = deployments
  PROVE  /\ Moves(a)
         /\ \A b, d : Own(b, d) => Own(b, d)' /\ deployments'[d].version = deployments[d].version
         /\ \A d \in DOMAIN deployments : deployments[d].version \in Nat
         /\ Versions \subseteq Nat /\ 0 \notin Versions
  <1>1. HostsTypeOK
    BY InvGives
  <1>2. Versions \subseteq Nat \ {0}
    BY UpgradesAssumption DEF UpgradesAssumption
  <1> QED
    BY <1>1, <1>2, NothingMoves, DeploymentPlaces DEF Own

\* A process that polls runs what is installed or something later, unless the platform shows a
\* rollback of it: one that only the host has on record did not restore the previous executable.
LEMMA InstalledRuns ==
  ASSUME UpgradesInv, NEW a \in Agents, files[a].rolledBack = 0 \/ ~files[a].restored, files[a].exe \in Versions,
         NEW d \in DOMAIN deployments, deployments[d].agent = a, deployments[d].status = "installed",
         \A e : OwnOf(a, e, deployments[d].version) => deployments[e].status # "rolled_back"
  PROVE  files[a].exe >= deployments[d].version
  <1>1. HostsTypeOK /\ FilesStand(a) /\ InstalledStand(a)
    BY InvGives
  <1>2. Versions \subseteq Nat \ {0}
    BY UpgradesAssumption DEF UpgradesAssumption
  <1>3. DOMAIN deployments \subseteq Nat \ {0} /\ deployments[d].version \in Nat
    <2>1. DOMAIN deployments = 1..Len(deployments) /\ deployments[d].version \in Versions
      BY <1>1, DeploymentPlaces
    <2>2. Len(deployments) \in Nat
      BY <1>1, LenProperties DEF HostsTypeOK
    <2>3. \A i \in 1..Len(deployments) : i \in Nat \ {0}
      BY <2>2
    <2> QED
      BY <1>2, <2>1, <2>3
  <1>4. CASE Undone(a, deployments[d].version)
    <2>1. PICK e : OwnOf(a, e, deployments[d].version) /\ files[a].rolledBack = e
      BY <1>4 DEF Undone
    <2>2. files[a].rolledBack # 0
      BY <1>3, <2>1 DEF OwnOf, Own
    <2>3. files[a].exe = deployments[d].version
      BY <1>1, <2>1, <2>2 DEF FilesStand, OwnOf
    <2> QED
      BY <1>3, <2>3
  <1>5. CASE ~Undone(a, deployments[d].version)
    BY <1>1, <1>2, <1>5 DEF InstalledStand
  <1> QED
    BY <1>4, <1>5

LEMMA SwapsInStep ==
  ASSUME UpgradesInv, NEW a \in Agents, SwapsIn(a)
  PROVE  UpgradesInv'
  <1> SUFFICES ASSUME NEW v, v = agent[a].version, NEW d, d = agent[a].dep
               PROVE  UpgradesInv'
    OBVIOUS
  <1>0. /\ HostsTypeOK /\ ProcessStands(a) /\ PollStands(a) /\ FilesStand(a) /\ InstalledStand(a)
        /\ deployments' = deployments /\ reported' = reported /\ cycle' = cycle /\ watchdog' = watchdog
        /\ restarts' = restarts /\ cutOff' = cutOff /\ cancels' = cancels /\ upgradeFaults' = upgradeFaults
        /\ agent[a].poll = "checking" /\ v \in Sound /\ PollGoesTo(a, "ready")
        /\ files' = [files EXCEPT ![a].exe = v, ![a].backup = files[a].exe, ![a].okFlag = FALSE,
                                  ![a].rolledBack = 0, ![a].state = Swapped(d, v)]
    BY InvGives DEF SwapsIn, platformVars
  <1>1. /\ agent[a].runs # 0 /\ watchdog[a].at = "none" /\ agent[a].healing = 0
        /\ agent[a].runs = files[a].exe /\ agent[a].runs \in Versions
    BY <1>0, Polling
  <1>2. OwnOf(a, d, v) /\ agent[a].runs < v
    BY <1>0 DEF PollStands
  <1>3. /\ v \in Versions /\ d \in DeploymentIds /\ 0 \in DeploymentIds /\ files[a] \in Files
        /\ Swapped(d, v) \in State /\ Swapped(d, v).phase = "swapped"
        /\ Swapped(d, v).dep = d /\ Swapped(d, v).version = v
    BY <1>0, HostFields, NoneIsTyped, SwappedIsTyped, UpgradesAssumption DEF UpgradesAssumption
  <1>4. ASSUME NEW w \in State
        PROVE  LET r == [files[a] EXCEPT !.exe = v, !.backup = files[a].exe, !.okFlag = FALSE,
                                         !.rolledBack = 0, !.state = w] IN
               /\ r \in Files /\ r.exe = v /\ r.backup = files[a].exe /\ r.okFlag = FALSE
               /\ r.rolledBack = 0 /\ r.state = w
    BY <1>1, <1>3 DEF Files
  <1>5. /\ files' \in [Agents -> Files] /\ \A b \in Agents \ {a} : files'[b] = files[b]
        /\ files'[a].exe = v /\ files'[a].backup = files[a].exe /\ files'[a].okFlag = FALSE
        /\ files'[a].rolledBack = 0 /\ files'[a].state = Swapped(d, v)
    <2> DEFINE r == [files[a] EXCEPT !.exe = v, !.backup = files[a].exe, !.okFlag = FALSE,
                                     !.rolledBack = 0, !.state = Swapped(d, v)]
    <2>1. /\ r \in Files /\ r.exe = v /\ r.backup = files[a].exe /\ r.okFlag = FALSE
          /\ r.rolledBack = 0 /\ r.state = Swapped(d, v)
      BY <1>3, <1>4
    <2>2. files' = [files EXCEPT ![a] = r]
      BY <1>0
    <2> HIDE DEF r
    <2> QED
      BY <1>0, <2>1, <2>2, FilesWritten
  <1>6. /\ agent' \in [Agents -> Agent] /\ \A b \in Agents \ {a} : agent'[b] = agent[b]
        /\ agent'[a].poll = "ready" /\ agent'[a].runs = agent[a].runs /\ agent'[a].healing = agent[a].healing
        /\ agent'[a].dep = d /\ agent'[a].version = v
    <2>1. "ready" \in Polls
      BY DEF Polls
    <2> QED
      BY <1>0, <2>1, GotoMoves
  <1>7. OnlyHost(a) /\ HostTyped' /\ Moves(a) /\ OwnOf(a, d, v)' /\ Own(a, d)' /\ deployments'[d].version = v
    BY <1>0, <1>2, <1>5, <1>6, DeploymentsStay DEF OnlyHost, HostTyped, HostsTypeOK, OwnOf, Own
  <1>8. ProcessStands(a)'
    BY <1>0, <1>1, <1>5, <1>6 DEF ProcessStands, Looking
  <1>9. PollStands(a)'
    BY <1>2, <1>3, <1>5, <1>6, <1>7 DEF PollStands
  <1>10. FilesStand(a)'
    BY <1>3, <1>5, <1>7 DEF FilesStand
  <1>11. WatchStands(a)'
    BY <1>0, <1>1 DEF WatchStands
  <1>12. InstalledStand(a)'
    <2>1. \A e \in DOMAIN deployments : deployments[e].version \in Nat
      BY <1>0, DeploymentsStay
    <2>2. \A e \in DOMAIN deployments :
            (/\ deployments[e].agent = a /\ deployments[e].status = "installed"
             /\ ~Undone(a, deployments[e].version)') => files[a].exe >= deployments[e].version
      <3>1. deployments' = deployments /\ \A x, u : OwnOf(a, x, u) => OwnOf(a, x, u)'
        BY <1>0 DEF OwnOf, Own
      <3>2. files[a].rolledBack = 0 \/ ~files[a].restored
        BY <1>0, Polling
      <3> QED
        <4> SUFFICES ASSUME NEW e \in DOMAIN deployments, deployments[e].agent = a,
                            deployments[e].status = "installed", ~Undone(a, deployments[e].version)'
                     PROVE  files[a].exe >= deployments[e].version
          OBVIOUS
        <4>1. \A x : OwnOf(a, x, deployments[e].version) => deployments[x].status # "rolled_back"
          <5>1. deployments'[e].version = deployments[e].version
            BY <3>1
          <5> QED
            BY <3>1, <5>1 DEF Undone
        <4>2. files[a].exe \in Versions
          BY <1>1
        <4> QED
          BY <3>2, <4>1, <4>2, InstalledRuns
    <2>3. files[a].exe \in Nat /\ v \in Nat /\ files[a].exe < v
      BY <1>0, <1>1, <1>2, <1>3, DeploymentsStay
    <2>4. \A e \in DOMAIN deployments :
            (/\ deployments[e].agent = a /\ deployments[e].status = "installed"
             /\ ~Undone(a, deployments[e].version)') => v >= deployments[e].version
      BY <2>1, <2>2, <2>3
    <2> QED
      BY <1>0, <1>1, <1>5, <2>2, <2>4 DEF InstalledStand
  <1>13. HostStands(a)'
    BY <1>8, <1>9, <1>10, <1>11, <1>12 DEF HostStands
  <1> QED
    BY <1>0, <1>5, <1>6, <1>7, <1>13, HostStep DEF HostsTypeOK

LEMMA TearsSwapStep ==
  ASSUME UpgradesInv, NEW a \in Agents, TearsSwap(a)
  PROVE  UpgradesInv'
  <1>0. /\ HostsTypeOK /\ ProcessStands(a) /\ PollStands(a) /\ FilesStand(a) /\ InstalledStand(a)
        /\ deployments' = deployments /\ reported' = reported /\ cycle' = cycle /\ cancels' = cancels
        /\ agent[a].poll = "checking" /\ agent[a].version \in Sound /\ UpgradeFault
        /\ agent' = [agent EXCEPT ![a] = Stopped] /\ watchdog' = [watchdog EXCEPT ![a] = NoWatchdog]
        /\ restarts' = [restarts EXCEPT ![a] = TRUE] /\ cutOff' = [cutOff EXCEPT ![a] = TRUE]
    BY InvGives DEF TearsSwap, platformVars
  <1>1. PICK v \in {0, agent[a].version} :
          files' = [files EXCEPT ![a].exe = v, ![a].backup = files[a].exe, ![a].okFlag = FALSE, ![a].rolledBack = 0]
    BY DEF TearsSwap
  <1>2. /\ agent[a].runs = files[a].exe /\ agent[a].runs \in Versions
        /\ files[a].state.phase = "none" /\ agent[a].runs < agent[a].version
    BY <1>0, Polling DEF PollStands
  <1>3. agent[a].version \in Versions /\ 0 \in DeploymentIds /\ files[a] \in Files /\ v \in Versions \union {0}
    BY <1>0, HostFields, NoneIsTyped, UpgradesAssumption DEF UpgradesAssumption
  <1>4. /\ files' \in [Agents -> Files] /\ \A b \in Agents \ {a} : files'[b] = files[b]
        /\ files'[a].exe = v /\ files'[a].rolledBack = 0 /\ files'[a].state = files[a].state
    <2> DEFINE r == [files[a] EXCEPT !.exe = v, !.backup = files[a].exe, !.okFlag = FALSE, !.rolledBack = 0]
    <2>1. r \in Files /\ r.exe = v /\ r.rolledBack = 0 /\ r.state = files[a].state
      BY <1>2, <1>3 DEF Files
    <2>2. files' = [files EXCEPT ![a] = r]
      BY <1>1
    <2> HIDE DEF r
    <2> QED
      BY <1>0, <2>1, <2>2, FilesWritten
  <1>5. /\ agent' \in [Agents -> Agent] /\ \A b \in Agents \ {a} : agent'[b] = agent[b]
        /\ agent'[a].runs = 0 /\ agent'[a].poll = "idle" /\ agent'[a].healing = 0
    BY <1>0, StopMoves
  <1>6. /\ watchdog' \in [Agents -> Watchdog] /\ watchdog'[a].at = "none"
        /\ \A b \in Agents \ {a} : watchdog'[b] = watchdog[b]
    BY <1>0, WatchdogWritten, NoneIsTyped
  <1>7. OnlyHost(a) /\ HostTyped' /\ Moves(a) /\ upgradeFaults' \in 0..MaxUpgradeFaults
    BY <1>0, <1>4, <1>5, <1>6, DeploymentsStay, FaultCounts DEF OnlyHost, HostTyped, HostsTypeOK
  <1>8. ProcessStands(a)' /\ PollStands(a)' /\ WatchStands(a)'
    BY <1>5, <1>6 DEF ProcessStands, PollStands, WatchStands
  <1>9. FilesStand(a)'
    BY <1>2, <1>4 DEF FilesStand
  <1>10. InstalledStand(a)'
    <2>1. \A e \in DOMAIN deployments : deployments[e].version \in Nat
      BY <1>0, DeploymentsStay
    <2>2. \A e \in DOMAIN deployments :
            (/\ deployments[e].agent = a /\ deployments[e].status = "installed"
             /\ ~Undone(a, deployments[e].version)') => files[a].exe >= deployments[e].version
      <3>1. deployments' = deployments /\ \A x, u : OwnOf(a, x, u) => OwnOf(a, x, u)'
        BY <1>0 DEF OwnOf, Own
      <3>2. files[a].rolledBack = 0 \/ ~files[a].restored
        BY <1>0, Polling
      <3> QED
        <4> SUFFICES ASSUME NEW e \in DOMAIN deployments, deployments[e].agent = a,
                            deployments[e].status = "installed", ~Undone(a, deployments[e].version)'
                     PROVE  files[a].exe >= deployments[e].version
          OBVIOUS
        <4>1. \A x : OwnOf(a, x, deployments[e].version) => deployments[x].status # "rolled_back"
          <5>1. deployments'[e].version = deployments[e].version
            BY <3>1
          <5> QED
            BY <3>1, <5>1 DEF Undone
        <4>2. files[a].exe \in Versions
          BY <1>2
        <4> QED
          BY <3>2, <4>1, <4>2, InstalledRuns
    <2>3. files[a].exe \in Nat /\ agent[a].version \in Nat /\ files[a].exe < agent[a].version
      BY <1>0, <1>2, <1>3, DeploymentsStay
    <2>4. \A e \in DOMAIN deployments :
            (/\ deployments[e].agent = a /\ deployments[e].status = "installed"
             /\ ~Undone(a, deployments[e].version)') => v = 0 \/ v >= deployments[e].version
      BY <2>1, <2>2, <2>3
    <2> QED
      BY <1>0, <1>4, <1>5, <1>6, <2>4 DEF InstalledStand
  <1>11. HostStands(a)'
    BY <1>8, <1>9, <1>10 DEF HostStands
  <1> QED
    BY <1>0, <1>7, <1>11, HostStep DEF HostsTypeOK

LEMMA HandsOverStep ==
  ASSUME UpgradesInv, NEW a \in Agents, HandsOver(a)
  PROVE  UpgradesInv'
  <1> SUFFICES ASSUME NEW v, v = agent[a].version, NEW d, d = agent[a].dep
               PROVE  UpgradesInv'
    OBVIOUS
  <1>0. /\ HostsTypeOK /\ ProcessStands(a) /\ PollStands(a) /\ FilesStand(a) /\ InstalledStand(a)
        /\ reported' = reported /\ cycle' = cycle /\ files' = files
        /\ restarts' = restarts /\ cutOff' = cutOff /\ cancels' = cancels
        /\ agent[a].poll = "ready"
        /\ Heard(d, "ready") \/ Unanswered(d, "ready")
        /\ watchdog' = [watchdog EXCEPT ![a] = Watched(files[a].state)]
        /\ agent' = [agent EXCEPT ![a] = Stopped]
    BY InvGives DEF HandsOver
  <1>1. /\ OwnOf(a, d, v) /\ agent[a].runs < v /\ files[a].exe = v /\ ~files[a].okFlag
        /\ files[a].state.phase = "swapped" /\ files[a].state.version = v /\ files[a].state.dep = d
        /\ files[a].rolledBack = 0
    BY <1>0 DEF PollStands
  <1>2. agent[a].runs = files[a].backup /\ agent[a].runs # 0
    BY <1>0 DEF ProcessStands
  <1>3. "ready" \in Statuses /\ Own(a, d)
    BY <1>1 DEF Statuses, Unfinished, OwnOf
  <1>4. /\ Moves(a) /\ upgradeFaults' \in 0..MaxUpgradeFaults
        /\ \A e \in DOMAIN deployments :
             deployments'[e].status = "installed" => deployments[e].status = "installed"
    BY <1>0, <1>3, Reports
  <1>5. /\ watchdog' \in [Agents -> Watchdog] /\ \A b \in Agents \ {a} : watchdog'[b] = watchdog[b]
        /\ watchdog'[a].at = "waiting" /\ watchdog'[a].dep = d /\ watchdog'[a].version = v
    <2> DEFINE w == [at |-> "waiting", dep |-> d, version |-> v]
    <2>1. d \in DeploymentIds /\ v \in Versions \union {0}
      BY <1>0, HostFields
    <2>2. w \in Watchdog /\ w.at = "waiting" /\ w.dep = d /\ w.version = v
      BY <2>1 DEF Watchdog
    <2>3. watchdog' = [watchdog EXCEPT ![a] = w]
      BY <1>0, <1>1 DEF Watched
    <2> HIDE DEF w
    <2> QED
      BY <1>0, <2>2, <2>3, WatchdogWritten
  <1>6. /\ agent' \in [Agents -> Agent] /\ \A b \in Agents \ {a} : agent'[b] = agent[b]
        /\ agent'[a].runs = 0 /\ agent'[a].poll = "idle" /\ agent'[a].healing = 0
    BY <1>0, StopMoves
  <1>7. OnlyHost(a) /\ HostTyped'
    BY <1>0, <1>5, <1>6 DEF OnlyHost, HostTyped, HostsTypeOK
  <1>8. Own(a, d)' /\ OwnOf(a, d, v)' /\ deployments'[d].version = v
    BY <1>1, <1>4 DEF OwnOf, Own, Moves
  <1>9. ProcessStands(a)' /\ PollStands(a)'
    BY <1>6 DEF ProcessStands, PollStands
  <1>10. FilesStand(a)'
    BY <1>0, <1>1, <1>8 DEF FilesStand
  <1>11. WatchStands(a)'
    BY <1>0, <1>1, <1>2, <1>5, <1>8 DEF WatchStands
  <1>12. InstalledStand(a)'
    <2> SUFFICES ASSUME NEW e \in DOMAIN deployments', NEW u, u = deployments[e].version,
                        deployments'[e].agent = a, deployments'[e].status = "installed", ~Undone(a, u)'
                 PROVE  (files[a].exe # 0 => files[a].exe >= u) /\ files[a].backup >= u
      BY <1>0, <1>4, <1>6 DEF InstalledStand, Moves
    <2>1. e \in DOMAIN deployments /\ deployments[e].agent = a /\ deployments[e].status = "installed"
      BY <1>4 DEF Moves
    <2>2. ~Undone(a, u)
      BY <1>0, <1>4, UndoneStays
    <2> QED
      BY <1>0, <2>1, <2>2 DEF InstalledStand
  <1>13. HostStands(a)'
    BY <1>9, <1>10, <1>11, <1>12 DEF HostStands
  <1> QED
    BY <1>0, <1>4, <1>7, <1>13, HostStep DEF HostsTypeOK

LEMMA RestartFailsStep ==
  ASSUME UpgradesInv, NEW a \in Agents, RestartFails(a)
  PROVE  UpgradesInv'
  <1>0. /\ HostsTypeOK /\ ProcessStands(a) /\ PollStands(a) /\ FilesStand(a) /\ InstalledStand(a)
        /\ deployments' = deployments /\ reported' = reported /\ cycle' = cycle /\ watchdog' = watchdog
        /\ restarts' = restarts /\ cutOff' = cutOff /\ cancels' = cancels
        /\ agent[a].poll = "ready" /\ UpgradeFault /\ Fails(a)
        /\ files' = [files EXCEPT ![a].exe = files[a].backup, ![a].backup = 0, ![a].state = NoState]
    BY InvGives DEF RestartFails, platformVars
  <1>1. /\ agent[a].runs = files[a].backup /\ agent[a].runs # 0 /\ watchdog[a].at = "none"
        /\ agent[a].healing = 0
    BY <1>0, Polling DEF ProcessStands
  <1>2. OwnOf(a, agent[a].dep, agent[a].version) /\ files[a].rolledBack = 0
    BY <1>0 DEF PollStands
  <1>3. files[a] \in Files /\ files[a].backup \in Versions \union {0} /\ 0 \in Versions \union {0}
    BY <1>0, HostFields
  <1>4. /\ files' \in [Agents -> Files] /\ \A b \in Agents \ {a} : files'[b] = files[b]
        /\ files'[a].exe = files[a].backup /\ files'[a].state = NoState
        /\ files'[a].rolledBack = files[a].rolledBack
    <2> DEFINE r == [files[a] EXCEPT !.exe = files[a].backup, !.backup = 0, !.state = NoState]
    <2>1. r \in Files /\ r.exe = files[a].backup /\ r.state = NoState /\ r.rolledBack = files[a].rolledBack
      BY <1>3, NoneIsTyped DEF Files
    <2>2. files' = [files EXCEPT ![a] = r]
      BY <1>0
    <2> HIDE DEF r
    <2> QED
      BY <1>0, <2>1, <2>2, FilesWritten
  <1>5. /\ agent' \in [Agents -> Agent] /\ \A b \in Agents \ {a} : agent'[b] = agent[b]
        /\ agent'[a].poll = "reporting" /\ agent'[a].status = "failed" /\ agent'[a].dep = agent[a].dep
        /\ agent'[a].runs = agent[a].runs /\ agent'[a].healing = agent[a].healing
    BY <1>0, FailsMoves
  <1>6. OnlyHost(a) /\ HostTyped' /\ Moves(a) /\ upgradeFaults' \in 0..MaxUpgradeFaults
    BY <1>0, <1>4, <1>5, DeploymentsStay, FaultCounts DEF OnlyHost, HostTyped, HostsTypeOK
  <1>7. Own(a, agent[a].dep)'
    BY <1>0, <1>2, <1>5 DEF OwnOf, Own
  <1>8. ProcessStands(a)'
    BY <1>0, <1>1, <1>4, <1>5 DEF ProcessStands, Looking
  <1>9. PollStands(a)'
    BY <1>2, <1>4, <1>5, <1>7, NoneIsTyped DEF PollStands
  <1>10. FilesStand(a)'
    BY <1>2, <1>4, NoneIsTyped DEF FilesStand
  <1>11. WatchStands(a)'
    BY <1>0, <1>1 DEF WatchStands
  <1>12. InstalledStand(a)'
    <2>1. \A v : Undone(a, v) => Undone(a, v)'
      BY <1>4, <1>6, UndoneStays
    <2> QED
      BY <1>0, <1>1, <1>4, <1>5, <2>1 DEF InstalledStand
  <1>13. HostStands(a)'
    BY <1>8, <1>9, <1>10, <1>11, <1>12 DEF HostStands
  <1> QED
    BY <1>0, <1>6, <1>13, HostStep DEF HostsTypeOK

-----------------------------------------------------------------------------
(***************************************************************************)
(* The proof of health                                                     *)
(***************************************************************************)
LEMMA HeartbeatsStep ==
  ASSUME UpgradesInv, NEW a \in Agents, Heartbeats(a)
  PROVE  UpgradesInv'
  <1> SUFFICES ASSUME NEW proof \in BOOLEAN,
                      proof <=> /\ files[a].state.phase = "swapped"
                                /\ files[a].state.version = agent[a].runs
               PROVE  UpgradesInv'
    OBVIOUS
  <1>0. /\ HostsTypeOK /\ ProcessStands(a) /\ PollStands(a) /\ FilesStand(a) /\ WatchStands(a)
        /\ InstalledStand(a)
        /\ deployments' = deployments /\ cycle' = cycle /\ watchdog' = watchdog
        /\ restarts' = restarts /\ cutOff' = cutOff /\ cancels' = cancels /\ upgradeFaults' = upgradeFaults
        /\ agent[a].runs \in Healthy /\ reported' = [reported EXCEPT ![a] = agent[a].runs]
        /\ files' = [files EXCEPT ![a].okFlag = files[a].okFlag \/ proof]
        /\ agent' = [agent EXCEPT ![a].signalled = TRUE,
                                  ![a].healing = IF proof THEN files[a].state.dep ELSE agent[a].healing]
    BY InvGives DEF Heartbeats
  <1>1. /\ agent[a] \in Agent /\ files[a] \in Files /\ agent[a].runs \in Versions /\ agent[a].runs # 0
        /\ files[a].state.dep \in DeploymentIds /\ agent[a].healing \in DeploymentIds /\ files[a].okFlag \in BOOLEAN
        /\ agent[a].runs \in Nat
    BY <1>0, HostFields, UpgradesAssumption DEF UpgradesAssumption
  <1>2. PICK h \in DeploymentIds : h = IF proof THEN files[a].state.dep ELSE agent[a].healing
    BY <1>1
  <1>3. /\ agent' \in [Agents -> Agent] /\ \A b \in Agents \ {a} : agent'[b] = agent[b]
        /\ agent'[a].healing = h /\ agent'[a].poll = agent[a].poll /\ agent'[a].runs = agent[a].runs
        /\ agent'[a].dep = agent[a].dep /\ agent'[a].version = agent[a].version
        /\ agent'[a].status = agent[a].status
    <2> DEFINE r == [agent[a] EXCEPT !.signalled = TRUE, !.healing = h]
    <2>1. /\ r \in Agent /\ r.healing = h /\ r.poll = agent[a].poll /\ r.runs = agent[a].runs
          /\ r.dep = agent[a].dep /\ r.version = agent[a].version /\ r.status = agent[a].status
      BY <1>1 DEF Agent
    <2>2. agent' = [agent EXCEPT ![a] = r]
      BY <1>0, <1>2
    <2> HIDE DEF r
    <2> QED
      BY <1>0, <2>1, <2>2, AgentWritten
  <1>4. PICK ok \in BOOLEAN : ok = (files[a].okFlag \/ proof)
    OBVIOUS
  <1>5. /\ files' \in [Agents -> Files] /\ \A b \in Agents \ {a} : files'[b] = files[b]
        /\ files'[a].okFlag = ok /\ files'[a].exe = files[a].exe /\ files'[a].backup = files[a].backup
        /\ files'[a].state = files[a].state /\ files'[a].rolledBack = files[a].rolledBack
        /\ files'[a].restored = files[a].restored
    <2> DEFINE r == [files[a] EXCEPT !.okFlag = ok]
    <2>1. /\ r \in Files /\ r.okFlag = ok /\ r.exe = files[a].exe /\ r.backup = files[a].backup
          /\ r.state = files[a].state /\ r.rolledBack = files[a].rolledBack /\ r.restored = files[a].restored
      BY <1>1 DEF Files
    <2>2. files' = [files EXCEPT ![a] = r]
      BY <1>0, <1>4
    <2> HIDE DEF r
    <2> QED
      BY <1>0, <2>1, <2>2, FilesWritten
  <1>6. OnlyHost(a) /\ HostTyped' /\ Moves(a) /\ reported' \in [Agents -> Versions]
    BY <1>0, <1>1, <1>3, <1>5, DeploymentsStay DEF OnlyHost, HostTyped, HostsTypeOK
  <1>7. proof => agent[a].poll \in {"idle", "rolledBack"} /\ OwnOf(a, files[a].state.dep, agent[a].runs)
    <2>1. agent[a].poll \in Polls
      BY <1>0, HostFields
    <2>2. proof => agent[a].poll # "ready"
      <3>1. agent[a].poll = "ready" => files[a].state.version = agent[a].version /\ agent[a].runs < agent[a].version
        BY <1>0 DEF PollStands
      <3> QED
        BY <1>1, <3>1
    <2>3. agent[a].poll # "ready" => agent[a].runs = files[a].exe
      BY <1>0, <1>1 DEF ProcessStands
    <2>4. proof => agent[a].poll \notin {"asking", "announcing", "downloading", "checking", "unreported", "reporting"}
      BY <1>0, <2>2, <2>3 DEF PollStands
    <2>5. proof => OwnOf(a, files[a].state.dep, agent[a].runs)
      BY <1>0 DEF FilesStand, OwnOf
    <2> QED
      BY <2>1, <2>2, <2>4, <2>5 DEF Polls
  <1>8. ProcessStands(a)'
    BY <1>0, <1>1, <1>2, <1>3, <1>4, <1>5, <1>7 DEF ProcessStands, Looking, OwnOf, Own
  <1>9. PollStands(a)'
    BY <1>0, <1>3, <1>4, <1>5, <1>7 DEF PollStands, Own, OwnOf
  <1>10. FilesStand(a)'
    BY <1>0, <1>5 DEF FilesStand, Own
  <1>11. WatchStands(a)'
    BY <1>0, <1>1, <1>4, <1>5 DEF WatchStands, Looking, Own, OwnOf
  <1>12. InstalledStand(a)'
    BY <1>0, <1>3, <1>5, <1>6, InstalledKept
  <1>13. HostStands(a)'
    BY <1>8, <1>9, <1>10, <1>11, <1>12 DEF HostStands
  <1> QED
    BY <1>0, <1>6, <1>13, HostStep DEF HostsTypeOK

LEMMA ReportInstalledStep ==
  ASSUME UpgradesInv, NEW a \in Agents, ReportInstalled(a)
  PROVE  UpgradesInv'
  <1> SUFFICES ASSUME NEW d, d = agent[a].healing
               PROVE  UpgradesInv'
    OBVIOUS
  <1>0. /\ HostsTypeOK /\ ProcessStands(a) /\ PollStands(a) /\ FilesStand(a) /\ WatchStands(a)
        /\ InstalledStand(a) /\ d # 0
        /\ Heard(d, "installed") \/ Unanswered(d, "installed")
        /\ SetState(a, NoState) \/ SetState(a, Unreported(d, "installed"))
        /\ agent' = [agent EXCEPT ![a].healing = 0]
        /\ reported' = reported /\ cycle' = cycle /\ watchdog' = watchdog
        /\ restarts' = restarts /\ cutOff' = cutOff /\ cancels' = cancels
    BY InvGives DEF ReportInstalled
  <1>1. /\ agent[a].poll \in {"idle", "rolledBack"} /\ agent[a].runs # 0
        /\ OwnOf(a, d, agent[a].runs) /\ (Looking(a) => files[a].okFlag)
        /\ agent[a].runs = files[a].exe /\ files[a].exe \in Versions
    BY <1>0, UpgradesAssumption DEF ProcessStands, UpgradesAssumption
  <1>2. /\ Own(a, d) /\ deployments[d].version = files[a].exe /\ "installed" \in Statuses
        /\ "installed" \in Finished /\ d \in DeploymentIds
    BY <1>0, <1>1, HostFields DEF OwnOf, Statuses, Finished
  <1>3. /\ Moves(a) /\ upgradeFaults' \in 0..MaxUpgradeFaults
        /\ \A e \in DOMAIN deployments :
             deployments'[e].status = deployments[e].status \/ e = d
    BY <1>0, <1>2, Reports
  <1>4. PICK t \in State : SetState(a, t) /\ (t.phase = "none" \/ (t.phase = "unreported" /\ t.dep = d /\ t.status = "installed"))
    BY <1>0, <1>2, NoneIsTyped, UnreportedIsTyped
  <1>5. /\ files' \in [Agents -> Files] /\ \A b \in Agents \ {a} : files'[b] = files[b]
        /\ files'[a].state = t /\ files'[a].exe = files[a].exe /\ files'[a].backup = files[a].backup
        /\ files'[a].rolledBack = files[a].rolledBack /\ files'[a].okFlag = files[a].okFlag
        /\ files'[a].restored = files[a].restored
    BY <1>0, <1>4, StateMoves
  <1>6. /\ agent' \in [Agents -> Agent] /\ \A b \in Agents \ {a} : agent'[b] = agent[b]
        /\ agent'[a].healing = 0 /\ agent'[a].poll = agent[a].poll /\ agent'[a].runs = agent[a].runs
        /\ agent'[a].dep = agent[a].dep /\ agent'[a].status = agent[a].status
    <2> DEFINE r == [agent[a] EXCEPT !.healing = 0]
    <2>1. agent[a] \in Agent /\ 0 \in DeploymentIds
      BY <1>0, HostFields, NoneIsTyped
    <2>2. /\ r \in Agent /\ r.healing = 0 /\ r.poll = agent[a].poll /\ r.runs = agent[a].runs
          /\ r.dep = agent[a].dep /\ r.status = agent[a].status
      BY <2>1 DEF Agent
    <2>3. agent' = [agent EXCEPT ![a] = r]
      BY <1>0
    <2> HIDE DEF r
    <2> QED
      BY <1>0, <1>1, <2>2, <2>3, AgentWritten
  <1>7. OnlyHost(a) /\ HostTyped'
    BY <1>0, <1>5, <1>6 DEF OnlyHost, HostTyped, HostsTypeOK
  <1>8. Own(a, d)' /\ deployments'[d].version = deployments[d].version
    BY <1>2, <1>3, OwnStays
  <1>9. ProcessStands(a)' /\ PollStands(a)'
    BY <1>0, <1>1, <1>5, <1>6 DEF ProcessStands, PollStands, Looking
  <1>10. FilesStand(a)'
    BY <1>0, <1>1, <1>2, <1>3, <1>4, <1>5, <1>8, OwnStays DEF FilesStand
  <1>11. WatchStands(a)'
    <2>1. watchdog'[a] = watchdog[a] /\ (watchdog[a].at # "none" => OwnOf(a, watchdog[a].dep, watchdog[a].version)')
      BY <1>0, <1>3 DEF WatchStands, OwnOf, Own, Moves
    <2> QED
      BY <1>0, <1>1, <1>5, <2>1 DEF WatchStands, Looking
  <1>12. InstalledStand(a)'
    <2> SUFFICES ASSUME NEW e \in DOMAIN deployments', NEW v, v = deployments'[e].version,
                        deployments'[e].agent = a, deployments'[e].status = "installed", ~Undone(a, v)'
                 PROVE  /\ files[a].exe # 0 => files[a].exe >= v
                        /\ watchdog[a].at # "none" => files[a].exe = v \/ files[a].backup >= v
      BY <1>0, <1>1, <1>5, <1>6 DEF InstalledStand
    <2>1. e \in DOMAIN deployments /\ deployments[e].agent = a /\ v = deployments[e].version /\ ~Undone(a, v)
      BY <1>3, <1>5, UndoneStays DEF Moves
    <2>2. CASE e = d
      <3>1. v = files[a].exe /\ v \in Nat
        BY <1>1, <1>2, <2>1, <2>2, UpgradesAssumption DEF UpgradesAssumption
      <3> QED
        BY <3>1
    <2>3. CASE e # d
      BY <1>0, <1>3, <2>1, <2>3 DEF InstalledStand
    <2> QED
      BY <2>2, <2>3
  <1>13. HostStands(a)'
    BY <1>9, <1>10, <1>11, <1>12 DEF HostStands
  <1> QED
    BY <1>0, <1>3, <1>7, <1>13, HostStep DEF HostsTypeOK

-----------------------------------------------------------------------------
(***************************************************************************)
(* The watchdog, the task scheduler and crashes                            *)
(***************************************************************************)
\* A process that was started runs the executable.
LEMMA Starting ==
  ASSUME UpgradesInv, NEW a \in Agents, NEW v \in Versions \union {0}, StartAgent(a, v),
         files' = files, deployments' = deployments, reported' = reported, cycle' = cycle,
         cutOff' = cutOff, cancels' = cancels, upgradeFaults' = upgradeFaults,
         restarts' \in [Agents -> BOOLEAN], watchdog' \in [Agents -> Watchdog],
         \A b \in Agents \ {a} : watchdog'[b] = watchdog[b],
         v = files[a].exe,
         watchdog'[a].at = "none" <=> watchdog[a].at = "none",
         watchdog'[a].dep = watchdog[a].dep, watchdog'[a].version = watchdog[a].version,
         Looking(a)' <=> Looking(a)
  PROVE  UpgradesInv'
  <1>0. /\ HostsTypeOK /\ ProcessStands(a) /\ PollStands(a) /\ FilesStand(a) /\ WatchStands(a)
        /\ InstalledStand(a)
    BY InvGives
  <1>1. /\ agent' \in [Agents -> Agent] /\ \A b \in Agents \ {a} : agent'[b] = agent[b]
        /\ Runs(a) => agent'[a] = agent[a]
        /\ ~Runs(a) => agent'[a].runs = v /\ agent'[a].poll = "idle" /\ agent'[a].healing = 0
    BY <1>0, StartMoves
  <1>2. OnlyHost(a) /\ HostTyped' /\ Moves(a)
    BY <1>0, <1>1, DeploymentsStay DEF OnlyHost, HostTyped, HostsTypeOK
  <1>3. ProcessStands(a)'
    BY <1>0, <1>1 DEF ProcessStands, OwnOf, Own
  <1>4. PollStands(a)'
    BY <1>0, <1>1 DEF PollStands, Own, OwnOf
  <1>5. FilesStand(a)'
    BY <1>0 DEF FilesStand, Own
  <1>6. WatchStands(a)'
    BY <1>0 DEF WatchStands, Own, OwnOf
  <1>7. InstalledStand(a)'
    BY <1>0, <1>1, <1>2, InstalledKept
  <1>8. HostStands(a)'
    BY <1>3, <1>4, <1>5, <1>6, <1>7 DEF HostStands
  <1> QED
    BY <1>0, <1>2, <1>8, HostStep DEF HostsTypeOK

LEMMA WatchdogStartsStep ==
  ASSUME UpgradesInv, NEW a \in Agents, WatchdogStarts(a)
  PROVE  UpgradesInv'
  <1>0. /\ HostsTypeOK /\ watchdog[a].at = "waiting" /\ StartAgent(a, files[a].exe)
        /\ watchdog' = [watchdog EXCEPT ![a].at = "watching"]
        /\ UNCHANGED <<deployments, reported, cycle, files, restarts, cutOff, cancels, upgradeFaults>>
    BY InvGives DEF WatchdogStarts, platformVars
  <1> DEFINE w == [watchdog[a] EXCEPT !.at = "watching"]
  <1>1. watchdog[a] \in Watchdog /\ files[a].exe \in Versions \union {0}
    BY <1>0, HostFields
  <1>2. /\ w \in Watchdog /\ w.at = "watching" /\ w.dep = watchdog[a].dep /\ w.version = watchdog[a].version
    BY <1>1 DEF Watchdog
  <1>3. watchdog' = [watchdog EXCEPT ![a] = w]
    BY <1>0
  <1> HIDE DEF w
  <1>4. /\ watchdog' \in [Agents -> Watchdog] /\ watchdog'[a] = w
        /\ \A b \in Agents \ {a} : watchdog'[b] = watchdog[b]
    BY <1>0, <1>2, <1>3, WatchdogWritten
  <1>5. restarts' \in [Agents -> BOOLEAN] /\ Looking(a)' /\ Looking(a)
    BY <1>0, <1>2, <1>4 DEF HostsTypeOK, Looking
  <1> QED
    BY <1>0, <1>1, <1>2, <1>4, <1>5, Starting

LEMMA TaskStartsStep ==
  ASSUME UpgradesInv, NEW a \in Agents, TaskStarts(a)
  PROVE  UpgradesInv'
  <1>0. /\ HostsTypeOK /\ StartAgent(a, files[a].exe) /\ restarts' = [restarts EXCEPT ![a] = FALSE]
        /\ UNCHANGED <<deployments, reported, cycle, files, watchdog, cutOff, cancels, upgradeFaults>>
    BY InvGives DEF TaskStarts, platformVars
  <1>1. files[a].exe \in Versions \union {0} /\ restarts' \in [Agents -> BOOLEAN] /\ watchdog' \in [Agents -> Watchdog]
    BY <1>0, HostFields DEF HostsTypeOK
  <1>2. Looking(a)' <=> Looking(a)
    BY <1>0 DEF Looking
  <1> QED
    BY <1>0, <1>1, <1>2, Starting

\* The process stops; a watchdog that remains goes on, or is gone too.
LEMMA Stopping ==
  ASSUME UpgradesInv, NEW a \in Agents, agent' = [agent EXCEPT ![a] = Stopped],
         files' = files, deployments' = deployments, reported' = reported, cycle' = cycle,
         cutOff' \in [Agents -> BOOLEAN], cancels' = cancels, upgradeFaults' \in 0..MaxUpgradeFaults,
         restarts' \in [Agents -> BOOLEAN], watchdog' \in [Agents -> Watchdog],
         \A b \in Agents \ {a} : watchdog'[b] = watchdog[b],
         \/ watchdog'[a].at = "none"
         \/ /\ watchdog[a].at # "none" /\ watchdog'[a].dep = watchdog[a].dep
            /\ watchdog'[a].version = watchdog[a].version
            /\ Looking(a)' => Looking(a)
  PROVE  UpgradesInv'
  <1>0. HostsTypeOK /\ FilesStand(a) /\ WatchStands(a) /\ InstalledStand(a)
    BY InvGives
  <1>1. /\ agent' \in [Agents -> Agent] /\ \A b \in Agents \ {a} : agent'[b] = agent[b]
        /\ agent'[a].runs = 0 /\ agent'[a].poll = "idle" /\ agent'[a].healing = 0
    BY <1>0, StopMoves
  <1>2. OnlyHost(a) /\ HostTyped' /\ Moves(a)
    BY <1>0, <1>1, DeploymentsStay DEF OnlyHost, HostTyped, HostsTypeOK
  <1>3. ProcessStands(a)' /\ PollStands(a)'
    BY <1>1 DEF ProcessStands, PollStands
  <1>4. FilesStand(a)'
    BY <1>0 DEF FilesStand, Own
  <1>5. WatchStands(a)'
    BY <1>0 DEF WatchStands, Looking, Own, OwnOf
  <1>6. InstalledStand(a)'
    BY <1>0, <1>1, <1>2, InstalledKept
  <1>7. HostStands(a)'
    BY <1>3, <1>4, <1>5, <1>6 DEF HostStands
  <1> QED
    BY <1>0, <1>2, <1>7, HostStep DEF HostsTypeOK

LEMMA CrashStep ==
  ASSUME UpgradesInv, NEW a \in Agents, AgentCrashes(a) \/ HostRestarts(a)
  PROVE  UpgradesInv'
  <1>0. /\ HostsTypeOK /\ UpgradeFault /\ agent' = [agent EXCEPT ![a] = Stopped]
        /\ restarts' = [restarts EXCEPT ![a] = TRUE]
        /\ watchdog' = watchdog \/ watchdog' = [watchdog EXCEPT ![a] = NoWatchdog]
        /\ cutOff' \in [Agents -> BOOLEAN]
        /\ UNCHANGED <<deployments, reported, cycle, files, cancels>>
    <2>1. HostsTypeOK /\ cutOff \in [Agents -> BOOLEAN]
      BY InvGives DEF HostsTypeOK
    <2>2. \A x \in BOOLEAN : [cutOff EXCEPT ![a] = x] \in [Agents -> BOOLEAN]
      BY <2>1
    <2>3. cutOff' \in [Agents -> BOOLEAN]
      <3>1. CASE AgentCrashes(a)
        <4>1. PICK x \in BOOLEAN : cutOff' = [cutOff EXCEPT ![a] = x]
          BY <3>1, <2>1 DEF AgentCrashes
        <4> QED
          BY <2>2, <4>1
      <3>2. CASE HostRestarts(a)
        <4>1. PICK x \in BOOLEAN : cutOff' = [cutOff EXCEPT ![a] = x]
          BY <3>2, <2>1 DEF HostRestarts
        <4> QED
          BY <2>2, <4>1
      <3> QED
        BY <3>1, <3>2
    <2> QED
      BY <2>1, <2>3 DEF AgentCrashes, HostRestarts, platformVars
  <1>1. restarts' \in [Agents -> BOOLEAN] /\ upgradeFaults' \in 0..MaxUpgradeFaults
    BY <1>0, FaultCounts DEF HostsTypeOK
  <1>2. /\ watchdog' \in [Agents -> Watchdog] /\ \A b \in Agents \ {a} : watchdog'[b] = watchdog[b]
        /\ watchdog'[a].at = "none" \/ (watchdog'[a] = watchdog[a] /\ watchdog[a].at # "none")
        /\ Looking(a)' => Looking(a)
    BY <1>0, WatchdogWritten, NoneIsTyped DEF HostsTypeOK, Looking
  <1> QED
    BY <1>0, <1>1, <1>2, Stopping

LEMMA WatchdogKillsStep ==
  ASSUME UpgradesInv, NEW a \in Agents, WatchdogKills(a)
  PROVE  UpgradesInv'
  <1>0. /\ HostsTypeOK /\ watchdog[a].at = "late" /\ agent' = [agent EXCEPT ![a] = Stopped]
        /\ watchdog' = [watchdog EXCEPT ![a].at = "restoring"]
        /\ UNCHANGED <<deployments, reported, cycle, files, restarts, cutOff, cancels, upgradeFaults>>
    BY InvGives DEF WatchdogKills, platformVars
  <1> DEFINE w == [watchdog[a] EXCEPT !.at = "restoring"]
  <1>1. watchdog[a] \in Watchdog
    BY <1>0, HostFields
  <1>2. /\ w \in Watchdog /\ w.at = "restoring" /\ w.dep = watchdog[a].dep /\ w.version = watchdog[a].version
    BY <1>1 DEF Watchdog
  <1>3. watchdog' = [watchdog EXCEPT ![a] = w]
    BY <1>0
  <1> HIDE DEF w
  <1>4. /\ watchdog' \in [Agents -> Watchdog] /\ watchdog'[a] = w
        /\ \A b \in Agents \ {a} : watchdog'[b] = watchdog[b]
    BY <1>0, <1>2, <1>3, WatchdogWritten
  <1>5. /\ restarts' \in [Agents -> BOOLEAN] /\ upgradeFaults' \in 0..MaxUpgradeFaults
        /\ cutOff' \in [Agents -> BOOLEAN] /\ ~Looking(a)'
    BY <1>0, <1>2, <1>4 DEF HostsTypeOK, Looking
  <1> QED
    BY <1>0, <1>2, <1>4, <1>5, Stopping

\* The watchdog looks, and finds the flag or the end of its time.
LEMMA WatchdogLooks ==
  ASSUME UpgradesInv, NEW a \in Agents, WatchdogSeesHealth(a) \/ DeadlinePasses(a)
  PROVE  UpgradesInv'
  <1>0. /\ HostsTypeOK /\ ProcessStands(a) /\ PollStands(a) /\ FilesStand(a) /\ WatchStands(a)
        /\ InstalledStand(a) /\ watchdog[a].at = "watching"
        /\ \/ watchdog' = [watchdog EXCEPT ![a] = NoWatchdog]
           \/ watchdog' = [watchdog EXCEPT ![a].at = "late"]
        /\ UNCHANGED <<deployments, reported, cycle, files, agent, restarts, cutOff, cancels, upgradeFaults>>
    BY InvGives DEF WatchdogSeesHealth, DeadlinePasses, platformVars
  <1>1. PICK w \in Watchdog :
          /\ watchdog' = [watchdog EXCEPT ![a] = w]
          /\ \/ w.at = "none"
             \/ w.at = "late" /\ w.dep = watchdog[a].dep /\ w.version = watchdog[a].version
    <2>1. CASE watchdog' = [watchdog EXCEPT ![a] = NoWatchdog]
      BY <2>1, NoneIsTyped
    <2>2. CASE watchdog' = [watchdog EXCEPT ![a].at = "late"]
      <3> DEFINE r == [watchdog[a] EXCEPT !.at = "late"]
      <3>1. watchdog[a] \in Watchdog
        BY <1>0, HostFields
      <3>2. /\ r \in Watchdog /\ r.at = "late" /\ r.dep = watchdog[a].dep /\ r.version = watchdog[a].version
        BY <3>1 DEF Watchdog
      <3>3. watchdog' = [watchdog EXCEPT ![a] = r]
        BY <2>2
      <3> HIDE DEF r
      <3> QED
        BY <2>2, <3>2, <3>3
    <2> QED
      BY <1>0, <2>1, <2>2
  <1>2. /\ watchdog' \in [Agents -> Watchdog] /\ watchdog'[a] = w
        /\ \A b \in Agents \ {a} : watchdog'[b] = watchdog[b]
    BY <1>0, <1>1, WatchdogWritten
  <1>3. OnlyHost(a) /\ HostTyped' /\ Moves(a)
    BY <1>0, <1>2, DeploymentsStay DEF OnlyHost, HostTyped, HostsTypeOK
  <1>4. ProcessStands(a)'
    BY <1>0, <1>1, <1>2 DEF ProcessStands, Looking, Own, OwnOf
  <1>5. PollStands(a)' /\ FilesStand(a)'
    BY <1>0 DEF PollStands, FilesStand, Own, OwnOf
  <1>6. WatchStands(a)'
    BY <1>0, <1>1, <1>2 DEF WatchStands, Looking, Own, OwnOf
  <1>7. InstalledStand(a)'
    BY <1>0, <1>3, InstalledKept
  <1>8. HostStands(a)'
    BY <1>4, <1>5, <1>6, <1>7 DEF HostStands
  <1> QED
    BY <1>0, <1>3, <1>8, HostStep DEF HostsTypeOK

LEMMA WatchdogRestoresStep ==
  ASSUME UpgradesInv, NEW a \in Agents, WatchdogRestores(a)
  PROVE  UpgradesInv'
  <1> SUFFICES ASSUME NEW copied \in BOOLEAN, NEW v,
                      v = IF copied THEN files[a].backup ELSE files[a].exe,
                      copied => ~Runs(a),
                      UpgradeFault \/ upgradeFaults' = upgradeFaults,
                      files' = [files EXCEPT ![a].exe = v, ![a].rolledBack = watchdog[a].dep, ![a].restored = copied],
                      StartAgent(a, v)
               PROVE  UpgradesInv'
    BY DEF WatchdogRestores
  <1>0. /\ HostsTypeOK /\ ProcessStands(a) /\ PollStands(a) /\ FilesStand(a) /\ WatchStands(a) /\ InstalledStand(a)
        /\ watchdog[a].at = "restoring" /\ watchdog' = [watchdog EXCEPT ![a] = NoWatchdog]
        /\ cutOff' \in [Agents -> BOOLEAN]
        /\ UNCHANGED <<deployments, reported, cycle, restarts, cancels>>
    <2>1. HostsTypeOK /\ cutOff \in [Agents -> BOOLEAN]
      BY InvGives DEF HostsTypeOK
    <2>2. PICK x \in BOOLEAN : cutOff' = [cutOff EXCEPT ![a] = x]
      BY <2>1 DEF WatchdogRestores
    <2> QED
      BY <2>1, <2>2, InvGives DEF WatchdogRestores, platformVars
  <1>1. /\ OwnOf(a, watchdog[a].dep, watchdog[a].version) /\ files[a].exe = watchdog[a].version
        /\ files[a].backup # 0 /\ files[a].backup < watchdog[a].version
        /\ files[a].rolledBack = 0
    BY <1>0 DEF WatchStands
  <1>2. /\ agent[a].poll \notin {"checking", "ready", "rolledBack"}
        /\ Runs(a) => agent[a].runs = files[a].exe /\ ~copied
    BY <1>0, <1>1 DEF ProcessStands, PollStands, Runs
  <1>3. /\ files[a] \in Files /\ v \in Versions \union {0} /\ watchdog[a].dep \in DeploymentIds
        /\ files[a].backup \in Nat /\ files[a].exe \in Nat
    BY <1>0, HostFields
  <1>4. /\ files' \in [Agents -> Files] /\ \A b \in Agents \ {a} : files'[b] = files[b]
        /\ files'[a].exe = v /\ files'[a].rolledBack = watchdog[a].dep /\ files'[a].restored = copied
        /\ files'[a].state = files[a].state /\ files'[a].backup = files[a].backup
    <2> DEFINE r == [files[a] EXCEPT !.exe = v, !.rolledBack = watchdog[a].dep, !.restored = copied]
    <2>1. /\ r \in Files /\ r.exe = v /\ r.rolledBack = watchdog[a].dep /\ r.restored = copied
          /\ r.state = files[a].state /\ r.backup = files[a].backup
      BY <1>3 DEF Files
    <2>2. files' = [files EXCEPT ![a] = r]
      OBVIOUS
    <2> HIDE DEF r
    <2> QED
      BY <1>0, <2>1, <2>2, FilesWritten
  <1>5. /\ agent' \in [Agents -> Agent] /\ \A b \in Agents \ {a} : agent'[b] = agent[b]
        /\ Runs(a) => agent'[a] = agent[a]
        /\ ~Runs(a) => agent'[a].runs = v /\ agent'[a].poll = "idle" /\ agent'[a].healing = 0
    BY <1>0, <1>3, StartMoves
  <1>6. /\ watchdog' \in [Agents -> Watchdog] /\ watchdog'[a].at = "none"
        /\ \A b \in Agents \ {a} : watchdog'[b] = watchdog[b]
    BY <1>0, WatchdogWritten, NoneIsTyped
  <1>7. OnlyHost(a) /\ HostTyped' /\ Moves(a) /\ upgradeFaults' \in 0..MaxUpgradeFaults
    BY <1>0, <1>4, <1>5, <1>6, DeploymentsStay, FaultCounts DEF OnlyHost, HostTyped, HostsTypeOK
  <1>8. ~Looking(a)' /\ WatchStands(a)' /\ \A d, u : OwnOf(a, d, u) => OwnOf(a, d, u)'
    BY <1>0, <1>6 DEF Looking, WatchStands, OwnOf, Own
  <1>9. ProcessStands(a)' /\ PollStands(a)'
    <2>1. CASE Runs(a)
      <3>1. agent'[a] = agent[a] /\ v = files[a].exe /\ files'[a].restored = FALSE
        BY <1>2, <1>4, <1>5, <2>1
      <3>2. ProcessStands(a)'
        BY <1>0, <1>2, <1>4, <1>6, <1>8, <3>1 DEF ProcessStands
      <3>3. PollStands(a)'
        BY <1>0, <1>2, <1>4, <3>1 DEF PollStands, Own, OwnOf
      <3> QED
        BY <3>2, <3>3
    <2>2. CASE ~Runs(a)
      BY <1>4, <1>5, <2>2 DEF ProcessStands, PollStands
    <2> QED
      BY <2>1, <2>2
  <1>10. copied => v < files[a].exe
    BY <1>1, <1>3
  <1>11. FilesStand(a)'
    <2>1. \A d : Own(a, d) => Own(a, d)' /\ deployments'[d].version = deployments[d].version
      BY <1>0, DeploymentsStay
    <2>2. /\ Own(a, watchdog[a].dep) /\ deployments[watchdog[a].dep].version = files[a].exe
      BY <1>0, <1>1 DEF OwnOf
    <2>3. copied <=> v # files[a].exe
      BY <1>3, <1>10
    <2> QED
      <3> SUFFICES ASSUME NEW f, f = files[a], NEW q, q = files'[a]
                   PROVE  FilesStand(a)'
        OBVIOUS
      <3>1. /\ q.state = f.state /\ q.exe = v /\ q.rolledBack = watchdog[a].dep /\ q.restored = copied
            /\ deployments' = deployments
        BY <1>0, <1>4
      <3>2. q.state.phase = "unreported" =>
              /\ q.state.status # "rolled_back"
              /\ (q.state.status = "installed" /\ (q.rolledBack = 0 \/ ~q.restored)) => deployments'[q.state.dep].version = q.exe
        <4>1. CASE copied
          <5>1. 0 \notin DOMAIN deployments
            BY <1>0, DeploymentPlaces
          <5>2. q.restored
            BY <3>1, <4>1
          <5>3. q.rolledBack # 0
            BY <2>2, <3>1, <5>1 DEF Own
          <5> QED
            BY <1>0, <3>1, <5>2, <5>3 DEF FilesStand
        <4>2. CASE ~copied
          BY <1>0, <1>1, <3>1, <4>2 DEF FilesStand
        <4> QED
          BY <4>1, <4>2
      <3>3. q.restored <=> q.exe # deployments'[q.rolledBack].version
        BY <2>2, <2>3, <3>1
      <3>4. q.state.phase # "none" => Own(a, q.state.dep)'
        BY <1>0, <2>1, <3>1 DEF FilesStand
      <3>5. q.state.phase = "swapped" => deployments'[q.state.dep].version = q.state.version
        BY <1>0, <3>1 DEF FilesStand
      <3>6. Own(a, q.rolledBack)'
        BY <2>1, <2>2, <3>1
      <3> QED
        BY <3>2, <3>3, <3>4, <3>5, <3>6 DEF FilesStand
  <1>12. InstalledStand(a)'
    <2> SUFFICES ASSUME NEW d \in DOMAIN deployments, NEW u, u = deployments[d].version,
                        deployments[d].agent = a, deployments[d].status = "installed", ~Undone(a, u)'
                 PROVE  v # 0 => v >= u
      <3>1. agent'[a].poll # "ready"
        BY <1>2, <1>5
      <3> QED
        BY <1>0, <1>4, <1>6, <3>1 DEF InstalledStand
    <2>1. 0 \notin DOMAIN deployments
      BY <1>0, DeploymentPlaces
    <2>2. ~Undone(a, u)
      BY <1>0, <1>1, <1>8, <2>1 DEF Undone, OwnOf, Own
    <2>3. files[a].exe # u
      BY <1>1, <1>4, <1>8 DEF Undone
    <2> QED
      BY <1>0, <2>2, <2>3 DEF InstalledStand
  <1>13. HostStands(a)'
    BY <1>8, <1>9, <1>11, <1>12 DEF HostStands
  <1> QED
    BY <1>0, <1>7, <1>13, HostStep DEF HostsTypeOK

-----------------------------------------------------------------------------
(***************************************************************************)
(* The platform                                                            *)
(***************************************************************************)
HostsSame == UNCHANGED hostVars

\* Staging changes nothing for a host.
LEMMA StagedHostsStand ==
  ASSUME UpgradesInv, NEW a \in Agents, NEW v \in Versions, NEW auto \in BOOLEAN, Stage(a, v, auto), HostsSame
  PROVE  /\ deployments' \in Seq(Deployment) /\ Len(deployments') <= MaxDeployments
         /\ DOMAIN deployments' = DOMAIN deployments \union {Len(deployments) + 1}
         /\ \A d \in DOMAIN deployments : deployments'[d] = deployments[d] /\ d < Len(deployments) + 1
         /\ deployments'[Len(deployments) + 1] = [agent |-> a, version |-> v, status |-> "staged", auto |-> auto]
         /\ \A b \in Agents : HostStands(b)'
  <1> DEFINE r == [agent |-> a, version |-> v, status |-> "staged", auto |-> auto]
  <1>1. r \in Deployment /\ deployments \in Seq(Deployment) /\ MaxDeployments \in Nat
    BY InvGives, UpgradesAssumption DEF Deployment, Unfinished, HostsTypeOK, UpgradesAssumption
  <1>2. deployments' = Append(deployments, r) /\ Len(deployments) < MaxDeployments
    BY DEF Stage
  <1>3. r.status = "staged"
    OBVIOUS
  <1> HIDE DEF r
  <1>4. /\ deployments' \in Seq(Deployment) /\ Len(deployments') = Len(deployments) + 1
        /\ DOMAIN deployments' = DOMAIN deployments \union {Len(deployments) + 1}
        /\ \A d \in DOMAIN deployments : deployments'[d] = deployments[d]
        /\ deployments'[Len(deployments) + 1] = r
    BY <1>1, <1>2, Appended
  <1>5. /\ Len(deployments) \in Nat /\ \A d \in DOMAIN deployments : d < Len(deployments) + 1
    BY <1>1, LenProperties
  <1>6. Len(deployments') <= MaxDeployments
    BY <1>1, <1>2, <1>4, <1>5
  <1>7. ASSUME NEW b \in Agents
        PROVE  HostStands(b)'
    <2>1. ProcessStands(b) /\ PollStands(b) /\ FilesStand(b) /\ WatchStands(b) /\ InstalledStand(b)
      BY InvGives
    <2>2. files' = files /\ agent' = agent /\ watchdog' = watchdog
      BY DEF HostsSame, hostVars
    <2>3. \A d : /\ Own(b, d) => Own(b, d)' /\ deployments'[d].version = deployments[d].version
                 /\ \A u : OwnOf(b, d, u) => OwnOf(b, d, u)'
      BY <1>4 DEF Own, OwnOf
    <2>4. ProcessStands(b)'
      BY <2>1, <2>2, <2>3 DEF ProcessStands, Looking
    <2>5. PollStands(b)'
      BY <2>1, <2>2, <2>3 DEF PollStands
    <2>6. FilesStand(b)'
      BY <2>1, <2>2, <2>3 DEF FilesStand
    <2>7. WatchStands(b)'
      BY <2>1, <2>2, <2>3 DEF WatchStands, Looking
    <2>8. InstalledStand(b)'
      <3>1. \A u : Undone(b, u) => Undone(b, u)'
        BY <1>4, <2>2, <2>3 DEF Undone, OwnOf, Own
      <3> QED
        BY <1>3, <1>4, <2>1, <2>2, <3>1 DEF InstalledStand
    <2> QED
      BY <2>4, <2>5, <2>6, <2>7, <2>8 DEF HostStands
  <1> QED
    BY <1>4, <1>5, <1>6, <1>7 DEF r

\* Deployments that nobody touches, and hosts that stay.
LEMMA NobodyMoves ==
  ASSUME UpgradesInv, deployments' = deployments, HostsSame
  PROVE  \A b \in Agents : HostStands(b)'
  <1>1. files' = files /\ agent' = agent /\ watchdog' = watchdog
    BY DEF HostsSame, hostVars
  <1> QED
    BY <1>1 DEF UpgradesInv, HostStands, ProcessStands, PollStands, FilesStand, WatchStands, InstalledStand, Undone,
       Looking, Own, OwnOf, IsUnfinished

LEMMA RequestStagesStep ==
  ASSUME UpgradesInv, NEW p, NEW a \in Agents, NEW v \in Versions, RequestStages(p, a, v)
  PROVE  UpgradesInv'
  <1> DEFINE n == Len(deployments) + 1
  <1>0. /\ HostsTypeOK /\ CycleStands /\ AutoTriesABuildOnce /\ Stage(a, v, FALSE) /\ HostsSame
        /\ UNCHANGED <<reported, cycle, cancels, upgradeFaults>>
    BY DEF UpgradesInv, RequestStages, HostsSame
  <1>1. /\ deployments' \in Seq(Deployment) /\ Len(deployments') <= MaxDeployments
        /\ DOMAIN deployments' = DOMAIN deployments \union {n}
        /\ \A d \in DOMAIN deployments : deployments'[d] = deployments[d] /\ d < n
        /\ deployments'[n] = [agent |-> a, version |-> v, status |-> "staged", auto |-> FALSE]
        /\ \A b \in Agents : HostStands(b)'
    <2>1. FALSE \in BOOLEAN
      OBVIOUS
    <2> QED
      BY <1>0, <2>1, StagedHostsStand
  <1> HIDE DEF n
  <1>2. HostsTypeOK'
    BY <1>0, <1>1 DEF HostsTypeOK, HostsSame, hostVars
  <1>3. CycleStands'
    BY <1>0, <1>1 DEF CycleStands, IsUnfinished
  <1>4. AutoTriesABuildOnce'
    BY <1>0, <1>1 DEF AutoTriesABuildOnce
  <1> QED
    BY <1>1, <1>2, <1>3, <1>4 DEF UpgradesInv

LEMMA CycleStagesStep ==
  ASSUME UpgradesInv, CycleStages
  PROVE  UpgradesInv'
  <1> SUFFICES ASSUME NEW a, a = cycle.agent, NEW v, v = cycle.version
               PROVE  UpgradesInv'
    OBVIOUS
  <1> DEFINE n == Len(deployments) + 1
  <1>0. /\ HostsTypeOK /\ CycleStands /\ AutoTriesABuildOnce /\ Stage(a, v, TRUE) /\ HostsSame
        /\ cycle.at = "staging" /\ cycle' = [at |-> "idle", agent |-> Nobody, version |-> 0]
        /\ UNCHANGED <<reported, cancels, upgradeFaults>>
    BY DEF UpgradesInv, CycleStages, HostsSame
  <1>1. /\ a \in Agents /\ v \in Versions
        /\ \A d \in DOMAIN deployments :
             (deployments[d].auto /\ deployments[d].agent = a /\ deployments[d].version = v)
               => deployments[d].status = "installed"
    BY <1>0 DEF CycleStands
  <1>2. /\ deployments' \in Seq(Deployment) /\ Len(deployments') <= MaxDeployments
        /\ DOMAIN deployments' = DOMAIN deployments \union {n}
        /\ \A d \in DOMAIN deployments : deployments'[d] = deployments[d] /\ d < n
        /\ deployments'[n] = [agent |-> a, version |-> v, status |-> "staged", auto |-> TRUE]
        /\ \A b \in Agents : HostStands(b)'
    <2>1. TRUE \in BOOLEAN
      OBVIOUS
    <2> QED
      BY <1>0, <1>1, <2>1, StagedHostsStand
  <1>3. n \in Nat /\ ~(n < n) /\ \A d \in DOMAIN deployments : ~(n < d)
    <2>1. Len(deployments) \in Nat /\ DOMAIN deployments = 1..Len(deployments)
      BY <1>0, DeploymentPlaces
    <2> QED
      BY <2>1
  <1> HIDE DEF n
  <1>4. cycle' \in Cycle
    BY <1>0 DEF Cycle
  <1>5. HostsTypeOK'
    BY <1>0, <1>2, <1>4 DEF HostsTypeOK, HostsSame, hostVars
  <1>6. CycleStands'
    BY <1>0 DEF CycleStands
  <1>7. AutoTriesABuildOnce'
    BY <1>0, <1>1, <1>2, <1>3 DEF AutoTriesABuildOnce
  <1> QED
    BY <1>2, <1>5, <1>6, <1>7 DEF UpgradesInv

\* A person cancels a deployment of a's.
LEMMA CancelStep ==
  ASSUME UpgradesInv, NEW d \in DOMAIN deployments, RequestCancelUpgrade(d)
  PROVE  UpgradesInv'
  <1> SUFFICES ASSUME NEW a, a = deployments[d].agent
               PROVE  UpgradesInv'
    OBVIOUS
  <1>0. /\ HostsTypeOK /\ HostsSame /\ cancels < MaxCancels /\ cancels' = cancels + 1 /\ IsUnfinished(d)
        /\ deployments' = [deployments EXCEPT ![d].status = "failed"]
        /\ UNCHANGED <<reported, cycle, upgradeFaults>>
    BY DEF UpgradesInv, RequestCancelUpgrade, HostsSame
  <1>1. "failed" \in Statuses /\ Own(a, d) /\ a \in Agents
    BY <1>0, DeploymentPlaces DEF Statuses, Finished, Own
  <1>2. /\ Moves(a)
        /\ \A e \in DOMAIN deployments : deployments'[e].status = IF e = d THEN "failed" ELSE deployments[e].status
    BY <1>0, <1>1, StatusMoves
  <1>3. CycleStands' /\ AutoTriesABuildOnce'
    BY <1>0, <1>2, CycleStaysPut
  <1>4. files' = files /\ agent' = agent /\ watchdog' = watchdog /\ restarts' = restarts /\ cutOff' = cutOff
    BY <1>0 DEF HostsSame, hostVars
  <1>5. ASSUME NEW b \in Agents PROVE HostStands(b)'
    <2>1. ProcessStands(b) /\ PollStands(b) /\ FilesStand(b) /\ WatchStands(b) /\ InstalledStand(b)
      BY InvGives
    <2>2. \A e : /\ Own(b, e) => Own(b, e)' /\ deployments'[e].version = deployments[e].version
                 /\ \A u : OwnOf(b, e, u) => OwnOf(b, e, u)'
      BY <1>2 DEF Own, OwnOf, Moves
    <2>3. ProcessStands(b)'
      BY <1>4, <2>1, <2>2 DEF ProcessStands, Looking
    <2>4. PollStands(b)'
      BY <1>4, <2>1, <2>2 DEF PollStands
    <2>5. FilesStand(b)'
      BY <1>4, <2>1, <2>2 DEF FilesStand
    <2>6. WatchStands(b)'
      BY <1>4, <2>1, <2>2 DEF WatchStands, Looking
    <2>7. InstalledStand(b)'
      BY <1>2, <1>4, <2>1, InstalledKept
    <2> QED
      BY <2>3, <2>4, <2>5, <2>6, <2>7 DEF HostStands
  <1>6. cancels' \in 0..MaxCancels
    BY <1>0, UpgradesAssumption DEF HostsTypeOK, UpgradesAssumption
  <1>7. HostsTypeOK'
    BY <1>0, <1>2, <1>4, <1>6 DEF HostsTypeOK, Moves
  <1> QED
    BY <1>3, <1>5, <1>7 DEF UpgradesInv

\* The cycle looks, chooses and gives up.
LEMMA CycleStep ==
  ASSUME UpgradesInv, CycleBegins \/ CycleEnds \/ (\E a \in Agents, v \in Versions : CycleChooses(a, v))
  PROVE  UpgradesInv'
  <1>0. /\ HostsTypeOK /\ CycleStands /\ AutoTriesABuildOnce /\ HostsSame
        /\ UNCHANGED <<deployments, reported, cancels, upgradeFaults>>
    BY DEF UpgradesInv, CycleBegins, CycleEnds, CycleChooses, HostsSame
  <1>1. \A b \in Agents : HostStands(b)'
    BY <1>0, NobodyMoves
  <1>2. AutoTriesABuildOnce'
    BY <1>0 DEF AutoTriesABuildOnce
  <1>3. \A c \in Cycle, p \in {"idle", "looking"} : [c EXCEPT !.at = p] \in Cycle /\ [c EXCEPT !.at = p].at = p
    BY DEF Cycle
  <1>4. CASE CycleBegins
    <2>1. cycle' \in Cycle /\ cycle'.at = "looking"
      BY <1>0, <1>3, <1>4 DEF CycleBegins, HostsTypeOK
    <2>2. CycleStands'
      BY <1>0, <1>4, <2>1 DEF CycleStands, CycleBegins, IsUnfinished
    <2>3. HostsTypeOK'
      BY <1>0, <2>1 DEF HostsTypeOK, HostsSame, hostVars
    <2> QED
      BY <1>1, <1>2, <2>2, <2>3 DEF UpgradesInv
  <1>5. CASE CycleEnds
    <2>1. cycle' \in Cycle /\ cycle'.at = "idle"
      BY <1>0, <1>3, <1>5 DEF CycleEnds, HostsTypeOK
    <2>2. CycleStands'
      BY <2>1 DEF CycleStands
    <2>3. HostsTypeOK'
      BY <1>0, <2>1 DEF HostsTypeOK, HostsSame, hostVars
    <2> QED
      BY <1>1, <1>2, <2>2, <2>3 DEF UpgradesInv
  <1>6. CASE \E a \in Agents, v \in Versions : CycleChooses(a, v)
    <2>1. PICK a \in Agents, v \in Versions : CycleChooses(a, v)
      BY <1>6
    <2>2. cycle' = [at |-> "staging", agent |-> a, version |-> v] /\ cycle.at = "looking"
      BY <2>1 DEF CycleChooses
    <2>3. cycle' \in Cycle
      BY <2>2 DEF Cycle
    <2>4. \A d \in DOMAIN deployments : deployments[d].auto => ~IsUnfinished(d)
      BY <1>0, <2>2 DEF CycleStands
    <2>5. \A d \in DOMAIN deployments :
            (deployments[d].auto /\ deployments[d].agent = a /\ deployments[d].version = v)
              => deployments[d].status = "installed"
      <3>1. \A d \in DOMAIN deployments : deployments[d].status \in Statuses
        BY <1>0, DeploymentPlaces
      <3> QED
        BY <2>1, <2>4, <3>1 DEF CycleChooses, IsUnfinished, Statuses, Unfinished, Finished
    <2>6. CycleStands'
      BY <1>0, <2>2, <2>4, <2>5 DEF CycleStands, IsUnfinished
    <2>7. HostsTypeOK'
      BY <1>0, <2>3 DEF HostsTypeOK, HostsSame, hostVars
    <2> QED
      BY <1>1, <1>2, <2>6, <2>7 DEF UpgradesInv
  <1> QED
    BY <1>4, <1>5, <1>6

-----------------------------------------------------------------------------
(***************************************************************************)
(* The theorems                                                            *)
(***************************************************************************)
LEMMA UpgradesBegin ==
  ASSUME UpgradeInit
  PROVE  UpgradesInv
  <1>1. /\ deployments = <<>> /\ deployments \in Seq(Deployment) /\ Len(deployments) = 0 /\ DOMAIN deployments = {}
    BY EmptySeq DEF UpgradeInit
  <1>2. /\ FirstVersion \in Versions /\ MaxDeployments \in Nat /\ MaxCancels \in Nat /\ MaxUpgradeFaults \in Nat
        /\ 0 \in DeploymentIds
    BY UpgradesAssumption, NoneIsTyped DEF UpgradesAssumption
  <1>3. cycle \in Cycle
    BY DEF UpgradeInit, Cycle
  <1>4. [exe |-> FirstVersion, backup |-> 0, state |-> NoState, okFlag |-> FALSE, rolledBack |-> 0,
         restored |-> FALSE] \in Files
    BY <1>2, NoneIsTyped DEF Files
  <1>5. /\ Started(FirstVersion) \in Agent /\ Started(FirstVersion).runs = FirstVersion
        /\ Started(FirstVersion).poll = "idle" /\ Started(FirstVersion).healing = 0
    <2>1. \A q \in Agent : LET r == [q EXCEPT !.runs = FirstVersion] IN
            r \in Agent /\ r.runs = FirstVersion /\ r.poll = q.poll /\ r.healing = q.healing
      BY <1>2 DEF Agent
    <2> QED
      BY <2>1, NoneIsTyped DEF Started
  <1>6. /\ reported \in [Agents -> Versions] /\ files \in [Agents -> Files] /\ agent \in [Agents -> Agent]
        /\ watchdog \in [Agents -> Watchdog] /\ restarts \in [Agents -> BOOLEAN] /\ cutOff \in [Agents -> BOOLEAN]
    BY <1>2, <1>4, <1>5, NoneIsTyped DEF UpgradeInit
  <1>7. HostsTypeOK
    <2>1. cancels \in 0..MaxCancels /\ upgradeFaults \in 0..MaxUpgradeFaults /\ Len(deployments) <= MaxDeployments
      BY <1>1, <1>2 DEF UpgradeInit
    <2> QED
      BY <1>1, <1>3, <1>6, <2>1 DEF HostsTypeOK
  <1>8. CycleStands /\ AutoTriesABuildOnce
    BY <1>1 DEF CycleStands, AutoTriesABuildOnce, UpgradeInit
  <1>9. ASSUME NEW a \in Agents PROVE HostStands(a)
    <2>1. /\ agent[a].runs = FirstVersion /\ agent[a].poll = "idle" /\ agent[a].healing = 0
          /\ files[a].exe = FirstVersion /\ files[a].state = NoState /\ files[a].rolledBack = 0
          /\ watchdog[a].at = "none"
      BY <1>5, NoneIsTyped DEF UpgradeInit
    <2> QED
      BY <1>1, <2>1, NoneIsTyped DEF HostStands, ProcessStands, PollStands, FilesStand, WatchStands,
         InstalledStand, Looking
  <1> QED
    BY <1>7, <1>8, <1>9 DEF UpgradesInv

LEMMA UpgradesStutter ==
  ASSUME UpgradesInv, UNCHANGED upgradeVars
  PROVE  UpgradesInv'
  <1>1. HostsSame /\ UNCHANGED <<deployments, reported, cycle, files, agent, watchdog, restarts, cutOff, cancels, upgradeFaults>>
    BY DEF upgradeVars, platformVars, hostVars, HostsSame
  <1>2. \A b \in Agents : HostStands(b)'
    BY <1>1, NobodyMoves
  <1>3. HostsTypeOK' /\ CycleStands' /\ AutoTriesABuildOnce'
    BY <1>1 DEF UpgradesInv, HostsTypeOK, CycleStands, AutoTriesABuildOnce, IsUnfinished
  <1> QED
    BY <1>2, <1>3 DEF UpgradesInv

\* A request that has been looked at is not yet a deployment.
LEMMA RequestUpgradeStep ==
  ASSUME UpgradesInv, NEW p, NEW a, NEW v, RequestUpgrade(p, a, v)
  PROVE  UpgradesInv'
  <1>1. HostsSame /\ UNCHANGED <<deployments, reported, cycle, files, agent, watchdog, restarts, cutOff, cancels, upgradeFaults>>
    BY DEF RequestUpgrade, hostVars, HostsSame
  <1>2. \A b \in Agents : HostStands(b)'
    BY <1>1, NobodyMoves
  <1>3. HostsTypeOK' /\ CycleStands' /\ AutoTriesABuildOnce'
    BY <1>1 DEF UpgradesInv, HostsTypeOK, CycleStands, AutoTriesABuildOnce, IsUnfinished
  <1> QED
    BY <1>2, <1>3 DEF UpgradesInv

LEMMA UpgradesStep ==
  ASSUME UpgradesInv, [UpgradeNext]_upgradeVars
  PROVE  UpgradesInv'
  <1>1. CASE PlatformStep
    BY <1>1, RequestUpgradeStep, RequestStagesStep, CancelStep, CycleStep, CycleStagesStep DEF PlatformStep
  <1>2. ASSUME NEW a \in Agents, PollStep(a) PROVE UpgradesInv'
    BY <1>2, PollBeginsStep, ReportRolledBackStep, ReportAgainStep, ReportResultStep, TakesDeploymentStep,
       FindsNoUpgradeStep, AnnouncesDownloadStep, DownloadsStep, DownloadFailsStep, SwapsInStep, HandsOverStep
       DEF PollStep
  <1>3. ASSUME NEW a \in Agents, WatchdogStep(a) PROVE UpgradesInv'
    BY <1>3, WatchdogStartsStep, WatchdogLooks, WatchdogKillsStep, WatchdogRestoresStep DEF WatchdogStep
  <1>4. ASSUME NEW a \in Agents, TearsSwap(a) \/ RestartFails(a) \/ Heartbeats(a) \/ ReportInstalled(a)
        PROVE  UpgradesInv'
    BY <1>4, TearsSwapStep, RestartFailsStep, HeartbeatsStep, ReportInstalledStep
  <1>5. ASSUME NEW a \in Agents, AgentCrashes(a) \/ HostRestarts(a) \/ TaskStarts(a)
        PROVE  UpgradesInv'
    BY <1>5, CrashStep, TaskStartsStep
  <1>6. CASE UNCHANGED upgradeVars
    BY <1>6, UpgradesStutter
  <1> QED
    BY <1>1, <1>2, <1>3, <1>4, <1>5, <1>6 DEF UpgradeNext

\* What the inductive invariant says of the properties.
LEMMA UpgradesInvGives ==
  ASSUME UpgradesInv
  PROVE  HostsTypeOK /\ WatchdogCanRestore /\ AutoTriesABuildOnce /\ InstalledStays
  <1>1. HostsTypeOK /\ AutoTriesABuildOnce
    BY DEF UpgradesInv
  <1>2. WatchdogCanRestore
    BY DEF UpgradesInv, HostStands, WatchStands, WatchdogCanRestore
  <1>3. InstalledStays
    <2> SUFFICES ASSUME NEW d \in DOMAIN deployments, NEW a, a = deployments[d].agent,
                        NEW v, v = deployments[d].version,
                        deployments[d].status = "installed", files[a].exe # 0, files[a].exe < v
                 PROVE  \E e \in DOMAIN deployments :
                          /\ deployments[e].agent = a /\ deployments[e].version = v
                          /\ files[a].rolledBack = e \/ deployments[e].status = "rolled_back"
      BY DEF InstalledStays
    <2>1. /\ a \in Agents /\ v \in Nat /\ files[a].exe \in Nat
      <3>1. a \in Agents /\ v \in Versions
        BY <1>1, DeploymentPlaces
      <3> QED
        BY <1>1, <3>1, HostFields
    <2>2. InstalledStand(a)
      BY <2>1, InvGives
    <2>3. Undone(a, v)
      BY <2>1, <2>2 DEF InstalledStand
    <2> QED
      BY <2>3 DEF Undone, OwnOf, Own
  <1> QED
    BY <1>1, <1>2, <1>3

\* What a step tells the platform of deployment d is so on the host.
TruthTold(d) ==
  LET a == deployments[d].agent IN
  /\ (deployments'[d].status = "installed" /\ IsUnfinished(d)) => agent[a].runs = deployments[d].version
  /\ (deployments'[d].status = "rolled_back" /\ IsUnfinished(d) /\ files[a].restored)
       => agent[a].runs # deployments[d].version

\* A status that stays, or that a person gives it, tells nothing.
LEMMA NothingTold ==
  ASSUME NEW d, deployments'[d].status \in {deployments[d].status, "failed"}
  PROVE  TruthTold(d)
  BY DEF TruthTold, IsUnfinished, Unfinished

\* A report is of the agent's own deployment.
LEMMA ReportTold ==
  ASSUME UpgradesInv, NEW d \in DOMAIN deployments, NEW b \in Agents, NEW e, Own(b, e), NEW s \in Statuses,
         Heard(e, s) \/ Unanswered(e, s),
         s = "installed" => agent[b].runs = deployments[e].version,
         (s = "rolled_back" /\ files[b].restored) => agent[b].runs # deployments[e].version
  PROVE  TruthTold(d)
  <1>1. deployments'[d].status = deployments[d].status \/ (d = e /\ deployments'[d].status = s)
    BY Reports, InvGives
  <1>2. CASE deployments'[d].status = deployments[d].status
    BY <1>2, NothingTold
  <1>3. CASE d = e /\ deployments'[d].status = s
    BY <1>3 DEF TruthTold, Own
  <1> QED
    BY <1>1, <1>2, <1>3

LEMMA ReportsTold ==
  ASSUME UpgradesInv, NEW d \in DOMAIN deployments, NEW b \in Agents,
         \/ ReportRolledBack(b) \/ ReportAgain(b) \/ ReportResult(b) \/ AnnouncesDownload(b)
         \/ HandsOver(b) \/ ReportInstalled(b)
  PROVE  TruthTold(d)
  <1> SUFFICES ASSUME NEW e, e = agent[b].dep, NEW s, s = agent[b].status, NEW h, h = agent[b].healing
               PROVE  TruthTold(d)
    OBVIOUS
  <1>0. /\ HostsTypeOK /\ ProcessStands(b) /\ PollStands(b) /\ FilesStand(b)
        /\ e \in DeploymentIds /\ h \in DeploymentIds /\ s \in Statuses
        /\ "installed" \in Statuses /\ "rolled_back" \in Statuses /\ "downloading" \in Statuses /\ "ready" \in Statuses
    BY InvGives, HostFields DEF Statuses, Unfinished, Finished
  <1>1. CASE ReportRolledBack(b)
    <2>1. /\ Heard(e, "rolled_back") \/ Unanswered(e, "rolled_back")
          /\ agent[b].poll = "rolledBack"
      BY <1>1 DEF ReportRolledBack
    <2>2. files[b].rolledBack # 0 /\ e = files[b].rolledBack /\ agent[b].runs = files[b].exe
      BY <1>0, <2>1 DEF PollStands, ProcessStands
    <2>3. Own(b, e) /\ (files[b].restored => agent[b].runs # deployments[e].version)
      BY <1>0, <2>2 DEF FilesStand
    <2> QED
      BY <1>0, <2>1, <2>3, ReportTold
  <1>2. CASE ReportAgain(b)
    <2>1. /\ Heard(e, s) \/ Unanswered(e, s)
          /\ agent[b].poll = "unreported"
      BY <1>2 DEF ReportAgain
    <2>2. /\ files[b].state.phase = "unreported" /\ e = files[b].state.dep /\ s = files[b].state.status
          /\ agent[b].runs = files[b].exe /\ (files[b].rolledBack = 0 \/ ~files[b].restored)
      BY <1>0, <2>1 DEF PollStands, ProcessStands
    <2>3. Own(b, e) /\ s # "rolled_back" /\ (s = "installed" => agent[b].runs = deployments[e].version)
      BY <1>0, <2>2 DEF FilesStand
    <2> QED
      BY <1>0, <2>1, <2>3, ReportTold
  <1>3. CASE ReportResult(b)
    <2>1. /\ Heard(e, s) \/ Unanswered(e, s)
          /\ agent[b].poll = "reporting"
      BY <1>3 DEF ReportResult
    <2>2. /\ Own(b, e) /\ s # "rolled_back" /\ (s = "installed" => agent[b].runs = deployments[e].version)
      BY <1>0, <2>1 DEF PollStands, ProcessStands
    <2> QED
      BY <1>0, <2>1, <2>2, ReportTold
  <1>4. CASE AnnouncesDownload(b)
    <2>1. /\ Heard(e, "downloading") \/ Unanswered(e, "downloading")
          /\ Own(b, e)
      BY <1>0, <1>4 DEF AnnouncesDownload, PollStands, OwnOf
    <2> QED
      BY <1>0, <2>1, ReportTold
  <1>5. CASE HandsOver(b)
    <2>1. /\ Heard(e, "ready") \/ Unanswered(e, "ready")
          /\ Own(b, e)
      BY <1>0, <1>5 DEF HandsOver, PollStands, OwnOf
    <2> QED
      BY <1>0, <2>1, ReportTold
  <1>6. CASE ReportInstalled(b)
    <2>1. /\ Heard(h, "installed") \/ Unanswered(h, "installed")
          /\ h # 0
      BY <1>6 DEF ReportInstalled
    <2>2. Own(b, h) /\ agent[b].runs = deployments[h].version
      BY <1>0, <2>1 DEF ProcessStands, OwnOf
    <2> QED
      BY <1>0, <2>1, <2>2, ReportTold
  <1> QED
    BY <1>1, <1>2, <1>3, <1>4, <1>5, <1>6

LEMMA PlatformTold ==
  ASSUME UpgradesInv, NEW d \in DOMAIN deployments, PlatformStep
  PROVE  TruthTold(d)
  <1>0. HostsTypeOK /\ deployments \in Seq(Deployment)
    BY DEF UpgradesInv, HostsTypeOK
  <1>1. ASSUME NEW a \in Agents, NEW v \in Versions, NEW auto \in BOOLEAN, Stage(a, v, auto)
        PROVE  deployments'[d] = deployments[d]
    <2>1. [agent |-> a, version |-> v, status |-> "staged", auto |-> auto] \in Deployment
      BY DEF Deployment, Unfinished
    <2> QED
      BY <1>0, <1>1, <2>1, Appended DEF Stage
  <1>2. \A p \in Admins, a \in Agents, v \in Versions :
          RequestUpgrade(p, a, v) \/ RequestStages(p, a, v) => deployments'[d] = deployments[d]
    BY <1>1 DEF RequestUpgrade, RequestStages
  <1>3. CycleStages => deployments'[d] = deployments[d]
    BY <1>1 DEF CycleStages, UpgradesInv, CycleStands
  <1>4. ASSUME NEW e \in DOMAIN deployments, RequestCancelUpgrade(e)
        PROVE  deployments'[d].status \in {deployments[d].status, "failed"}
    <2>1. \A r \in Deployment : [r EXCEPT !.status = "failed"].status = "failed"
      BY DEF Deployment
    <2>2. deployments[d] \in Deployment
      BY <1>0, DeploymentPlaces
    <2> QED
      BY <1>4, <2>1, <2>2 DEF RequestCancelUpgrade
  <1>5. CycleBegins \/ CycleEnds \/ (\E a \in Agents, v \in Versions : CycleChooses(a, v)) => deployments' = deployments
    BY DEF CycleBegins, CycleEnds, CycleChooses
  <1> QED
    BY <1>2, <1>3, <1>4, <1>5, NothingTold DEF PlatformStep

\* Only people's requests to stage touch what has been asked for.
LEMMA AskedStays ==
  ASSUME asked \subseteq Admins \X Agents \X Versions, [UpgradeNext]_upgradeVars
  PROVE  asked' \subseteq Admins \X Agents \X Versions
  <1>1. CASE PlatformStep
    <2>1. ASSUME NEW p \in Admins, NEW a \in Agents, NEW v \in Versions, RequestUpgrade(p, a, v)
          PROVE  asked' \subseteq Admins \X Agents \X Versions
      <3>1. asked' = asked \union {<<p, a, v>>} /\ <<p, a, v>> \in Admins \X Agents \X Versions
        BY <2>1 DEF RequestUpgrade
      <3> QED
        BY <3>1
    <2>2. ASSUME NEW p \in Admins, NEW a \in Agents, NEW v \in Versions, RequestStages(p, a, v)
          PROVE  asked' \subseteq asked
      BY <2>2 DEF RequestStages
    <2>3. ASSUME \/ \E d \in DOMAIN deployments : RequestCancelUpgrade(d)
                 \/ \E a \in Agents, v \in Versions : CycleChooses(a, v)
                 \/ CycleBegins \/ CycleEnds \/ CycleStages
          PROVE  asked' = asked
      BY <2>3 DEF RequestCancelUpgrade, CycleBegins, CycleChooses, CycleEnds, CycleStages
    <2> QED
      BY <1>1, <2>1, <2>2, <2>3 DEF PlatformStep
  <1>2. ASSUME NEW a \in Agents, PollStep(a) PROVE asked' = asked
    BY <1>2 DEF PollStep, PollBegins, ReportRolledBack, ReportAgain, ReportResult, TakesDeployment, FindsNoUpgrade,
       AnnouncesDownload, Downloads, DownloadFails, CheckFails, SwapsIn, HandsOver, platformVars
  <1>3. ASSUME NEW a \in Agents, Heartbeats(a) \/ ReportInstalled(a) \/ WatchdogStep(a) \/ TearsSwap(a) \/ RestartFails(a)
        PROVE  asked' = asked
    BY <1>3 DEF Heartbeats, ReportInstalled, WatchdogStep, WatchdogStarts, WatchdogSeesHealth, DeadlinePasses,
       WatchdogKills, WatchdogRestores, TearsSwap, RestartFails, platformVars
  <1>4. ASSUME NEW a \in Agents, AgentCrashes(a) \/ HostRestarts(a) \/ TaskStarts(a) PROVE asked' = asked
    BY <1>4 DEF AgentCrashes, HostRestarts, TaskStarts, platformVars
  <1>5. CASE UNCHANGED upgradeVars
    BY <1>5 DEF upgradeVars, platformVars
  <1> QED
    BY <1>1, <1>2, <1>3, <1>4, <1>5 DEF UpgradeNext

LEMMA StepTold ==
  ASSUME UpgradesInv, [UpgradeNext]_upgradeVars, NEW d \in DOMAIN deployments
  PROVE  TruthTold(d)
  <1>1. CASE PlatformStep
    BY <1>1, PlatformTold
  <1>2. ASSUME NEW a \in Agents,
               \/ ReportRolledBack(a) \/ ReportAgain(a) \/ ReportResult(a) \/ AnnouncesDownload(a)
               \/ HandsOver(a) \/ ReportInstalled(a)
        PROVE  TruthTold(d)
    BY <1>2, ReportsTold
  <1>3. ASSUME NEW a \in Agents,
               \/ PollBegins(a) \/ (\E e \in DOMAIN deployments : TakesDeployment(a, e))
               \/ FindsNoUpgrade(a) \/ Downloads(a) \/ DownloadFails(a) \/ CheckFails(a) \/ SwapsIn(a)
        PROVE  TruthTold(d)
    <2>1. deployments' = deployments
      BY <1>3 DEF PollBegins, TakesDeployment, FindsNoUpgrade, Downloads, DownloadFails, CheckFails, SwapsIn, platformVars
    <2> QED
      BY <2>1, NothingTold
  <1>4. ASSUME NEW a \in Agents,
               \/ Heartbeats(a) \/ WatchdogStep(a) \/ TearsSwap(a) \/ RestartFails(a)
               \/ AgentCrashes(a) \/ HostRestarts(a) \/ TaskStarts(a)
        PROVE  TruthTold(d)
    <2>1. deployments' = deployments
      BY <1>4 DEF Heartbeats, WatchdogStep, WatchdogStarts, WatchdogSeesHealth, DeadlinePasses, WatchdogKills,
         WatchdogRestores, TearsSwap, RestartFails, AgentCrashes, HostRestarts, TaskStarts, platformVars
    <2> QED
      BY <2>1, NothingTold
  <1>5. CASE UNCHANGED upgradeVars
    <2>1. deployments' = deployments
      BY <1>5 DEF upgradeVars, platformVars
    <2> QED
      BY <2>1, NothingTold
  <1> QED
    BY <1>1, <1>2, <1>3, <1>4, <1>5 DEF UpgradeNext, PollStep

-----------------------------------------------------------------------------
\* Every host stands: its files, its process and its watchdog agree, and with them the deployments.
THEOREM UpgradesInvariant == UpgradeSpec => []UpgradesInv
  <1>1. UpgradeInit => UpgradesInv
    BY UpgradesBegin
  <1>2. UpgradesInv /\ [UpgradeNext]_upgradeVars => UpgradesInv'
    BY UpgradesStep
  <1> QED
    BY <1>1, <1>2, PTL DEF UpgradeSpec

\* Every variable of the upgrades has its type.
THEOREM UpgradesTyped == UpgradeSpec => []UpgradeTypeOK
  <1> DEFINE Asks == asked \subseteq Admins \X Agents \X Versions
  <1>1. UpgradeInit => Asks
    BY DEF UpgradeInit
  <1>2. Asks /\ [UpgradeNext]_upgradeVars => Asks'
    BY AskedStays
  <1>3. UpgradesInv /\ Asks => UpgradeTypeOK
    BY UpgradesInvGives DEF HostsTypeOK, UpgradeTypeOK
  <1> HIDE DEF Asks
  <1> QED
    BY <1>1, <1>2, <1>3, UpgradesInvariant, PTL DEF UpgradeSpec

\* A watchdog that may have to restore the previous executable finds it in the backup.
THEOREM BackupIsKept == UpgradeSpec => []WatchdogCanRestore
  <1>1. UpgradesInv => WatchdogCanRestore
    BY UpgradesInvGives
  <1> QED
    BY <1>1, UpgradesInvariant, PTL

\* The automatic cycle never stages again what failed or was rolled back.
THEOREM BuildsAreTriedOnce == UpgradeSpec => []AutoTriesABuildOnce
  <1>1. UpgradesInv => AutoTriesABuildOnce
    BY UpgradesInvGives
  <1> QED
    BY <1>1, UpgradesInvariant, PTL

\* What the platform shows of an upgrade was so when it was told, and stays so or is undone by a
\* rollback on record, even of a version whose proof of health comes too late.
THEOREM ResultsOfUpgradesHold == UpgradeSpec => ResultsHold
  <1>1. UpgradesInv => InstalledStays
    BY UpgradesInvGives
  <1>2. UpgradesInv /\ [UpgradeNext]_upgradeVars =>
          [\A d \in DOMAIN deployments :
             LET a == deployments[d].agent IN
             /\ (deployments'[d].status = "installed" /\ IsUnfinished(d))
                   => agent[a].runs = deployments[d].version
             /\ (deployments'[d].status = "rolled_back" /\ IsUnfinished(d) /\ files[a].restored)
                   => agent[a].runs # deployments[d].version]_upgradeVars
    BY StepTold DEF TruthTold
  <1>3. UpgradeSpec => [][UpgradeNext]_upgradeVars
    BY PTL DEF UpgradeSpec
  <1> QED
    BY <1>1, <1>2, <1>3, UpgradesInvariant, PTL DEF ResultsHold, ResultsAreTrue

-----------------------------------------------------------------------------
(***************************************************************************)
(* Commands.  Those of one virtual machine that no power_off has passed    *)
(* stand in a line: each waits for another one of the line, or for none.   *)
(* That nobody waits in a circle shows in a rank, which the first of a     *)
(* line has lowest.                                                        *)
(***************************************************************************)
Line(a, v) == {c \in DOMAIN commands : /\ commands[c].agent = a /\ commands[c].vm = v
                                       /\ InFlight(c) /\ ~jobs[c].passed}

QueueStands(a, v, r) ==
  LET t == host[a].tails[v] IN
  /\ \A c, e \in Line(a, v) : jobs[c].prior = jobs[e].prior => c = e
  /\ \A c \in Line(a, v) : jobs[c].prior # 0 =>
       /\ jobs[c].prior \in Line(a, v) /\ r[jobs[c].prior] < r[c] /\ jobs[c].prior # t
  /\ IF t = 0 THEN Line(a, v) = {} ELSE t \in Line(a, v)

QueuesStand ==
  \E k \in Nat : \E r \in [CommandIds -> 0..k] : \A a \in Hosts, v \in VMs : QueueStands(a, v, r)

\* An agent is offered its own commands, once they are inserted, and nothing is left of one that is down.
PolledStands(a) ==
  /\ \A c \in host[a].polled :
       c \in DOMAIN commands /\ commands[c].agent = a /\ commands[c].status # "inserting"
  /\ ~host[a].up => host[a] = Idle(FALSE)

\* A command in flight is with an agent that is up; its outcome is in memory once it has one.
JobStands(c) ==
  /\ InFlight(c) => /\ c \in DOMAIN commands /\ commands[c].status # "inserting"
                    /\ host[commands[c].agent].up
  /\ jobs[c].at # "waiting" => jobs[c].prior = 0
  /\ jobs[c].at = "executing" => memo[c] = "none"
  /\ jobs[c].at \in {"acknowledging", "authenticated"} => memo[c] # "none"
  /\ c \notin DOMAIN commands => runs[c] = 0 /\ memo[c] = "none" /\ journal[c] = "none"

Up(c) == host[commands[c].agent].up

\* What was begun is under way or written down, and what is recorded is what is written down,
\* except for the commands of which that is known to be lost.
Knows(c) ==
  /\ ~Up(c) => memo[c] = "none"
  /\ runs[c] > 0 /\ c \notin unrecorded =>
       runs[c] = 1 /\ (jobs[c].at = "executing" \/ memo[c] # "none" \/ (~Up(c) /\ journal[c] # "none"))
  /\ commands[c].status \in Outcomes /\ c \notin unrecorded =>
       commands[c].status = IF Up(c) THEN memo[c] ELSE journal[c]

\* What is still queued of a revoked agent has not reached it.
RevokedHasNothing(c) ==
  (enrolled[commands[c].agent] = "revoked" /\ commands[c].status = "queued") =>
    c \notin host[commands[c].agent].polled /\ ~InFlight(c)

CommandStands(c) == Knows(c) /\ RevokedHasNothing(c)

CommandsInv ==
  /\ CommandsTypeOK /\ QueuesStand
  /\ \A a \in Hosts : PolledStands(a)
  /\ \A c \in CommandIds : JobStands(c)
  /\ \A c \in DOMAIN commands : CommandStands(c)

-----------------------------------------------------------------------------
\* The places of the commands, and what stands there.
LEMMA CommandPlaces ==
  ASSUME CommandsTypeOK
  PROVE  /\ DOMAIN commands = 1..Len(commands) /\ Len(commands) \in 0..MaxCommands
         /\ DOMAIN commands \subseteq CommandIds /\ CommandIds \subseteq Nat /\ 0 \notin CommandIds
         /\ commands \in Seq(Command) /\ MaxCommands \in Nat
         /\ \A c \in DOMAIN commands :
              /\ commands[c] \in Command /\ commands[c].agent \in Hosts /\ commands[c].vm \in VMs
              /\ commands[c].status \in {"inserting", "queued"} \union Outcomes \union Rejected
  <1>1. commands \in Seq(Command) /\ Len(commands) <= MaxCommands /\ MaxCommands \in Nat
    BY CommandsAssumption DEF CommandsTypeOK, CommandsAssumption
  <1>2. /\ Len(commands) \in Nat /\ DOMAIN commands = 1..Len(commands)
        /\ \A c \in DOMAIN commands : commands[c] \in Command
    BY <1>1, Places
  <1> QED
    BY <1>1, <1>2 DEF CommandIds, Command

\* What stands for a job and for a host.
LEMMA JobFields ==
  ASSUME CommandsTypeOK, NEW c \in CommandIds
  PROVE  /\ jobs[c] \in Job /\ jobs[c].prior \in 0..MaxCommands /\ jobs[c].passed \in BOOLEAN
         /\ jobs[c].at \in {"none", "waiting", "executing", "acknowledging", "authenticated"}
         /\ memo[c] \in Outcomes \union {"none"} /\ journal[c] \in Outcomes \union {"none"} /\ runs[c] \in Nat
  BY DEF CommandsTypeOK, Job

LEMMA HostOf ==
  ASSUME CommandsTypeOK, NEW a \in Hosts
  PROVE  /\ host[a] \in Host /\ host[a].up \in BOOLEAN /\ host[a].polled \subseteq CommandIds
         /\ host[a].tails \in [VMs -> 0..MaxCommands]
  BY DEF CommandsTypeOK, Host

LEMMA IdleIsTyped ==
  ASSUME NEW up \in BOOLEAN
  PROVE  /\ Idle(up) \in Host /\ Idle(up).up = up /\ Idle(up).polled = {}
         /\ \A v \in VMs : Idle(up).tails[v] = 0
         /\ NoJob \in Job /\ NoJob.at = "none" /\ NoJob.prior = 0 /\ NoJob.passed = FALSE
  <1>1. 0 \in 0..MaxCommands
    BY CommandsAssumption DEF CommandsAssumption
  <1> QED
    BY <1>1 DEF Idle, Host, NoJob, Job

LEMMA DisturbanceCounts ==
  ASSUME CommandsTypeOK, Disturbance
  PROVE  disturbances' \in 0..MaxDisturbances
  BY CommandsAssumption DEF CommandsTypeOK, Disturbance, CommandsAssumption

LEMMA CommandsInvGives ==
  ASSUME CommandsInv
  PROVE  /\ CommandsTypeOK /\ QueuesStand
         /\ \A a \in Hosts : PolledStands(a)
         /\ \A c \in CommandIds : JobStands(c)
         /\ \A c \in DOMAIN commands : c \in CommandIds /\ Knows(c) /\ RevokedHasNothing(c)
         /\ disturbances \in 0..MaxDisturbances
  <1>1. CommandsTypeOK
    BY DEF CommandsInv
  <1> QED
    BY <1>1, CommandPlaces DEF CommandsInv, CommandStands, CommandsTypeOK

-----------------------------------------------------------------------------
(***************************************************************************)
(* The registry                                                            *)
(***************************************************************************)
\* Rows stay what they are, but for a status that is still open.
RowsMove ==
  /\ commands' \in Seq(Command) /\ Len(commands') = Len(commands) /\ DOMAIN commands' = DOMAIN commands
  /\ \A c \in DOMAIN commands :
       /\ commands'[c].agent = commands[c].agent /\ commands'[c].vm = commands[c].vm
       /\ commands'[c].op = commands[c].op
       /\ \/ commands'[c].status = commands[c].status
          \/ commands[c].status = "inserting" /\ commands'[c].status = "queued"
          \/ commands[c].status = "queued" /\ commands'[c].status \in Rejected

AgentsSame == UNCHANGED <<hostState, history>>

\* The queues stand while no job changes its place.
LEMMA QueuesStay ==
  ASSUME QueuesStand,
         \A a \in Hosts, v \in VMs : Line(a, v)' = Line(a, v) /\ host'[a].tails[v] = host[a].tails[v],
         \A a \in Hosts, v \in VMs : Line(a, v) \subseteq CommandIds,
         \A c \in CommandIds : jobs'[c].prior = jobs[c].prior
  PROVE  QueuesStand'
  <1>0. PICK k \in Nat : \E r \in [CommandIds -> 0..k] : \A a \in Hosts, v \in VMs : QueueStands(a, v, r)
    BY DEF QueuesStand
  <1>1. PICK r \in [CommandIds -> 0..k] : \A a \in Hosts, v \in VMs : QueueStands(a, v, r)
    BY <1>0
  <1>2. \A a \in Hosts, v \in VMs : QueueStands(a, v, r)'
    BY <1>1 DEF QueueStands
  <1> QED
    BY <1>2 DEF QueuesStand

\* A statement of the registry moves statuses that are open; of a revoked agent it leaves nothing queued.
LEMMA RegistryStands ==
  ASSUME CommandsInv, RowsMove, AgentsSame,
         enrolled' \in [Hosts -> Enrolled], beats' \subseteq Hosts, disturbances' \in 0..MaxDisturbances,
         \A c \in DOMAIN commands :
           (enrolled'[commands[c].agent] = "revoked" /\ commands'[c].status = "queued")
             => enrolled[commands[c].agent] = "revoked" \/ commands[c].status = "inserting"
  PROVE  CommandsInv'
  <1>0. /\ CommandsTypeOK /\ QueuesStand
        /\ \A a \in Hosts : PolledStands(a)
        /\ \A c \in CommandIds : JobStands(c)
        /\ \A c \in DOMAIN commands : c \in CommandIds /\ Knows(c) /\ RevokedHasNothing(c)
    BY CommandsInvGives
  <1>1. UNCHANGED <<host, jobs, memo, journal, runs, unrecorded>>
    BY DEF AgentsSame, hostState, history
  <1>2. CommandsTypeOK'
    BY <1>0, <1>1 DEF CommandsTypeOK, RowsMove
  <1>3. QueuesStand'
    <2>1. \A a, v : Line(a, v)' = Line(a, v)
      BY <1>1 DEF Line, RowsMove, InFlight
    <2>2. \A a, v : Line(a, v) \subseteq CommandIds
      BY <1>0 DEF Line
    <2> QED
      BY <1>0, <1>1, <2>1, <2>2, QueuesStay
  <1>a. /\ DOMAIN commands' = DOMAIN commands
        /\ \A c \in DOMAIN commands :
             /\ commands'[c].agent = commands[c].agent
             /\ commands[c].status # "inserting" => commands'[c].status # "inserting"
    BY DEF RowsMove, Rejected
  <1>4. ASSUME NEW a \in Hosts PROVE PolledStands(a)'
    <2>1. PolledStands(a)
      BY <1>0
    <2>2. host'[a] = host[a] /\ Idle(FALSE)' = Idle(FALSE)
      BY <1>1 DEF Idle
    <2> QED
      BY <2>1, <2>2, <1>a DEF PolledStands
  <1>5. ASSUME NEW c \in CommandIds PROVE JobStands(c)'
    <2>1. JobStands(c)
      BY <1>0
    <2> QED
      BY <2>1, <1>1, <1>a DEF JobStands, InFlight
  <1>6. ASSUME NEW c \in DOMAIN commands PROVE CommandStands(c)'
    <2>1. commands'[c].status \in Outcomes => commands[c].status = commands'[c].status
      BY DEF RowsMove, Outcomes, Rejected
    <2>2. Knows(c)'
      BY <1>0, <1>1, <2>1 DEF Knows, RowsMove, Up
    <2>3. commands[c].agent \in Hosts /\ commands'[c].agent = commands[c].agent
      BY <1>0, CommandPlaces DEF RowsMove
    <2>4. commands[c].status = "inserting" => c \notin host[commands[c].agent].polled /\ ~InFlight(c)
      BY <1>0, <2>3 DEF PolledStands, JobStands
    <2>5. commands'[c].status = "queued" => commands[c].status \in {"queued", "inserting"}
      BY DEF RowsMove, Rejected
    <2>6. RevokedHasNothing(c)'
      BY <1>0, <1>1, <2>3, <2>4, <2>5 DEF RevokedHasNothing, InFlight
    <2> QED
      BY <2>2, <2>6 DEF CommandStands
  <1> QED
    BY <1>2, <1>3, <1>4, <1>5, <1>6 DEF CommandsInv, RowsMove

\* One row's status.
LEMMA StatusSet ==
  ASSUME CommandsTypeOK, NEW c \in DOMAIN commands, NEW s \in {"queued"} \union Outcomes \union Rejected, SetStatus(c, s)
  PROVE  /\ commands' \in Seq(Command) /\ Len(commands') = Len(commands) /\ DOMAIN commands' = DOMAIN commands
         /\ \A e \in DOMAIN commands :
              /\ commands'[e].agent = commands[e].agent /\ commands'[e].vm = commands[e].vm
              /\ commands'[e].op = commands[e].op /\ commands'[e].overdue = commands[e].overdue
              /\ commands'[e].status = IF e = c THEN s ELSE commands[e].status
  <1> DEFINE q == [commands[c] EXCEPT !.status = s]
  <1>1. commands[c] \in Command /\ commands \in Seq(Command)
    BY CommandPlaces
  <1>2. /\ q \in Command /\ q.status = s /\ q.agent = commands[c].agent /\ q.vm = commands[c].vm
        /\ q.op = commands[c].op /\ q.overdue = commands[c].overdue
    BY <1>1 DEF Command
  <1>3. commands' = [commands EXCEPT ![c] = q]
    BY DEF SetStatus
  <1> HIDE DEF q
  <1>4. /\ commands' \in Seq(Command) /\ Len(commands') = Len(commands) /\ DOMAIN commands' = DOMAIN commands
        /\ \A e \in DOMAIN commands : commands'[e] = IF e = c THEN q ELSE commands[e]
    BY <1>1, <1>2, <1>3, Updates
  <1> QED
    BY <1>2, <1>4

\* Rows that stay.
LEMMA RowsStay ==
  ASSUME CommandsTypeOK, commands' = commands
  PROVE  RowsMove
  BY DEF RowsMove, CommandsTypeOK

\* Rows that an UPDATE closes.
LEMMA RowsClosed ==
  ASSUME CommandsTypeOK, NEW P, NEW s \in Rejected,
         commands' = [c \in DOMAIN commands |->
                        IF c \in P THEN [commands[c] EXCEPT !.status = s] ELSE commands[c]],
         \A c \in DOMAIN commands : c \in P => commands[c].status = "queued"
  PROVE  /\ RowsMove
         /\ \A c \in DOMAIN commands : commands'[c].status = IF c \in P THEN s ELSE commands[c].status
  <1>1. \A q \in Command : LET n == [q EXCEPT !.status = s] IN
          n \in Command /\ n.status = s /\ n.agent = q.agent /\ n.vm = q.vm /\ n.op = q.op
    BY DEF Command
  <1>2. /\ DOMAIN commands = 1..Len(commands) /\ Len(commands) \in Nat
        /\ \A c \in DOMAIN commands : commands[c] \in Command
    BY CommandPlaces
  <1>3. /\ DOMAIN commands' = DOMAIN commands
        /\ \A c \in DOMAIN commands :
             commands'[c] = IF c \in P THEN [commands[c] EXCEPT !.status = s] ELSE commands[c]
    OBVIOUS
  <1>4. \A c \in DOMAIN commands :
          /\ commands'[c] \in Command /\ commands'[c].agent = commands[c].agent
          /\ commands'[c].vm = commands[c].vm /\ commands'[c].op = commands[c].op
          /\ commands'[c].status = IF c \in P THEN s ELSE commands[c].status
    BY <1>1, <1>2, <1>3
  <1>5. commands' \in [1..Len(commands) -> Command]
    BY <1>2, <1>3, <1>4
  <1>6. commands' \in Seq(Command) /\ Len(commands') = Len(commands)
    BY <1>2, <1>5, SeqDef, LenProperties
  <1> QED
    BY <1>3, <1>4, <1>6 DEF RowsMove

LEMMA HeartbeatBeginsStands ==
  ASSUME CommandsInv, NEW a \in Hosts, HeartbeatBegins(a)
  PROVE  CommandsInv'
  <1>1. CommandsTypeOK /\ disturbances \in 0..MaxDisturbances
    BY CommandsInvGives
  <1>2. /\ enrolled' = enrolled /\ commands' = commands /\ disturbances' = disturbances
        /\ beats' = beats \union {a} /\ AgentsSame
    BY DEF HeartbeatBegins, AgentsSame
  <1>3. enrolled' \in [Hosts -> Enrolled] /\ beats' \subseteq Hosts
    BY <1>1, <1>2 DEF CommandsTypeOK
  <1> QED
    BY <1>1, <1>2, <1>3, RowsStay, RegistryStands

LEMMA HeartbeatWritesStands ==
  ASSUME CommandsInv, NEW a \in Hosts, HeartbeatWrites(a)
  PROVE  CommandsInv'
  <1>1. CommandsTypeOK /\ disturbances \in 0..MaxDisturbances
    BY CommandsInvGives
  <1>2. /\ commands' = commands /\ disturbances' = disturbances
        /\ beats' \subseteq beats /\ enrolled' = [enrolled EXCEPT ![a] = "online"] /\ AgentsSame
    BY DEF HeartbeatWrites, AgentsSame
  <1>3. enrolled' \in [Hosts -> Enrolled] /\ beats' \subseteq Hosts
    BY <1>1, <1>2 DEF CommandsTypeOK, Enrolled
  <1>4. \A b \in Hosts : enrolled'[b] = "revoked" => enrolled[b] = "revoked"
    BY <1>1, <1>2 DEF CommandsTypeOK
  <1>5. \A c \in DOMAIN commands : commands[c].agent \in Hosts
    BY <1>1, CommandPlaces
  <1> QED
    BY <1>1, <1>2, <1>3, <1>4, <1>5, RowsStay, RegistryStands

LEMMA CreateCommandStands ==
  ASSUME CommandsInv, NEW a \in Hosts, NEW v \in VMs, NEW op \in {"ordinary", "power_off"}, CreateCommand(a, v, op)
  PROVE  CommandsInv'
  <1> DEFINE q == [agent |-> a, vm |-> v, op |-> op, overdue |-> FALSE, status |-> "inserting"]
             n == Len(commands) + 1
  <1>0. /\ CommandsTypeOK /\ QueuesStand
        /\ \A b \in Hosts : PolledStands(b)
        /\ \A c \in CommandIds : JobStands(c)
        /\ \A c \in DOMAIN commands : c \in CommandIds /\ Knows(c) /\ RevokedHasNothing(c)
    BY CommandsInvGives
  <1>1. /\ commands' = Append(commands, q) /\ Len(commands) < MaxCommands
        /\ UNCHANGED <<enrolled, beats, host, jobs, memo, journal, runs, unrecorded, disturbances>>
    BY DEF CreateCommand, hostState, history
  <1>2. q \in Command /\ q.status = "inserting" /\ q.agent = a
    BY DEF Command
  <1> HIDE DEF q
  <1>3. /\ commands' \in Seq(Command) /\ Len(commands') = n /\ DOMAIN commands' = DOMAIN commands \union {n}
        /\ commands'[n] = q /\ \A c \in DOMAIN commands : commands'[c] = commands[c]
    BY <1>0, <1>1, <1>2, CommandPlaces, Appended
  <1>4. n \in CommandIds /\ n \notin DOMAIN commands /\ n <= MaxCommands
    BY <1>0, <1>1, CommandPlaces DEF CommandIds
  <1>5. ~InFlight(n) /\ runs[n] = 0 /\ memo[n] = "none" /\ journal[n] = "none"
    BY <1>0, <1>4 DEF JobStands
  <1> HIDE DEF n
  <1>6. CommandsTypeOK'
    BY <1>0, <1>1, <1>3, <1>4 DEF CommandsTypeOK
  <1>7. QueuesStand'
    <2>1. \A b, w : Line(b, w)' = Line(b, w)
      BY <1>1, <1>3, <1>5 DEF Line, InFlight
    <2>2. \A b, w : Line(b, w) \subseteq CommandIds
      BY <1>0 DEF Line
    <2> QED
      BY <1>0, <1>1, <2>1, <2>2, QueuesStay
  <1>8. ASSUME NEW b \in Hosts PROVE PolledStands(b)'
    <2>1. PolledStands(b)
      BY <1>0
    <2>2. host'[b] = host[b] /\ Idle(FALSE)' = Idle(FALSE)
      BY <1>1 DEF Idle
    <2> QED
      BY <2>1, <2>2, <1>3 DEF PolledStands
  <1>9. ASSUME NEW c \in CommandIds PROVE JobStands(c)'
    <2>1. JobStands(c)
      BY <1>0
    <2> QED
      BY <2>1, <1>1, <1>3, <1>5 DEF JobStands, InFlight
  <1>10. ASSUME NEW c \in DOMAIN commands' PROVE CommandStands(c)'
    <2>1. CASE c \in DOMAIN commands
      <3>1. Knows(c) /\ RevokedHasNothing(c)
        BY <1>0, <2>1
      <3> QED
        BY <2>1, <3>1, <1>1, <1>3 DEF CommandStands, Knows, RevokedHasNothing, InFlight, Up
    <2>2. CASE c = n
      BY <2>2, <1>1, <1>2, <1>3, <1>5 DEF CommandStands, Knows, RevokedHasNothing, Up, Outcomes
    <2> QED
      BY <2>1, <2>2, <1>3
  <1> QED
    BY <1>6, <1>7, <1>8, <1>9, <1>10 DEF CommandsInv

LEMMA InsertCommandStands ==
  ASSUME CommandsInv, NEW c \in DOMAIN commands, InsertCommand(c)
  PROVE  CommandsInv'
  <1>1. CommandsTypeOK /\ disturbances \in 0..MaxDisturbances
    BY CommandsInvGives
  <1>2. /\ commands[c].status = "inserting" /\ SetStatus(c, "queued")
        /\ enrolled' = enrolled /\ beats' = beats /\ disturbances' = disturbances /\ AgentsSame
    BY DEF InsertCommand, AgentsSame
  <1>3. RowsMove /\ \A e \in DOMAIN commands : commands'[e].status = "queued" => e = c \/ commands[e].status = "queued"
    BY <1>1, <1>2, StatusSet DEF RowsMove
  <1>4. enrolled' \in [Hosts -> Enrolled] /\ beats' \subseteq Hosts
    BY <1>1, <1>2 DEF CommandsTypeOK
  <1> QED
    BY <1>1, <1>2, <1>3, <1>4, RegistryStands

LEMMA SupersedeCommandStands ==
  ASSUME CommandsInv, NEW c \in DOMAIN commands, SupersedeCommand(c)
  PROVE  CommandsInv'
  <1>1. CommandsTypeOK /\ disturbances \in 0..MaxDisturbances
    BY CommandsInvGives
  <1>2. /\ commands[c].status = "queued" /\ SetStatus(c, "superseded") /\ "superseded" \in Rejected
        /\ enrolled' = enrolled /\ beats' = beats /\ disturbances' = disturbances /\ AgentsSame
    BY DEF SupersedeCommand, AgentsSame, Rejected
  <1>3. RowsMove
    BY <1>1, <1>2, StatusSet DEF RowsMove
  <1>4. enrolled' \in [Hosts -> Enrolled] /\ beats' \subseteq Hosts
    BY <1>1, <1>2 DEF CommandsTypeOK
  <1>5. \A e \in DOMAIN commands : enrolled'[commands[e].agent] = enrolled[commands[e].agent]
    BY <1>2
  <1> QED
    BY <1>1, <1>2, <1>3, <1>4, <1>5, RegistryStands

LEMMA RevokeStands ==
  ASSUME CommandsInv, NEW a \in Hosts, Revoke(a)
  PROVE  /\ CommandsInv'
         /\ RowsMove
  <1> DEFINE P == {c \in DOMAIN commands : commands[c].agent = a /\ commands[c].status = "queued"}
  <1>1. CommandsTypeOK
    BY CommandsInvGives
  <1>2. /\ commands' = [c \in DOMAIN commands |->
                          IF c \in P THEN [commands[c] EXCEPT !.status = "revoked"] ELSE commands[c]]
        /\ enrolled' = [enrolled EXCEPT ![a] = "revoked"] /\ beats' = beats /\ Disturbance /\ AgentsSame
    BY DEF Revoke, AgentsSame
  <1>3. "revoked" \in Rejected /\ \A c \in DOMAIN commands : c \in P => commands[c].status = "queued"
    BY DEF Rejected
  <1>4. /\ RowsMove
        /\ \A c \in DOMAIN commands : commands'[c].status = IF c \in P THEN "revoked" ELSE commands[c].status
    <2> HIDE DEF P
    <2> QED
      BY <1>1, <1>2, <1>3, RowsClosed
  <1>5. enrolled' \in [Hosts -> Enrolled] /\ beats' \subseteq Hosts
    BY <1>1, <1>2 DEF CommandsTypeOK, Enrolled
  <1>6. disturbances' \in 0..MaxDisturbances
    BY <1>1, <1>2, DisturbanceCounts
  <1>7. ASSUME NEW c \in DOMAIN commands,
               enrolled'[commands[c].agent] = "revoked", commands'[c].status = "queued"
        PROVE  enrolled[commands[c].agent] = "revoked"
    <2>1. commands[c].agent # a
      BY <1>7, <1>4
    <2> QED
      BY <2>1, <1>7, <1>1, <1>2 DEF CommandsTypeOK
  <1> QED
    BY <1>2, <1>4, <1>5, <1>6, <1>7, RegistryStands

LEMMA SweepCommandsStands ==
  ASSUME CommandsInv, SweepCommands
  PROVE  /\ CommandsInv'
         /\ RowsMove
  <1> DEFINE P == {c \in DOMAIN commands : commands[c].status = "queued" /\ commands[c].overdue}
  <1>1. CommandsTypeOK /\ disturbances \in 0..MaxDisturbances
    BY CommandsInvGives
  <1>2. /\ commands' = [c \in DOMAIN commands |->
                          IF c \in P THEN [commands[c] EXCEPT !.status = "expired"] ELSE commands[c]]
        /\ enrolled' = enrolled /\ beats' = beats /\ disturbances' = disturbances /\ AgentsSame
    BY DEF SweepCommands, AgentsSame
  <1>3. "expired" \in Rejected /\ \A c \in DOMAIN commands : c \in P => commands[c].status = "queued"
    BY DEF Rejected
  <1>4. RowsMove
    <2> HIDE DEF P
    <2> QED
      BY <1>1, <1>2, <1>3, RowsClosed
  <1>5. enrolled' \in [Hosts -> Enrolled] /\ beats' \subseteq Hosts
    BY <1>1, <1>2 DEF CommandsTypeOK
  <1>6. \A e \in DOMAIN commands : enrolled'[commands[e].agent] = enrolled[commands[e].agent]
    BY <1>2
  <1> QED
    BY <1>1, <1>2, <1>4, <1>5, <1>6, RegistryStands

LEMMA CommandExpiresStands ==
  ASSUME CommandsInv, NEW c \in DOMAIN commands, CommandExpires(c)
  PROVE  /\ CommandsInv'
         /\ RowsMove /\ \A e \in DOMAIN commands : commands'[e].status = commands[e].status
  <1> DEFINE q == [commands[c] EXCEPT !.overdue = TRUE]
  <1>1. CommandsTypeOK /\ disturbances \in 0..MaxDisturbances
    BY CommandsInvGives
  <1>2. /\ commands' = [commands EXCEPT ![c] = q]
        /\ enrolled' = enrolled /\ beats' = beats /\ disturbances' = disturbances /\ AgentsSame
    BY DEF CommandExpires, AgentsSame
  <1>3. commands[c] \in Command /\ commands \in Seq(Command)
    BY <1>1, CommandPlaces
  <1>4. /\ q \in Command /\ q.status = commands[c].status /\ q.agent = commands[c].agent
        /\ q.vm = commands[c].vm /\ q.op = commands[c].op
    BY <1>3 DEF Command
  <1> HIDE DEF q
  <1>5. /\ commands' \in Seq(Command) /\ Len(commands') = Len(commands) /\ DOMAIN commands' = DOMAIN commands
        /\ \A e \in DOMAIN commands : commands'[e] = IF e = c THEN q ELSE commands[e]
    BY <1>2, <1>3, <1>4, Updates
  <1>6. RowsMove /\ \A e \in DOMAIN commands : commands'[e].status = commands[e].status
    BY <1>4, <1>5 DEF RowsMove
  <1>7. enrolled' \in [Hosts -> Enrolled] /\ beats' \subseteq Hosts
    BY <1>1, <1>2 DEF CommandsTypeOK
  <1>8. \A e \in DOMAIN commands : enrolled'[commands[e].agent] = enrolled[commands[e].agent]
    BY <1>2
  <1> QED
    BY <1>1, <1>2, <1>6, <1>7, <1>8, RegistryStands

-----------------------------------------------------------------------------
(***************************************************************************)
(* The agent                                                               *)
(***************************************************************************)
\* The queue of a machine stands while neither its line nor its places change.
LEMMA QueueStays ==
  ASSUME NEW a \in Hosts, NEW v \in VMs, NEW r, NEW q, QueueStands(a, v, r),
         Line(a, v)' = Line(a, v), host'[a].tails[v] = host[a].tails[v],
         \A c \in Line(a, v) : jobs'[c].prior = jobs[c].prior,
         \A c, e \in Line(a, v) : r[c] < r[e] => q[c] < q[e]
  PROVE  QueueStands(a, v, q)'
  BY DEF QueueStands

\* Polling changes only what is offered.
LEMMA PollActionStands ==
  ASSUME CommandsInv, NEW a \in Hosts, Poll(a)
  PROVE  CommandsInv'
  <1> DEFINE P == {c \in DOMAIN commands : /\ commands[c].agent = a
                                           /\ commands[c].status = "queued"
                                           /\ ~commands[c].overdue}
             h == [host[a] EXCEPT !.polled = P]
  <1>0. /\ CommandsTypeOK /\ QueuesStand
        /\ \A b \in Hosts : PolledStands(b)
        /\ \A c \in CommandIds : JobStands(c)
        /\ \A c \in DOMAIN commands : c \in CommandIds /\ Knows(c) /\ RevokedHasNothing(c)
    BY CommandsInvGives
  <1>1. /\ host[a].up /\ enrolled[a] # "revoked" /\ host' = [host EXCEPT ![a] = h]
        /\ UNCHANGED <<enrolled, beats, commands, jobs, memo, journal, runs, unrecorded, disturbances>>
    BY DEF Poll, Authenticates, platformRows, history
  <1>2. P \subseteq CommandIds
    BY <1>0
  <1>3. h \in Host /\ h.up = host[a].up /\ h.tails = host[a].tails /\ h.polled = P
    BY <1>0, <1>2, HostOf DEF Host
  <1>4. \A c \in P : c \in DOMAIN commands /\ commands[c].agent = a /\ commands[c].status = "queued"
    OBVIOUS
  <1> HIDE DEF h, P
  <1>5. \A b \in Hosts : host'[b] = IF b = a THEN h ELSE host[b]
    BY <1>0, <1>1 DEF CommandsTypeOK
  <1>6. CommandsTypeOK'
    BY <1>0, <1>1, <1>3 DEF CommandsTypeOK
  <1>7. QueuesStand'
    <2>1. \A b, w : Line(b, w)' = Line(b, w)
      BY <1>1 DEF Line, InFlight
    <2>2. \A b, w : Line(b, w) \subseteq CommandIds
      BY <1>0 DEF Line
    <2> QED
      BY <1>0, <1>1, <1>3, <1>5, <2>1, <2>2, QueuesStay
  <1>8. ASSUME NEW b \in Hosts PROVE PolledStands(b)'
    <2>1. PolledStands(b) /\ Idle(FALSE)' = Idle(FALSE)
      BY <1>0 DEF Idle
    <2>2. CASE b = a
      BY <2>2, <1>1, <1>3, <1>4, <1>5 DEF PolledStands
    <2>3. CASE b # a
      BY <2>1, <2>3, <1>1, <1>5 DEF PolledStands
    <2> QED
      BY <2>2, <2>3
  <1>9. \A c \in DOMAIN commands : commands[c].agent \in Hosts /\ host'[commands[c].agent].up = host[commands[c].agent].up
    BY <1>0, <1>3, <1>5, CommandPlaces
  <1>10. ASSUME NEW c \in CommandIds PROVE JobStands(c)'
    BY <1>0, <1>1, <1>9 DEF JobStands, InFlight
  <1>11. ASSUME NEW c \in DOMAIN commands PROVE CommandStands(c)'
    <2>1. Knows(c)'
      BY <1>0, <1>1, <1>9 DEF Knows, Up
    <2>2. RevokedHasNothing(c)'
      BY <1>0, <1>1, <1>5, <1>9 DEF RevokedHasNothing, InFlight
    <2> QED
      BY <2>1, <2>2 DEF CommandStands
  <1> QED
    BY <1>1, <1>6, <1>8, <1>7, <1>10, <1>11 DEF CommandsInv

\* A job that goes on leaves the queues as they are.
LEMMA JobMoves ==
  ASSUME CommandsInv, NEW c \in DOMAIN commands, NEW p \in {"executing", "acknowledging", "authenticated"},
         GoesTo(c, p), jobs[c].prior = 0, InFlight(c), UNCHANGED <<platformRows, host>>
  PROVE  /\ jobs' \in [CommandIds -> Job] /\ jobs'[c].at = p /\ jobs'[c].prior = 0
         /\ \A e \in CommandIds : e # c => jobs'[e] = jobs[e]
         /\ \A e \in CommandIds : InFlight(e)' <=> InFlight(e)
         /\ QueuesStand' /\ Up(c)
         /\ \A a \in Hosts : PolledStands(a)'
         /\ \A e \in DOMAIN commands : RevokedHasNothing(e)'
  <1> DEFINE j == [jobs[c] EXCEPT !.at = p]
  <1>0. /\ CommandsTypeOK /\ QueuesStand
        /\ \A a \in Hosts : PolledStands(a)
        /\ \A e \in CommandIds : JobStands(e)
        /\ \A e \in DOMAIN commands : e \in CommandIds /\ RevokedHasNothing(e)
    BY CommandsInvGives
  <1>1. jobs' = [jobs EXCEPT ![c] = j] /\ UNCHANGED <<enrolled, beats, commands, host>>
    BY DEF GoesTo, platformRows
  <1>2. j \in Job /\ j.at = p /\ j.prior = jobs[c].prior /\ j.passed = jobs[c].passed /\ p # "none"
    BY <1>0, JobFields DEF Job
  <1> HIDE DEF j
  <1>3. jobs' \in [CommandIds -> Job] /\ \A e \in CommandIds : jobs'[e] = IF e = c THEN j ELSE jobs[e]
    BY <1>0, <1>1, <1>2 DEF CommandsTypeOK
  <1>4. \A e \in CommandIds : (InFlight(e)' <=> InFlight(e))
    BY <1>2, <1>3 DEF InFlight
  <1>5. \A e \in CommandIds : jobs'[e].prior = jobs[e].prior /\ jobs'[e].passed = jobs[e].passed
    BY <1>2, <1>3
  <1>6. QueuesStand'
    <2>1. \A b, w : Line(b, w)' = Line(b, w)
      BY <1>0, <1>1, <1>4, <1>5 DEF Line
    <2>2. \A b, w : Line(b, w) \subseteq CommandIds
      BY <1>0 DEF Line
    <2> QED
      BY <1>0, <1>1, <1>5, <2>1, <2>2, QueuesStay
  <1>7. ASSUME NEW a \in Hosts PROVE PolledStands(a)'
    <2>1. PolledStands(a) /\ Idle(FALSE)' = Idle(FALSE)
      BY <1>0 DEF Idle
    <2> QED
      BY <2>1, <1>1 DEF PolledStands
  <1>8. ASSUME NEW e \in DOMAIN commands PROVE RevokedHasNothing(e)'
    BY <1>0, <1>1, <1>4 DEF RevokedHasNothing
  <1>9. Up(c)
    BY <1>0 DEF JobStands, Up
  <1> QED
    BY <1>0, <1>2, <1>3, <1>4, <1>5, <1>6, <1>7, <1>8, <1>9

\* What is known of the other commands does not change while a command goes on.
LEMMA OthersKnow ==
  ASSUME CommandsInv, NEW c \in DOMAIN commands, UNCHANGED <<platformRows, host, unrecorded, disturbances>>,
         jobs' \in [CommandIds -> Job], memo' \in [CommandIds -> Outcomes \union {"none"}],
         journal' \in [CommandIds -> Outcomes \union {"none"}], runs' \in [CommandIds -> Nat],
         \A e \in CommandIds : e # c => jobs'[e] = jobs[e] /\ memo'[e] = memo[e] /\ runs'[e] = runs[e],
         \A e \in CommandIds : (e \in DOMAIN commands /\ Up(e)) \/ journal'[e] = journal[e],
         QueuesStand', \A a \in Hosts : PolledStands(a)', \A e \in DOMAIN commands : RevokedHasNothing(e)',
         JobStands(c)', Knows(c)'
  PROVE  CommandsInv'
  <1>0. /\ CommandsTypeOK
        /\ \A e \in CommandIds : JobStands(e)
        /\ \A e \in DOMAIN commands : e \in CommandIds /\ Knows(e)
    BY CommandsInvGives
  <1>1. UNCHANGED <<enrolled, beats, commands, host, unrecorded, disturbances>>
    BY DEF platformRows
  <1>2. CommandsTypeOK'
    BY <1>0, <1>1 DEF CommandsTypeOK
  <1>3. ASSUME NEW e \in CommandIds PROVE JobStands(e)'
    BY <1>0, <1>1 DEF JobStands, InFlight
  <1>4. ASSUME NEW e \in DOMAIN commands PROVE Knows(e)'
    BY <1>0, <1>1 DEF Knows, Up
  <1> QED
    BY <1>1, <1>2, <1>3, <1>4 DEF CommandsInv, CommandStands

LEMMA ReplaysStands ==
  ASSUME CommandsInv, NEW c \in DOMAIN commands, Replays(c)
  PROVE  CommandsInv'
  <1>0. CommandsTypeOK /\ c \in CommandIds /\ JobStands(c) /\ Knows(c)
    BY CommandsInvGives
  <1>1. /\ jobs[c].at = "waiting" /\ jobs[c].prior = 0 /\ memo[c] # "none" /\ GoesTo(c, "acknowledging")
        /\ UNCHANGED <<platformRows, host>> /\ UNCHANGED <<commands, memo, journal, runs, unrecorded, disturbances>>
    BY DEF Replays, MyTurn, platformRows, history
  <1>2. /\ jobs' \in [CommandIds -> Job] /\ jobs'[c].at = "acknowledging" /\ jobs'[c].prior = 0
        /\ \A e \in CommandIds : e # c => jobs'[e] = jobs[e]
        /\ QueuesStand' /\ Up(c)
        /\ \A a \in Hosts : PolledStands(a)'
        /\ \A e \in DOMAIN commands : RevokedHasNothing(e)'
    BY <1>1, JobMoves DEF InFlight
  <1>3. JobStands(c)'
    BY <1>0, <1>1, <1>2 DEF JobStands, InFlight
  <1>4. Knows(c)'
    BY <1>0, <1>1, <1>2 DEF Knows, Up
  <1>5. /\ memo' \in [CommandIds -> Outcomes \union {"none"}]
        /\ journal' \in [CommandIds -> Outcomes \union {"none"}] /\ runs' \in [CommandIds -> Nat]
    BY <1>0, <1>1 DEF CommandsTypeOK
  <1> QED
    BY <1>1, <1>2, <1>3, <1>4, <1>5, OthersKnow

LEMMA ExecutesStands ==
  ASSUME CommandsInv, NEW c \in DOMAIN commands, Executes(c)
  PROVE  CommandsInv'
  <1>0. CommandsTypeOK /\ c \in CommandIds /\ JobStands(c) /\ Knows(c) /\ runs[c] \in Nat
    BY CommandsInvGives, JobFields
  <1>1. /\ jobs[c].at = "waiting" /\ jobs[c].prior = 0 /\ memo[c] = "none" /\ GoesTo(c, "executing")
        /\ runs' = [runs EXCEPT ![c] = runs[c] + 1]
        /\ UNCHANGED <<platformRows, host>> /\ UNCHANGED <<commands, memo, journal, unrecorded, disturbances>>
    BY DEF Executes, MyTurn, platformRows
  <1>2. /\ jobs' \in [CommandIds -> Job] /\ jobs'[c].at = "executing" /\ jobs'[c].prior = 0
        /\ \A e \in CommandIds : e # c => jobs'[e] = jobs[e]
        /\ QueuesStand' /\ Up(c)
        /\ \A a \in Hosts : PolledStands(a)'
        /\ \A e \in DOMAIN commands : RevokedHasNothing(e)'
    BY <1>1, JobMoves DEF InFlight
  <1>3. /\ runs' \in [CommandIds -> Nat] /\ runs'[c] = runs[c] + 1
        /\ \A e \in CommandIds : e # c => runs'[e] = runs[e]
    BY <1>0, <1>1 DEF CommandsTypeOK
  <1>4. JobStands(c)'
    BY <1>0, <1>1, <1>2 DEF JobStands, InFlight
  <1>5. Knows(c)'
    BY <1>0, <1>1, <1>2, <1>3 DEF Knows, Up
  <1>6. memo' \in [CommandIds -> Outcomes \union {"none"}] /\ journal' \in [CommandIds -> Outcomes \union {"none"}]
    BY <1>0, <1>1 DEF CommandsTypeOK
  <1> QED
    BY <1>1, <1>2, <1>3, <1>4, <1>5, <1>6, OthersKnow

\* A journal that is written or torn keeps its type, and what the other agents' journals say.
LEMMA JournalMoves ==
  ASSUME CommandsTypeOK, NEW c \in DOMAIN commands, Up(c), memo' \in [CommandIds -> Outcomes \union {"none"}],
         JournalWritten(commands[c].agent) \/ JournalTorn(commands[c].agent) \/ UNCHANGED journal
  PROVE  /\ journal' \in [CommandIds -> Outcomes \union {"none"}]
         /\ \A e \in CommandIds : (e \in DOMAIN commands /\ Up(e)) \/ journal'[e] = journal[e]
  BY DEF CommandsTypeOK, JournalWritten, JournalTorn, CommandsOf, Up

LEMMA RecordResultStands ==
  ASSUME CommandsInv, NEW c \in DOMAIN commands, NEW s \in Outcomes, RecordResult(c, s),
         memo[c] = "none", jobs[c].prior = 0, InFlight(c)
  PROVE  CommandsInv'
  <1>0. CommandsTypeOK /\ c \in CommandIds /\ JobStands(c) /\ Knows(c) /\ s # "none"
    BY CommandsInvGives DEF Outcomes
  <1>1. /\ memo' = [memo EXCEPT ![c] = s] /\ GoesTo(c, "acknowledging")
        /\ UNCHANGED <<platformRows, host>> /\ UNCHANGED <<commands, runs, unrecorded, disturbances>>
    BY DEF RecordResult, platformRows, history
  <1>2. /\ jobs' \in [CommandIds -> Job] /\ jobs'[c].at = "acknowledging" /\ jobs'[c].prior = 0
        /\ \A e \in CommandIds : e # c => jobs'[e] = jobs[e]
        /\ QueuesStand' /\ Up(c)
        /\ \A a \in Hosts : PolledStands(a)'
        /\ \A e \in DOMAIN commands : RevokedHasNothing(e)'
    BY <1>1, JobMoves
  <1>3. /\ memo' \in [CommandIds -> Outcomes \union {"none"}] /\ memo'[c] = s
        /\ \A e \in CommandIds : e # c => memo'[e] = memo[e]
    BY <1>0, <1>1 DEF CommandsTypeOK
  <1>10. /\ journal' \in [CommandIds -> Outcomes \union {"none"}]
         /\ \A e \in CommandIds : (e \in DOMAIN commands /\ Up(e)) \/ journal'[e] = journal[e]
    BY <1>0, <1>2, <1>3, JournalMoves DEF RecordResult
  <1>4. JobStands(c)'
    BY <1>0, <1>1, <1>2, <1>3 DEF JobStands, InFlight
  <1>5. commands[c].status \in Outcomes => c \in unrecorded
    BY <1>0, <1>2 DEF Knows, Outcomes
  <1>6. Knows(c)'
    BY <1>0, <1>1, <1>2, <1>3, <1>5 DEF Knows, Up
  <1>7. runs' \in [CommandIds -> Nat]
    BY <1>0, <1>1 DEF CommandsTypeOK
  <1> QED
    BY <1>1, <1>2, <1>3, <1>4, <1>6, <1>7, <1>10, OthersKnow

LEMMA AcknowledgeAuthenticatesStands ==
  ASSUME CommandsInv, NEW c \in DOMAIN commands, AcknowledgeAuthenticates(c)
  PROVE  CommandsInv'
  <1>0. CommandsTypeOK /\ c \in CommandIds /\ JobStands(c) /\ Knows(c)
    BY CommandsInvGives
  <1>1. /\ jobs[c].at = "acknowledging" /\ GoesTo(c, "authenticated")
        /\ UNCHANGED <<platformRows, host>> /\ UNCHANGED <<commands, memo, journal, runs, unrecorded, disturbances>>
    BY DEF AcknowledgeAuthenticates, platformRows, history
  <1>2. jobs[c].prior = 0 /\ memo[c] # "none"
    BY <1>0, <1>1 DEF JobStands
  <1>3. /\ jobs' \in [CommandIds -> Job] /\ jobs'[c].at = "authenticated" /\ jobs'[c].prior = 0
        /\ \A e \in CommandIds : e # c => jobs'[e] = jobs[e]
        /\ QueuesStand' /\ Up(c)
        /\ \A a \in Hosts : PolledStands(a)'
        /\ \A e \in DOMAIN commands : RevokedHasNothing(e)'
    BY <1>1, <1>2, JobMoves DEF InFlight
  <1>4. JobStands(c)'
    BY <1>0, <1>1, <1>2, <1>3 DEF JobStands, InFlight
  <1>5. Knows(c)'
    BY <1>0, <1>1, <1>2, <1>3 DEF Knows, Up
  <1>6. /\ memo' \in [CommandIds -> Outcomes \union {"none"}]
        /\ journal' \in [CommandIds -> Outcomes \union {"none"}] /\ runs' \in [CommandIds -> Nat]
    BY <1>0, <1>1 DEF CommandsTypeOK
  <1> QED
    BY <1>1, <1>3, <1>4, <1>5, <1>6, OthersKnow

-----------------------------------------------------------------------------
(***************************************************************************)
(* A job that settles                                                      *)
(***************************************************************************)
\* Least and greatest of a set of numbers.
LEMMA NatMin ==
  ASSUME NEW T, T \subseteq Nat, T # {}
  PROVE  \E x \in T : \A y \in T : x <= y
  <1>1. PICK x \in T : \A y \in T : <<y, x>> \notin OpToRel(<, Nat)
    BY WFMin, NatLessThanWellFounded
  <1>2. \A y \in T : ~(y < x)
    BY <1>1 DEF OpToRel
  <1> QED
    BY <1>2

LEMMA NatMax ==
  ASSUME NEW n \in Nat, NEW T, T \subseteq 0..n, T # {}
  PROVE  \E x \in T : \A y \in T : y <= x
  <1> DEFINE R == {x \in 0..n : n - x \in T}
  <1>1. \A y \in T : y \in 0..n /\ n - y \in 0..n /\ n - (n - y) = y
    OBVIOUS
  <1>2. \A y \in T : n - y \in R
    BY <1>1
  <1>3. \A x \in R : x \in 0..n /\ n - x \in T
    OBVIOUS
  <1>4. R \subseteq Nat
    OBVIOUS
  <1> HIDE DEF R
  <1>5. PICK r \in R : \A x \in R : r <= x
    BY <1>2, <1>4, NatMin
  <1>6. ASSUME NEW y \in T PROVE y <= n - r
    <2>1. r <= n - y
      BY <1>2, <1>5
    <2> QED
      BY <2>1, <1>1, <1>3
  <1> QED
    BY <1>3, <1>6

\* The first of a line leaves it, and the next one is first.
LEMMA FirstLeaves ==
  ASSUME NEW a \in Hosts, NEW v \in VMs, NEW k \in Nat, NEW r \in [CommandIds -> 0..k], QueueStands(a, v, r),
         NEW c \in Line(a, v), jobs[c].prior = 0,
         Line(a, v) \subseteq CommandIds, 0 \notin CommandIds,
         Line(a, v)' = Line(a, v) \ {c},
         \A e \in Line(a, v) \ {c} : jobs'[e].prior = IF jobs[e].prior = c THEN 0 ELSE jobs[e].prior,
         host'[a].tails[v] = IF host[a].tails[v] = c THEN 0 ELSE host[a].tails[v]
  PROVE  QueueStands(a, v, r)'
  <1> DEFINE t == host[a].tails[v]
             L == Line(a, v)
  <1>1. /\ \A e, f \in L : jobs[e].prior = jobs[f].prior => e = f
        /\ \A e \in L : jobs[e].prior # 0 =>
             jobs[e].prior \in L /\ r[jobs[e].prior] < r[e] /\ jobs[e].prior # t
        /\ t \in L
    BY DEF QueueStands
  <1>2. \A e \in L \ {c} : jobs[e].prior # 0
    BY <1>1
  <1>3. t = c => L = {c}
    <2> SUFFICES ASSUME t = c, L \ {c} # {} PROVE FALSE
      BY <1>1
    <2> DEFINE R == {r[e] : e \in L \ {c}}
    <2>1. R \subseteq Nat /\ R # {}
      OBVIOUS
    <2> HIDE DEF R
    <2>2. PICK x \in R : \A y \in R : x <= y
      BY <2>1, NatMin
    <2>3. PICK e \in L \ {c} : x = r[e]
      BY DEF R
    <2>4. jobs[e].prior \in L \ {c} /\ r[jobs[e].prior] < r[e]
      BY <1>1, <1>2
    <2>5. r[jobs[e].prior] \in R
      BY <2>4 DEF R
    <2>6. r[e] \in Nat /\ r[jobs[e].prior] \in Nat
      BY <2>4
    <2> QED
      BY <2>2, <2>3, <2>4, <2>5, <2>6
  <1>4. \A e, f \in L \ {c} : jobs'[e].prior = jobs'[f].prior => e = f
    BY <1>1, <1>2
  <1>5. \A e \in L \ {c} : jobs'[e].prior # 0 =>
          jobs'[e].prior \in L \ {c} /\ r[jobs'[e].prior] < r[e] /\ jobs'[e].prior # t
    BY <1>1
  <1>6. IF t = c THEN L \ {c} = {} ELSE t \in L \ {c} /\ t # 0
    BY <1>1, <1>3
  <1> HIDE DEF L, t
  <1>7. Line(a, v)' = L \ {c} /\ host'[a].tails[v] = IF t = c THEN 0 ELSE t
    BY DEF L, t
  <1>8. \A e \in L \ {c} : jobs'[e].prior # 0 => jobs'[e].prior # host'[a].tails[v]
    BY <1>5, <1>7
  <1> QED
    BY <1>4, <1>5, <1>6, <1>7, <1>8 DEF QueueStands

\* The job is gone, the one after it goes on, and the queues stand.
LEMMA JobSettles ==
  ASSUME CommandsInv, NEW c \in DOMAIN commands, Settles(c), InFlight(c), jobs[c].prior = 0,
         DOMAIN commands' = DOMAIN commands,
         \A e \in DOMAIN commands : /\ commands'[e].agent = commands[e].agent
                                    /\ commands'[e].vm = commands[e].vm
  PROVE  /\ jobs' \in [CommandIds -> Job] /\ host' \in [Hosts -> Host]
         /\ jobs'[c] = NoJob
         /\ \A e \in CommandIds : e # c => /\ jobs'[e].at = jobs[e].at
                                           /\ jobs'[e].prior \in {0, jobs[e].prior}
         /\ \A a \in Hosts : host'[a].up = host[a].up /\ host'[a].polled = host[a].polled
         /\ \A a \in Hosts : host[a] = Idle(FALSE) => host'[a] = Idle(FALSE)
         /\ QueuesStand'
  <1> DEFINE a == commands[c].agent
             v == commands[c].vm
             h == [host[a] EXCEPT !.tails[v] = IF host[a].tails[v] = c THEN 0 ELSE host[a].tails[v]]
  <1>0. /\ CommandsTypeOK /\ QueuesStand
        /\ \A e \in CommandIds : JobStands(e)
        /\ \A e \in DOMAIN commands : e \in CommandIds
    BY CommandsInvGives
  <1>p. /\ DOMAIN commands \subseteq CommandIds /\ 0 \notin CommandIds /\ a \in Hosts /\ v \in VMs
        /\ 0 \in 0..MaxCommands
    BY <1>0, CommandPlaces
  <1>1. /\ jobs' = [e \in CommandIds |-> CASE e = c -> NoJob
                                          [] jobs[e].prior = c -> [jobs[e] EXCEPT !.prior = 0]
                                          [] OTHER -> jobs[e]]
        /\ host' = [host EXCEPT ![a] = h]
    BY DEF Settles
  <1>2. \A j \in Job : LET n == [j EXCEPT !.prior = 0] IN
          n \in Job /\ n.at = j.at /\ n.passed = j.passed /\ n.prior = 0
    BY <1>p DEF Job
  <1>3. /\ jobs'[c] = NoJob
        /\ \A e \in CommandIds : e # c =>
             /\ jobs'[e] \in Job /\ jobs'[e].at = jobs[e].at /\ jobs'[e].passed = jobs[e].passed
             /\ jobs'[e].prior = IF jobs[e].prior = c THEN 0 ELSE jobs[e].prior
    <2>1. jobs'[c] = NoJob
      BY <1>0, <1>1, <1>p
    <2>2. ASSUME NEW e \in CommandIds, e # c
          PROVE  /\ jobs'[e] \in Job /\ jobs'[e].at = jobs[e].at /\ jobs'[e].passed = jobs[e].passed
                 /\ jobs'[e].prior = IF jobs[e].prior = c THEN 0 ELSE jobs[e].prior
      <3>1. jobs[e] \in Job
        BY <1>0, JobFields
      <3>2. CASE jobs[e].prior = c
        <4>1. jobs'[e] = [jobs[e] EXCEPT !.prior = 0]
          BY <2>2, <3>2, <1>1
        <4> QED
          BY <3>1, <3>2, <4>1, <1>2
      <3>3. CASE jobs[e].prior # c
        BY <2>2, <3>1, <3>3, <1>1
      <3> QED
        BY <3>2, <3>3
    <2> QED
      BY <2>1, <2>2
  <1>4. jobs' \in [CommandIds -> Job]
    BY <1>1, <1>3, IdleIsTyped
  <1>5. \A x \in Host, ts \in [VMs -> 0..MaxCommands] : LET y == [x EXCEPT !.tails = ts] IN
          y \in Host /\ y.up = x.up /\ y.polled = x.polled /\ y.tails = ts
    BY DEF Host
  <1>6. /\ h \in Host /\ h.up = host[a].up /\ h.polled = host[a].polled
        /\ \A w \in VMs : h.tails[w] = IF w = v /\ host[a].tails[v] = c THEN 0 ELSE host[a].tails[w]
    <2> DEFINE n == IF host[a].tails[v] = c THEN 0 ELSE host[a].tails[v]
    <2>1. host[a] \in Host /\ host[a].tails \in [VMs -> 0..MaxCommands]
      BY <1>0, <1>p, HostOf
    <2>2. n \in 0..MaxCommands /\ h = [host[a] EXCEPT !.tails[v] = n]
      BY <2>1, <1>p
    <2>3. \A w \in VMs : (IF w = v THEN n ELSE host[a].tails[w])
                          = IF w = v /\ host[a].tails[v] = c THEN 0 ELSE host[a].tails[w]
      OBVIOUS
    <2> DEFINE ts == [host[a].tails EXCEPT ![v] = n]
    <2>4. ts \in [VMs -> 0..MaxCommands] /\ \A w \in VMs : ts[w] = IF w = v THEN n ELSE host[a].tails[w]
      <3> HIDE DEF n
      <3> QED
        BY <2>1, <2>2
    <2>5. h = [host[a] EXCEPT !.tails = ts]
      OBVIOUS
    <2> HIDE DEF h, ts, n, a, v
    <2>6. h \in Host /\ h.up = host[a].up /\ h.polled = host[a].polled /\ h.tails = ts
      BY <2>1, <2>4, <2>5, <1>5
    <2> QED
      BY <2>3, <2>4, <2>6
  <1>7. \A b \in Hosts : host[b] = Idle(FALSE) => host'[b] = Idle(FALSE)
    <2>1. host[a] # Idle(FALSE)
      BY <1>0, IdleIsTyped DEF JobStands
    <2> QED
      BY <2>1, <1>0, <1>1 DEF CommandsTypeOK
  <1> HIDE DEF h
  <1>8. \A b \in Hosts : host'[b] = IF b = a THEN h ELSE host[b]
    BY <1>0, <1>1 DEF CommandsTypeOK
  <1>9. host' \in [Hosts -> Host]
    BY <1>0, <1>1, <1>6 DEF CommandsTypeOK
  <1>10. QueuesStand'
    <2>1. PICK k \in Nat : \E r \in [CommandIds -> 0..k] : \A b \in Hosts, w \in VMs : QueueStands(b, w, r)
      BY <1>0 DEF QueuesStand
    <2>2. PICK r \in [CommandIds -> 0..k] : \A b \in Hosts, w \in VMs : QueueStands(b, w, r)
      BY <2>1
    <2>3. \A b, w : Line(b, w)' = Line(b, w) \ {c} /\ Line(b, w) \subseteq CommandIds
      BY <1>0, <1>3, IdleIsTyped DEF Line, InFlight
    <2>4. ASSUME NEW b \in Hosts, NEW w \in VMs PROVE QueueStands(b, w, r)'
      <3>1. QueueStands(b, w, r)
        BY <2>2
      <3>2. CASE c \in Line(b, w)
        <4>1. b = a /\ w = v
          BY <3>2 DEF Line
        <4>2. host'[b].tails[w] = IF host[b].tails[w] = c THEN 0 ELSE host[b].tails[w]
          BY <4>1, <1>6, <1>8
        <4>3. \A e \in Line(b, w) \ {c} : jobs'[e].prior = IF jobs[e].prior = c THEN 0 ELSE jobs[e].prior
          BY <1>3, <2>3
        <4> QED
          BY <3>1, <3>2, <4>2, <4>3, <1>p, <2>3, FirstLeaves
      <3>3. CASE c \notin Line(b, w)
        <4>1. \A e \in Line(b, w) : jobs[e].prior # c
          BY <3>1, <3>3, <1>p DEF QueueStands
        <4>2. \A e \in Line(b, w) : jobs'[e].prior = jobs[e].prior
          BY <4>1, <3>3, <1>3, <2>3
        <4>3. host[b].tails[w] # c
          BY <3>1, <3>3, <1>p DEF QueueStands
        <4>4. host'[b].tails[w] = host[b].tails[w]
          BY <4>3, <1>6, <1>8
        <4>5. Line(b, w)' = Line(b, w)
          BY <3>3, <2>3
        <4> QED
          BY <3>1, <4>2, <4>4, <4>5, QueueStays
      <3> QED
        BY <3>2, <3>3
    <2> QED
      BY <2>4 DEF QueuesStand
  <1> QED
    BY <1>3, <1>4, <1>6, <1>7, <1>8, <1>9, <1>10

\* What holds of the commands holds when a job has settled whose outcome is in memory.
LEMMA SettledStands ==
  ASSUME CommandsInv, NEW c \in DOMAIN commands, Settles(c), InFlight(c), jobs[c].prior = 0,
         UNCHANGED <<enrolled, beats, runs, unrecorded>>, disturbances' \in 0..MaxDisturbances,
         journal' \in [CommandIds -> Outcomes \union {"none"}],
         \A e \in CommandIds : (e \in DOMAIN commands /\ Up(e)) \/ journal'[e] = journal[e],
         memo' \in [CommandIds -> Outcomes \union {"none"}], memo'[c] # "none",
         \A e \in CommandIds : e # c => memo'[e] = memo[e],
         (commands[c].status \in Outcomes /\ c \notin unrecorded) => memo'[c] = memo[c],
         commands' \in Seq(Command), Len(commands') = Len(commands), DOMAIN commands' = DOMAIN commands,
         \A e \in DOMAIN commands :
           /\ commands'[e].agent = commands[e].agent /\ commands'[e].vm = commands[e].vm
           /\ e # c => commands'[e].status = commands[e].status,
         commands'[c].status = commands[c].status \/ commands'[c].status = memo'[c]
  PROVE  CommandsInv'
  <1>0. /\ CommandsTypeOK
        /\ \A a \in Hosts : PolledStands(a)
        /\ \A e \in CommandIds : JobStands(e)
        /\ \A e \in DOMAIN commands : e \in CommandIds /\ Knows(e) /\ RevokedHasNothing(e)
    BY CommandsInvGives
  <1>1. /\ jobs' \in [CommandIds -> Job] /\ host' \in [Hosts -> Host]
        /\ jobs'[c] = NoJob
        /\ \A e \in CommandIds : e # c => /\ jobs'[e].at = jobs[e].at
                                          /\ jobs'[e].prior \in {0, jobs[e].prior}
        /\ \A a \in Hosts : host'[a].up = host[a].up /\ host'[a].polled = host[a].polled
        /\ \A a \in Hosts : host[a] = Idle(FALSE) => host'[a] = Idle(FALSE)
        /\ QueuesStand'
    BY JobSettles
  <1>2. CommandsTypeOK'
    BY <1>0, <1>1 DEF CommandsTypeOK
  <1>3. \A e \in DOMAIN commands : commands[e].agent \in Hosts
    BY <1>0, CommandPlaces
  <1>4. memo'[c] \in Outcomes /\ "queued" \notin Outcomes /\ "inserting" \notin Outcomes
    BY <1>0 DEF Outcomes
  <1>5. \A e \in DOMAIN commands : commands'[e].status \in {"queued", "inserting"} =>
          commands[e].status = commands'[e].status
    BY <1>4
  <1>6. \A e \in CommandIds : InFlight(e)' => InFlight(e) /\ e # c
    BY <1>1, IdleIsTyped DEF InFlight
  <1>7. ASSUME NEW a \in Hosts PROVE PolledStands(a)'
    <2>1. PolledStands(a) /\ Idle(FALSE)' = Idle(FALSE)
      BY <1>0 DEF Idle
    <2> QED
      BY <2>1, <1>1, <1>5 DEF PolledStands
  <1>8. ASSUME NEW e \in CommandIds PROVE JobStands(e)'
    <2>1. JobStands(e)
      BY <1>0
    <2>2. CASE e = c
      BY <2>2, <1>1, <1>6, IdleIsTyped DEF JobStands
    <2>3. CASE e # c
      BY <2>1, <2>3, <1>1, <1>3, <1>5, <1>6 DEF JobStands
    <2> QED
      BY <2>2, <2>3
  <1>9. ASSUME NEW e \in DOMAIN commands PROVE Knows(e)'
    <2>1. Knows(e) /\ e \in CommandIds /\ (Up(e)' <=> Up(e))
      BY <1>0, <1>1, <1>3 DEF Up
    <2>2. CASE e = c
      <3>1. Up(c)
        BY <1>0 DEF JobStands, Up
      <3> QED
        BY <2>1, <2>2, <3>1 DEF Knows
    <2>3. CASE e # c
      BY <2>1, <2>3, <1>1 DEF Knows
    <2> QED
      BY <2>2, <2>3
  <1>10. ASSUME NEW e \in DOMAIN commands PROVE RevokedHasNothing(e)'
    BY <1>0, <1>1, <1>3, <1>5, <1>6 DEF RevokedHasNothing
  <1> QED
    BY <1>1, <1>2, <1>7, <1>8, <1>9, <1>10 DEF CommandsInv, CommandStands

\* Rows as they are are rows of their type.
LEMMA SameRows ==
  ASSUME CommandsTypeOK, commands' = commands
  PROVE  /\ commands' \in Seq(Command) /\ Len(commands') = Len(commands) /\ DOMAIN commands' = DOMAIN commands
         /\ \A e \in DOMAIN commands : commands'[e] = commands[e]
  BY DEF CommandsTypeOK

LEMMA JournalFailsStands ==
  ASSUME CommandsInv, NEW c \in DOMAIN commands, JournalFails(c)
  PROVE  CommandsInv'
  <1>0. CommandsTypeOK /\ c \in CommandIds /\ JobStands(c) /\ Knows(c)
    BY CommandsInvGives
  <1>1. /\ Disturbance /\ Settles(c)
        /\ UNCHANGED journal \/ JournalTorn(commands[c].agent)
        /\ UNCHANGED <<enrolled, beats, commands, runs, unrecorded>>
    BY DEF JournalFails, platformRows, history
  <1>2. PICK s \in ComesTo(c) : memo' = [memo EXCEPT ![c] = s]
    BY DEF JournalFails
  <1>7. s \in Outcomes /\ (jobs[c].at = "executing" \/ IsRefused(c))
    BY <1>2 DEF ComesTo, Outcomes
  <1>3. InFlight(c) /\ jobs[c].prior = 0 /\ memo[c] = "none" /\ Up(c)
    BY <1>0, <1>7 DEF JobStands, InFlight, IsRefused, MyTurn, Up
  <1>4. /\ memo' \in [CommandIds -> Outcomes \union {"none"}] /\ memo'[c] = s /\ s # "none"
        /\ \A e \in CommandIds : e # c => memo'[e] = memo[e]
    BY <1>0, <1>2, <1>7 DEF CommandsTypeOK, Outcomes
  <1>8. /\ journal' \in [CommandIds -> Outcomes \union {"none"}]
        /\ \A e \in CommandIds : (e \in DOMAIN commands /\ Up(e)) \/ journal'[e] = journal[e]
    BY <1>0, <1>1, <1>3, <1>4, JournalMoves
  <1>5. ~(commands[c].status \in Outcomes /\ c \notin unrecorded)
    BY <1>0, <1>3 DEF Knows, Outcomes
  <1>6. disturbances' \in 0..MaxDisturbances
    BY <1>0, <1>1, DisturbanceCounts
  <1> QED
    BY <1>0, <1>1, <1>3, <1>4, <1>5, <1>6, <1>8, SameRows, SettledStands

LEMMA AcknowledgeFailsStands ==
  ASSUME CommandsInv, NEW c \in DOMAIN commands, AcknowledgeFails(c)
  PROVE  CommandsInv'
  <1>0. CommandsTypeOK /\ c \in CommandIds /\ JobStands(c) /\ disturbances \in 0..MaxDisturbances
    BY CommandsInvGives
  <1>1. /\ jobs[c].at = "acknowledging" /\ (Disturbance \/ UNCHANGED disturbances) /\ Settles(c)
        /\ UNCHANGED <<enrolled, beats, commands, memo, journal, runs, unrecorded>>
    BY DEF AcknowledgeFails, platformRows, history
  <1>2. InFlight(c) /\ jobs[c].prior = 0 /\ memo[c] # "none"
    BY <1>0, <1>1 DEF JobStands, InFlight
  <1>3. disturbances' \in 0..MaxDisturbances
    BY <1>0, <1>1, DisturbanceCounts
  <1>4. memo' \in [CommandIds -> Outcomes \union {"none"}] /\ journal' \in [CommandIds -> Outcomes \union {"none"}]
    BY <1>0, <1>1 DEF CommandsTypeOK
  <1> QED
    BY <1>0, <1>1, <1>2, <1>3, <1>4, SameRows, SettledStands

LEMMA AcknowledgesStands ==
  ASSUME CommandsInv, NEW c \in DOMAIN commands, Acknowledges(c)
  PROVE  CommandsInv'
  <1>0. CommandsTypeOK /\ c \in CommandIds /\ JobStands(c) /\ disturbances \in 0..MaxDisturbances
    BY CommandsInvGives
  <1>1. /\ jobs[c].at = "authenticated" /\ Settles(c)
        /\ UNCHANGED <<enrolled, beats, memo, journal, runs, unrecorded, disturbances>>
    BY DEF Acknowledges, history
  <1>2. InFlight(c) /\ jobs[c].prior = 0 /\ memo[c] # "none"
    BY <1>0, <1>1 DEF JobStands, InFlight
  <1>3. memo' \in [CommandIds -> Outcomes \union {"none"}] /\ journal' \in [CommandIds -> Outcomes \union {"none"}] /\ memo[c] \in Outcomes
    BY <1>0, <1>1, <1>2 DEF CommandsTypeOK
  <1>4. CASE commands' = commands
    BY <1>0, <1>1, <1>2, <1>3, <1>4, SameRows, SettledStands
  <1>5. CASE SetStatus(c, memo[c])
    <2>1. /\ commands' \in Seq(Command) /\ Len(commands') = Len(commands) /\ DOMAIN commands' = DOMAIN commands
          /\ \A e \in DOMAIN commands :
               /\ commands'[e].agent = commands[e].agent /\ commands'[e].vm = commands[e].vm
               /\ commands'[e].status = IF e = c THEN memo[c] ELSE commands[e].status
      BY <1>0, <1>3, <1>5, StatusSet
    <2> QED
      BY <2>1, <1>0, <1>1, <1>2, <1>3, SettledStands
  <1> QED
    BY <1>4, <1>5 DEF Acknowledges

-----------------------------------------------------------------------------
(***************************************************************************)
(* The agent stops and starts                                              *)
(***************************************************************************)
LEMMA HostCrashesStands ==
  ASSUME CommandsInv, NEW a \in Hosts, HostCrashes(a)
  PROVE  CommandsInv'
  <1> DEFINE mine == CommandsOf(a)
  <1>0. /\ CommandsTypeOK /\ QueuesStand
        /\ \A b \in Hosts : PolledStands(b)
        /\ \A c \in CommandIds : JobStands(c)
        /\ \A c \in DOMAIN commands : c \in CommandIds /\ Knows(c) /\ RevokedHasNothing(c)
    BY CommandsInvGives
  <1>1. /\ host[a].up /\ Disturbance
        /\ host' = [host EXCEPT ![a] = Idle(FALSE)]
        /\ jobs' = [c \in CommandIds |-> IF c \in mine THEN NoJob ELSE jobs[c]]
        /\ memo' = [c \in CommandIds |-> IF c \in mine THEN "none" ELSE memo[c]]
        /\ unrecorded' = unrecorded \union {c \in mine : jobs[c].at = "executing" \/ memo[c] # journal'[c]}
        /\ UNCHANGED journal \/ JournalTorn(a)
        /\ UNCHANGED <<enrolled, beats, commands, runs>>
    BY DEF HostCrashes, platformRows
  <1>2. mine \subseteq CommandIds /\ \A c \in DOMAIN commands : c \in mine <=> commands[c].agent = a
    BY <1>0 DEF CommandsOf
  <1>3. \A c \in mine : c \in DOMAIN commands
    BY DEF CommandsOf
  <1>12. /\ journal' \in [CommandIds -> Outcomes \union {"none"}]
         /\ \A c \in CommandIds : c \in mine \/ journal'[c] = journal[c]
    BY <1>0, <1>1 DEF CommandsTypeOK, JournalTorn
  <1> HIDE DEF mine
  <1>4. /\ jobs' \in [CommandIds -> Job] /\ memo' \in [CommandIds -> Outcomes \union {"none"}]
        /\ host' \in [Hosts -> Host] /\ unrecorded' \subseteq CommandIds
        /\ \A c \in CommandIds : jobs'[c] = (IF c \in mine THEN NoJob ELSE jobs[c])
                                 /\ memo'[c] = IF c \in mine THEN "none" ELSE memo[c]
        /\ \A b \in Hosts : host'[b] = IF b = a THEN Idle(FALSE) ELSE host[b]
    BY <1>0, <1>1, <1>2, IdleIsTyped DEF CommandsTypeOK
  <1>5. disturbances' \in 0..MaxDisturbances
    BY <1>0, <1>1, DisturbanceCounts
  <1>6. CommandsTypeOK'
    BY <1>0, <1>1, <1>4, <1>5, <1>12 DEF CommandsTypeOK
  <1>7. \A c \in CommandIds : InFlight(c)' <=> InFlight(c) /\ c \notin mine
    BY <1>4, IdleIsTyped DEF InFlight
  <1>8. QueuesStand'
    <2>1. PICK k \in Nat : \E r \in [CommandIds -> 0..k] : \A b \in Hosts, w \in VMs : QueueStands(b, w, r)
      BY <1>0 DEF QueuesStand
    <2>2. PICK r \in [CommandIds -> 0..k] : \A b \in Hosts, w \in VMs : QueueStands(b, w, r)
      BY <2>1
    <2>3. ASSUME NEW b \in Hosts, NEW w \in VMs PROVE QueueStands(b, w, r)'
      <3>1. QueueStands(b, w, r)
        BY <2>2
      <3>2. CASE b = a
        <4>1. Line(b, w)' = {}
          BY <3>2, <1>0, <1>1, <1>2, <1>7 DEF Line
        <4>2. host'[b].tails[w] = 0
          BY <3>2, <1>4, IdleIsTyped
        <4> QED
          BY <4>1, <4>2 DEF QueueStands
      <3>3. CASE b # a
        <4>1. Line(b, w)' = Line(b, w)
          BY <3>3, <1>0, <1>1, <1>2, <1>4, <1>7 DEF Line
        <4>2. \A c \in Line(b, w) : jobs'[c].prior = jobs[c].prior
          BY <3>3, <1>0, <1>2, <1>4 DEF Line
        <4> QED
          BY <3>1, <3>3, <4>1, <4>2, <1>4, QueueStays
      <3> QED
        BY <3>2, <3>3
    <2> QED
      BY <2>3 DEF QueuesStand
  <1>9. ASSUME NEW b \in Hosts PROVE PolledStands(b)'
    <2>1. PolledStands(b) /\ Idle(FALSE)' = Idle(FALSE)
      BY <1>0 DEF Idle
    <2> QED
      BY <2>1, <1>1, <1>4, IdleIsTyped DEF PolledStands
  <1>10. ASSUME NEW c \in CommandIds PROVE JobStands(c)'
    <2>1. JobStands(c)
      BY <1>0
    <2>2. c \notin mine /\ c \in DOMAIN commands => commands[c].agent \in Hosts /\ host'[commands[c].agent] = host[commands[c].agent]
      BY <1>0, <1>2, <1>4, CommandPlaces
    <2>3. CASE c \in mine
      BY <2>3, <1>1, <1>3, <1>4, <1>7, IdleIsTyped DEF JobStands
    <2>4. CASE c \notin mine
      BY <2>1, <2>2, <2>4, <1>1, <1>4, <1>7, <1>12 DEF JobStands
    <2> QED
      BY <2>3, <2>4
  <1>11. ASSUME NEW c \in DOMAIN commands PROVE CommandStands(c)'
    <2>1. Knows(c) /\ RevokedHasNothing(c) /\ c \in CommandIds /\ commands[c].agent \in Hosts
      BY <1>0, CommandPlaces
    <2>2. CASE c \in mine
      <3>1. Up(c) /\ ~Up(c)' /\ host'[commands[c].agent] = Idle(FALSE)
        BY <2>1, <2>2, <1>1, <1>2, <1>4, IdleIsTyped DEF Up
      <3>2. memo'[c] = "none" /\ ~InFlight(c)'
        BY <2>1, <2>2, <1>4, <1>7
      <3>3. c \notin unrecorded' => c \notin unrecorded /\ jobs[c].at # "executing" /\ memo[c] = journal'[c]
        BY <2>2, <1>1
      <3>4. Knows(c)'
        BY <2>1, <3>1, <3>2, <3>3, <1>1 DEF Knows
      <3>5. RevokedHasNothing(c)'
        BY <3>1, <3>2, <1>1, IdleIsTyped DEF RevokedHasNothing
      <3> QED
        BY <3>4, <3>5 DEF CommandStands
    <2>3. CASE c \notin mine
      <3>1. host'[commands[c].agent] = host[commands[c].agent]
        BY <2>1, <2>3, <1>2, <1>4
      <3>2. jobs'[c] = jobs[c] /\ memo'[c] = memo[c] /\ (c \in unrecorded' <=> c \in unrecorded)
            /\ journal'[c] = journal[c]
        BY <2>1, <2>3, <1>1, <1>4, <1>12
      <3> QED
        BY <2>1, <3>1, <3>2, <1>1 DEF CommandStands, Knows, RevokedHasNothing, Up, InFlight
    <2> QED
      BY <2>2, <2>3
  <1> QED
    BY <1>1, <1>6, <1>8, <1>9, <1>10, <1>11 DEF CommandsInv

LEMMA HostStartsStands ==
  ASSUME CommandsInv, NEW a \in Hosts, HostStarts(a)
  PROVE  CommandsInv'
  <1>0. /\ CommandsTypeOK /\ QueuesStand
        /\ \A b \in Hosts : PolledStands(b)
        /\ \A c \in CommandIds : JobStands(c)
        /\ \A c \in DOMAIN commands : c \in CommandIds /\ Knows(c) /\ RevokedHasNothing(c)
    BY CommandsInvGives
  <1>1. /\ ~host[a].up
        /\ host' = [host EXCEPT ![a] = Idle(TRUE)]
        /\ memo' = [c \in CommandIds |->
                      IF c \in DOMAIN commands /\ commands[c].agent = a THEN journal[c] ELSE memo[c]]
        /\ UNCHANGED <<enrolled, beats, commands, jobs, journal, runs, unrecorded, disturbances>>
    BY DEF HostStarts, platformRows, history
  <1>2. /\ memo' \in [CommandIds -> Outcomes \union {"none"}] /\ host' \in [Hosts -> Host]
        /\ \A c \in CommandIds :
             memo'[c] = IF c \in DOMAIN commands /\ commands[c].agent = a THEN journal[c] ELSE memo[c]
        /\ \A b \in Hosts : host'[b] = IF b = a THEN Idle(TRUE) ELSE host[b]
    BY <1>0, <1>1, IdleIsTyped DEF CommandsTypeOK
  <1>3. CommandsTypeOK'
    BY <1>0, <1>1, <1>2 DEF CommandsTypeOK
  <1>4. host[a] = Idle(FALSE)
    BY <1>0, <1>1 DEF PolledStands
  <1>5. \A b \in Hosts : \A w \in VMs : host'[b].tails[w] = host[b].tails[w]
    BY <1>2, <1>4, IdleIsTyped
  <1>6. \A b \in Hosts : host'[b].polled = host[b].polled
    BY <1>2, <1>4, IdleIsTyped
  <1>7. QueuesStand'
    <2>1. \A b, w : Line(b, w)' = Line(b, w)
      BY <1>1 DEF Line, InFlight
    <2>2. \A b, w : Line(b, w) \subseteq CommandIds
      BY <1>0 DEF Line
    <2> QED
      BY <1>0, <1>1, <1>5, <2>1, <2>2, QueuesStay
  <1>8. ASSUME NEW b \in Hosts PROVE PolledStands(b)'
    <2>1. PolledStands(b) /\ Idle(FALSE)' = Idle(FALSE)
      BY <1>0 DEF Idle
    <2> QED
      BY <2>1, <1>1, <1>2, IdleIsTyped DEF PolledStands
  <1>9. ASSUME NEW c \in CommandIds PROVE JobStands(c)'
    <2>1. JobStands(c)
      BY <1>0
    <2>2. c \in DOMAIN commands => commands[c].agent \in Hosts
      BY <1>0, CommandPlaces
    <2>3. InFlight(c) => commands[c].agent # a
      BY <2>1, <1>1 DEF JobStands
    <2>4. jobs[c].at \in {"executing", "acknowledging", "authenticated"} => InFlight(c)
      BY DEF InFlight
    <2> QED
      BY <2>1, <2>2, <2>3, <2>4, <1>1, <1>2 DEF JobStands, InFlight
  <1>10. ASSUME NEW c \in DOMAIN commands PROVE CommandStands(c)'
    <2>1. Knows(c) /\ RevokedHasNothing(c) /\ c \in CommandIds /\ commands[c].agent \in Hosts /\ JobStands(c)
      BY <1>0, CommandPlaces
    <2>2. RevokedHasNothing(c)'
      BY <2>1, <1>1, <1>6 DEF RevokedHasNothing, InFlight
    <2>3. CASE commands[c].agent = a
      <3>1. ~Up(c) /\ Up(c)' /\ memo'[c] = journal[c]
        BY <2>1, <2>3, <1>1, <1>2, IdleIsTyped DEF Up
      <3>2. jobs[c].at # "executing" /\ memo[c] = "none"
        BY <2>1, <2>3, <3>1, <1>1 DEF JobStands, InFlight, Knows
      <3> QED
        BY <2>1, <2>2, <3>1, <3>2, <1>1 DEF Knows, CommandStands
    <2>4. CASE commands[c].agent # a
      BY <2>1, <2>2, <2>4, <1>1, <1>2 DEF Knows, CommandStands, Up
    <2> QED
      BY <2>3, <2>4
  <1> QED
    BY <1>1, <1>3, <1>7, <1>8, <1>9, <1>10 DEF CommandsInv

-----------------------------------------------------------------------------
(***************************************************************************)
(* An answer is dispatched                                                 *)
(***************************************************************************)
Before(M, c) == {e \in M : e < c}
From(M, g)   == {c \in M : g <= c}

\* The last of some commands.
LEMMA LastOfThem ==
  ASSUME NEW s, s \subseteq CommandIds, NEW else
  PROVE  IF s = {} THEN LastOf(s, else) = else
         ELSE LastOf(s, else) \in s /\ \A e \in s : e <= LastOf(s, else)
  <1>1. CASE s = {}
    BY <1>1 DEF LastOf
  <1>2. CASE s # {}
    <2>1. s \subseteq 0..MaxCommands /\ MaxCommands \in Nat
      BY CommandsAssumption DEF CommandsAssumption, CommandIds
    <2>2. \E c \in s : \A e \in s : e <= c
      BY <1>2, <2>1, NatMax
    <2> QED
      BY <1>2, <2>2 DEF LastOf
  <1> QED
    BY <1>1, <1>2

\* What those that arrive wait for: one before them, or the tail.
LEMMA PriorsOf ==
  ASSUME NEW M, M \subseteq CommandIds, NEW t, NEW c \in M
  PROVE  LET p == LastOf(Before(M, c), t) IN
         \/ p \in M /\ p < c /\ \A e \in M : e < c => e <= p
         \/ p = t /\ \A e \in M : ~(e < c)
  <1> DEFINE s == Before(M, c)
  <1>1. s \subseteq CommandIds /\ \A e \in M : e \in s <=> e < c
    BY DEF Before
  <1>2. s \subseteq M
    BY DEF Before
  <1> HIDE DEF s
  <1>3. IF s = {} THEN LastOf(s, t) = t
        ELSE LastOf(s, t) \in s /\ \A e \in s : e <= LastOf(s, t)
    BY <1>1, LastOfThem
  <1>4. \/ LastOf(s, t) \in M /\ LastOf(s, t) < c /\ \A e \in M : e < c => e <= LastOf(s, t)
        \/ LastOf(s, t) = t /\ \A e \in M : ~(e < c)
    BY <1>1, <1>2, <1>3
  <1> QED
    BY <1>4 DEF s

LEMMA PriorsAre ==
  ASSUME NEW M, M \subseteq CommandIds, NEW t
  PROVE  \A c \in M : \/ LastOf(Before(M, c), t) \in M /\ LastOf(Before(M, c), t) < c
                      \/ LastOf(Before(M, c), t) = t
  BY PriorsOf

\* No two of them wait for the same.
LEMMA PriorsDiffer ==
  ASSUME NEW M, M \subseteq CommandIds, NEW t, t \notin M, NEW c \in M, NEW d \in M,
         LastOf(Before(M, c), t) = LastOf(Before(M, d), t)
  PROVE  c = d
  <1> DEFINE p == LastOf(Before(M, c), t)
             q == LastOf(Before(M, d), t)
  <1>1. \/ p \in M /\ p < c /\ \A e \in M : e < c => e <= p
        \/ p = t /\ \A e \in M : ~(e < c)
    BY PriorsOf
  <1>2. \/ q \in M /\ q < d /\ \A e \in M : e < d => e <= q
        \/ q = t /\ \A e \in M : ~(e < d)
    BY PriorsOf
  <1>3. p = q /\ M \subseteq Int /\ c \in Int /\ d \in Int
    BY DEF CommandIds
  <1> HIDE DEF p, q
  <1>4. ~(c < d)
    <2> SUFFICES ASSUME c < d PROVE FALSE
      OBVIOUS
    <2>1. q \in M /\ c <= q
      BY <1>2
    <2>2. p < c
      BY <2>1, <1>1, <1>3
    <2> QED
      BY <2>1, <2>2, <1>3
  <1>5. ~(d < c)
    <2> SUFFICES ASSUME d < c PROVE FALSE
      OBVIOUS
    <2>1. p \in M /\ d <= p
      BY <1>1
    <2>2. q < d
      BY <2>1, <1>2, <1>3
    <2> QED
      BY <2>1, <2>2, <1>3
  <1> QED
    BY <1>3, <1>4, <1>5

\* Those that arrive for a machine join its line, behind the tail; or, from the last power_off of
\* them on, are the line.
LEMMA LineJoined ==
  ASSUME NEW a \in Hosts, NEW v \in VMs, NEW q, NEW t, NEW M, QueueStands(a, v, q), t = host[a].tails[v],
         M \subseteq CommandIds, M # {}, M \intersect Line(a, v) = {}, 0 \notin CommandIds,
         \A c, d \in M : c < d => q[c] < q[d],
         \A c \in Line(a, v), d \in M : q[c] < q[d],
         Line(a, v)' = Line(a, v) \union M,
         \A c \in Line(a, v) : jobs'[c].prior = jobs[c].prior,
         \A c \in M : jobs'[c].prior = LastOf(Before(M, c), t),
         host'[a].tails[v] = LastOf(M, t)
  PROVE  QueueStands(a, v, q)'
  <1> DEFINE L == Line(a, v)
             z == LastOf(M, t)
  <1>1. /\ \A e, f \in L : jobs[e].prior = jobs[f].prior => e = f
        /\ \A e \in L : jobs[e].prior # 0 =>
             jobs[e].prior \in L /\ q[jobs[e].prior] < q[e] /\ jobs[e].prior # t
        /\ IF t = 0 THEN L = {} ELSE t \in L
    BY DEF QueueStands
  <1>2. t \notin M /\ 0 \notin M
    BY <1>1
  <1>3. z \in M /\ \A e \in M : e <= z
    BY LastOfThem
  <1>4. \A c \in M : \/ jobs'[c].prior \in M /\ jobs'[c].prior < c
                     \/ jobs'[c].prior = t
    BY PriorsAre
  <1>5. \A c, d \in M : jobs'[c].prior = jobs'[d].prior => c = d
    <2> SUFFICES ASSUME NEW c \in M, NEW d \in M, jobs'[c].prior = jobs'[d].prior PROVE c = d
      OBVIOUS
    <2>1. LastOf(Before(M, c), t) = LastOf(Before(M, d), t)
      OBVIOUS
    <2> QED
      BY <2>1, <1>2, PriorsDiffer
  <1>6. Line(a, v)' = L \union M /\ host'[a].tails[v] = z
    OBVIOUS
  <1>7. \A c \in L : jobs'[c].prior = jobs[c].prior
    OBVIOUS
  <1>8. \A c \in M : c \in Int
    BY DEF CommandIds
  <1> HIDE DEF L, z
  <1>9. \A c \in L, d \in M : jobs'[c].prior # jobs'[d].prior
    BY <1>1, <1>2, <1>4, <1>7 DEF L
  <1>10. \A c, d \in L \union M : jobs'[c].prior = jobs'[d].prior => c = d
    BY <1>1, <1>5, <1>7, <1>9
  <1>11. \A c \in L : jobs'[c].prior # 0 =>
           jobs'[c].prior \in L \union M /\ q[jobs'[c].prior] < q[c] /\ jobs'[c].prior # z
    BY <1>1, <1>3, <1>7 DEF L
  <1>12. ASSUME NEW c \in M, jobs'[c].prior # 0
         PROVE  jobs'[c].prior \in L \union M /\ q[jobs'[c].prior] < q[c] /\ jobs'[c].prior # z
    <2>1. CASE jobs'[c].prior \in M /\ jobs'[c].prior < c
      BY <2>1, <1>3, <1>8
    <2>2. CASE jobs'[c].prior = t
      <3>1. t \in L
        BY <2>2, <1>1, <1>12
      <3>2. q[t] < q[c]
        BY <3>1 DEF L
      <3> QED
        BY <2>2, <3>1, <3>2, <1>2, <1>3
    <2> QED
      BY <2>1, <2>2, <1>4
  <1>13. z # 0 /\ z \in L \union M
    BY <1>2, <1>3
  <1> QED
    BY <1>6, <1>10, <1>11, <1>12, <1>13 DEF QueueStands

LEMMA LineOverridden ==
  ASSUME NEW a \in Hosts, NEW v \in VMs, NEW q, NEW M, M \subseteq CommandIds, NEW t, t \notin M, 0 \notin CommandIds,
         NEW g \in M, Overrides(g), \A c \in M : g < c => ~Overrides(c),
         \A c, d \in M : c < d => q[c] < q[d],
         Line(a, v)' = From(M, g),
         \A c \in M : jobs'[c].prior = IF Overrides(c) THEN 0 ELSE LastOf(Before(M, c), t),
         host'[a].tails[v] = LastOf(M, t)
  PROVE  QueueStands(a, v, q)'
  <1> DEFINE z == LastOf(M, t)
             N == From(M, g)
  <1>1. z \in M /\ \A e \in M : e <= z
    BY LastOfThem
  <1>2. /\ M \subseteq Int /\ 0 \notin M
        /\ N \subseteq M /\ \A c \in M : c \in N <=> g <= c
    BY DEF CommandIds, From
  <1>3. jobs'[g].prior = 0
    OBVIOUS
  <1> HIDE DEF N
  <1>4. ASSUME NEW c \in N, c # g
        PROVE  /\ jobs'[c].prior = LastOf(Before(M, c), t)
               /\ jobs'[c].prior \in N /\ jobs'[c].prior < c
    <2>1. g < c /\ c \in M
      <3>1. c \in M /\ g <= c
        BY <1>2, <1>4
      <3>2. c \in Int /\ g \in Int
        BY <3>1, <1>2
      <3> QED
        BY <3>1, <3>2, <1>4
    <2>2. jobs'[c].prior = LastOf(Before(M, c), t)
      BY <2>1
    <2> DEFINE p == LastOf(Before(M, c), t)
    <2>3. \/ p \in M /\ p < c /\ \A e \in M : e < c => e <= p
          \/ p = t /\ \A e \in M : ~(e < c)
      BY <2>1, PriorsOf
    <2>4. p \in N /\ p < c
      <3> HIDE DEF p
      <3> QED
        BY <2>1, <2>3, <1>2
    <2> QED
      BY <2>2, <2>4
  <1>5. \A c, d \in N : jobs'[c].prior = jobs'[d].prior => c = d
    <2> SUFFICES ASSUME NEW c \in N, NEW d \in N, jobs'[c].prior = jobs'[d].prior PROVE c = d
      OBVIOUS
    <2>1. CASE c = g \/ d = g
      BY <2>1, <1>2, <1>3, <1>4
    <2>2. CASE c # g /\ d # g
      <3>1. LastOf(Before(M, c), t) = LastOf(Before(M, d), t)
        BY <2>2, <1>4
      <3> QED
        BY <3>1, <1>2, PriorsDiffer
    <2> QED
      BY <2>1, <2>2
  <1>6. z \in N /\ z # 0
    BY <1>1, <1>2
  <1>7. \A c \in N : jobs'[c].prior # 0 =>
          jobs'[c].prior \in N /\ q[jobs'[c].prior] < q[c] /\ jobs'[c].prior # z
    <2> SUFFICES ASSUME NEW c \in N, c # g
                 PROVE  jobs'[c].prior \in N /\ q[jobs'[c].prior] < q[c] /\ jobs'[c].prior # z
      BY <1>3
    <2>1. jobs'[c].prior \in N /\ jobs'[c].prior < c
      BY <1>4
    <2>2. q[jobs'[c].prior] < q[c] /\ c <= z
      BY <2>1, <1>1, <1>2
    <2>3. c \in Int /\ z \in Int /\ jobs'[c].prior \in Int
      BY <2>1, <1>1, <1>2
    <2> QED
      BY <2>1, <2>2, <2>3
  <1>8. Line(a, v)' = N /\ host'[a].tails[v] = z
    BY DEF N
  <1> HIDE DEF z
  <1> QED
    BY <1>5, <1>6, <1>7, <1>8 DEF QueueStands

LEMMA DispatchStands ==
  ASSUME CommandsInv, NEW a \in Hosts, Dispatch(a)
  PROVE  CommandsInv'
  <1> DEFINE A == Arrived(a)
             M(v) == ArrivedFor(a, v)
             tails == host[a].tails
             ts == [v \in VMs |-> LastOf(M(v), tails[v])]
             h == [up |-> host[a].up, polled |-> {}, tails |-> ts]
  <1>0. /\ CommandsTypeOK /\ QueuesStand
        /\ \A b \in Hosts : PolledStands(b)
        /\ \A c \in CommandIds : JobStands(c)
        /\ \A c \in DOMAIN commands : c \in CommandIds /\ Knows(c) /\ RevokedHasNothing(c)
    BY CommandsInvGives
  <1>p. /\ DOMAIN commands \subseteq CommandIds /\ 0 \notin CommandIds /\ 0 \in 0..MaxCommands
        /\ CommandIds \subseteq 0..MaxCommands
        /\ \A c \in DOMAIN commands : commands[c].agent \in Hosts /\ commands[c].vm \in VMs
    BY <1>0, CommandPlaces DEF CommandIds
  <1>1. /\ host[a].polled # {} /\ jobs' = Scheduled(a, tails) /\ host' = [host EXCEPT ![a] = h]
        /\ UNCHANGED <<enrolled, beats, commands, memo, journal, runs, unrecorded, disturbances>>
    BY DEF Dispatch, platformRows, history
  <1>2. host[a].up
    BY <1>0, <1>1, IdleIsTyped DEF PolledStands
  <1>3. \A c \in A : /\ c \in DOMAIN commands /\ commands[c].agent = a /\ commands[c].status # "inserting"
                     /\ c \in host[a].polled /\ ~InFlight(c) /\ c \in CommandIds
    BY <1>0 DEF PolledStands, Arrived
  <1>4. \A v \in VMs : M(v) \subseteq A /\ M(v) \subseteq CommandIds /\ \A c \in A : c \in M(v) <=> commands[c].vm = v
    BY <1>3 DEF ArrivedFor
  <1>5. tails \in [VMs -> 0..MaxCommands]
    BY <1>0, HostOf
  <1>6. \A v \in VMs : ts[v] \in 0..MaxCommands
    <2> TAKE v \in VMs
    <2>1. ts[v] = LastOf(M(v), tails[v]) /\ tails[v] \in 0..MaxCommands
      BY <1>5
    <2> DEFINE N == M(v)
               x == tails[v]
    <2>2. N \subseteq CommandIds /\ ts[v] = LastOf(N, x) /\ x \in 0..MaxCommands
      BY <2>1, <1>4
    <2> HIDE DEF N, x, ts
    <2>3. LastOf(N, x) = x \/ LastOf(N, x) \in N
      BY <2>2, LastOfThem
    <2> QED
      BY <2>2, <2>3, <1>p
  <1>7. /\ h \in Host /\ h.up = host[a].up /\ h.polled = {}
        /\ \A v \in VMs : h.tails[v] = LastOf(M(v), tails[v])
    <2>1. ts \in [VMs -> 0..MaxCommands] /\ host[a].up \in BOOLEAN
      BY <1>0, <1>6, HostOf
    <2>2. \A v \in VMs : ts[v] = LastOf(M(v), tails[v])
      OBVIOUS
    <2> HIDE DEF ts
    <2> QED
      BY <2>1, <2>2 DEF Host
  <1>8. \A c \in A : /\ jobs'[c].at = "waiting"
                     /\ jobs'[c].prior = IF Overrides(c) THEN 0
                                         ELSE LastOf(Before(M(commands[c].vm), c), tails[commands[c].vm])
                     /\ jobs'[c].passed = (\E e \in M(commands[c].vm) : c < e /\ Overrides(e))
                     /\ jobs'[c] = [at |-> jobs'[c].at, prior |-> jobs'[c].prior, passed |-> jobs'[c].passed]
    BY <1>1, <1>3 DEF Scheduled, Before
  <1>9. \A c \in CommandIds \ A :
          /\ jobs'[c] \in Job /\ jobs'[c].at = jobs[c].at /\ jobs'[c].prior = jobs[c].prior
          /\ jobs'[c].passed = (jobs[c].passed \/ (/\ InFlight(c) /\ commands[c].agent = a
                                                   /\ \E e \in M(commands[c].vm) : Overrides(e)))
    <2> SUFFICES ASSUME NEW c \in CommandIds \ A
                 PROVE  /\ jobs'[c] \in Job /\ jobs'[c].at = jobs[c].at /\ jobs'[c].prior = jobs[c].prior
                        /\ jobs'[c].passed = (jobs[c].passed \/ (/\ InFlight(c) /\ commands[c].agent = a
                                                   /\ \E e \in M(commands[c].vm) : Overrides(e)))
      OBVIOUS
    <2>1. jobs[c] \in Job /\ jobs[c].passed \in BOOLEAN
      BY <1>0, JobFields
    <2>2. \A j \in Job : LET n == [j EXCEPT !.passed = TRUE] IN
            n \in Job /\ n.at = j.at /\ n.prior = j.prior /\ n.passed = TRUE
      BY DEF Job
    <2>3. CASE /\ InFlight(c) /\ commands[c].agent = a
               /\ \E e \in M(commands[c].vm) : Overrides(e)
      <3>1. jobs'[c] = [jobs[c] EXCEPT !.passed = TRUE]
        BY <2>3, <1>1 DEF Scheduled
      <3> QED
        BY <3>1, <2>1, <2>2, <2>3
    <2>4. CASE ~(/\ InFlight(c) /\ commands[c].agent = a
                 /\ \E e \in M(commands[c].vm) : Overrides(e))
      <3>1. jobs'[c] = jobs[c]
        BY <2>4, <1>1 DEF Scheduled
      <3> QED
        BY <3>1, <2>1, <2>4
    <2> QED
      BY <2>3, <2>4
  <1>10. jobs' \in [CommandIds -> Job]
    <2>1. ASSUME NEW c \in A PROVE jobs'[c] \in Job
      <3>1. commands[c].vm \in VMs
        BY <1>3, <1>p
      <3>2. LastOf(Before(M(commands[c].vm), c), tails[commands[c].vm]) \in 0..MaxCommands
        <4>1. Before(M(commands[c].vm), c) \subseteq CommandIds
          BY <3>1, <1>4 DEF Before
        <4>2. tails[commands[c].vm] \in 0..MaxCommands
          BY <3>1, <1>5
        <4> QED
          BY <4>1, <4>2, <1>p, LastOfThem
      <3>3. jobs'[c].prior \in 0..MaxCommands /\ jobs'[c].passed \in BOOLEAN /\ jobs'[c].at = "waiting"
        BY <3>2, <1>8, <1>p
      <3>4. jobs'[c] = [at |-> jobs'[c].at, prior |-> jobs'[c].prior, passed |-> jobs'[c].passed]
        BY <1>8
      <3> QED
        BY <3>3, <3>4 DEF Job
    <2>2. \A c \in CommandIds : jobs'[c] \in Job
      BY <2>1, <1>9
    <2>3. DOMAIN jobs' = CommandIds /\ jobs' = [c \in DOMAIN jobs' |-> jobs'[c]]
      BY <1>1 DEF Scheduled
    <2> QED
      BY <2>2, <2>3
  <1>11. \A b \in Hosts : host'[b] = IF b = a THEN h ELSE host[b]
    BY <1>0, <1>1 DEF CommandsTypeOK
  <1>12. host' \in [Hosts -> Host]
    <2> HIDE DEF h
    <2> QED
      BY <1>0, <1>1, <1>7 DEF CommandsTypeOK
  <1> HIDE DEF h, ts, tails, A, M
  <1>13. CommandsTypeOK'
    BY <1>0, <1>1, <1>10, <1>12 DEF CommandsTypeOK
  <1>14. \A c \in CommandIds : InFlight(c)' <=> InFlight(c) \/ c \in A
    BY <1>8, <1>9 DEF InFlight
  <1>15. QueuesStand'
    <2>1. PICK k \in Nat : \E r \in [CommandIds -> 0..k] : \A b \in Hosts, w \in VMs : QueueStands(b, w, r)
      BY <1>0 DEF QueuesStand
    <2>2. PICK r \in [CommandIds -> 0..k] : \A b \in Hosts, w \in VMs : QueueStands(b, w, r)
      BY <2>1
    <2>3. /\ k + MaxCommands \in Nat
          /\ \A c \in CommandIds : k + c \in 0..(k + MaxCommands) /\ r[c] \in 0..(k + MaxCommands)
      BY CommandsAssumption DEF CommandsAssumption, CommandIds
    <2>4. PICK q \in [CommandIds -> 0..(k + MaxCommands)] :
            \A c \in CommandIds : q[c] = IF c \in A THEN k + c ELSE r[c]
      <3> DEFINE f == [c \in CommandIds |-> IF c \in A THEN k + c ELSE r[c]]
      <3>1. f \in [CommandIds -> 0..(k + MaxCommands)] /\ \A c \in CommandIds : f[c] = IF c \in A THEN k + c ELSE r[c]
        BY <2>3
      <3> HIDE DEF f
      <3> QED
        BY <3>1
    <2>5. \A b, w : Line(b, w) \subseteq CommandIds /\ Line(b, w) \intersect A = {}
      BY <1>0, <1>3 DEF Line
    <2>6. ASSUME NEW b \in Hosts, NEW w \in VMs, b # a \/ M(w) = {} PROVE QueueStands(b, w, q)'
      <3>1. QueueStands(b, w, r)
        BY <2>2
      <3>2. Line(b, w)' = Line(b, w)
        <4>1. ASSUME NEW c \in DOMAIN commands, commands[c].agent = b, commands[c].vm = w
              PROVE  (InFlight(c)' /\ ~jobs'[c].passed) <=> (InFlight(c) /\ ~jobs[c].passed)
          <5>1. c \in CommandIds /\ c \notin A
            BY <4>1, <2>6, <1>0, <1>3, <1>4
          <5> QED
            BY <4>1, <5>1, <2>6, <1>9, <1>14
        <4> QED
          BY <4>1, <1>1 DEF Line
      <3>3. \A c \in Line(b, w) : jobs'[c].prior = jobs[c].prior /\ q[c] = r[c]
        BY <2>4, <2>5, <1>9
      <3>4. host'[b].tails[w] = host[b].tails[w]
        <4>1. LastOf({}, tails[w]) = tails[w]
          BY DEF LastOf
        <4> QED
          BY <4>1, <2>6, <1>7, <1>11 DEF tails
      <3> QED
        <4>1. \A c, e \in Line(b, w) : r[c] < r[e] => q[c] < q[e]
          BY <3>3
        <4>2. \A c \in Line(b, w) : jobs'[c].prior = jobs[c].prior
          BY <3>3
        <4> QED
          BY <3>1, <3>2, <3>4, <4>1, <4>2 DEF QueueStands
    <2>7. ASSUME NEW w \in VMs, M(w) # {} PROVE QueueStands(a, w, q)'
      <3>1. QueueStands(a, w, r)
        BY <2>2
      <3>2. M(w) \subseteq A /\ M(w) \subseteq CommandIds /\ \A c \in M(w) : commands[c].vm = w /\ commands[c].agent = a
        BY <1>3, <1>4
      <3>3. M(w) \intersect Line(a, w) = {} /\ Line(a, w) \subseteq CommandIds
        BY <3>2, <2>5
      <3>4. \A c \in M(w) : q[c] = k + c /\ jobs'[c].prior = IF Overrides(c) THEN 0
                                                             ELSE LastOf(Before(M(w), c), tails[w])
        BY <3>2, <2>4, <1>8
      <3>5. \A c \in M(w) : jobs'[c].passed = (\E e \in M(w) : c < e /\ Overrides(e)) /\ InFlight(c)'
        BY <3>2, <1>8, <1>14
      <3>6. \A c \in Line(a, w) : /\ jobs'[c].prior = jobs[c].prior /\ q[c] = r[c]
                                  /\ jobs'[c].passed = (\E e \in M(w) : Overrides(e)) /\ InFlight(c)'
        BY <2>4, <2>5, <1>9, <1>14 DEF Line
      <3>7. host'[a].tails[w] = LastOf(M(w), tails[w])
        BY <1>7, <1>11
      <3>8. \A c \in DOMAIN commands : (commands[c].agent = a /\ commands[c].vm = w /\ InFlight(c)' /\ ~jobs'[c].passed)
              => c \in M(w) \/ c \in Line(a, w)
        BY <1>0, <1>4, <1>9, <1>14 DEF Line
      <3>9. tails[w] \notin M(w)
        BY <3>1, <3>2, <3>3, <1>p DEF QueueStands, tails
      <3>12. \A c, d \in M(w) : c < d => q[c] < q[d]
        BY <3>2, <3>4 DEF CommandIds
      <3>13. QueueStands(a, w, q) /\ \A c \in Line(a, w), d \in M(w) : q[c] < q[d]
        <4>1. QueueStands(a, w, q)
          BY <3>1, <3>6 DEF QueueStands
        <4>2. ASSUME NEW c \in Line(a, w), NEW d \in M(w) PROVE q[c] < q[d]
          <5>1. c \in CommandIds /\ d \in CommandIds /\ q[c] = r[c] /\ q[d] = k + d
            BY <3>2, <3>3, <3>4, <3>6
          <5>2. r[c] \in 0..k
            BY <5>1
          <5> QED
            BY <5>1, <5>2 DEF CommandIds
        <4> QED
          BY <4>1, <4>2
      <3>10. CASE \A c \in M(w) : ~Overrides(c)
        <4>1. Line(a, w)' = Line(a, w) \union M(w)
          BY <3>2, <3>5, <3>6, <3>8, <3>10, <1>1, <1>3 DEF Line
        <4> QED
          <5>n. PICK N : N = M(w)
            OBVIOUS
          <5>t. PICK t : t = tails[w]
            OBVIOUS
          <5>1. N \subseteq CommandIds /\ N # {} /\ N \intersect Line(a, w) = {} /\ Line(a, w) \subseteq CommandIds
            BY <5>n, <3>2, <3>3, <2>7
          <5>2. Line(a, w)' = Line(a, w) \union N
            BY <5>n, <4>1
          <5>3. \A c, d \in N : c < d => q[c] < q[d]
            BY <5>n, <3>12
          <5>4. QueueStands(a, w, q) /\ \A c \in Line(a, w), d \in N : q[c] < q[d]
            BY <5>n, <3>13
          <5>5. \A c \in Line(a, w) : jobs'[c].prior = jobs[c].prior
            BY <3>6
          <5>6. \A c \in N : jobs'[c].prior = LastOf(Before(N, c), t)
            BY <5>n, <5>t, <3>4, <3>10
          <5>7. host'[a].tails[w] = LastOf(N, t) /\ t = host[a].tails[w]
            BY <5>n, <5>t, <3>7 DEF tails
          <5> QED
            BY <5>1, <5>2, <5>3, <5>4, <5>5, <5>6, <5>7, <1>p, LineJoined
      <3>11. CASE \E c \in M(w) : Overrides(c)
        <4> DEFINE G == {c \in M(w) : Overrides(c)}
        <4>1. PICK g \in G : \A e \in G : e <= g
          <5>1. G \subseteq CommandIds /\ G # {}
            BY <3>2, <3>11
          <5> HIDE DEF G
          <5> QED
            BY <5>1, LastOfThem
        <4>2. M(w) \subseteq Int
          BY <3>2 DEF CommandIds
        <4>3. g \in M(w) /\ Overrides(g) /\ \A c \in M(w) : g < c => ~Overrides(c)
          BY <4>1, <4>2
        <4>4. \A c \in M(w) : (\E e \in M(w) : c < e /\ Overrides(e)) <=> ~(g <= c)
          BY <4>1, <4>2
        <4>5. Line(a, w)' = From(M(w), g)
          BY <4>4, <3>2, <3>5, <3>6, <3>8, <3>11, <1>1, <1>3 DEF Line, From
        <4> QED
          <5>n. PICK N : N = M(w)
            OBVIOUS
          <5>t. PICK t : t = tails[w]
            OBVIOUS
          <5>1. N \subseteq CommandIds /\ t \notin N /\ g \in N /\ Overrides(g)
            BY <5>n, <5>t, <4>3, <3>2, <3>9
          <5>2. \A c \in N : g < c => ~Overrides(c)
            BY <5>n, <4>3
          <5>3. Line(a, w)' = From(N, g)
            BY <5>n, <4>5
          <5>4. \A c, d \in N : c < d => q[c] < q[d]
            BY <5>n, <3>12
          <5>5. \A c \in N : jobs'[c].prior = IF Overrides(c) THEN 0 ELSE LastOf(Before(N, c), t)
            BY <5>n, <5>t, <3>4
          <5>6. host'[a].tails[w] = LastOf(N, t)
            BY <5>n, <5>t, <3>7
          <5> QED
            BY <5>1, <5>2, <5>3, <5>4, <5>5, <5>6, <1>p, LineOverridden
      <3> QED
        BY <3>10, <3>11
    <2>8. \A b \in Hosts, w \in VMs : QueueStands(b, w, q)'
      BY <2>6, <2>7
    <2> QED
      <3> DEFINE n == k + MaxCommands
      <3>1. n \in Nat /\ q \in [CommandIds -> 0..n]
        BY <2>3, <2>4
      <3> HIDE DEF n
      <3> QED
        BY <3>1, <2>8 DEF QueuesStand
  <1>16. ASSUME NEW b \in Hosts PROVE PolledStands(b)'
    <2>1. PolledStands(b) /\ Idle(FALSE)' = Idle(FALSE)
      BY <1>0 DEF Idle
    <2> QED
      BY <2>1, <1>1, <1>2, <1>7, <1>11 DEF PolledStands
  <1>17. \A b \in Hosts : host'[b].up = host[b].up
    BY <1>7, <1>11
  <1>18. ASSUME NEW c \in CommandIds PROVE JobStands(c)'
    <2>1. JobStands(c) /\ (c \in DOMAIN commands => commands[c].agent \in Hosts)
      BY <1>0, <1>p
    <2>2. CASE c \in A
      BY <2>2, <1>1, <1>2, <1>3, <1>8, <1>17 DEF JobStands
    <2>3. CASE c \notin A
      BY <2>1, <2>3, <1>1, <1>9, <1>14, <1>17 DEF JobStands
    <2> QED
      BY <2>2, <2>3
  <1>19. ASSUME NEW c \in DOMAIN commands PROVE CommandStands(c)'
    <2>1. Knows(c) /\ RevokedHasNothing(c) /\ c \in CommandIds /\ (Up(c)' <=> Up(c)) /\ commands[c].agent \in Hosts
      BY <1>0, <1>1, <1>p, <1>17 DEF Up
    <2>2. jobs[c].at = "executing" <=> jobs'[c].at = "executing"
      BY <2>1, <1>3, <1>8, <1>9 DEF InFlight
    <2>3. Knows(c)'
      BY <2>1, <2>2, <1>1 DEF Knows
    <2>4. RevokedHasNothing(c)'
      BY <2>1, <1>1, <1>3, <1>7, <1>11, <1>14 DEF RevokedHasNothing
    <2> QED
      BY <2>3, <2>4 DEF CommandStands
  <1> QED
    BY <1>1, <1>13, <1>15, <1>16, <1>18, <1>19 DEF CommandsInv

-----------------------------------------------------------------------------
(***************************************************************************)
(* What holds of the commands                                              *)
(***************************************************************************)
LEMMA CommandsBegin ==
  ASSUME CommandsInit
  PROVE  CommandsInv
  <1>1. commands = <<>> /\ DOMAIN commands = {} /\ Len(commands) = 0 /\ commands \in Seq(Command)
    BY DEF CommandsInit
  <1>2. /\ MaxCommands \in Nat /\ 0 \in 0..MaxDisturbances /\ 0 \in Nat /\ {} \subseteq CommandIds
        /\ "none" \in Outcomes \union {"none"} /\ "online" \in Enrolled /\ TRUE \in BOOLEAN
    BY CommandsAssumption DEF CommandsAssumption, Enrolled
  <1>3. CommandsTypeOK
    <2>1. enrolled \in [Hosts -> Enrolled] /\ beats \subseteq Hosts /\ unrecorded \subseteq CommandIds
      BY <1>2 DEF CommandsInit
    <2>2. host \in [Hosts -> Host] /\ jobs \in [CommandIds -> Job]
      BY <1>2, IdleIsTyped DEF CommandsInit
    <2>3. memo \in [CommandIds -> Outcomes \union {"none"}] /\ journal \in [CommandIds -> Outcomes \union {"none"}]
      BY <1>2 DEF CommandsInit
    <2>4. runs \in [CommandIds -> Nat] /\ disturbances \in 0..MaxDisturbances
      BY <1>2 DEF CommandsInit
    <2>5. Len(commands) <= MaxCommands
      BY <1>1, <1>2
    <2> QED
      BY <1>1, <2>1, <2>2, <2>3, <2>4, <2>5 DEF CommandsTypeOK
  <1>4. \A c \in CommandIds : jobs[c] = NoJob /\ ~InFlight(c)
    BY IdleIsTyped DEF CommandsInit, InFlight
  <1>5. \A a \in Hosts : host[a] = Idle(TRUE)
    BY DEF CommandsInit
  <1>6. QueuesStand
    <2>1. \A a, v : Line(a, v) = {}
      BY <1>1 DEF Line
    <2>2. \A r : \A a \in Hosts, v \in VMs : QueueStands(a, v, r)
      BY <2>1, <1>2, <1>5, IdleIsTyped DEF QueueStands
    <2>3. [c \in CommandIds |-> 0] \in [CommandIds -> 0..0]
      OBVIOUS
    <2> QED
      BY <2>2, <2>3 DEF QueuesStand
  <1>7. \A a \in Hosts : PolledStands(a)
    BY <1>2, <1>5, IdleIsTyped DEF PolledStands
  <1>8. \A c \in CommandIds : JobStands(c)
    BY <1>4, IdleIsTyped DEF JobStands, CommandsInit
  <1> QED
    BY <1>1, <1>3, <1>6, <1>7, <1>8 DEF CommandsInv

LEMMA CommandsStutter ==
  ASSUME CommandsInv, UNCHANGED commandVars
  PROVE  CommandsInv'
  <1>1. UNCHANGED <<enrolled, beats, commands, host, jobs, memo, journal, runs, unrecorded, disturbances>>
    BY DEF commandVars, platformRows, hostState, history
  <1>2. AgentsSame
    BY <1>1 DEF AgentsSame, hostState, history
  <1>3. CommandsTypeOK /\ disturbances' \in 0..MaxDisturbances
    BY <1>1, CommandsInvGives
  <1>4. enrolled' \in [Hosts -> Enrolled] /\ beats' \subseteq Hosts
    BY <1>1, <1>3 DEF CommandsTypeOK
  <1>5. RowsMove
    BY <1>1, <1>3, RowsStay
  <1> QED
    BY <1>1, <1>2, <1>3, <1>4, <1>5, RegistryStands

LEMMA JobStepStands ==
  ASSUME CommandsInv, NEW c \in DOMAIN commands, JobStep(c) \/ JournalFails(c)
  PROVE  CommandsInv'
  <1>0. JobStands(c)
    BY CommandsInvGives
  <1>1. CASE Replays(c)
    BY <1>1, ReplaysStands
  <1>2. CASE Executes(c)
    BY <1>2, ExecutesStands
  <1>3. CASE RefusesExpired(c)
    <2>1. RecordResult(c, "failed") /\ memo[c] = "none" /\ jobs[c].prior = 0 /\ InFlight(c) /\ "failed" \in Outcomes
      BY <1>3 DEF RefusesExpired, IsRefused, MyTurn, InFlight, Outcomes
    <2> QED
      BY <2>1, RecordResultStands
  <1>4. CASE Finishes(c)
    <2>1. PICK s \in Outcomes : RecordResult(c, s)
      BY <1>4 DEF Finishes
    <2>2. memo[c] = "none" /\ jobs[c].prior = 0 /\ InFlight(c)
      BY <1>0, <1>4 DEF Finishes, JobStands, InFlight
    <2> QED
      BY <2>1, <2>2, RecordResultStands
  <1>5. CASE AcknowledgeAuthenticates(c)
    BY <1>5, AcknowledgeAuthenticatesStands
  <1>6. CASE AcknowledgeFails(c)
    BY <1>6, AcknowledgeFailsStands
  <1>7. CASE Acknowledges(c)
    BY <1>7, AcknowledgesStands
  <1>8. CASE JournalFails(c)
    BY <1>8, JournalFailsStands
  <1> QED
    BY <1>1, <1>2, <1>3, <1>4, <1>5, <1>6, <1>7, <1>8 DEF JobStep

LEMMA RegistryStepStands ==
  ASSUME CommandsInv, RegistryStep
  PROVE  CommandsInv'
  <1>1. ASSUME NEW a \in Hosts,
               \/ HeartbeatBegins(a) \/ HeartbeatWrites(a) \/ Revoke(a)
               \/ \E v \in VMs, op \in {"ordinary", "power_off"} : CreateCommand(a, v, op)
        PROVE  CommandsInv'
    BY <1>1, HeartbeatBeginsStands, HeartbeatWritesStands, RevokeStands, CreateCommandStands
  <1>2. ASSUME NEW c \in DOMAIN commands, InsertCommand(c) \/ SupersedeCommand(c) \/ CommandExpires(c)
        PROVE  CommandsInv'
    BY <1>2, InsertCommandStands, SupersedeCommandStands, CommandExpiresStands
  <1> QED
    BY <1>1, <1>2, SweepCommandsStands DEF RegistryStep

LEMMA CommandsStep ==
  ASSUME CommandsInv, [CommandsNext]_commandVars
  PROVE  CommandsInv'
  <1>1. ASSUME NEW a \in Hosts, Poll(a) \/ Dispatch(a) \/ HostCrashes(a) \/ HostStarts(a)
        PROVE  CommandsInv'
    BY <1>1, PollActionStands, DispatchStands, HostCrashesStands, HostStartsStands
  <1>2. ASSUME NEW c \in DOMAIN commands, JobStep(c) \/ JournalFails(c)
        PROVE  CommandsInv'
    BY <1>2, JobStepStands
  <1> QED
    BY <1>1, <1>2, RegistryStepStands, CommandsStutter DEF CommandsNext

\* The registry, its callers and the agents keep their state in order: commands of a machine stand
\* in a line, and what an agent does not know of its commands is known to be lost.
THEOREM CommandsInvariant == CommandsSpec => []CommandsInv
  <1>1. CommandsInit => CommandsInv
    BY CommandsBegin
  <1>2. CommandsInv /\ [CommandsNext]_commandVars => CommandsInv'
    BY CommandsStep
  <1> QED
    BY <1>1, <1>2, PTL DEF CommandsSpec

\* Every variable has its type.
THEOREM CommandsTyped == CommandsSpec => []CommandsTypeOK
  <1>1. CommandsInv => CommandsTypeOK
    BY DEF CommandsInv
  <1> QED
    BY <1>1, CommandsInvariant, PTL

LEMMA OutcomesKnown ==
  ASSUME CommandsInv
  PROVE  OutcomesAreKnown
  <1>0. /\ CommandsTypeOK
        /\ \A c \in CommandIds : JobStands(c) /\ runs[c] \in Nat
        /\ \A c \in DOMAIN commands : c \in CommandIds /\ Knows(c)
    BY CommandsInvGives, JobFields
  <1>1. RunsAgainOnlyUnrecorded
    <2> SUFFICES ASSUME NEW c \in CommandIds, runs[c] > 1 PROVE c \in unrecorded
      BY DEF RunsAgainOnlyUnrecorded
    <2>1. c \in DOMAIN commands /\ runs[c] > 0 /\ runs[c] # 1
      BY <1>0 DEF JobStands
    <2> QED
      BY <2>1, <1>0 DEF Knows
  <1>2. ResultIsOnRecord
    BY <1>0 DEF ResultIsOnRecord, Knows, Up
  <1> QED
    BY <1>1, <1>2 DEF OutcomesAreKnown

LEMMA TurnsAreTaken ==
  ASSUME CommandsInv
  PROVE  OneAtATimePerVM
  <1>0. /\ CommandsTypeOK /\ QueuesStand
        /\ \A c \in CommandIds : JobStands(c)
        /\ \A c \in DOMAIN commands : c \in CommandIds /\ commands[c].agent \in Hosts /\ commands[c].vm \in VMs
    BY CommandsInvGives, CommandPlaces
  <1> SUFFICES ASSUME NEW c \in DOMAIN commands, NEW e \in DOMAIN commands,
                      commands[c].agent = commands[e].agent, commands[c].vm = commands[e].vm,
                      jobs[c].at = "executing", jobs[e].at = "executing",
                      ~jobs[c].passed, ~jobs[e].passed
               PROVE  c = e
    BY DEF OneAtATimePerVM
  <1>1. PICK r : QueueStands(commands[c].agent, commands[c].vm, r)
    BY <1>0 DEF QueuesStand
  <1>2. c \in Line(commands[c].agent, commands[c].vm) /\ e \in Line(commands[c].agent, commands[c].vm)
    BY DEF Line, InFlight
  <1>3. jobs[c].prior = 0 /\ jobs[e].prior = 0
    BY <1>0 DEF JobStands
  <1> QED
    BY <1>1, <1>2, <1>3 DEF QueueStands

\* What is known of each command is what happened: none is run again but one whose outcome is known
\* to be lost, none has another result than its agent would answer with; and on one virtual machine
\* they take turns, unless a power_off passes those before it.
THEOREM CommandsKeepTheirWord == CommandsSpec => []CommandsHold
  <1>1. CommandsInv => CommandsHold
    BY OutcomesKnown, TurnsAreTaken DEF CommandsHold
  <1> QED
    BY <1>1, CommandsInvariant, PTL

\* A status moves only while it is open, and to an outcome only by an agent that is not revoked.
StatusMovesOpenly ==
  \A c \in DOMAIN commands :
    \/ commands'[c].status = commands[c].status
    \/ /\ commands[c].status \in {"inserting", "queued"}
       /\ commands'[c].status \in Outcomes => enrolled[commands[c].agent] # "revoked"

LEMMA RowsMoveOpenly ==
  ASSUME RowsMove
  PROVE  StatusMovesOpenly
  BY DEF RowsMove, StatusMovesOpenly, Outcomes, Rejected

LEMMA StatusesMoveOpenly ==
  ASSUME CommandsInv, [CommandsNext]_commandVars
  PROVE  StatusMovesOpenly
  <1>0. /\ CommandsTypeOK
        /\ \A c \in CommandIds : JobStands(c)
        /\ \A c \in DOMAIN commands : c \in CommandIds /\ RevokedHasNothing(c)
    BY CommandsInvGives
  <1>1. CASE commands' = commands
    BY <1>1 DEF StatusMovesOpenly
  <1>2. ASSUME NEW a \in Hosts, NEW v \in VMs, NEW op \in {"ordinary", "power_off"}, CreateCommand(a, v, op)
        PROVE  StatusMovesOpenly
    <2> DEFINE q == [agent |-> a, vm |-> v, op |-> op, overdue |-> FALSE, status |-> "inserting"]
    <2>1. commands' = Append(commands, q) /\ q \in Command /\ commands \in Seq(Command)
      BY <1>0, <1>2 DEF CreateCommand, Command, CommandsTypeOK
    <2> HIDE DEF q
    <2>2. \A c \in DOMAIN commands : commands'[c] = commands[c]
      BY <2>1, Appended
    <2> QED
      BY <2>2 DEF StatusMovesOpenly
  <1>3. ASSUME NEW c \in DOMAIN commands, NEW s \in {"queued", "superseded"},
               commands[c].status \in {"inserting", "queued"}, SetStatus(c, s)
        PROVE  StatusMovesOpenly
    <2>1. s \in {"queued"} \union Outcomes \union Rejected /\ s \notin Outcomes
      BY DEF Outcomes, Rejected
    <2>2. \A e \in DOMAIN commands : commands'[e].status = IF e = c THEN s ELSE commands[e].status
      BY <1>0, <1>3, <2>1, StatusSet
    <2> QED
      BY <1>3, <2>1, <2>2 DEF StatusMovesOpenly
  <1>4. ASSUME NEW c \in DOMAIN commands, Acknowledges(c)
        PROVE  StatusMovesOpenly
    <2>1. CASE commands[c].status = "queued"
      <3>1. InFlight(c) /\ memo[c] \in Outcomes /\ SetStatus(c, memo[c])
        <4>1. InFlight(c) /\ memo[c] # "none" /\ SetStatus(c, memo[c])
          BY <1>0, <1>4, <2>1 DEF Acknowledges, JobStands, InFlight
        <4> QED
          BY <4>1, <1>0, JobFields
      <3>2. enrolled[commands[c].agent] # "revoked"
        BY <1>0, <2>1, <3>1 DEF RevokedHasNothing
      <3>3. \A e \in DOMAIN commands : commands'[e].status = IF e = c THEN memo[c] ELSE commands[e].status
        BY <1>0, <3>1, StatusSet
      <3> QED
        BY <2>1, <3>2, <3>3 DEF StatusMovesOpenly
    <2>2. CASE commands[c].status # "queued"
      BY <1>1, <1>4, <2>2 DEF Acknowledges
    <2> QED
      BY <2>1, <2>2
  <1>5. CASE RegistryStep
    <2>1. ASSUME NEW a \in Hosts,
                 \/ HeartbeatBegins(a) \/ HeartbeatWrites(a) \/ Revoke(a)
                 \/ \E v \in VMs, op \in {"ordinary", "power_off"} : CreateCommand(a, v, op)
          PROVE  StatusMovesOpenly
      <3>1. HeartbeatBegins(a) \/ HeartbeatWrites(a) => commands' = commands
        BY DEF HeartbeatBegins, HeartbeatWrites
      <3>2. Revoke(a) => RowsMove
        BY RevokeStands
      <3> QED
        BY <2>1, <3>1, <3>2, <1>1, <1>2, RowsMoveOpenly
    <2>2. ASSUME NEW c \in DOMAIN commands, InsertCommand(c) \/ SupersedeCommand(c) \/ CommandExpires(c)
          PROVE  StatusMovesOpenly
      <3>1. CASE InsertCommand(c)
        BY <3>1, <1>3 DEF InsertCommand
      <3>2. CASE SupersedeCommand(c)
        BY <3>2, <1>3 DEF SupersedeCommand
      <3>3. CASE CommandExpires(c)
        BY <3>3, CommandExpiresStands, RowsMoveOpenly
      <3> QED
        BY <2>2, <3>1, <3>2, <3>3
    <2>3. CASE SweepCommands
      BY <2>3, SweepCommandsStands, RowsMoveOpenly
    <2> QED
      BY <1>5, <2>1, <2>2, <2>3 DEF RegistryStep
  <1>6. ASSUME NEW a \in Hosts, Poll(a) \/ Dispatch(a) \/ HostCrashes(a) \/ HostStarts(a)
        PROVE  commands' = commands
    BY <1>6 DEF Poll, Dispatch, HostCrashes, HostStarts, platformRows
  <1>7. ASSUME NEW c \in DOMAIN commands, JobStep(c) \/ JournalFails(c)
        PROVE  commands' = commands \/ Acknowledges(c)
    BY <1>7 DEF JobStep, Replays, Executes, RefusesExpired, Finishes, RecordResult,
         AcknowledgeAuthenticates, AcknowledgeFails, JournalFails, platformRows
  <1>8. UNCHANGED commandVars => commands' = commands
    BY DEF commandVars, platformRows
  <1> QED
    BY <1>1, <1>4, <1>5, <1>6, <1>7, <1>8 DEF CommandsNext

\* A command is closed once, whoever comes first, and not by the answer of an agent that is revoked.
THEOREM CommandsCloseOnce == CommandsSpec => ClosedForGood
  <1>1. StatusMovesOpenly =>
          \A c \in DOMAIN commands :
            commands[c].status \in Outcomes \union Rejected => commands'[c].status = commands[c].status
    BY DEF StatusMovesOpenly, Outcomes, Rejected
  <1>2. StatusMovesOpenly =>
          \A c \in DOMAIN commands :
            enrolled[commands[c].agent] = "revoked"
              => (commands'[c].status \in Outcomes => commands[c].status \in Outcomes)
    BY DEF StatusMovesOpenly
  <1>3. CommandsInv /\ [CommandsNext]_commandVars =>
          [\A c \in DOMAIN commands :
             commands[c].status \in Outcomes \union Rejected => commands'[c].status = commands[c].status]_commandVars
    BY <1>1, StatusesMoveOpenly
  <1>4. CommandsInv /\ [CommandsNext]_commandVars =>
          [\A c \in DOMAIN commands :
             enrolled[commands[c].agent] = "revoked"
               => (commands'[c].status \in Outcomes => commands[c].status \in Outcomes)]_commandVars
    BY <1>2, StatusesMoveOpenly
  <1>5. CommandsSpec => ClosedOnce
    BY <1>3, CommandsInvariant, PTL DEF CommandsSpec, ClosedOnce
  <1>6. CommandsSpec => NothingFromTheRevoked
    BY <1>4, CommandsInvariant, PTL DEF CommandsSpec, NothingFromTheRevoked
  <1> QED
    BY <1>5, <1>6 DEF ClosedForGood
=============================================================================
