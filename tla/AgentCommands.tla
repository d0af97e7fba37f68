--------------------------- MODULE AgentCommands ---------------------------
(***************************************************************************)
(* Workstation agents and their commands: the registry's rows, the callers *)
(* that create commands and wait for their results, and each agent's       *)
(* dispatcher with its journal.                                            *)
(*                                                                         *)
(* A command is named by its place in the order of issued_at.  A statement *)
(* of the registry is a step, and so is revoke, a transaction; a step of   *)
(* an agent ends where it waits.  Names, nonces, signatures, media and     *)
(* inventories are left out; "online" stands for offline too; an operation *)
(* is "power_off", which overrides the others,                             *)
(* or "ordinary".                                                          *)
(***************************************************************************)
EXTENDS Integers, Sequences, FiniteSets

CONSTANTS
  Hosts,             \* Workstation agents
  VMs,               \* virtual machines on each host
  MaxCommands,       \* bound of the model: commands created
  MaxDisturbances    \* bound of the model: crashes, failed calls and writes, revocations

ASSUME CommandsAssumption ==
  /\ MaxCommands \in Nat
  /\ MaxDisturbances \in Nat

VARIABLES
  enrolled,   \* workstation_agents: status
  beats,      \* heartbeats that have authenticated and not yet written
  commands,   \* agents.commands, and what their creators have of them
  host,       \* each agent's process: the command loop's request and the dispatcher's tails
  jobs,       \* each command at its agent
  memo,       \* the journal in the agent's memory
  journal,    \* command-journal.json
  runs,       \* history: how often the operation was begun
  unrecorded, \* history: commands whose agent stopped with no outcome of theirs in its file
  disturbances  \* how much of the bound is used

platformRows == <<enrolled, beats, commands>>
hostState    == <<host, jobs, memo, journal>>
history      == <<runs, unrecorded>>
commandVars  == <<platformRows, hostState, history, disturbances>>

-----------------------------------------------------------------------------
CommandIds == 1..MaxCommands
Rejected   == {"expired", "superseded", "revoked"}
Outcomes   == {"completed", "failed"}

\* status "inserting" is before the INSERT.
Command == [agent: Hosts, vm: VMs, op: {"ordinary", "power_off"}, overdue: BOOLEAN,
            status: {"inserting", "queued"} \union Outcomes \union Rejected]

Enrolled == {"online", "revoked"}
Host == [up: BOOLEAN, polled: SUBSET CommandIds, tails: [VMs -> 0..MaxCommands]]
Job  == [at: {"none", "waiting", "executing", "acknowledging", "authenticated"},
         prior: 0..MaxCommands, passed: BOOLEAN]

NoJob == [at |-> "none", prior |-> 0, passed |-> FALSE]
Idle(up) == [up |-> up, polled |-> {}, tails |-> [v \in VMs |-> 0]]

CommandsInit ==
  /\ enrolled = [a \in Hosts |-> "online"]
  /\ beats = {}
  /\ commands = <<>>
  /\ host = [a \in Hosts |-> Idle(TRUE)]
  /\ jobs = [c \in CommandIds |-> NoJob]
  /\ memo = [c \in CommandIds |-> "none"]
  /\ journal = [c \in CommandIds |-> "none"]
  /\ runs = [c \in CommandIds |-> 0]
  /\ unrecorded = {}
  /\ disturbances = 0

Disturbance == /\ disturbances < MaxDisturbances
                /\ disturbances' = disturbances + 1

SetStatus(c, s) == commands' = [commands EXCEPT ![c].status = s]

-----------------------------------------------------------------------------
(***************************************************************************)
(* The registry and its callers                                            *)
(***************************************************************************)
\* #authenticated, which every call of an agent begins with.
Authenticates(a) == enrolled[a] # "revoked"

HeartbeatBegins(a) ==
  /\ host[a].up /\ Authenticates(a)
  /\ beats' = beats \union {a}
  /\ UNCHANGED <<enrolled, commands, hostState, history, disturbances>>

\* The row is written whatever its status is by then.
HeartbeatWrites(a) ==
  /\ a \in beats
  /\ beats' = beats \ {a}
  /\ enrolled' = [enrolled EXCEPT ![a] = "online"]
  /\ UNCHANGED <<commands, hostState, history, disturbances>>

\* createCommand reads the agent and makes the command, ...
CreateCommand(a, v, op) ==
  /\ Len(commands) < MaxCommands
  /\ enrolled[a] # "revoked"
  /\ commands' = Append(commands, [agent |-> a, vm |-> v, op |-> op,
                                   overdue |-> FALSE, status |-> "inserting"])
  /\ UNCHANGED <<enrolled, beats, hostState, history, disturbances>>

\* ... then inserts it; the provider keeps the reference.
InsertCommand(c) ==
  /\ commands[c].status = "inserting"
  /\ SetStatus(c, "queued")
  /\ UNCHANGED <<enrolled, beats, hostState, history, disturbances>>

\* A person's power_off overrides an operation in progress.
SupersedeCommand(c) ==
  /\ commands[c].status = "queued"
  /\ commands[c].op = "ordinary"
  /\ SetStatus(c, "superseded")
  /\ UNCHANGED <<enrolled, beats, hostState, history, disturbances>>

Revoke(a) ==
  /\ Disturbance
  /\ enrolled' = [enrolled EXCEPT ![a] = "revoked"]
  /\ commands' = [c \in DOMAIN commands |->
                    IF commands[c].agent = a /\ commands[c].status = "queued"
                    THEN [commands[c] EXCEPT !.status = "revoked"] ELSE commands[c]]
  /\ UNCHANGED <<beats, hostState, history>>

\* sweep, of the commands past their time.
SweepCommands ==
  /\ \E c \in DOMAIN commands : commands[c].status = "queued" /\ commands[c].overdue
  /\ commands' = [c \in DOMAIN commands |->
                    IF commands[c].status = "queued" /\ commands[c].overdue
                    THEN [commands[c] EXCEPT !.status = "expired"] ELSE commands[c]]
  /\ UNCHANGED <<enrolled, beats, hostState, history, disturbances>>

\* Time passes, where somebody still looks at it.
CommandExpires(c) ==
  /\ ~commands[c].overdue
  /\ commands[c].status = "queued" \/ jobs[c].at = "waiting"
  /\ commands' = [commands EXCEPT ![c].overdue = TRUE]
  /\ UNCHANGED <<enrolled, beats, hostState, history, disturbances>>

-----------------------------------------------------------------------------
(***************************************************************************)
(* The agent                                                               *)
(***************************************************************************)
\* commandLoop asks for the pending commands, those queued and in time.  (Between authentication and
\* reading only a revocation could matter, and it leaves nothing queued.)
Poll(a) ==
  /\ host[a].up /\ host[a].polled = {} /\ Authenticates(a)
  /\ host' = [host EXCEPT ![a].polled =
                {c \in DOMAIN commands : /\ commands[c].agent = a
                                         /\ commands[c].status = "queued"
                                         /\ ~commands[c].overdue}]
  /\ UNCHANGED <<platformRows, jobs, memo, journal, history, disturbances>>

InFlight(c) == jobs[c].at # "none"
Overrides(c) == commands[c].op = "power_off"

\* The commands of an answer that are not in flight, and those of one virtual machine.
Arrived(a) == {c \in host[a].polled : ~InFlight(c)}
ArrivedFor(a, v) == {c \in Arrived(a) : commands[c].vm = v}
LastOf(s, else) == IF s = {} THEN else ELSE CHOOSE c \in s : \A e \in s : e <= c

\* Each waits for the last one of its virtual machine before it, whose tail it would be, except a power_off.
Scheduled(a, tails) ==
  [c \in CommandIds |->
     IF c \in Arrived(a)
     THEN LET mates == ArrivedFor(a, commands[c].vm) IN
          [at |-> "waiting",
           prior |-> IF Overrides(c) THEN 0 ELSE LastOf({e \in mates : e < c}, tails[commands[c].vm]),
           passed |-> \E e \in mates : c < e /\ Overrides(e)]
     ELSE IF /\ InFlight(c) /\ commands[c].agent = a
             /\ \E e \in ArrivedFor(a, commands[c].vm) : Overrides(e)
          THEN [jobs[c] EXCEPT !.passed = TRUE] ELSE jobs[c]]

\* Mutant of Dispatch: commands are put in order only within one answer.
DispatchBatch(a) ==
  /\ host[a].polled # {}
  /\ jobs' = Scheduled(a, [v \in VMs |-> 0])
  /\ host' = [host EXCEPT ![a].polled = {}]
  /\ UNCHANGED <<platformRows, memo, journal, history, disturbances>>

\* The answer arrives: each command not in flight is scheduled, and takes its place in the queue.
Dispatch(a) ==
  /\ host[a].polled # {}
  /\ jobs' = Scheduled(a, host[a].tails)
  /\ host' = [host EXCEPT ![a] = [up |-> host[a].up, polled |-> {},
                                  tails |-> [v \in VMs |-> LastOf(ArrivedFor(a, v), host[a].tails[v])]]]
  /\ UNCHANGED <<platformRows, memo, journal, history, disturbances>>

\* The one before has settled, and so the place in the queue is free.
MyTurn(c) == jobs[c].at = "waiting" /\ jobs[c].prior = 0

GoesTo(c, p) == jobs' = [jobs EXCEPT ![c].at = p]

\* lookupResult finds an earlier outcome: it is acknowledged again.
Replays(c) ==
  /\ MyTurn(c) /\ memo[c] # "none"
  /\ GoesTo(c, "acknowledging")
  /\ UNCHANGED <<platformRows, host, memo, journal, history, disturbances>>
Executes(c) ==
  /\ MyTurn(c) /\ memo[c] = "none" /\ ~commands[c].overdue
  /\ GoesTo(c, "executing")
  /\ runs' = [runs EXCEPT ![c] = runs[c] + 1]
  /\ UNCHANGED <<platformRows, host, memo, journal, unrecorded, disturbances>>

CommandsOf(a) == {c \in DOMAIN commands : commands[c].agent = a}

\* writeCommandJournal writes all that is in memory over the file.  A file torn in the writing is
\* read as an empty one (readCommandJournal).
JournalWritten(a) == journal' = [c \in CommandIds |-> IF c \in CommandsOf(a) THEN memo'[c] ELSE journal[c]]
JournalTorn(a)    == journal' = [c \in CommandIds |-> IF c \in CommandsOf(a) THEN "none" ELSE journal[c]]

\* recordResult: in memory, and in the file; then the acknowledgement begins.
RecordResult(c, s) ==
  /\ memo' = [memo EXCEPT ![c] = s]
  /\ JournalWritten(commands[c].agent)
  /\ GoesTo(c, "acknowledging")
  /\ UNCHANGED <<platformRows, host, history, disturbances>>

IsRefused(c) == MyTurn(c) /\ memo[c] = "none" /\ commands[c].overdue

\* The outcomes that may be recorded of a command now.
ComesTo(c) ==
  IF jobs[c].at = "executing" THEN Outcomes ELSE IF IsRefused(c) THEN {"failed"} ELSE {}

RefusesExpired(c) == IsRefused(c) /\ RecordResult(c, "failed")

Finishes(c) ==
  /\ jobs[c].at = "executing"
  /\ \E s \in Outcomes : RecordResult(c, s)

\* The job's promise settles: the next one of its virtual machine goes on, and the command may be
\* dispatched again.
Settles(c) ==
  LET a == commands[c].agent
      v == commands[c].vm IN
  /\ jobs' = [e \in CommandIds |-> CASE e = c -> NoJob
                                   [] jobs[e].prior = c -> [jobs[e] EXCEPT !.prior = 0]
                                   [] OTHER -> jobs[e]]
  /\ host' = [host EXCEPT ![a].tails[v] = IF host[a].tails[v] = c THEN 0 ELSE host[a].tails[v]]

\* Writing the journal throws, before the file is touched or in the middle of it: the outcome stays in
\* memory and is not acknowledged this time.
JournalFails(c) ==
  /\ Disturbance
  /\ \E s \in ComesTo(c) : memo' = [memo EXCEPT ![c] = s]
  /\ UNCHANGED journal \/ JournalTorn(commands[c].agent)
  /\ Settles(c)
  /\ UNCHANGED <<platformRows, history>>

\* acknowledge authenticates, or refuses, or is not reached; ...
AcknowledgeAuthenticates(c) ==
  /\ jobs[c].at = "acknowledging" /\ Authenticates(commands[c].agent)
  /\ GoesTo(c, "authenticated")
  /\ UNCHANGED <<platformRows, host, memo, journal, history, disturbances>>
AcknowledgeFails(c) ==
  /\ jobs[c].at = "acknowledging"
  /\ IF Authenticates(commands[c].agent) THEN Disturbance ELSE UNCHANGED disturbances
  /\ Settles(c)
  /\ UNCHANGED <<platformRows, memo, journal, history>>

\* Mutant of Acknowledges: a result is taken whatever became of the command.
AcknowledgesAnyway(c) ==
  /\ jobs[c].at = "authenticated"
  /\ SetStatus(c, memo[c])
  /\ Settles(c)
  /\ UNCHANGED <<enrolled, beats, memo, journal, history, disturbances>>

\* ... then closes the command if it is still queued.  The answer, or an error, ends the job.
Acknowledges(c) ==
  /\ jobs[c].at = "authenticated"
  /\ IF commands[c].status = "queued" THEN SetStatus(c, memo[c]) ELSE UNCHANGED commands
  /\ Settles(c)
  /\ UNCHANGED <<enrolled, beats, memo, journal, history, disturbances>>

\* The process stops; if it does so while it writes the journal, the earlier outcomes go with the file.
HostCrashes(a) ==
  /\ host[a].up
  /\ Disturbance
  /\ host' = [host EXCEPT ![a] = Idle(FALSE)]
  /\ jobs' = [c \in CommandIds |-> IF c \in CommandsOf(a) THEN NoJob ELSE jobs[c]]
  /\ memo' = [c \in CommandIds |-> IF c \in CommandsOf(a) THEN "none" ELSE memo[c]]
  /\ \/ UNCHANGED journal
     \/ JournalTorn(a) /\ \E c \in CommandsOf(a) : ComesTo(c) # {}
  /\ unrecorded' = unrecorded \union
       {c \in CommandsOf(a) : jobs[c].at = "executing" \/ memo[c] # journal'[c]}
  /\ UNCHANGED <<platformRows, runs>>

\* readCommandJournal.
HostStarts(a) ==
  /\ ~host[a].up
  /\ host' = [host EXCEPT ![a] = Idle(TRUE)]
  /\ memo' = [c \in CommandIds |->
                IF c \in DOMAIN commands /\ commands[c].agent = a THEN journal[c] ELSE memo[c]]
  /\ UNCHANGED <<platformRows, jobs, journal, history, disturbances>>

-----------------------------------------------------------------------------
JobStep(c) ==
  \/ Replays(c) \/ Executes(c) \/ RefusesExpired(c) \/ Finishes(c)
  \/ AcknowledgeAuthenticates(c) \/ AcknowledgeFails(c) \/ Acknowledges(c)

RegistryStep ==
  \/ \E a \in Hosts :
       \/ HeartbeatBegins(a) \/ HeartbeatWrites(a) \/ Revoke(a)
       \/ \E v \in VMs, op \in {"ordinary", "power_off"} : CreateCommand(a, v, op)
  \/ \E c \in DOMAIN commands :
       InsertCommand(c) \/ SupersedeCommand(c) \/ CommandExpires(c)
  \/ SweepCommands

CommandsNext ==
  \/ RegistryStep
  \/ \E a \in Hosts :
       Poll(a) \/ Dispatch(a) \/ HostCrashes(a) \/ HostStarts(a)
  \/ \E c \in DOMAIN commands : JobStep(c) \/ JournalFails(c)

CommandsSpec == CommandsInit /\ [][CommandsNext]_commandVars

-----------------------------------------------------------------------------
\* Every variable has its type.
CommandsTypeOK ==
  /\ enrolled \in [Hosts -> Enrolled]
  /\ beats \subseteq Hosts
  /\ commands \in Seq(Command) /\ Len(commands) <= MaxCommands
  /\ host \in [Hosts -> Host]
  /\ jobs \in [CommandIds -> Job]
  /\ memo \in [CommandIds -> Outcomes \union {"none"}]
  /\ journal \in [CommandIds -> Outcomes \union {"none"}]
  /\ runs \in [CommandIds -> Nat]
  /\ unrecorded \subseteq CommandIds
  /\ disturbances \in 0..MaxDisturbances

\* A command delivered again is answered and not run again, unless the agent's process stopped
\* after beginning it and before its outcome was in the journal, or lost the journal in its writing.
RunsAgainOnlyUnrecorded ==
  \A c \in CommandIds : runs[c] > 1 => c \in unrecorded

\* The result the platform shows is the one the agent would answer with again, unless it lost its
\* record of it.
ResultIsOnRecord ==
  \A c \in DOMAIN commands :
    (commands[c].status \in Outcomes /\ host[commands[c].agent].up /\ c \notin unrecorded)
      => memo[c] = commands[c].status

\* So an agent knows what it did: neither is a command run twice nor its outcome told otherwise.
OutcomesAreKnown == RunsAgainOnlyUnrecorded /\ ResultIsOnRecord

\* Two operations on a virtual machine are under way at once only after a power_off has been
\* dispatched while one of them was in flight.
OneAtATimePerVM ==
  \A c, e \in DOMAIN commands :
    (/\ commands[c].agent = commands[e].agent /\ commands[c].vm = commands[e].vm
     /\ jobs[c].at = "executing" /\ jobs[e].at = "executing")
      => c = e \/ jobs[c].passed \/ jobs[e].passed

\* What is known of each command is what happened, and commands of one machine take turns.
CommandsHold == OutcomesAreKnown /\ OneAtATimePerVM

\* While an agent is revoked none of its results is recorded, though it answers a command it got
\* before.
NothingFromTheRevoked ==
  [][\A c \in DOMAIN commands :
       enrolled[commands[c].agent] = "revoked"
         => (commands'[c].status \in Outcomes => commands[c].status \in Outcomes)]_commandVars

\* A closed command keeps its result: of acknowledgement, supersession, expiry and revocation one wins.
ClosedOnce ==
  [][\A c \in DOMAIN commands :
       commands[c].status \in Outcomes \union Rejected => commands'[c].status = commands[c].status]_commandVars

\* A command is closed once, by whoever comes first, and not by the answer of an agent that was
\* revoked before.
ClosedForGood == ClosedOnce /\ NothingFromTheRevoked
=============================================================================
