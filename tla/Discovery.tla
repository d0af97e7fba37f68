----------------------------- MODULE Discovery -----------------------------
(***************************************************************************)
(* Connections to providers: their discovery, health, alerts and deletion, *)
(* and what the inventory keeps of them.                                   *)
(*                                                                         *)
(* One machine and one infrastructure object stand for all of a            *)
(* connection.  A step ends where the code awaits: a statement of the      *)
(* connection service is a step, a synchronization is one transaction.     *)
(* Credentials, trust pins, diagnostics, measurements and severities are   *)
(* left out, and so is reconcileConnection, which is TaskReconciliation's. *)
(***************************************************************************)
EXTENDS Common, Integers

CONSTANTS
  Connections,        \* connections to providers
  Schedulers,         \* discovery schedulers, one for each Nuvrion process
  Discoverers,        \* people's requests: "discover now" or "test"
  RetryAttempts,      \* attempts of a scheduled discovery
  MaxProviderChanges, \* bound of the model: what a provider's state changes
  MaxPeopleSteps      \* bound of the model: requests, deletions, edits, operations

ASSUME DiscoveryAssumption ==
  /\ RetryAttempts \in Nat \ {0}
  /\ MaxProviderChanges \in Nat /\ MaxPeopleSteps \in Nat
  /\ Schedulers \intersect Discoverers = {}

VARIABLES
  providers,     \* what is true of each provider: whether it answers, and its machine
  links,         \* connections.provider_connections
  linkAlerts,    \* the open row of connections.health_alerts
  resources,     \* inventory.resources and virtual_machines
  objects,       \* inventory.infrastructure_objects
  visits,        \* each actor's call on each connection
  deletions,     \* how far a DELETE of the connection is
  operations,    \* an operation on the machine
  providerChanges, peopleSteps  \* how much of the bounds is used

discoveryVars == <<providers, links, linkAlerts, resources, objects, visits, deletions,
                   operations, providerChanges, peopleSteps>>

-----------------------------------------------------------------------------
Actors == Schedulers \union Discoverers
Powers == {"running", "stopped"}
Stored == {"none", "active", "missing", "deleted"}

Provider == [answers: {"yes", "busy", "refuses"}, machine: Powers \union {"absent"}]
Link == [status: {"none", "enabled", "deleted"},
         health: {"unknown", "healthy", "unhealthy", "critical"},
         failures: 0..3, waits: BOOLEAN]   \* three failures stand for more
Visit == [at: {"none", "starting", "observed", "synced", "recovering", "asking", "reported",
               "failed", "alerting", "sleeping"},
          tests: BOOLEAN, seen: Powers \union {"absent"}, attempt: 0..RetryAttempts,
          retry: BOOLEAN]

NoVisit == [at |-> "none", tests |-> FALSE, seen |-> "absent", attempt |-> 0, retry |-> FALSE]

DiscoveryInit ==
  /\ providers \in [Connections -> {p \in Provider : p.answers # "refuses" /\ p.machine # "stopped"}]
  /\ links = [c \in Connections |-> [status |-> "none", health |-> "unknown",
                                     failures |-> 0, waits |-> FALSE]]
  /\ linkAlerts = [c \in Connections |-> "none"]
  /\ resources = [c \in Connections |-> [state |-> "none", power |-> "stopped"]]
  /\ objects = [c \in Connections |-> "none"]
  /\ visits = [a \in Actors |-> [c \in Connections |-> NoVisit]]
  /\ deletions = [c \in Connections |-> "none"]
  /\ operations = [c \in Connections |-> None]
  /\ providerChanges = 0 /\ peopleSteps = 0

Enabled(c) == links[c].status = "enabled"
PeopleStep == peopleSteps < MaxPeopleSteps /\ peopleSteps' = peopleSteps + 1
Visiting(a) == \E c \in Connections : visits[a][c].at # "none"
Moves(a, c, at) == visits' = [visits EXCEPT ![a][c].at = at]

\* The call on this connection is over.
Leaves(a, c) == visits' = [visits EXCEPT ![a][c] = NoVisit]

-----------------------------------------------------------------------------
ProviderChanges(c) ==
  /\ providerChanges < MaxProviderChanges /\ providerChanges' = providerChanges + 1
  /\ \E p \in Provider : p # providers[c] /\ providers' = [providers EXCEPT ![c] = p]
  /\ UNCHANGED <<links, linkAlerts, resources, objects, visits, deletions, operations,
                 peopleSteps>>

CreateConnection(c) ==
  /\ links[c].status = "none"
  /\ links' = [links EXCEPT ![c].status = "enabled"]
  /\ UNCHANGED <<providers, linkAlerts, resources, objects, visits, deletions, operations,
                 providerChanges, peopleSteps>>

\* next_retry_at is reached.
RetryTimeComes(c) ==
  /\ links[c].waits
  /\ links' = [links EXCEPT ![c].waits = FALSE]
  /\ UNCHANGED <<providers, linkAlerts, resources, objects, visits, deletions, operations,
                 providerChanges, peopleSteps>>

\* A new name, address or credential is tried at once.
EditConnection(c) ==
  /\ PeopleStep
  /\ Enabled(c)
  /\ links' = [links EXCEPT ![c].waits = FALSE]
  /\ UNCHANGED <<providers, linkAlerts, resources, objects, visits, deletions, operations,
                 providerChanges>>

AcknowledgeAlert(c) ==
  /\ PeopleStep
  /\ linkAlerts[c] = "active"
  /\ linkAlerts' = [linkAlerts EXCEPT ![c] = "acknowledged"]
  /\ UNCHANGED <<providers, links, resources, objects, visits, deletions, operations,
                 providerChanges>>

-----------------------------------------------------------------------------
(***************************************************************************)
(* A visit: discovery, or a test                                           *)
(***************************************************************************)
\* Mutant: the deleted connections are listed too.
DueEvenDeleted == {c \in Connections : links[c].status # "none" /\ ~links[c].waits}

Due == {c \in Connections : Enabled(c) /\ ~links[c].waits}

Begun(tests) == [NoVisit EXCEPT !.at = "starting", !.tests = tests, !.attempt = 1]

\* run: the connections that are due, all at once; the next round waits for the last.
Round(s) ==
  /\ ~Visiting(s)
  /\ Due # {}
  /\ visits' = [visits EXCEPT ![s] = [c \in Connections |->
                                        IF c \in Due THEN Begun(FALSE) ELSE NoVisit]]
  /\ UNCHANGED <<providers, links, linkAlerts, resources, objects, deletions, operations,
                 providerChanges, peopleSteps>>

DiscoverOrTest(d, c) ==
  /\ PeopleStep
  /\ ~Visiting(d) /\ Enabled(c)
  /\ \E tests \in BOOLEAN : visits' = [visits EXCEPT ![d][c] = Begun(tests)]
  /\ UNCHANGED <<providers, links, linkAlerts, resources, objects, deletions, operations,
                 providerChanges>>

\* The provider answers what is true during the call.  A deleted connection has no
\* credential any more; a Workstation agent is asked without one.  Only an error of a
\* busy provider is worth trying again.
Calls(a, c) ==
  /\ visits[a][c].at = "starting"
  /\ \/ /\ providers[c].answers = "yes"
        /\ visits' = [visits EXCEPT ![a][c].at = IF visits[a][c].tests THEN "synced" ELSE "observed",
                                    ![a][c].seen = providers[c].machine]
     \/ /\ providers[c].answers # "yes" \/ ~Enabled(c)
        /\ visits' = [visits EXCEPT ![a][c].at = "failed",
                                    ![a][c].retry = (providers[c].answers = "busy")]
  /\ UNCHANGED <<providers, links, linkAlerts, resources, objects, deletions, operations,
                 providerChanges, peopleSteps>>

\* What is not reported is missing, unless it is already, or retired.
Missing(state) == IF state = "active" THEN "missing" ELSE state

\* inventory.synchronize: the last to write, not the last to look, is believed.
Synchronizes(a, c) ==
  /\ visits[a][c].at = "observed"
  /\ resources' = [resources EXCEPT ![c] =
       IF visits[a][c].seen = "absent" THEN [resources[c] EXCEPT !.state = Missing(@)]
       ELSE [state |-> "active", power |-> visits[a][c].seen]]
  /\ Moves(a, c, "synced")
  /\ UNCHANGED <<providers, links, linkAlerts, objects, deletions, operations,
                 providerChanges, peopleSteps>>

\* recordSync, or recordHealth of a test: whether the connection is deleted is not asked.
RecordsHealthy(a, c) ==
  /\ visits[a][c].at = "synced"
  /\ links' = [links EXCEPT ![c].health = "healthy", ![c].failures = 0, ![c].waits = FALSE]
  /\ Moves(a, c, "recovering")
  /\ UNCHANGED <<providers, linkAlerts, resources, objects, deletions, operations,
                 providerChanges, peopleSteps>>
\* Mutant: an acknowledged alert is not recovered.
RecoversAlertActive(a, c) ==
  /\ visits[a][c].at = "recovering"
  /\ linkAlerts' = [linkAlerts EXCEPT ![c] = IF @ = "active" THEN "none" ELSE @]
  /\ IF visits[a][c].tests THEN Leaves(a, c) ELSE Moves(a, c, "asking")
  /\ UNCHANGED <<providers, links, resources, objects, deletions, operations,
                 providerChanges, peopleSteps>>

RecoversAlert(a, c) ==
  /\ visits[a][c].at = "recovering"
  /\ linkAlerts' = [linkAlerts EXCEPT ![c] = "none"]
  /\ IF visits[a][c].tests THEN Leaves(a, c) ELSE Moves(a, c, "asking")
  /\ UNCHANGED <<providers, links, resources, objects, deletions, operations,
                 providerChanges, peopleSteps>>

\* #discoverInfrastructure never fails the discovery.
AsksInfrastructure(a, c) ==
  /\ visits[a][c].at = "asking"
  /\ \/ providers[c].answers = "yes" /\ Moves(a, c, "reported")
     \/ (providers[c].answers # "yes" \/ ~Enabled(c)) /\ Leaves(a, c)
  /\ UNCHANGED <<providers, links, linkAlerts, resources, objects, deletions, operations,
                 providerChanges, peopleSteps>>

SynchronizesObjects(a, c) ==
  /\ visits[a][c].at = "reported"
  /\ objects' = [objects EXCEPT ![c] = "active"]
  /\ Leaves(a, c)
  /\ UNCHANGED <<providers, links, linkAlerts, resources, deletions, operations,
                 providerChanges, peopleSteps>>

\* recordFailure: a scheduled attempt waits for its retry time, a person's does not.
RecordsFailure(a, c) ==
  /\ visits[a][c].at = "failed"
  /\ LET failures == IF links[c].failures = 3 THEN 3 ELSE links[c].failures + 1 IN
     links' = [links EXCEPT ![c].failures = failures, ![c].waits = (a \in Schedulers),
                            ![c].health = IF failures = 3 THEN "critical" ELSE "unhealthy"]
  /\ Moves(a, c, "alerting")
  /\ UNCHANGED <<providers, linkAlerts, resources, objects, deletions, operations,
                 providerChanges, peopleSteps>>

\* #upsertAlert; then a scheduled visit may try again.
RaisesAlert(a, c) ==
  /\ visits[a][c].at = "alerting"
  /\ linkAlerts' = [linkAlerts EXCEPT ![c] = IF @ = "none" THEN "active" ELSE @]
  /\ IF a \in Schedulers /\ visits[a][c].retry /\ visits[a][c].attempt < RetryAttempts
     THEN Moves(a, c, "sleeping")
     ELSE Leaves(a, c)
  /\ UNCHANGED <<providers, links, resources, objects, deletions, operations,
                 providerChanges, peopleSteps>>

TriesAgain(a, c) ==
  /\ visits[a][c].at = "sleeping"
  /\ visits' = [visits EXCEPT ![a][c].at = "starting", ![a][c].attempt = @ + 1,
                              ![a][c].retry = FALSE]
  /\ UNCHANGED <<providers, links, linkAlerts, resources, objects, deletions, operations,
                 providerChanges, peopleSteps>>

-----------------------------------------------------------------------------
(***************************************************************************)
(* DELETE of a connection: three statements and one for the alert          *)
(***************************************************************************)
Retired(state) == IF state = "none" THEN "none" ELSE "deleted"

RetireResources(c) ==
  /\ PeopleStep
  /\ Enabled(c) /\ deletions[c] = "none"
  /\ deletions' = [deletions EXCEPT ![c] = "resources"]
  /\ resources' = [resources EXCEPT ![c].state = Retired(@)]
  /\ UNCHANGED <<providers, links, linkAlerts, objects, visits, operations, providerChanges>>

RetireObjects(c) ==
  /\ deletions[c] = "resources"
  /\ deletions' = [deletions EXCEPT ![c] = "objects"]
  /\ objects' = [objects EXCEPT ![c] = Retired(@)]
  /\ UNCHANGED <<providers, links, linkAlerts, resources, visits, operations,
                 providerChanges, peopleSteps>>

RemoveRow(c) ==
  /\ deletions[c] = "objects"
  /\ deletions' = [deletions EXCEPT ![c] = "row"]
  /\ links' = [links EXCEPT ![c].status = "deleted", ![c].health = "unknown", ![c].waits = FALSE]
  /\ UNCHANGED <<providers, linkAlerts, resources, objects, visits, operations,
                 providerChanges, peopleSteps>>

RecoverRemoved(c) ==
  /\ deletions[c] = "row"
  /\ deletions' = [deletions EXCEPT ![c] = "done"]
  /\ linkAlerts' = [linkAlerts EXCEPT ![c] = "none"]
  /\ UNCHANGED <<providers, links, resources, objects, visits, operations,
                 providerChanges, peopleSteps>>

-----------------------------------------------------------------------------
(***************************************************************************)
(* An operation on the machine                                             *)
(***************************************************************************)
\* validateOperation accepts what is active, and asks nothing of the connection.
RequestsOperation(c) ==
  /\ PeopleStep
  /\ operations[c] = None /\ resources[c].state = "active"
  /\ \E p \in Powers \ {resources[c].power} :
       operations' = [operations EXCEPT ![c] = [to |-> p, executed |-> FALSE]]
  /\ UNCHANGED <<providers, links, linkAlerts, resources, objects, visits, deletions,
                 providerChanges>>

\* ProviderRouter.execute: where the connection is deleted, the mock provider accepts.
ExecutesOperation(c) ==
  /\ operations[c] # None /\ ~operations[c].executed
  /\ \/ /\ operations' = [operations EXCEPT ![c].executed = TRUE]
        /\ providers' = [providers EXCEPT ![c].machine =
             IF Enabled(c) /\ @ # "absent" THEN operations[c].to ELSE @]
     \/ /\ operations' = [operations EXCEPT ![c] = None]      \* refused
        /\ UNCHANGED providers
  /\ UNCHANGED <<links, linkAlerts, resources, objects, visits, deletions, providerChanges,
                 peopleSteps>>

\* applyOperation: the verified state, over what a discovery has found meanwhile.
AppliesOperation(c) ==
  /\ operations[c] # None /\ operations[c].executed
  /\ resources' = [resources EXCEPT ![c].power = operations[c].to]
  /\ operations' = [operations EXCEPT ![c] = None]
  /\ UNCHANGED <<providers, links, linkAlerts, objects, visits, deletions, providerChanges,
                 peopleSteps>>

-----------------------------------------------------------------------------
VisitStep(a, c) ==
  \/ Calls(a, c) \/ Synchronizes(a, c) \/ RecordsHealthy(a, c) \/ RecoversAlert(a, c)
  \/ AsksInfrastructure(a, c) \/ SynchronizesObjects(a, c)
  \/ RecordsFailure(a, c) \/ RaisesAlert(a, c) \/ TriesAgain(a, c)

DeletionStep(c)  == RetireObjects(c) \/ RemoveRow(c) \/ RecoverRemoved(c)
OperationStep(c) == ExecutesOperation(c) \/ AppliesOperation(c)

DiscoveryNext ==
  \/ \E s \in Schedulers : Round(s)
  \/ \E c \in Connections :
       \/ ProviderChanges(c) \/ CreateConnection(c) \/ RetryTimeComes(c) \/ EditConnection(c)
       \/ AcknowledgeAlert(c) \/ RetireResources(c) \/ DeletionStep(c)
       \/ RequestsOperation(c) \/ OperationStep(c)
       \/ \E d \in Discoverers : DiscoverOrTest(d, c)
       \/ \E a \in Actors : VisitStep(a, c)

\* The timer goes on, time passes, and what is begun is not abandoned.
DiscoveryFairness ==
  /\ \A s \in Schedulers : WF_discoveryVars(Round(s))
  /\ \A c \in Connections :
       /\ WF_discoveryVars(RetryTimeComes(c))
       /\ WF_discoveryVars(DeletionStep(c))
       /\ WF_discoveryVars(OperationStep(c))
       /\ \A a \in Actors : WF_discoveryVars(VisitStep(a, c))

DiscoverySpec     == DiscoveryInit /\ [][DiscoveryNext]_discoveryVars
FairDiscoverySpec == DiscoverySpec /\ DiscoveryFairness

-----------------------------------------------------------------------------
(***************************************************************************)
(* What is to be true                                                      *)
(***************************************************************************)
\* Every variable has its type, and a row's health is what its failures make it.
DiscoveryTypeOK ==
  /\ providers \in [Connections -> Provider]
  /\ links \in [Connections -> Link]
  /\ linkAlerts \in [Connections -> {"none", "active", "acknowledged"}]
  /\ resources \in [Connections -> [state: Stored, power: Powers]]
  /\ objects \in [Connections -> Stored]
  /\ visits \in [Actors -> [Connections -> Visit]]
  /\ deletions \in [Connections -> {"none", "resources", "objects", "row", "done"}]
  /\ operations \in [Connections -> {None} \union [to: Powers, executed: BOOLEAN]]
  /\ providerChanges \in 0..MaxProviderChanges /\ peopleSteps \in 0..MaxPeopleSteps
  /\ \A c \in Connections :
       /\ links[c].health = "healthy" => links[c].failures = 0 /\ ~links[c].waits
       /\ links[c].health = "critical" => links[c].failures = 3
       /\ links[c].waits => links[c].health \in {"unhealthy", "critical"}

\* A deleted connection that nobody visits, with no machine shown as active.
AtRestRemoved(c) ==
  /\ deletions[c] = "done" /\ operations[c] = None /\ resources[c].state # "active"
  /\ \A a \in Actors : visits[a][c].at = "none"

\* Once what was in hand when a connection was deleted is over, nothing that is kept of it
\* changes again: no round, request or operation begins on it.
RemovedStaysAtRest ==
  [][\A c \in Connections : AtRestRemoved(c) =>
       /\ AtRestRemoved(c)'
       /\ UNCHANGED <<links[c].status, links[c].health, resources[c], objects[c]>>
       /\ linkAlerts[c]' # "active" \/ linkAlerts[c] = "active"]_discoveryVars

\* "Deleting a connection retires its objects; they no longer appear anywhere"
\* (docs/infrastructure.md).
DeletedObjectsAreGone == \A c \in Connections : deletions[c] = "done" => objects[c] # "active"

\* What the connection's row, its alert and the inventory say is what is true.
Agrees(c) ==
  Enabled(c) =>
    IF providers[c].answers = "yes"
    THEN /\ links[c].health = "healthy" /\ linkAlerts[c] = "none"
         /\ objects[c] = "active"
         /\ IF providers[c].machine = "absent" THEN resources[c].state # "active"
            ELSE resources[c] = [state |-> "active", power |-> providers[c].machine]
    ELSE links[c].health \in {"unhealthy", "critical"} /\ linkAlerts[c] # "none"

\* However visits, retries, requests, operations and their late writes interleave, when
\* the provider no longer changes, what is kept comes to agree with it and stays so.
EveryConnectionSettles == \A c \in Connections : <>[]Agrees(c)
=============================================================================
