----------------------------- MODULE MCServices -----------------------------
(***************************************************************************)
(* The services of a Nuvrion process that share no state, each on a small  *)
(* instance, one run for all of them: a behaviour is one service's, chosen *)
(* at its start, and the others stay as they begin.                        *)
(***************************************************************************)
EXTENDS AgentCommands, Schedules, Alerts, Discovery, Broker, ResourceTags, SavedViews

VARIABLE focus   \* the service that this behaviour is about

\* Zones whose wall clock is set back and set forward by the time that LocalToUtc looks around.
Back    == [before |-> 4, after |-> 2, change |-> 3]
Forward == [before |-> -2, after |-> 0, change |-> 2]
Settings1 == { [kind |-> "daily",  at |-> 0, days |-> {},  zone |-> Back,    enabled |-> TRUE],
               [kind |-> "weekly", at |-> 1, days |-> {0}, zone |-> Forward, enabled |-> TRUE],
               [kind |-> "once",   at |-> 0, days |-> {1}, zone |-> Back,    enabled |-> FALSE] }

\* Keys and names that differ in case, a key with a reserved prefix, and what may be asked of tags.
MCPlain  == [k \in TypedKeys |-> IF k = "Env" THEN "env" ELSE k]
MCFolded == [n \in {"web", "Web", "db", "ci"} |-> IF n = "Web" THEN "web" ELSE n]
Tag(k, v) == [key |-> k, value |-> v]
Ask(rs, s, k) == [resources |-> rs, set |-> s, remove |-> k]
OneResource == {CHOOSE r \in Resources : TRUE}
MCAsked == { Ask(Resources, {Tag("env", "a")}, {}), Ask(OneResource, {Tag("Env", "b")}, {}),
             Ask(Resources, {Tag("owner", "a")}, {"env"}), Ask(OneResource, {Tag("owner", "a")}, {}),
             Ask(OneResource, {}, {"Env"}), Ask(OneResource, {Tag("env", "a"), Tag("Env", "b")}, {}),
             Ask(OneResource, {Tag("env", "a")}, {"Env"}), Ask(OneResource, {Tag("aws:x", "a")}, {}) }

ServicesInit ==
  /\ focus \in {"commands", "schedules", "alerts", "discovery", "broker", "tags", "views"}
  /\ CommandsInit /\ SchedulesInit /\ AlertsInit /\ DiscoveryInit /\ BrokerInit /\ TagsInit /\ ViewsInit
  /\ focus # "discovery" => \A c \in Connections : providers[c] = [answers |-> "yes", machine |-> "running"]
  /\ focus # "broker" => current = CHOOSE k \in Sockets : TRUE

inventoryVars == <<tagVars, viewVars>>
serviceVars   == <<commandVars, scheduleVars, alertVars, discoveryVars, brokerVars>>

ServicesStep ==
  \/ focus = "commands"  /\ CommandsNext  /\ UNCHANGED <<scheduleVars, alertVars, discoveryVars, brokerVars>>
  \/ focus = "schedules" /\ SchedulesNext /\ UNCHANGED <<commandVars, alertVars, discoveryVars, brokerVars>>
  \/ focus = "alerts"    /\ AlertsNext    /\ UNCHANGED <<commandVars, scheduleVars, discoveryVars, brokerVars>>
  \/ focus = "discovery" /\ DiscoveryNext /\ UNCHANGED <<commandVars, scheduleVars, alertVars, brokerVars>>
  \/ focus = "broker"    /\ BrokerNext    /\ UNCHANGED <<commandVars, scheduleVars, alertVars, discoveryVars>>

ServicesNext ==
  \/ ServicesStep /\ UNCHANGED <<inventoryVars, focus>>
  \/ focus = "tags"  /\ TagsNext  /\ UNCHANGED <<serviceVars, viewVars, focus>>
  \/ focus = "views" /\ ViewsNext /\ UNCHANGED <<serviceVars, tagVars, focus>>

servicesVars == <<serviceVars, inventoryVars, focus>>

ServicesSpec == ServicesInit /\ [][ServicesNext]_servicesVars

\* The type invariant of the service that moves.
ServicesTypeOK ==
  /\ focus = "commands"  => CommandsTypeOK
  /\ focus = "schedules" => SchedulesTypeOK
  /\ focus = "alerts"    => AlertsTypeOK
  /\ focus = "discovery" => DiscoveryTypeOK
  /\ focus = "broker"    => BrokerTypeOK
  /\ focus = "tags"      => TagsTypeOK
  /\ focus = "views"     => ViewsTypeOK
=============================================================================
