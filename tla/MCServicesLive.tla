--------------------------- MODULE MCServicesLive ---------------------------
(***************************************************************************)
(* What the services promise to come to, one run for all of them: as in    *)
(* MCServices, a behaviour is one service's, and only its own steps are    *)
(* fair.                                                                   *)
(***************************************************************************)
EXTENDS Webhooks, Schedules, Alerts, Discovery, Broker, AgentUpgrades

VARIABLE focus   \* the service that this behaviour is about

\* A zone whose clocks go back, and the settings that a schedule there may get.
Back == [before |-> 4, after |-> 2, change |-> 3]
LiveSettings == { [kind |-> "daily", at |-> 0, days |-> {}, zone |-> Back, enabled |-> on] : on \in BOOLEAN }

LiveInit ==
  /\ focus \in {"webhooks", "schedules", "alerts", "discovery", "broker", "upgrades"}
  /\ Init /\ SchedulesInit /\ AlertsInit /\ DiscoveryInit /\ BrokerInit /\ UpgradeInit
  /\ focus # "discovery" => \A c \in Connections : providers[c] = [answers |-> "yes", machine |-> "running"]
  /\ focus # "broker" => current = CHOOSE k \in Sockets : TRUE

ServicesNext ==
  \/ focus = "webhooks"  /\ Next          /\ UNCHANGED <<scheduleVars, alertVars, discoveryVars, brokerVars>>
  \/ focus = "schedules" /\ SchedulesNext /\ UNCHANGED <<vars, alertVars, discoveryVars, brokerVars>>
  \/ focus = "alerts"    /\ AlertsNext    /\ UNCHANGED <<vars, scheduleVars, discoveryVars, brokerVars>>
  \/ focus = "discovery" /\ DiscoveryNext /\ UNCHANGED <<vars, scheduleVars, alertVars, brokerVars>>
  \/ focus = "broker"    /\ BrokerNext    /\ UNCHANGED <<vars, scheduleVars, alertVars, discoveryVars>>

serviceVars == <<vars, scheduleVars, alertVars, discoveryVars, brokerVars>>

LiveNext ==
  \/ ServicesNext /\ UNCHANGED <<upgradeVars, focus>>
  \/ focus = "upgrades" /\ UpgradeNext /\ UNCHANGED <<serviceVars, focus>>

LiveSpec ==
  /\ LiveInit
  /\ [][LiveNext]_<<serviceVars, upgradeVars, focus>>
  /\ \A p \in Processes : /\ WF_vars(focus = "webhooks" /\ RoundStep(p))
                          /\ WF_vars(focus = "webhooks" /\ SendStep(p))
  /\ \A k \in Pairs : /\ WF_vars(focus = "webhooks" /\ ComesDue(k))
                      /\ WF_vars(focus = "webhooks" /\ ClaimEnds(k))
  /\ \A r \in Runners : WF_scheduleVars(focus = "schedules" /\ RunnerStep(r))
  /\ \A p \in Evaluators : WF_alertVars(focus = "alerts" /\ EvaluationStep(p))
  /\ \A s \in Schedulers : WF_discoveryVars(focus = "discovery" /\ Round(s))
  /\ \A c \in Connections :
       /\ WF_discoveryVars(focus = "discovery" /\ RetryTimeComes(c))
       /\ WF_discoveryVars(focus = "discovery" /\ DeletionStep(c))
       /\ WF_discoveryVars(focus = "discovery" /\ OperationStep(c))
       /\ \A a \in Actors : WF_discoveryVars(focus = "discovery" /\ VisitStep(a, c))
  /\ WF_brokerVars(focus = "broker" /\ Subscribe)
  /\ WF_brokerVars(focus = "broker" /\ Reconnect)
  /\ WF_brokerVars(focus = "broker" /\ AttemptStep)
  /\ \A k \in Sockets : WF_brokerVars(focus = "broker" /\ SocketEvent(k))
  /\ \A a \in Agents :
       /\ WF_upgradeVars(focus = "upgrades" /\ agent[a].runs \in Healthy /\ PollStep(a))
       /\ SF_upgradeVars(focus = "upgrades" /\ agent[a].runs \in Healthy /\ IsHeard(a))
       /\ SF_upgradeVars(focus = "upgrades" /\ agent[a].runs \in Healthy /\ TakesSome(a))
       /\ WF_upgradeVars(focus = "upgrades" /\ Heartbeats(a))
       /\ WF_upgradeVars(focus = "upgrades" /\ ReportInstalled(a))
       /\ WF_upgradeVars(focus = "upgrades" /\ WatchdogStep(a))
       /\ WF_upgradeVars(focus = "upgrades" /\ TaskStarts(a))

\* Webhooks: what a webhook is owed is queued and sent, given up or no longer owed.
DeliveriesEnd     == focus = "webhooks" => OwedIsSettled

\* The timers of schedules and alerts come to what waits for them: what is due is claimed, and
\* an open alert whose condition has gone, or that no rule covers, is resolved.
TimersSeeToIt     == /\ focus = "schedules" => DueIsClaimed
                     /\ focus = "alerts" => AlertsFollowTheirRule

\* Discovery: what is kept of a connection comes to agree with the provider.
ConnectionsSettle == focus = "discovery" => EveryConnectionSettles

\* Broker: the process comes to publish and consume again.
BrokerRecovers    == focus = "broker" => BrokerComesBack

\* Upgrades: a host that is not stranded comes to run a healthy version, ...
HostsComeBack     == focus = "upgrades" => AgentComesBack

\* ... and every deployment gets a result, but behind a rollback that the platform refuses.
UpgradesEnd       == focus = "upgrades" => EveryUpgradeEnds
=============================================================================
