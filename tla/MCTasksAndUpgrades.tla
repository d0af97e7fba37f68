------------------------- MODULE MCTasksAndUpgrades -------------------------
(***************************************************************************)
(* The tasks with their reconciliation, and the upgrades of the agents: a  *)
(* behaviour is about one of the two, chosen at its start, and the other   *)
(* stays as it begins.  Workers are interchangeable, and so are scans and  *)
(* administrators.                                                         *)
(***************************************************************************)
EXTENDS TaskReconciliation, AgentUpgrades, TLC

VARIABLE focus   \* what this behaviour is about

Symmetry == Permutations(Workers) \cup Permutations(Scans) \cup Permutations(Admins)

BothInit ==
  /\ focus \in {"tasks", "upgrades"}
  /\ ReconcilerInit /\ UpgradeInit

BothNext ==
  \/ focus = "tasks"    /\ ReconcilerNext /\ UNCHANGED <<upgradeVars, focus>>
  \/ focus = "upgrades" /\ UpgradeNext    /\ UNCHANGED <<allVars, focus>>

BothSpec == BothInit /\ [][BothNext]_<<allVars, upgradeVars, focus>>
=============================================================================
