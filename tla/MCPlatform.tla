----------------------------- MODULE MCPlatform -----------------------------
(***************************************************************************)
(* Webhooks, the accounts and their second step, what leaves the host, and *)
(* the rules of MCRules: parts that share no state, each on a small        *)
(* instance, one run for all of them.  A behaviour is one part's, chosen   *)
(* at its start, and the others stay as they begin.                        *)
(***************************************************************************)
EXTENDS Webhooks, TwoStep, Accounts, Backups, Evidence, MCRules

VARIABLE focus   \* the part that this behaviour is about

\* The members of each of these sets are alike: processes may be exchanged, and
\* the members of all the other sets at once.
Twins    == {Events, Sessions, Updates, Pulls, Archivers}
Other(x, sets) == CHOOSE y \in UNION sets : y # x /\ \E S \in sets : {x, y} \subseteq S
Exchange(sets) == [x \in UNION (Twins \cup {Processes}) |->
                    IF x \in UNION sets THEN Other(x, sets) ELSE x]
Symmetry == {Exchange(sets) : sets \in {{}, Twins, {Processes}, Twins \cup {Processes}}}

StoreFoci == {"webhooks", "twostep", "accounts", "backups", "evidence"}

PlatformInit ==
  /\ focus \in StoreFoci \cup RuleFoci
  /\ Init /\ TwoStepInit /\ AccountsInit /\ BackupsInit /\ EvidenceInit
  /\ RulesInit(focus)

storeVars == <<vars, twoStepVars, accountVars, backupVars, evidenceVars>>

StoresNext ==
  \/ focus = "webhooks" /\ Next         /\ UNCHANGED <<twoStepVars, accountVars, backupVars, evidenceVars>>
  \/ focus = "twostep"  /\ TwoStepNext  /\ UNCHANGED <<vars, accountVars, backupVars, evidenceVars>>
  \/ focus = "accounts" /\ AccountsNext /\ UNCHANGED <<vars, twoStepVars, backupVars, evidenceVars>>
  \/ focus = "backups"  /\ BackupsNext  /\ UNCHANGED <<vars, twoStepVars, accountVars, evidenceVars>>
  \/ focus = "evidence" /\ EvidenceNext /\ UNCHANGED <<vars, twoStepVars, accountVars, backupVars>>

PlatformNext ==
  \/ StoresNext /\ UNCHANGED <<ruleVars, focus>>
  \/ RulesNext(focus) /\ UNCHANGED <<storeVars, focus>>

platformVars == <<storeVars, ruleVars, focus>>

PlatformSpec == PlatformInit /\ [][PlatformNext]_platformVars

\* The type invariant of the part that moves.
PlatformTypeOK ==
  /\ focus = "webhooks" => TypeOK
  /\ focus = "twostep"  => TwoStepTypeOK
  /\ focus = "accounts" => AccountsTypeOK
  /\ focus = "backups"  => BackupsTypeOK
  /\ focus = "evidence" => EvidenceTypeOK
=============================================================================
