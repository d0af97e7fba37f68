------------------------------ MODULE Backups ------------------------------
(***************************************************************************)
(* The backup sets that leave the host: backup-nuvrion.sh makes them,      *)
(* `backup.js pull` fetches, checks, files and thins them out              *)
(* (backup-pull.js, backup-set.js).  The schedule runs it every hour and a *)
(* person may run it beside that; nothing keeps two of them apart.         *)
(*                                                                         *)
(* A set is named by its time, here a number.  A directory is a step at a  *)
(* time: a removal or a fetch that is under way, or that a crash cut       *)
(* short, leaves a part of it.                                             *)
(***************************************************************************)
EXTENDS Integers, FiniteSets

CONSTANTS
  Pulls,                  \* runs of `backup.js pull` that may overlap
  Hourly, Daily, Weekly,  \* retention: how many sets, days and weeks are kept
  SetsPerDay, SetsPerWeek,
  HostKeeps,              \* NUVRION_BACKUP_KEEP_SETS
  MaxSets,                \* bound of the model: sets the host makes
  MaxPullFaults           \* bound of the model: fetches that go wrong and pulls that stop

ASSUME BackupsAssumption ==
  /\ {Hourly, Daily, Weekly, HostKeeps, MaxSets, MaxPullFaults} \subseteq Nat
  /\ {SetsPerDay, SetsPerWeek} \subseteq Nat \ {0}

VARIABLES
  made,      \* how many sets the host has made: the last one's name
  listed,    \* the complete sets on the host
  flawed,    \* those that no check will pass: wrongly signed, or not restored
  incoming,  \* the directory of a set under incoming/, ...
  filed,      \* ... and under sets/
  pulls,     \* where each pull is, the set in hand, and the names it still has to see to
  shared,    \* history: sets whose incoming/ directory two pulls used at once
  pullFaults

backupVars == <<made, listed, flawed, incoming, filed, pulls, shared, pullFaults>>

-----------------------------------------------------------------------------
SetNames == 1..MaxSets
Contents == {"none", "part", "whole", "bad"}
Pull     == [at: {"idle", "choosing", "clearing", "fetching", "receiving", "checking", "filing", "quarantining",
                  "thinning", "removing"}, name: 0..MaxSets, names: SUBSET SetNames]
Resting  == [at |-> "idle", name |-> 0, names |-> {}]

BackupsInit ==
  /\ made = 0 /\ listed = {} /\ flawed = {}
  /\ incoming = [n \in SetNames |-> "none"] /\ filed = [n \in SetNames |-> "none"]
  /\ pulls = [p \in Pulls |-> Resting]
  /\ shared = {} /\ pullFaults = 0

-----------------------------------------------------------------------------
(***************************************************************************)
(* retentionPlan                                                           *)
(***************************************************************************)
Newest(S, k) == { n \in S : Cardinality({ m \in S : m > n }) < k }
NewestOfEach(S, part, k) ==
  LET parts == Newest({ part[n] : n \in S }, k)
  IN  { n \in S : part[n] \in parts /\ \A m \in S : part[m] = part[n] => m <= n }

Day  == [n \in SetNames |-> n \div SetsPerDay]
Week == [n \in SetNames |-> n \div SetsPerWeek]

Keep(S) ==
  LET older == S \ Newest(S, Hourly)
  IN  Newest(S, Hourly) \cup NewestOfEach(older, Day, Daily) \cup NewestOfEach(older, Week, Weekly)

FiledNames == { n \in SetNames : filed[n] # "none" }

-----------------------------------------------------------------------------
(***************************************************************************)
(* The host                                                                *)
(***************************************************************************)
\* COMPLETE is written last, and a run that fails leaves nothing; the oldest sets go.
MakeSet(good) ==
  /\ made < MaxSets /\ made' = made + 1
  /\ listed' = Newest(listed \cup {made'}, HostKeeps)
  /\ flawed' = IF good THEN flawed ELSE flawed \cup {made'}
  /\ UNCHANGED <<incoming, filed, pulls, shared, pullFaults>>

-----------------------------------------------------------------------------
(***************************************************************************)
(* pullBackups                                                             *)
(***************************************************************************)
Thinning == [at |-> "thinning", name |-> 0, names |-> FiledNames \ Keep(FiledNames)]

Turns(p, pull)     == pulls' = [pulls EXCEPT ![p] = pull]
Goes(p, place)     == Turns(p, [pulls[p] EXCEPT !.at = place])
DoneWith(p, place) == Turns(p, [pulls[p] EXCEPT !.at = place, !.names = pulls[p].names \ {pulls[p].name}])

\* listRemoteSets, and what of its plan is not filed.
Lists(p) ==
  /\ pulls[p].at = "idle"
  /\ Turns(p, [at |-> "choosing", name |-> 0, names |-> Keep(listed) \ FiledNames])
  /\ UNCHANGED <<made, listed, flawed, incoming, filed, shared, pullFaults>>

\* The host does not answer: what is filed is thinned out all the same.
ListingFails(p) ==
  /\ pulls[p].at = "idle"
  /\ pullFaults < MaxPullFaults /\ pullFaults' = pullFaults + 1
  /\ Turns(p, Thinning)
  /\ UNCHANGED <<made, listed, flawed, incoming, filed, shared>>

UsesIncoming(p, n) ==
  pulls[p].name = n /\ pulls[p].at \in {"clearing", "fetching", "receiving", "checking", "filing", "quarantining"}

\* removeSet of what is under incoming/ by that name ...
Chooses(p) ==
  /\ pulls[p].at = "choosing"
  /\ \E n \in Newest(pulls[p].names, 1) :
       /\ Turns(p, [pulls[p] EXCEPT !.at = "clearing", !.name = n])
       /\ incoming' = [incoming EXCEPT ![n] = IF incoming[n] = "none" THEN "none" ELSE "part"]
       /\ shared' = IF \E q \in Pulls \ {p} : UsesIncoming(q, n) THEN shared \cup {n} ELSE shared
  /\ UNCHANGED <<made, listed, flawed, filed, pullFaults>>

\* ... which takes its time.
Clears(p) ==
  /\ pulls[p].at = "clearing"
  /\ incoming' = [incoming EXCEPT ![pulls[p].name] = "none"]
  /\ Goes(p, "fetching")
  /\ UNCHANGED <<made, listed, flawed, filed, shared, pullFaults>>

\* rsync.
PullFetches(p) ==
  /\ pulls[p].at = "fetching"
  /\ incoming' = [incoming EXCEPT ![pulls[p].name] = "part"]
  /\ Goes(p, "receiving")
  /\ UNCHANGED <<made, listed, flawed, filed, shared, pullFaults>>

Received(p) ==
  LET n == pulls[p].name IN
  /\ pulls[p].at = "receiving" /\ n \in listed
  /\ incoming[n] # "none"
  /\ \/ incoming' = [incoming EXCEPT ![n] = IF n \in flawed THEN "bad" ELSE "whole"] /\ UNCHANGED pullFaults
     \/ /\ pullFaults < MaxPullFaults /\ pullFaults' = pullFaults + 1   \* damaged on the way
        /\ incoming' = [incoming EXCEPT ![n] = "bad"]
  /\ Goes(p, "checking")
  /\ UNCHANGED <<made, listed, flawed, filed, shared>>

\* The network failed, the host has removed the set, or the directory is not there any more:
\* what has come is removed.
PullFetchFails(p) ==
  LET n == pulls[p].name IN
  /\ pulls[p].at = "receiving"
  /\ IF n \notin listed \/ incoming[n] = "none" THEN UNCHANGED pullFaults
     ELSE pullFaults < MaxPullFaults /\ pullFaults' = pullFaults + 1
  /\ incoming' = [incoming EXCEPT ![n] = "none"]
  /\ DoneWith(p, "choosing")
  /\ UNCHANGED <<made, listed, flawed, filed, shared>>

\* Mutant: filed whatever the checks say, if it came to an end.
ChecksNothing(p) ==
  /\ pulls[p].at = "checking"
  /\ Goes(p, "filing")
  /\ UNCHANGED <<made, listed, flawed, incoming, filed, shared, pullFaults>>

\* checkBackupSet.
Checks(p) ==
  /\ pulls[p].at = "checking"
  /\ Goes(p, IF incoming[pulls[p].name] = "whole" THEN "filing" ELSE "quarantining")
  /\ UNCHANGED <<made, listed, flawed, incoming, filed, shared, pullFaults>>

\* rename, to sets/ or to quarantine/, of what the directory is by now.
Files(p) ==
  LET n == pulls[p].name IN
  /\ pulls[p].at = "filing"
  /\ incoming[n] # "none" /\ filed[n] = "none"
  /\ filed' = [filed EXCEPT ![n] = incoming[n]]
  /\ incoming' = [incoming EXCEPT ![n] = "none"]
  /\ DoneWith(p, "choosing")
  /\ UNCHANGED <<made, listed, flawed, shared, pullFaults>>

Quarantines(p) ==
  LET n == pulls[p].name IN
  /\ pulls[p].at = "quarantining"
  /\ incoming[n] # "none"
  /\ incoming' = [incoming EXCEPT ![n] = "none"]
  /\ DoneWith(p, "choosing")
  /\ UNCHANGED <<made, listed, flawed, filed, shared, pullFaults>>

\* A rename that fails ends the fetching, as does the end of the list; retention follows, over
\* what is filed.
PlansRetention(p) ==
  LET n == pulls[p].name IN
  /\ \/ pulls[p].at = "choosing" /\ pulls[p].names = {}
     \/ pulls[p].at = "filing" /\ (incoming[n] = "none" \/ filed[n] # "none")
     \/ pulls[p].at = "quarantining" /\ incoming[n] = "none"
  /\ Turns(p, Thinning)
  /\ UNCHANGED <<made, listed, flawed, incoming, filed, shared, pullFaults>>

RemovalBegins(p) ==
  /\ pulls[p].at = "thinning"
  /\ \E n \in Newest(pulls[p].names, 1) :
       /\ Turns(p, [pulls[p] EXCEPT !.at = "removing", !.name = n])
       /\ filed' = [filed EXCEPT ![n] = IF filed[n] = "none" THEN "none" ELSE "part"]
  /\ UNCHANGED <<made, listed, flawed, incoming, shared, pullFaults>>

RemovalEnds(p) ==
  /\ pulls[p].at = "removing"
  /\ filed' = [filed EXCEPT ![pulls[p].name] = "none"]
  /\ DoneWith(p, "thinning")
  /\ UNCHANGED <<made, listed, flawed, incoming, shared, pullFaults>>

PullEnds(p) ==
  /\ pulls[p].at = "thinning" /\ pulls[p].names = {}
  /\ Turns(p, Resting)
  /\ UNCHANGED <<made, listed, flawed, incoming, filed, shared, pullFaults>>

\* The computer sleeps, is switched off, or the program is ended.
PullStops(p) ==
  /\ pulls[p].at # "idle"
  /\ pullFaults < MaxPullFaults /\ pullFaults' = pullFaults + 1
  /\ Turns(p, Resting)
  /\ UNCHANGED <<made, listed, flawed, incoming, filed, shared>>

-----------------------------------------------------------------------------
PullStep(p) ==
  \/ Lists(p) \/ Chooses(p) \/ Clears(p) \/ PullFetches(p) \/ Received(p) \/ Checks(p)
  \/ Files(p) \/ Quarantines(p) \/ PlansRetention(p) \/ RemovalBegins(p) \/ RemovalEnds(p) \/ PullEnds(p)

BackupsNext ==
  \/ \E good \in BOOLEAN : MakeSet(good)
  \/ \E p \in Pulls : PullStep(p) \/ ListingFails(p) \/ PullFetchFails(p) \/ PullStops(p)

BackupsSpec == BackupsInit /\ [][BackupsNext]_backupVars

-----------------------------------------------------------------------------
(***************************************************************************)
(* What is to be true                                                      *)
(***************************************************************************)
\* Every variable has its type.
BackupsTypeOK ==
  /\ made \in 0..MaxSets /\ listed \subseteq 1..made /\ flawed \subseteq 1..made
  /\ incoming \in [SetNames -> Contents] /\ filed \in [SetNames -> Contents]
  /\ pulls \in [Pulls -> Pull]
  /\ \A p \in Pulls : pulls[p].at \notin {"idle", "choosing", "thinning"} => pulls[p].name # 0
  /\ shared \subseteq SetNames /\ pullFaults \in 0..MaxPullFaults

\* A set that the retention policy counts and keeps is whole and has passed the checks, whatever
\* was interrupted (docs/backups.md: a damaged set never pushes a good one out); only two pulls
\* that fetch it at the same time can put part of one there.
KeptSetsAreWhole == \A n \in Keep(FiledNames) : filed[n] = "whole" \/ n \in shared
=============================================================================
