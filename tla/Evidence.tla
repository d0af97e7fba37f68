------------------------------ MODULE Evidence ------------------------------
(***************************************************************************)
(* The archive of release evidence (evidence-archive.js,                   *)
(* evidence-ledger.js): `backup.js pull` copies every release of the host  *)
(* that the ledger does not have, and adds a line for each.  Two of them   *)
(* may overlap.                                                            *)
(*                                                                         *)
(* The hash of a line covers the line before it, so a line stands here     *)
(* with the releases of all lines before it, as its writer knew them.      *)
(***************************************************************************)
EXTENDS Integers, Sequences

CONSTANTS
  Archivers,         \* runs of `backup.js pull` that may overlap
  MaxReleases,       \* bound of the model: releases, numbered in the order of their versions
  MaxArchiveFaults   \* bound of the model: calls that fail and runs that stop

ASSUME EvidenceAssumption == MaxReleases \in Nat /\ MaxArchiveFaults \in Nat

VARIABLES
  releases,    \* release directories of the host: none yet, unfit (no manifest, or not what its list says), or complete
  ledger,      \* LEDGER.jsonl
  folders,     \* releases that have a folder in the archive
  archivers,   \* where each run is, the ledger as it knows it, the releases it still has to see to,
               \* those that were complete at its start, and whether a call failed it
  cutShort,    \* history: a run stopped or failed between filing a release and adding its line
  overlapped,  \* history: two runs were under way at once
  archiveFaults

evidenceVars == <<releases, ledger, folders, archivers, cutShort, overlapped, archiveFaults>>

-----------------------------------------------------------------------------
Releases == 1..MaxReleases
Line     == [release: Releases, after: Seq(Releases)]
Run      == [at: {"idle", "listing", "choosing", "filing", "recording", "ended"}, known: Seq(Line),
             todo: SUBSET Releases, release: 0..MaxReleases, complete: SUBSET Releases, failed: BOOLEAN]

NoRun == [at |-> "idle", known |-> <<>>, todo |-> {}, release |-> 0, complete |-> {}, failed |-> FALSE]

Versions(lines)  == { lines[i].release : i \in DOMAIN lines }
\* makeEntry.
Entry(lines, r)  == [release |-> r, after |-> [i \in DOMAIN lines |-> lines[i].release]]
\* verifyChain.
ChainHolds(lines) ==
  \A i \in DOMAIN lines : /\ lines[i].after = [j \in 1..i - 1 |-> lines[j].release]
                          /\ \A j \in 1..i - 1 : lines[j].release # lines[i].release

EvidenceInit ==
  /\ releases = [r \in Releases |-> "none"]
  /\ ledger = <<>> /\ folders = {}
  /\ archivers = [a \in Archivers |-> NoRun]
  /\ cutShort = FALSE /\ overlapped = FALSE /\ archiveFaults = 0

-----------------------------------------------------------------------------
\* The host: a release is uploaded.
Uploads(r) ==
  /\ \/ releases[r] = "none" /\ releases' = [releases EXCEPT ![r] = "unfit"]
     \/ releases[r] = "unfit" /\ releases' = [releases EXCEPT ![r] = "complete"]
  /\ UNCHANGED <<ledger, folders, archivers, cutShort, overlapped, archiveFaults>>

-----------------------------------------------------------------------------
(***************************************************************************)
(* archiveEvidence                                                         *)
(***************************************************************************)
Becomes(a, run) == archivers' = [archivers EXCEPT ![a] = run]

ReadsLedger(a) ==
  /\ archivers[a].at = "idle"
  /\ Becomes(a, [NoRun EXCEPT !.at = IF ChainHolds(ledger) THEN "listing" ELSE "ended", !.known = ledger,
                              !.complete = { r \in Releases : releases[r] = "complete" }])
  /\ overlapped' = (overlapped \/ \E b \in Archivers \ {a} : archivers[b].at \notin {"idle", "ended"})
  /\ UNCHANGED <<releases, ledger, folders, cutShort, archiveFaults>>

ListsReleases(a) ==
  /\ archivers[a].at = "listing"
  /\ Becomes(a, [archivers[a] EXCEPT !.at = "choosing",
                    !.todo = { r \in Releases : releases[r] # "none" } \ Versions(archivers[a].known)])
  /\ UNCHANGED <<releases, ledger, folders, cutShort, overlapped, archiveFaults>>

\* The host does not answer.
ListingOfReleasesFails(a) ==
  /\ archivers[a].at = "listing"
  /\ archiveFaults < MaxArchiveFaults /\ archiveFaults' = archiveFaults + 1
  /\ Becomes(a, [archivers[a] EXCEPT !.at = "ended", !.failed = TRUE])
  /\ UNCHANGED <<releases, ledger, folders, cutShort, overlapped>>

\* The next release, in the order of the versions: fetched and found good, skipped or refused until
\* a later run, or not to be had.
Fetched(a) ==
  /\ archivers[a].at = "choosing"
  /\ \E r \in archivers[a].todo :
       /\ \A s \in archivers[a].todo : r <= s
       /\ LET rest == archivers[a].todo \ {r} IN
          \/ /\ releases[r] = "complete"
             /\ Becomes(a, [archivers[a] EXCEPT !.at = "filing", !.release = r, !.todo = rest])
             /\ UNCHANGED archiveFaults
          \/ /\ releases[r] = "unfit"
             /\ Becomes(a, [archivers[a] EXCEPT !.todo = rest])
             /\ UNCHANGED archiveFaults
          \/ /\ archiveFaults < MaxArchiveFaults /\ archiveFaults' = archiveFaults + 1
             /\ Becomes(a, [archivers[a] EXCEPT !.todo = rest, !.failed = TRUE])
  /\ UNCHANGED <<releases, ledger, folders, cutShort, overlapped>>

\* rename: where there is a folder already it fails, and the run ends.
FilesRelease(a) ==
  LET r == archivers[a].release IN
  /\ archivers[a].at = "filing"
  /\ IF r \in folders
     THEN Becomes(a, [archivers[a] EXCEPT !.at = "ended"]) /\ UNCHANGED folders
     ELSE Becomes(a, [archivers[a] EXCEPT !.at = "recording"]) /\ folders' = folders \cup {r}
  /\ UNCHANGED <<releases, ledger, cutShort, overlapped, archiveFaults>>

\* Mutant: the run goes on with the ledger that it read.
AddsLineForgetting(a) ==
  LET line == Entry(archivers[a].known, archivers[a].release) IN
  /\ archivers[a].at = "recording"
  /\ ledger' = Append(ledger, line)
  /\ Becomes(a, [archivers[a] EXCEPT !.at = "choosing"])
  /\ UNCHANGED <<releases, folders, cutShort, overlapped, archiveFaults>>

\* appendFile.
AddsLine(a) ==
  LET line == Entry(archivers[a].known, archivers[a].release) IN
  /\ archivers[a].at = "recording"
  /\ ledger' = Append(ledger, line)
  /\ Becomes(a, [archivers[a] EXCEPT !.at = "choosing", !.known = Append(archivers[a].known, line)])
  /\ UNCHANGED <<releases, folders, cutShort, overlapped, archiveFaults>>

\* The run ends with an error: the files cannot be made read-only or the line cannot be appended,
\* and the folder is left without one; or the ledger cannot be protected after its new line.
AddingLineFails(a) ==
  LET line == Entry(archivers[a].known, archivers[a].release) IN
  /\ archivers[a].at = "recording"
  /\ archiveFaults < MaxArchiveFaults /\ archiveFaults' = archiveFaults + 1
  /\ \/ cutShort' = TRUE /\ UNCHANGED ledger
     \/ ledger' = Append(ledger, line) /\ UNCHANGED cutShort
  /\ Becomes(a, [archivers[a] EXCEPT !.at = "ended", !.failed = TRUE])
  /\ UNCHANGED <<releases, folders, overlapped>>

RunEnds(a) ==
  /\ archivers[a].at = "choosing" /\ archivers[a].todo = {}
  /\ Becomes(a, [archivers[a] EXCEPT !.at = "ended"])
  /\ UNCHANGED <<releases, ledger, folders, cutShort, overlapped, archiveFaults>>

\* The next run.
Again(a) ==
  /\ archivers[a].at = "ended"
  /\ Becomes(a, NoRun)
  /\ UNCHANGED <<releases, ledger, folders, cutShort, overlapped, archiveFaults>>

\* The computer is switched off, or the program is ended.
RunStops(a) ==
  /\ archivers[a].at \notin {"idle", "ended"}
  /\ archiveFaults < MaxArchiveFaults /\ archiveFaults' = archiveFaults + 1
  /\ cutShort' = (cutShort \/ archivers[a].at = "recording")
  /\ Becomes(a, NoRun)
  /\ UNCHANGED <<releases, ledger, folders, overlapped>>

-----------------------------------------------------------------------------
EvidenceNext ==
  \/ \E r \in Releases : Uploads(r)
  \/ \E a \in Archivers : \/ ReadsLedger(a) \/ ListsReleases(a) \/ ListingOfReleasesFails(a)
                          \/ Fetched(a) \/ FilesRelease(a) \/ AddsLine(a) \/ AddingLineFails(a)
                          \/ RunEnds(a) \/ Again(a) \/ RunStops(a)

EvidenceSpec == EvidenceInit /\ [][EvidenceNext]_evidenceVars

-----------------------------------------------------------------------------
(***************************************************************************)
(* What is to be true                                                      *)
(***************************************************************************)
\* Every variable has its type.
EvidenceTypeOK ==
  /\ releases \in [Releases -> {"none", "unfit", "complete"}]
  /\ ledger \in Seq(Line) /\ folders \subseteq Releases
  /\ archivers \in [Archivers -> Run]
  /\ \A a \in Archivers : archivers[a].at \in {"filing", "recording"} => archivers[a].release # 0
  /\ cutShort \in BOOLEAN /\ overlapped \in BOOLEAN /\ archiveFaults \in 0..MaxArchiveFaults

\* What a run none of whose calls failed leaves behind: each release that was complete
\* when it looked has its line.
RunArchivesAll ==
  \A a \in Archivers : archivers[a].at = "ended" /\ ~archivers[a].failed => archivers[a].complete \subseteq Versions(ledger)

\* "After every pull the owner's computer also copies every release directory" (docs/backups.md).
EveryReleaseIsArchived == RunArchivesAll

\* The ledger is a chain, each line has its folder and each folder its line, and every run archives
\* all it can: failed calls, releases half uploaded and runs that stop change nothing about it,
\* except a stop or an error between a folder and its line, or two runs at once.
EvidenceIsKept ==
  \/ cutShort \/ overlapped
  \/ /\ ChainHolds(ledger)
     /\ folders = Versions(ledger) \cup { archivers[a].release : a \in { b \in Archivers : archivers[b].at = "recording" } }
     /\ RunArchivesAll
=============================================================================
