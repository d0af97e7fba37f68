------------------------------- MODULE Gates -------------------------------
(***************************************************************************)
(* Two gates of a build: the licence review of what the lockfiles install  *)
(* (evaluate-licenses.js, license-policy.js), and the policy for the scan  *)
(* of the container image (image-scan-gate.js).                            *)
(*                                                                         *)
(* A licence expression is the sequence of its words, an identifier is a   *)
(* sequence of one or, WITH an exception, two of them, and a date is a     *)
(* day.  What reports say of the packages they pass is left out.           *)
(***************************************************************************)
EXTENDS Integers, Sequences, FiniteSets, Common
LOCAL INSTANCE SequencesExt

CONSTANTS
  Reviews,           \* [packages, policy, today] that the licence gate may be given
  Scans,             \* [report, fresh, exceptions, today] that the image gate may be given
  MaxExceptionDays,  \* MAX_EXCEPTION_DAYS
  MaxScanDays        \* maxExceptionDays

ASSUME GatesAssumption == {MaxExceptionDays, MaxScanDays} \subseteq Nat

VARIABLES given, verdict   \* what a gate is given, and what it says of it

gateVars == <<given, verdict>>

-----------------------------------------------------------------------------
(***************************************************************************)
(* parseExpression: a tree is an identifier, or two trees that a word      *)
(* joins.  A parser returns the tree and the place after it.               *)
(***************************************************************************)
Unreadable   == [tree |-> None, at |-> 0]
Reads(ts, i, word) == i \in DOMAIN ts /\ ts[i] = word

WordAt(ts, i) == IF i \in DOMAIN ts THEN <<ts[i]>> ELSE <<>>

RECURSIVE Joined(_, _, _)

Atom(ts, i) ==
  LET inner == Joined(ts, i + 1, "OR") IN
  IF i \notin DOMAIN ts THEN Unreadable
  ELSE IF ts[i] = "(" THEN
         IF inner # Unreadable /\ Reads(ts, inner.at, ")") THEN [inner EXCEPT !.at = @ + 1] ELSE Unreadable
  ELSE IF ts[i] \in {")", "AND", "OR", "WITH"} THEN Unreadable
  ELSE IF Reads(ts, i + 1, "WITH")   \* the next word names the exception, whatever word it is
         THEN [tree |-> [id |-> <<ts[i]>> \o WordAt(ts, i + 2)], at |-> i + 3]
  ELSE [tree |-> [id |-> <<ts[i]>>], at |-> i + 1]

\* Mutant: as Joined, but both words bind as tightly.
JoinedFlat(ts, i, word) ==
  LET part == Atom(ts, i)
      rest == Joined(ts, part.at + 1, word)
  IN  IF part # Unreadable /\ (Reads(ts, part.at, "AND") \/ Reads(ts, part.at, "OR"))
        THEN IF rest = Unreadable THEN rest
             ELSE [tree |-> [by |-> ts[part.at], parts |-> <<part.tree, rest.tree>>], at |-> rest.at]
        ELSE part

\* and() and or(): OR joins what AND has joined.
Joined(ts, i, word) ==
  LET part == IF word = "OR" THEN Joined(ts, i, "AND") ELSE Atom(ts, i)
      rest == Joined(ts, part.at + 1, word)
  IN  IF part # Unreadable /\ Reads(ts, part.at, word)
        THEN IF rest = Unreadable THEN rest
             ELSE [tree |-> [by |-> word, parts |-> <<part.tree, rest.tree>>], at |-> rest.at]
        ELSE part

\* Every word is read, and none is read past the last, as after a WITH that ends the expression.
ParseExpression(ts) ==
  LET read == Joined(ts, 1, "OR") IN IF read.at = Len(ts) + 1 THEN read.tree ELSE None

IsId(tree) == "id" \in DOMAIN tree

RECURSIVE AcceptableTree(_, _)
AcceptableTree(tree, accepted) ==
  IF IsId(tree) THEN tree.id \in accepted
  ELSE IF tree.by = "OR" THEN \E i \in 1..2 : AcceptableTree(tree.parts[i], accepted)
  ELSE \A i \in 1..2 : AcceptableTree(tree.parts[i], accepted)

RECURSIVE Identifiers(_)
Identifiers(tree) ==
  IF IsId(tree) THEN {tree.id} ELSE UNION { Identifiers(tree.parts[i]) : i \in 1..2 }

-----------------------------------------------------------------------------
(***************************************************************************)
(* evaluateLicenses                                                        *)
(***************************************************************************)
\* collectPackages: the licence in the lockfile, else in the installed package.json.
Collected(p) == IF p.locked # None THEN p.locked ELSE p.installed

Expression(p, policy) ==
  LET written == { d \in policy.declared : d.package = p.name /\ d.version = p.version }
  IN  IF Collected(p) # None THEN Collected(p)
      ELSE IF written # {} THEN (CHOOSE d \in written : TRUE).license ELSE None

\* A pattern such as GPL-* is of the licence, whatever its exception; so is a licence reviewed for a package.
Denied(policy, id)  == Head(id) \in policy.denied
ReviewedFor(p, policy) == { r.license : r \in { x \in policy.reviewed : p.name \in x.packages } }

AppliesTo(e, p, expression) == e.package = p.name /\ e.license \in {None, expression}
Runs(e, today) == e.expires # None /\ e.expires > today

\* Mutant: an exception that has run out is as good as any.
DecisionByAnyException(p, policy, today) ==
  LET expression == Expression(p, policy)
      tree == IF expression = None THEN None ELSE ParseExpression(expression)
      Open(ids) == { id \in ids : ~Denied(policy, id) }
  IN  IF tree = None THEN "blocked"
      ELSE IF AcceptableTree(tree, Open(policy.allowed)) THEN "allowed"
      ELSE IF AcceptableTree(tree, Open(policy.allowed \cup ReviewedFor(p, policy))) THEN "reviewed"
      ELSE IF \E e \in policy.exceptions : AppliesTo(e, p, expression) THEN "excepted"
      ELSE "blocked"

Decision(p, policy, today) ==
  LET expression == Expression(p, policy)
      tree == IF expression = None THEN None ELSE ParseExpression(expression)
      Open(ids) == { id \in ids : ~Denied(policy, id) }
  IN  IF tree = None THEN "blocked"
      ELSE IF AcceptableTree(tree, Open(policy.allowed)) THEN "allowed"
      ELSE IF AcceptableTree(tree, Open(policy.allowed \cup ReviewedFor(p, policy))) THEN "reviewed"
      ELSE IF \E e \in policy.exceptions : AppliesTo(e, p, expression) /\ Runs(e, today) THEN "excepted"
      ELSE "blocked"

PolicyProblem(policy) ==
  \/ \E e \in policy.exceptions :
       \/ ~e.reason \/ e.expires = None
       \/ e.reviewedAt # None /\ e.expires - e.reviewedAt > MaxExceptionDays
  \/ \E r \in policy.reviewed : ~r.reason \/ r.packages = {}
  \/ \E d \in policy.declared : ~d.source

LicenseVerdict(review) ==
  IF PolicyProblem(review.policy) \/ \E p \in review.packages : Decision(p, review.policy, review.today) = "blocked"
    THEN "blocked" ELSE "passed"

-----------------------------------------------------------------------------
(***************************************************************************)
(* evaluateImageScan                                                       *)
(***************************************************************************)
Identity(v) == <<v.id, v.package, v.installed>>

\* The same package can be listed under more than one target: the first listing counts.
Findings(report) ==
  { report[i] : i \in { j \in DOMAIN report : \A k \in 1 .. j-1 : Identity(report[k]) # Identity(report[j]) } }

\* An exception lasts to the end of its day.
TooLong(e, today)   == e.expires >= today + MaxScanDays
WellFormed(e)       == e.reason /\ e.expires # None
ScanProblem(scan)   ==
  \/ ~scan.fresh      \* too old, or from the future
  \/ \E i \in DOMAIN scan.exceptions :
       LET e == scan.exceptions[i] IN ~WellFormed(e) \/ TooLong(e, scan.today)

\* valid is a map by id: the last exception of an id is the one that counts.
ValidException(scan, id) ==
  LET of == SelectSeq(scan.exceptions,
              LAMBDA e : e.id = id /\ WellFormed(e) /\ ~TooLong(e, scan.today))
  IN  IF of = <<>> THEN None ELSE Last(of)

Excused(scan, v) ==
  LET e == ValidException(scan, v.id)
  IN  e # None /\ e.expires >= scan.today /\ (e.packages = None \/ v.package \in e.packages)

Blockers(scan) ==
  { v \in Findings(scan.report) : v.severity \in {"HIGH", "CRITICAL"} /\ v.fixed /\ ~Excused(scan, v) }

ScanVerdict(scan) == IF Blockers(scan) # {} \/ ScanProblem(scan) THEN "blocked" ELSE "passed"

-----------------------------------------------------------------------------
GatesInit == /\ given \in [gate : {"licences"}, of : Reviews] \cup [gate : {"image"}, of : Scans]
             /\ verdict = None

Judge ==
  /\ verdict = None
  /\ verdict' = IF given.gate = "licences" THEN LicenseVerdict(given.of) ELSE ScanVerdict(given.of)
  /\ UNCHANGED given

GatesNext == Judge
GatesSpec == GatesInit /\ [][GatesNext]_gateVars

-----------------------------------------------------------------------------
(***************************************************************************)
(* What an expression means, by its grammar: the sets of licences, each of *)
(* which suffices.  A sequence that the grammar does not derive has none.  *)
(***************************************************************************)
Splits(s, word) == { <<SubSeq(s, 1, i - 1), SubSeq(s, i + 1, Len(s))>> : i \in { j \in DOMAIN s : s[j] = word } }

RECURSIVE Meaning(_, _)
Meaning(s, level) ==
  CASE level = "or"  -> Meaning(s, "and") \cup
         UNION { IF Meaning(x[1], "or") = {} \/ Meaning(x[2], "and") = {} THEN {}
                 ELSE Meaning(x[1], "or") \cup Meaning(x[2], "and") : x \in Splits(s, "OR") }
    [] level = "and" -> Meaning(s, "atom") \cup
         UNION { { c \cup d : c \in Meaning(x[1], "and"), d \in Meaning(x[2], "atom") } : x \in Splits(s, "AND") }
    [] level = "atom" ->
         IF Len(s) > 2 /\ s[1] = "(" /\ s[Len(s)] = ")" THEN Meaning(SubSeq(s, 2, Len(s) - 1), "or")
         ELSE IF s # <<>> /\ s[1] \notin {"(", ")", "AND", "OR", "WITH"}
                 /\ (Len(s) = 1 \/ (Len(s) = 3 /\ s[2] = "WITH"))
                THEN {{<<s[1]>> \o WordAt(s, 3)}} ELSE {}

\* A licence that nobody may use, however it is reviewed.
MayBeUsed(p, policy, id) ==
  Head(id) \notin policy.denied /\ (id \in policy.allowed \/ \E r \in policy.reviewed : r.license = id /\ p.name \in r.packages)

\* The licence gate lets through what may be used, and nothing else: every package has a licence that the
\* grammar derives, one of the choices it gives asks only for licences that are accepted for this package, or an
\* exception for it has not run out, and every entry of the policy says why.
LicencesReviewed(review) ==
  /\ \A p \in review.packages :
       LET e == Expression(p, review.policy) IN
       /\ e # None /\ Meaning(e, "or") # {}
       /\ \/ \E choice \in Meaning(e, "or") : \A id \in choice : MayBeUsed(p, review.policy, id)
          \/ \E x \in review.policy.exceptions : AppliesTo(x, p, e) /\ x.expires # None /\ review.today < x.expires
  /\ \A x \in review.policy.exceptions \cup review.policy.reviewed : x.reason

\* The image gate passes no old report, and no serious finding that has a fix but by an exception that says why, covers
\* the package and ends soon.
ImageReviewed(scan) ==
  /\ scan.fresh
  /\ \A i \in DOMAIN scan.report : LET v == scan.report[i] IN
       v.severity \in {"HIGH", "CRITICAL"} /\ v.fixed =>
         \E j \in DOMAIN scan.exceptions : LET e == scan.exceptions[j] IN
           /\ e.id = v.id /\ e.reason /\ (e.packages # None => v.package \in e.packages)
           /\ e.expires \in scan.today .. scan.today + MaxScanDays

GatesHold ==
  /\ verdict = "passed" => IF given.gate = "licences" THEN LicencesReviewed(given.of) ELSE ImageReviewed(given.of)
  /\ verdict = "blocked" /\ given.gate = "licences" => ~LicencesReviewed(given.of) \/ PolicyProblem(given.of.policy)
=============================================================================
