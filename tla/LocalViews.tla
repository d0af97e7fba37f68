----------------------------- MODULE LocalViews -----------------------------
(***************************************************************************)
(* Saved views of the inventory: each person's own, under names that       *)
(* differ, not too many of them.  What a request may ask (view-rules.js)   *)
(* and the local store that does it in one step (ViewService).             *)
(*                                                                         *)
(* A name is what a person types and Folded what lower case makes of it; a *)
(* view's filters are one value, None when parseView refuses them.         *)
(***************************************************************************)
EXTENDS Integers, FiniteSets, Common

CONSTANTS
  People,
  Folded,         \* [typed name -> its lower case, None for one that parseName refuses]
  Filters,        \* what a view may contain
  PerPerson,      \* LIMITS.perPerson
  MaxViews        \* bound of the model: ids

ASSUME LocalViewsAssumption ==
  /\ {PerPerson, MaxViews} \subseteq Nat
  /\ None \notin [user : People, name : DOMAIN Folded, filter : Filters, version : Nat]

VARIABLES
  views,       \* the rows of saved views, by id; None for no row
  viewIds      \* how many views were ever made

localViewVars == <<views, viewIds>>

-----------------------------------------------------------------------------
ViewIds == 1..MaxViews
Names   == { n \in DOMAIN Folded : Folded[n] # None }
Rows    == { i \in ViewIds : views[i] # None }
Mine(u) == { i \in Rows : views[i].user = u }

\* checkName, and the index saved_views_name_idx.
NameIsTaken(u, name, except) == \E i \in Mine(u) \ {except} : Folded[views[i].name] = Folded[name]

\* What parseCreate and parseChange let through; None is what a change leaves as it is.
NewViews    == [name : Names, filter : Filters \ {None}]
ViewChanges == [name : Names \cup {None}, filter : Filters] \ {[name |-> None, filter |-> None]}

Insert(u, asked) ==
  /\ viewIds < MaxViews /\ viewIds' = viewIds + 1
  /\ views' = [views EXCEPT ![viewIds'] = [user |-> u, name |-> asked.name, filter |-> asked.filter, version |-> 1]]

Update(i, change) ==
  views' = [views EXCEPT ![i].version = @ + 1,
                         ![i].name    = IF change.name = None THEN @ ELSE change.name,
                         ![i].filter  = IF change.filter = None THEN @ ELSE change.filter]

-----------------------------------------------------------------------------
(***************************************************************************)
(* ViewService                                                             *)
(***************************************************************************)
LocalViewsInit == views = [i \in ViewIds |-> None] /\ viewIds = 0

CreateView(u, asked) ==
  /\ Cardinality(Mine(u)) < PerPerson /\ ~NameIsTaken(u, asked.name, 0)
  /\ Insert(u, asked)

\* `version` is the one that the person last saw (If-Match).
UpdateView(u, i, change, version) ==
  /\ i \in Mine(u) /\ views[i].version = version
  /\ change.name # None => ~NameIsTaken(u, change.name, i)
  /\ Update(i, change)
  /\ UNCHANGED viewIds

DeleteView(u, i) ==
  /\ i \in Mine(u) /\ views' = [views EXCEPT ![i] = None]
  /\ UNCHANGED viewIds

LocalViewsNext == \E u \in People :
  \/ \E asked \in NewViews : CreateView(u, asked)
  \/ \E i \in Mine(u) : DeleteView(u, i) \/ \E change \in ViewChanges : UpdateView(u, i, change, views[i].version)

LocalViewsSpec == LocalViewsInit /\ [][LocalViewsNext]_localViewVars
=============================================================================
