----------------------------- MODULE SavedViews -----------------------------
(***************************************************************************)
(* PostgresViewService (migration 0043): requests about saved views that   *)
(* run at once, each a few statements.  `views` is inventory.saved_views.  *)
(***************************************************************************)
EXTENDS LocalViews

CONSTANTS
  ViewRequests,    \* requests under way
  MaxViewChanges   \* bound of the model: changes of one view

ASSUME SavedViewsAssumption == MaxViewChanges \in Nat

VARIABLES
  viewing,     \* each request: where it is, whose it is, what it asks, of which row, seen when
  viewLocks    \* whose advisory lock is held (saved_views:<user>)

viewVars == <<views, viewIds, viewing, viewLocks>>

-----------------------------------------------------------------------------
NoViewing == [at |-> "idle", user |-> None, asks |-> None, id |-> 0, version |-> 0]

ViewsInit ==
  /\ LocalViewsInit
  /\ viewing = [q \in ViewRequests |-> NoViewing]
  /\ viewLocks = {}

\* A request comes, with the version that its person last saw.
ViewRequested(q) ==
  /\ viewing[q].at = "idle"
  /\ \E u \in People :
       \/ \E asked \in NewViews :
            viewing' = [viewing EXCEPT ![q] = [NoViewing EXCEPT !.at = "creating", !.user = u, !.asks = asked]]
       \/ \E i \in Mine(u), change \in ViewChanges :
            /\ views[i].version <= MaxViewChanges
            /\ viewing' = [viewing EXCEPT ![q] =
                 [at |-> "updating", user |-> u, asks |-> change, id |-> i, version |-> views[i].version]]
  /\ UNCHANGED <<views, viewIds, viewLocks>>

\* Mutant: the views are counted without the lock.
CountsUnlocked(q) ==
  /\ viewing[q].at = "creating" /\ Cardinality(Mine(viewing[q].user)) < PerPerson
  /\ viewing' = [viewing EXCEPT ![q].at = "inserting"]
  /\ UNCHANGED <<views, viewIds, viewLocks>>

\* BEGIN, the lock, the count.
Counts(q) ==
  /\ viewing[q].at = "creating" /\ Cardinality(Mine(viewing[q].user)) < PerPerson
  /\ viewing[q].user \notin viewLocks /\ viewLocks' = viewLocks \cup {viewing[q].user}
  /\ viewing' = [viewing EXCEPT ![q].at = "inserting"]
  /\ UNCHANGED <<views, viewIds>>

\* A request ends, its transaction with it.
Ends(q) ==
  /\ viewing' = [viewing EXCEPT ![q] = NoViewing]
  /\ viewLocks' = IF viewing[q].at = "inserting" THEN viewLocks \ {viewing[q].user} ELSE viewLocks

\* INSERT, COMMIT.
Inserts(q) ==
  /\ viewing[q].at = "inserting" /\ ~NameIsTaken(viewing[q].user, viewing[q].asks.name, 0)
  /\ Insert(viewing[q].user, viewing[q].asks)
  /\ Ends(q)

\* getView: the row has the version that the person saw.
Looks(q) ==
  /\ viewing[q].at = "updating"
  /\ viewing[q].id \in Mine(viewing[q].user) /\ views[viewing[q].id].version = viewing[q].version
  /\ viewing' = [viewing EXCEPT ![q].at = "writing"]
  /\ UNCHANGED <<views, viewIds, viewLocks>>

\* UPDATE ... WHERE row_version.
Writes(q) ==
  LET v == viewing[q] IN
  /\ v.at = "writing"
  /\ v.id \in Mine(v.user) /\ views[v.id].version = v.version
  /\ v.asks.name # None => ~NameIsTaken(v.user, v.asks.name, v.id)
  /\ Update(v.id, v.asks)
  /\ Ends(q)
  /\ UNCHANGED viewIds

\* Refused, by what it found or by the index, or the connection broke.
ViewRefused(q) ==
  /\ viewing[q].at # "idle"
  /\ Ends(q)
  /\ UNCHANGED <<views, viewIds>>

ViewDeleted == (\E u \in People : \E i \in Mine(u) : DeleteView(u, i)) /\ UNCHANGED <<viewing, viewLocks>>

ViewsNext ==
  \/ \E q \in ViewRequests : ViewRequested(q) \/ Counts(q) \/ Inserts(q) \/ Looks(q) \/ Writes(q) \/ ViewRefused(q)
  \/ ViewDeleted

ViewsSpec == ViewsInit /\ [][ViewsNext]_viewVars

-----------------------------------------------------------------------------
ViewsTypeOK ==
  /\ \A i \in Rows : views[i] \in [user : People, name : Names, filter : Filters \ {None}, version : 1..MaxViewChanges + 1]
  /\ viewIds \in 0..MaxViews /\ viewLocks \subseteq People
  /\ \A q \in ViewRequests : viewing[q].at \in {"idle", "creating", "inserting", "updating", "writing"}

\* Requests that run at once do to the views what one after another would in the local store:
\* nobody has more views than the limit or two under one name, and a change is made to the view
\* that its person saw and to nobody else's.
ViewsAsIfAlone ==
  LocalViewsInit /\ [][localViewVars' # localViewVars => LocalViewsNext]_localViewVars   \* LocalViewsSpec
=============================================================================
