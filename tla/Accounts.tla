------------------------------ MODULE Accounts ------------------------------
(***************************************************************************)
(* The accounts and who administers them (postgres-identity-service.js).   *)
(*                                                                         *)
(* An administrator changes the account that the list shows, by its        *)
(* version.  updateUser is a transaction of several statements, at READ    *)
(* COMMITTED, so each is a step: the advisory lock, the row, the count of  *)
(* the other administrators, and the writing with the commit.  What else   *)
(* writes an account is a statement, or holds the row's lock throughout,   *)
(* and so is one step.                                                     *)
(***************************************************************************)
EXTENDS Integers, Common

CONSTANTS
  Users,        \* user ids
  Bootstrap,    \* the account that the first start creates
  Updates,      \* calls of updateUser
  MaxVersions   \* bound of the model: versions of an account

Statuses == {"active", "pending", "barred"}   \* barred: locked or disabled
Grants   == [status : Statuses, admin : BOOLEAN]
Wishes   == { g \in Grants : g.status # "pending" }
AccountRows == [status : Statuses, admin : BOOLEAN, version : 1..MaxVersions]

ASSUME AccountsAssumption ==
  /\ Bootstrap \in Users
  /\ MaxVersions \in Nat \ {0}
  /\ None \notin Updates \cup AccountRows \cup Grants

VARIABLES
  accounts,   \* users with user_roles, as far as they tell administrators; None for an id not in use
  updates,    \* the calls of updateUser: where each is, the account it is for as it was shown, what it asks for
  updating    \* who holds the advisory lock nuvrion.identity.user-updates

accountVars == <<accounts, updates, updating>>

-----------------------------------------------------------------------------
Grant(a)   == [status |-> a.status, admin |-> a.admin]
NoUpdate   == [at |-> "idle", user |-> Bootstrap, saw |-> None, wish |-> None]

IsAdministrator(u) == accounts[u] # None /\ accounts[u].status = "active" /\ accounts[u].admin

\* Row locks: FOR UPDATE, until the transaction ends.
HoldsRow(c, u)   == updates[c].at \in {"counting", "writing"} /\ updates[c].user = u
RowIsFree(u)  == \A c \in Updates : ~HoldsRow(c, u)

\* create, with #bootstrap.
AccountsInit ==
  /\ accounts = [u \in Users |-> IF u = Bootstrap THEN [status |-> "active", admin |-> TRUE, version |-> 1] ELSE None]
  /\ updates = [c \in Updates |-> NoUpdate]
  /\ updating = None

-----------------------------------------------------------------------------
(***************************************************************************)
(* updateUser                                                              *)
(***************************************************************************)
\* An administrator changes an account of the list.
UpdateRequested(c, u, wish) ==
  /\ updates[c] = NoUpdate
  /\ accounts[u] # None
  /\ updates' = [updates EXCEPT ![c] = [at |-> "waiting", user |-> u, saw |-> accounts[u], wish |-> wish]]
  /\ UNCHANGED <<accounts, updating>>

\* Mutant: without the advisory lock.
TakesNoTurn(c) ==
  /\ updates[c].at = "waiting"
  /\ updating' = c
  /\ updates' = [updates EXCEPT ![c].at = "reading"]
  /\ UNCHANGED accounts

\* pg_advisory_xact_lock: one change at a time.
TakesTurn(c) ==
  /\ updates[c].at = "waiting"
  /\ updating = None /\ updating' = c
  /\ updates' = [updates EXCEPT ![c].at = "reading"]
  /\ UNCHANGED accounts

\* Rolled back: VERSION_CONFLICT, LAST_ADMIN, USER_INVALID, or a failure at any statement.
RollsBack(c) ==
  /\ updates[c].at # "idle"
  /\ updates' = [updates EXCEPT ![c] = NoUpdate]
  /\ updating' = IF updating = c THEN None ELSE updating
  /\ UNCHANGED accounts

Loses(u, wish) == IsAdministrator(u) /\ ~(wish.status = "active" /\ wish.admin)

\* Mutant: whatever the version.
ReadsAnyRow(c) ==
  LET u == updates[c].user IN
  /\ updates[c].at = "reading"
  /\ RowIsFree(u)
  /\ updates' = [updates EXCEPT ![c].at = IF Loses(u, updates[c].wish) THEN "counting" ELSE "writing"]
  /\ UNCHANGED <<accounts, updating>>

\* SELECT ... FOR UPDATE, and the version that was shown.
ReadsRow(c) ==
  LET u == updates[c].user IN
  /\ updates[c].at = "reading"
  /\ RowIsFree(u)
  /\ accounts[u].version = updates[c].saw.version
  /\ updates' = [updates EXCEPT ![c].at = IF Loses(u, updates[c].wish) THEN "counting" ELSE "writing"]
  /\ UNCHANGED <<accounts, updating>>

CountsTheOthers(c) ==
  /\ updates[c].at = "counting"
  /\ \E u \in Users \ {updates[c].user} : IsAdministrator(u)
  /\ updates' = [updates EXCEPT ![c].at = "writing"]
  /\ UNCHANGED <<accounts, updating>>

\* The row, the roles and the commit.
CommitsUpdate(c) ==
  LET u == updates[c].user   wish == updates[c].wish IN
  /\ updates[c].at = "writing"
  /\ accounts[u].version < MaxVersions
  /\ accounts' = [accounts EXCEPT ![u] = [status |-> wish.status, admin |-> wish.admin, version |-> @.version + 1]]
  /\ updates' = [updates EXCEPT ![c] = NoUpdate]
  /\ updating' = IF updating = c THEN None ELSE updating

-----------------------------------------------------------------------------
(***************************************************************************)
(* The other writers                                                       *)
(***************************************************************************)
\* createUser: by an administrator, or a sign-up.
CreateUser(u, grant) ==
  /\ accounts[u] = None
  /\ grant \in [status : {"active"}, admin : BOOLEAN] \cup [status : {"pending"}, admin : {FALSE}]
  /\ accounts' = [accounts EXCEPT ![u] = [status |-> grant.status, admin |-> grant.admin, version |-> 1]]
  /\ UNCHANGED <<updates, updating>>

\* rotateRecoveryCode, resetPassword, changePassword, setPassword, mfaTurnOff.
TouchUser(u) ==
  /\ accounts[u] # None /\ RowIsFree(u)
  /\ accounts[u].version < MaxVersions
  /\ accounts' = [accounts EXCEPT ![u].version = @ + 1]
  /\ UNCHANGED <<updates, updating>>

-----------------------------------------------------------------------------
AccountsNext ==
  \/ \E c \in Updates :
       \/ \E u \in Users : \E wish \in Wishes : UpdateRequested(c, u, wish)
       \/ TakesTurn(c) \/ ReadsRow(c) \/ CountsTheOthers(c) \/ CommitsUpdate(c) \/ RollsBack(c)
  \/ \E u \in Users : (\E grant \in Grants : CreateUser(u, grant)) \/ TouchUser(u)

AccountsSpec == AccountsInit /\ [][AccountsNext]_accountVars

-----------------------------------------------------------------------------
(***************************************************************************)
(* What is to be true                                                      *)
(***************************************************************************)
Places == {"idle", "waiting", "reading", "counting", "writing"}

\* Every variable has its type.
AccountsTypeOK ==
  /\ accounts \in [Users -> AccountRows \cup {None}]
  /\ updates \in [Updates -> [at : Places, user : Users, saw : AccountRows \cup {None}, wish : Wishes \cup {None}]]
  /\ updating \in Updates \cup {None}

\* There is always an active administrator: two of them who take the role from each other, or lock
\* each other out, at the same time cannot both succeed (the comment at pg_advisory_xact_lock).
AdministratorStays == \E u \in Users : IsAdministrator(u)

\* An account's status and roles are changed only by one who has seen what they were: of two
\* changes made from the same page the later is refused, however they overlap.
UpdatesWhatWasSeen ==
  [][\A u \in Users : accounts[u] # None =>
       \/ Grant(accounts'[u]) = Grant(accounts[u])
       \/ \E c \in Updates : /\ updates[c].at = "writing" /\ updates[c].user = u
                            /\ Grant(updates[c].saw) = Grant(accounts[u])]_accountVars
=============================================================================
