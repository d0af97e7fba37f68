--------------------------- MODULE IdentityProofs ---------------------------
(***************************************************************************)
(* What holds of the accounts and of the second step for any users,        *)
(* sessions, calls and bounds.                                             *)
(*                                                                         *)
(* Accounts: the advisory lock admits one updateUser between its look at   *)
(* the row and its commit (UnderTheLock); what it was shown is the row as  *)
(* long as the version is the same (AsItWasShown); so the administrator    *)
(* whom it counted is still there when it commits (AnotherRemains).        *)
(*                                                                         *)
(* Second step: no secret and no batch of backup codes is given out twice, *)
(* so what was spent with an earlier enrolment fits no later one, and with *)
(* the same one lies at or before its last step (SpentInv).  The row's     *)
(* count is that of the last wrong codes (CountsAgree), and a new window   *)
(* begins only when those before it are past (EarlierIsPast).              *)
(***************************************************************************)
EXTENDS Accounts, TwoStep, TLAPS

-----------------------------------------------------------------------------
(***************************************************************************)
(* Accounts                                                                *)
(***************************************************************************)
\* Between its turn and its end an update holds the advisory lock.
UnderTheLock == \A c \in Updates : updates[c].at \in {"reading", "counting", "writing"} => updating = c

\* What an update was shown is the row, or an earlier version of it, and the row once it is locked.
AsItWasShown ==
  \A c \in Updates : updates[c].at # "idle" =>
    LET seen == updates[c].saw   row == accounts[updates[c].user] IN
    /\ seen \in AccountRows /\ row \in AccountRows /\ updates[c].wish \in Wishes
    /\ seen.version <= row.version
    /\ seen.version = row.version \/ updates[c].at \in {"counting", "writing"} => seen = row

\* Who may write has another administrator beside the one who goes.
AnotherRemains ==
  \A c \in Updates : updates[c].at = "writing" /\ Loses(updates[c].user, updates[c].wish) =>
    \E u \in Users \ {updates[c].user} : IsAdministrator(u)

AccountsInv == AccountsTypeOK /\ AdministratorStays /\ UnderTheLock /\ AsItWasShown /\ AnotherRemains

LEMMA AccountsInitInv == AccountsInit => AccountsInv
<1> SUFFICES ASSUME AccountsInit PROVE AccountsInv
  OBVIOUS
<1> USE AccountsAssumption DEF AccountsAssumption, AccountsInit, AccountRows, Statuses, NoUpdate
<1>1. [status |-> "active", admin |-> TRUE, version |-> 1] \in AccountRows
  OBVIOUS
<1>2. AccountsTypeOK
  BY <1>1 DEF AccountsTypeOK, Places
<1>3. AdministratorStays
  BY <1>1 DEF AdministratorStays, IsAdministrator
<1>4. UnderTheLock /\ AsItWasShown /\ AnotherRemains
  BY DEF UnderTheLock, AsItWasShown, AnotherRemains
<1>5. QED
  BY <1>2, <1>3, <1>4 DEF AccountsInv

\* The rows stay, and one update goes where it still is what the invariant says.
LEMMA RowsStay ==
  ASSUME AccountsInv, NEW c \in Updates, UNCHANGED accounts,
         NEW x, updates' = [updates EXCEPT ![c] = x],
         x \in [at : Places, user : Users, saw : AccountRows \cup {None}, wish : Wishes \cup {None}],
         updating' \in Updates \cup {None},
         \A d \in Updates \ {c} : updating = d => updating' = d,
         x.at \in {"reading", "counting", "writing"} => updating' = c,
         x.at # "idle" => /\ x.saw \in AccountRows /\ accounts[x.user] \in AccountRows /\ x.wish \in Wishes
                          /\ x.saw.version <= accounts[x.user].version
                          /\ x.saw.version = accounts[x.user].version \/ x.at \in {"counting", "writing"}
                               => x.saw = accounts[x.user],
         x.at = "writing" /\ Loses(x.user, x.wish) => \E u \in Users \ {x.user} : IsAdministrator(u)
  PROVE  AccountsInv'
<1> USE DEF AccountsInv
<1>1. AccountsTypeOK'
  BY DEF AccountsTypeOK
<1>2. \A d \in Updates : updates'[d] = IF d = c THEN x ELSE updates[d]
  BY DEF AccountsTypeOK
<1>3. \A u \in Users : IsAdministrator(u)' <=> IsAdministrator(u)
  BY DEF IsAdministrator
<1>4. AdministratorStays'
  BY <1>3 DEF AdministratorStays
<1>5. UnderTheLock'
  BY <1>2 DEF UnderTheLock
<1>6. AsItWasShown'
  BY <1>2 DEF AsItWasShown
<1>7. AnotherRemains'
  <2> SUFFICES ASSUME NEW d \in Updates, updates'[d].at = "writing", Loses(updates[d].user, updates[d].wish)'
               PROVE  \E u \in Users \ {updates'[d].user} : IsAdministrator(u)'
    BY DEF AnotherRemains
  <2>1. Loses(updates'[d].user, updates'[d].wish)
    BY <1>3 DEF Loses, IsAdministrator
  <2>2. QED
    BY <1>2, <1>3, <2>1 DEF AnotherRemains
<1>8. QED
  BY <1>1, <1>4, <1>5, <1>6, <1>7

LEMMA UpdateRequestedInv ==
  ASSUME AccountsInv, NEW c \in Updates, NEW u \in Users, NEW wish \in Wishes, UpdateRequested(c, u, wish)
  PROVE  AccountsInv'
<1> DEFINE x == [at |-> "waiting", user |-> u, saw |-> accounts[u], wish |-> wish]
<1>1. accounts[u] \in AccountRows
  BY DEF AccountsInv, AccountsTypeOK, UpdateRequested
<1>2. x \in [at : Places, user : Users, saw : AccountRows \cup {None}, wish : Wishes \cup {None}]
  BY <1>1 DEF Places
<1>3. updates' = [updates EXCEPT ![c] = x] /\ updating' = updating /\ UNCHANGED accounts
  BY DEF UpdateRequested
<1>4. accounts[u].version <= accounts[u].version
  BY <1>1 DEF AccountRows
<1>5. updating' \in Updates \cup {None}
  BY <1>3 DEF AccountsInv, AccountsTypeOK
<1>6. x.at = "waiting" /\ x.saw = accounts[x.user] /\ x.wish = wish /\ x.user = u
  OBVIOUS
<1> HIDE DEF x
<1>7. QED
  BY <1>1, <1>2, <1>3, <1>4, <1>5, <1>6, RowsStay

LEMMA TakesTurnInv ==
  ASSUME AccountsInv, NEW c \in Updates, TakesTurn(c)
  PROVE  AccountsInv'
<1> DEFINE x == [updates[c] EXCEPT !.at = "reading"]
<1> USE DEF AccountsInv
<1>1. updates[c] \in [at : Places, user : Users, saw : AccountRows \cup {None}, wish : Wishes \cup {None}]
  BY DEF AccountsTypeOK
<1>2. /\ x \in [at : Places, user : Users, saw : AccountRows \cup {None}, wish : Wishes \cup {None}]
      /\ x.at = "reading" /\ x.user = updates[c].user /\ x.saw = updates[c].saw /\ x.wish = updates[c].wish
  BY <1>1 DEF Places
<1>3. updates' = [updates EXCEPT ![c] = x] /\ updating = None /\ updating' = c /\ UNCHANGED accounts
  BY <1>1 DEF TakesTurn, AccountsTypeOK
<1>4. None \notin Updates
  BY AccountsAssumption DEF AccountsAssumption
<1>5. /\ x.saw \in AccountRows /\ accounts[x.user] \in AccountRows /\ x.wish \in Wishes
      /\ x.saw.version <= accounts[x.user].version
      /\ x.saw.version = accounts[x.user].version => x.saw = accounts[x.user]
  BY <1>2 DEF TakesTurn, AsItWasShown
<1> HIDE DEF x, AccountsInv
<1>6. QED
  BY <1>2, <1>3, <1>4, <1>5, RowsStay

\* An update that goes on with the row that it holds, with or without looking at the administrators.
LEMMA GoesOnInv ==
  ASSUME AccountsInv, NEW c \in Updates, NEW at \in {"counting", "writing"},
         updates[c].at \in {"reading", "counting"},
         accounts[updates[c].user].version = updates[c].saw.version \/ updates[c].at = "counting",
         at = "writing" /\ Loses(updates[c].user, updates[c].wish)
           => \E u \in Users \ {updates[c].user} : IsAdministrator(u),
         updates' = [updates EXCEPT ![c].at = at], UNCHANGED <<accounts, updating>>
  PROVE  AccountsInv'
<1> DEFINE x == [updates[c] EXCEPT !.at = at]
<1> USE DEF AccountsInv
<1>1. updates[c] \in [at : Places, user : Users, saw : AccountRows \cup {None}, wish : Wishes \cup {None}]
  BY DEF AccountsTypeOK
<1>2. /\ x \in [at : Places, user : Users, saw : AccountRows \cup {None}, wish : Wishes \cup {None}]
      /\ x.at = at /\ x.user = updates[c].user /\ x.saw = updates[c].saw /\ x.wish = updates[c].wish
  BY <1>1 DEF Places
<1>3. updates' = [updates EXCEPT ![c] = x]
  BY <1>1 DEF AccountsTypeOK
<1>4. updating = c /\ updating' = c
  BY DEF UnderTheLock
<1>5. /\ x.saw \in AccountRows /\ accounts[x.user] \in AccountRows /\ x.wish \in Wishes
      /\ x.saw.version <= accounts[x.user].version /\ x.saw = accounts[x.user]
  BY <1>2 DEF AsItWasShown
<1>6. x.at = "writing" /\ Loses(x.user, x.wish) => \E u \in Users \ {x.user} : IsAdministrator(u)
  BY <1>2
<1>7. updating' \in Updates \cup {None} /\ UNCHANGED accounts
  BY <1>4
<1> HIDE DEF x, AccountsInv
<1>8. QED
  BY <1>2, <1>3, <1>4, <1>5, <1>6, <1>7, RowsStay

LEMMA RollsBackInv ==
  ASSUME AccountsInv, NEW c \in Updates, RollsBack(c)
  PROVE  AccountsInv'
<1>1. NoUpdate \in [at : Places, user : Users, saw : AccountRows \cup {None}, wish : Wishes \cup {None}] /\ NoUpdate.at = "idle"
  BY AccountsAssumption DEF AccountsAssumption, NoUpdate, Places
<1>2. updates' = [updates EXCEPT ![c] = NoUpdate] /\ UNCHANGED accounts /\ updating' = IF updating = c THEN None ELSE updating
  BY DEF RollsBack
<1>3. updating' \in Updates \cup {None}
  BY <1>2 DEF AccountsInv, AccountsTypeOK
<1>4. QED
  BY <1>1, <1>2, <1>3, RowsStay

\* A row that no update holds gets a new version.  Who administers goes on to, but for the one whom
\* the update that commits takes out, and another remains then.
LEMMA RowChanges ==
  ASSUME AccountsInv, NEW u \in Users, NEW row \in AccountRows,
         accounts' = [accounts EXCEPT ![u] = row],
         AccountsTypeOK',
         accounts[u] # None => accounts[u].version < row.version,
         \A c \in Updates : updates'[c] = updates[c] \/ updates'[c].at = "idle",
         \A c \in Updates : updates'[c].at \in {"reading", "counting", "writing"} => updating' = c,
         \A c \in Updates : updates'[c].at \in {"counting", "writing"} => updates[c].user # u,
         \/ IsAdministrator(u) => row.status = "active" /\ row.admin
         \/ /\ \E v \in Users \ {u} : IsAdministrator(v)
            /\ \A c \in Updates : updates'[c].at # "writing"
  PROVE  AccountsInv'
<1> USE DEF AccountsInv
<1>1. \A v \in Users : accounts'[v] = IF v = u THEN row ELSE accounts[v]
  BY DEF AccountsTypeOK
<1>2. row # None
  BY AccountsAssumption DEF AccountsAssumption
<1>3. \A v \in Users \ {u} : IsAdministrator(v)' <=> IsAdministrator(v)
  BY <1>1 DEF IsAdministrator
<1>4. IsAdministrator(u)' <=> row.status = "active" /\ row.admin
  BY <1>1, <1>2 DEF IsAdministrator
<1>5. AdministratorStays'
  BY <1>3, <1>4 DEF AdministratorStays
<1>6. UnderTheLock'
  BY DEF UnderTheLock
<1>7. AsItWasShown'
  <2> SUFFICES ASSUME NEW c \in Updates, updates'[c].at # "idle"
               PROVE  LET seen == updates'[c].saw   now == accounts'[updates'[c].user] IN
                      /\ seen \in AccountRows /\ now \in AccountRows /\ updates'[c].wish \in Wishes
                      /\ seen.version <= now.version
                      /\ seen.version = now.version \/ updates'[c].at \in {"counting", "writing"} => seen = now
    BY DEF AsItWasShown
  <2>1. updates'[c] = updates[c] /\ updates[c].user \in Users
    BY DEF AccountsTypeOK
  <2>2. CASE updates[c].user # u
    BY <1>1, <2>1, <2>2 DEF AsItWasShown
  <2>3. CASE updates[c].user = u
    <3>1. /\ updates[c].saw \in AccountRows /\ accounts[u] \in AccountRows /\ updates[c].wish \in Wishes
          /\ updates[c].saw.version <= accounts[u].version
      BY <2>1, <2>3 DEF AsItWasShown
    <3>2. accounts[u].version < row.version
      BY <3>1, AccountsAssumption DEF AccountsAssumption
    <3>3. updates[c].saw.version < row.version
      BY <3>1, <3>2 DEF AccountRows
    <3>4. updates[c].at \notin {"counting", "writing"}
      BY <2>1, <2>3
    <3>5. updates[c].saw.version # row.version /\ updates[c].saw.version <= row.version
      BY <3>1, <3>3 DEF AccountRows
    <3>6. QED
      BY <1>1, <2>1, <2>3, <3>1, <3>4, <3>5
  <2>4. QED
    BY <2>2, <2>3
<1>8. AnotherRemains'
  <2> SUFFICES ASSUME NEW c \in Updates, updates'[c].at = "writing", Loses(updates[c].user, updates[c].wish)'
               PROVE  \E v \in Users \ {updates'[c].user} : IsAdministrator(v)'
    BY DEF AnotherRemains
  <2>1. updates'[c] = updates[c] /\ updates[c].user \in Users \ {u} /\ updates[c].at = "writing"
    BY DEF AccountsTypeOK
  <2>2. Loses(updates[c].user, updates[c].wish)
    BY <1>3, <2>1 DEF Loses
  <2>3. PICK v \in Users \ {updates[c].user} : IsAdministrator(v)
    BY <2>1, <2>2 DEF AnotherRemains
  <2>4. IsAdministrator(v)'
    BY <1>3, <1>4, <2>1, <2>3
  <2>5. QED
    BY <2>1, <2>3, <2>4
<1>9. QED
  BY <1>5, <1>6, <1>7, <1>8

LEMMA CommitsUpdateInv ==
  ASSUME AccountsInv, NEW c \in Updates, CommitsUpdate(c)
  PROVE  AccountsInv'
<1> DEFINE u == updates[c].user
           row == [status |-> updates[c].wish.status, admin |-> updates[c].wish.admin, version |-> accounts[u].version + 1]
<1> USE DEF AccountsInv
<1>1. u \in Users /\ updates[c].wish \in Wishes /\ accounts[u] \in AccountRows /\ updates[c].at = "writing" /\ updating = c
  BY DEF AccountsTypeOK, AsItWasShown, UnderTheLock, CommitsUpdate
<1>2. row \in AccountRows /\ accounts[u].version < row.version
      /\ row.status = updates[c].wish.status /\ row.admin = updates[c].wish.admin
  BY <1>1, AccountsAssumption DEF AccountsAssumption, AccountRows, Wishes, Grants, CommitsUpdate
<1>3. /\ accounts' = [accounts EXCEPT ![u] = row]
      /\ updates' = [updates EXCEPT ![c] = NoUpdate]
      /\ updating' = None
  BY <1>1 DEF CommitsUpdate, AccountsTypeOK
<1>4. NoUpdate \in [at : Places, user : Users, saw : AccountRows \cup {None}, wish : Wishes \cup {None}] /\ NoUpdate.at = "idle"
  BY AccountsAssumption DEF AccountsAssumption, NoUpdate, Places
<1> HIDE DEF row
<1>5. AccountsTypeOK'
  BY <1>1, <1>2, <1>3, <1>4 DEF AccountsTypeOK
<1>6. \A d \in Updates : updates'[d] = IF d = c THEN NoUpdate ELSE updates[d]
  BY <1>3 DEF AccountsTypeOK
<1>7. \A d \in Updates : updates'[d].at \notin {"reading", "counting", "writing"}
  BY <1>1, <1>4, <1>6 DEF UnderTheLock
<1>8. \/ IsAdministrator(u) => row.status = "active" /\ row.admin
      \/ \E v \in Users \ {u} : IsAdministrator(v)
  BY <1>1, <1>2 DEF AnotherRemains, Loses
<1> HIDE DEF AccountsInv, u
<1>9. QED
  BY <1>1, <1>2, <1>3, <1>4, <1>5, <1>6, <1>7, <1>8, RowChanges

LEMMA CreateUserInv ==
  ASSUME AccountsInv, NEW u \in Users, NEW grant \in Grants, CreateUser(u, grant)
  PROVE  AccountsInv'
<1> DEFINE row == [status |-> grant.status, admin |-> grant.admin, version |-> 1]
<1> USE DEF AccountsInv
<1>1. row \in AccountRows
  BY AccountsAssumption DEF AccountsAssumption, AccountRows, Grants
<1>2. accounts[u] = None /\ accounts' = [accounts EXCEPT ![u] = row] /\ UNCHANGED <<updates, updating>>
  BY DEF CreateUser
<1> HIDE DEF row
<1>3. AccountsTypeOK'
  BY <1>1, <1>2 DEF AccountsTypeOK
<1>4. \A c \in Updates : updates[c].at # "idle" => updates[c].user # u
  BY <1>2, AccountsAssumption DEF AccountsAssumption, AsItWasShown
<1>5. ~IsAdministrator(u)
  BY <1>2 DEF IsAdministrator
<1>6. \A c \in Updates : updates'[c].at \in {"reading", "counting", "writing"} => updating' = c
  BY <1>2 DEF UnderTheLock
<1> HIDE DEF AccountsInv
<1>7. QED
  BY <1>1, <1>2, <1>3, <1>4, <1>5, <1>6, RowChanges

LEMMA TouchUserInv ==
  ASSUME AccountsInv, NEW u \in Users, TouchUser(u)
  PROVE  AccountsInv'
<1> DEFINE row == [accounts[u] EXCEPT !.version = @ + 1]
<1> USE DEF AccountsInv
<1>1. accounts[u] \in AccountRows
  BY DEF AccountsTypeOK, TouchUser
<1>2. row \in AccountRows /\ accounts[u].version < row.version /\ row.status = accounts[u].status /\ row.admin = accounts[u].admin
  BY <1>1, AccountsAssumption DEF AccountsAssumption, AccountRows, TouchUser
<1>3. accounts' = [accounts EXCEPT ![u] = row] /\ UNCHANGED <<updates, updating>>
  BY <1>1 DEF TouchUser, AccountsTypeOK
<1> HIDE DEF row
<1>4. AccountsTypeOK'
  BY <1>2, <1>3 DEF AccountsTypeOK
<1>5. \A c \in Updates : updates[c].at \in {"counting", "writing"} => updates[c].user # u
  BY DEF TouchUser, RowIsFree, HoldsRow
<1>6. \A c \in Updates : updates'[c].at \in {"reading", "counting", "writing"} => updating' = c
  BY <1>3 DEF UnderTheLock
<1>7. IsAdministrator(u) => row.status = "active" /\ row.admin
  BY <1>2 DEF IsAdministrator
<1> HIDE DEF AccountsInv
<1>8. QED
  BY <1>2, <1>3, <1>4, <1>5, <1>6, <1>7, RowChanges

LEMMA AccountsStepInv == AccountsInv /\ [AccountsNext]_accountVars => AccountsInv'
<1> SUFFICES ASSUME AccountsInv, [AccountsNext]_accountVars PROVE AccountsInv'
  OBVIOUS
<1>1. ASSUME NEW c \in Updates, NEW u \in Users, NEW wish \in Wishes, UpdateRequested(c, u, wish) PROVE AccountsInv'
  BY <1>1, UpdateRequestedInv
<1>2. ASSUME NEW c \in Updates, TakesTurn(c) PROVE AccountsInv'
  BY <1>2, TakesTurnInv
<1>3. ASSUME NEW c \in Updates, ReadsRow(c) PROVE AccountsInv'
  <2> DEFINE at == IF Loses(updates[c].user, updates[c].wish) THEN "counting" ELSE "writing"
  <2>1. /\ updates[c].at = "reading" /\ accounts[updates[c].user].version = updates[c].saw.version
        /\ updates' = [updates EXCEPT ![c].at = at] /\ UNCHANGED <<accounts, updating>>
    BY <1>3 DEF ReadsRow
  <2>2. at \in {"counting", "writing"} /\ (at = "writing" => ~Loses(updates[c].user, updates[c].wish))
    OBVIOUS
  <2> HIDE DEF at
  <2>3. QED
    BY <2>1, <2>2, GoesOnInv
<1>4. ASSUME NEW c \in Updates, CountsTheOthers(c) PROVE AccountsInv'
  BY <1>4, GoesOnInv DEF CountsTheOthers
<1>5. ASSUME NEW c \in Updates, CommitsUpdate(c) PROVE AccountsInv'
  BY <1>5, CommitsUpdateInv
<1>6. ASSUME NEW c \in Updates, RollsBack(c) PROVE AccountsInv'
  BY <1>6, RollsBackInv
<1>7. ASSUME NEW u \in Users, NEW grant \in Grants, CreateUser(u, grant) PROVE AccountsInv'
  BY <1>7, CreateUserInv
<1>8. ASSUME NEW u \in Users, TouchUser(u) PROVE AccountsInv'
  BY <1>8, TouchUserInv
<1>9. ASSUME UNCHANGED accountVars PROVE AccountsInv'
  BY <1>9 DEF AccountsInv, AccountsTypeOK, AdministratorStays, UnderTheLock, AsItWasShown, AnotherRemains,
              IsAdministrator, Loses, accountVars
<1>10. QED
  BY <1>1, <1>2, <1>3, <1>4, <1>5, <1>6, <1>7, <1>8, <1>9 DEF AccountsNext

\* Every variable of the accounts keeps its type, and what the three relations say of the updates
\* that are under way is so at every moment.
THEOREM AccountsInvariant == AccountsSpec => []AccountsInv
  BY AccountsInitInv, AccountsStepInv, PTL DEF AccountsSpec

\* However updateUser's calls overlap, with each other and with what else writes accounts
\* (postgres-identity-service.js), there is an active administrator.
THEOREM AdministratorsStay == AccountsSpec => []AdministratorStays
<1>1. AccountsInv => AdministratorStays
  BY DEF AccountsInv
<1>2. QED
  BY <1>1, AccountsInvariant, PTL

\* An account's status and roles change only as one asks who has seen what they were.
THEOREM UpdatesAreOfWhatWasSeen == AccountsSpec => UpdatesWhatWasSeen
<1> DEFINE Seen == \A u \in Users : accounts[u] # None =>
                     \/ Grant(accounts'[u]) = Grant(accounts[u])
                     \/ \E c \in Updates : /\ updates[c].at = "writing" /\ updates[c].user = u
                                          /\ Grant(updates[c].saw) = Grant(accounts[u])
<1>1. ASSUME AccountsInv, [AccountsNext]_accountVars PROVE [Seen]_accountVars
  <2> USE <1>1 DEF AccountsInv
  <2> SUFFICES ASSUME NEW u \in Users, accounts[u] # None, accounts'[u] # accounts[u],
                      Grant(accounts'[u]) # Grant(accounts[u])
               PROVE  \E c \in Updates : /\ updates[c].at = "writing" /\ updates[c].user = u
                                        /\ Grant(updates[c].saw) = Grant(accounts[u])
    OBVIOUS
  <2>1. accounts' # accounts
    OBVIOUS
  <2>2. ASSUME NEW c \in Updates, CommitsUpdate(c)
        PROVE  updates[c].at = "writing" /\ updates[c].user = u /\ updates[c].saw = accounts[u]
    <3>1. updates[c].at = "writing" /\ updates[c].saw = accounts[updates[c].user]
      BY <2>2 DEF CommitsUpdate, AsItWasShown
    <3>2. updates[c].user = u
      BY <2>2 DEF CommitsUpdate, AccountsTypeOK
    <3>3. QED
      BY <3>1, <3>2
  <2>3. ASSUME NEW v \in Users, NEW grant \in Grants, CreateUser(v, grant) PROVE FALSE
    BY <2>3 DEF CreateUser, AccountsTypeOK
  <2>4. ASSUME NEW v \in Users, TouchUser(v) PROVE FALSE
    <3>1. v = u
      BY <2>4 DEF TouchUser, AccountsTypeOK
    <3>2. accounts[u] \in AccountRows
      BY DEF AccountsTypeOK
    <3>3. accounts'[u] = [accounts[u] EXCEPT !.version = @ + 1]
      BY <2>4, <3>1 DEF TouchUser, AccountsTypeOK
    <3>4. accounts'[u].status = accounts[u].status /\ accounts'[u].admin = accounts[u].admin
      BY <3>2, <3>3 DEF AccountRows
    <3>5. QED
      BY <3>4 DEF Grant
  <2>5. \/ \E c \in Updates : CommitsUpdate(c)
        \/ \E v \in Users : (\E grant \in Grants : CreateUser(v, grant)) \/ TouchUser(v)
    BY <2>1 DEF AccountsNext, accountVars, UpdateRequested, TakesTurn, ReadsRow, CountsTheOthers, RollsBack
  <2>6. QED
    BY <2>2, <2>3, <2>4, <2>5
<1>2. QED
  BY <1>1, AccountsInvariant, PTL DEF AccountsSpec, UpdatesWhatWasSeen

-----------------------------------------------------------------------------
(***************************************************************************)
(* The second step                                                         *)
(***************************************************************************)
\* A row that is enrolled has a secret and nothing begun; one that is not has neither secret nor backup codes.
RowIsWhole ==
  /\ IF mfa.enabled THEN mfa.pending = 0 /\ mfa.secret # 0 ELSE mfa.secret = 0 /\ mfa.backups = {}
  /\ \A b \in mfa.backups : b.kind = "backup"

\* What has been accepted is of no secret that an enrolment waits for, is at or before the last
\* step where it is of the secret that is enrolled, and is no backup code that is left.
SpentInv ==
  \A c \in spent : /\ c.kind = "totp" => c.of # mfa.pending /\ (c.of = mfa.secret => c.at <= mfa.lastStep)
                   /\ c \notin mfa.backups

TwoStepInv == TwoStepTypeOK /\ RowIsWhole /\ SpentInv /\ VerifiedByWhatIsEnrolled

LEMMA CodesAre ==
  ASSUME NEW c \in Codes
  PROVE  \/ c.kind = "totp" /\ c.of \in 1..secrets /\ c.at \in 1..MaxSteps + 1
         \/ c.kind = "backup" /\ c.of \in 1..batches
<1>1. CASE c \in { Totp(n, t) : n \in 1..secrets, t \in 1..MaxSteps + 1 }
  <2>1. PICK n \in 1..secrets, t \in 1..MaxSteps + 1 : c = Totp(n, t)
    BY <1>1
  <2>2. QED
    BY <2>1 DEF Totp
<1>2. CASE c \in UNION { Batch(n) : n \in 1..batches }
  <2>1. PICK n \in 1..batches : c \in Batch(n)
    BY <1>2
  <2>2. QED
    BY <2>1 DEF Batch
<1>3. QED
  BY <1>1, <1>2 DEF Codes

LEMMA BatchIs ==
  ASSUME NEW n, NEW c \in Batch(n)
  PROVE  c.kind = "backup" /\ c.of = n
  BY DEF Batch

\* What is of a type stays of it as secrets and batches are given out and time passes.
LEMMA TypesGrow ==
  ASSUME TwoStepTypeOK, secrets' \in Nat, batches' \in Nat, steps' \in Nat,
         secrets <= secrets', batches <= batches', steps <= steps'
  PROVE  Codes \subseteq Codes' /\ MfaRows \subseteq MfaRows' /\ SessionRows \subseteq SessionRows'
<1>1. secrets \in Nat /\ batches \in Nat /\ steps \in Nat
  BY TwoStepAssumption DEF TwoStepAssumption, TwoStepTypeOK, Times
<1>2. 1..secrets \subseteq 1..secrets' /\ 0..secrets \subseteq 0..secrets' /\ 1..batches \subseteq 1..batches' /\ 0..steps \subseteq 0..steps'
  BY <1>1
<1>3. Codes \subseteq Codes'
  <2> SUFFICES ASSUME NEW c \in Codes PROVE c \in Codes'
    OBVIOUS
  <2>1. CASE c \in { Totp(n, t) : n \in 1..secrets, t \in 1..MaxSteps + 1 }
    <3>1. PICK n \in 1..secrets, t \in 1..MaxSteps + 1 : c = Totp(n, t)
      BY <2>1
    <3>2. QED
      BY <1>2, <3>1 DEF Codes
  <2>2. CASE c \in UNION { Batch(n) : n \in 1..batches }
    <3>1. PICK n \in 1..batches : c \in Batch(n)
      BY <2>2
    <3>2. QED
      BY <1>2, <3>1 DEF Codes
  <2>3. QED
    BY <2>1, <2>2 DEF Codes
<1>4. QED
  BY <1>2, <1>3 DEF MfaRows, SessionRows

LEMMA TwoStepInitInv == TwoStepInit => TwoStepInv
<1> SUFFICES ASSUME TwoStepInit PROVE TwoStepInv
  OBVIOUS
<1> USE TwoStepAssumption DEF TwoStepAssumption, TwoStepInit
<1>1. NotEnrolled \in MfaRows /\ SignedOut \in SessionRows
  BY DEF NotEnrolled, SignedOut, MfaRows, SessionRows, Asks
<1>2. TwoStepTypeOK
  <2>1. mfa \in MfaRows /\ sessions \in [Sessions -> SessionRows]
    BY <1>1
  <2>2. steps \in Times /\ secrets \in 0..MaxSecrets /\ batches \in 0..MaxBatches /\ wrong \in Seq(Times)
    BY DEF Times
  <2>3. required \in BOOLEAN /\ spent \subseteq Codes
    OBVIOUS
  <2>4. QED
    BY <2>1, <2>2, <2>3 DEF TwoStepTypeOK
<1>3. RowIsWhole /\ SpentInv /\ VerifiedByWhatIsEnrolled
  BY DEF RowIsWhole, SpentInv, VerifiedByWhatIsEnrolled, NotEnrolled
<1>4. QED
  BY <1>2, <1>3 DEF TwoStepInv

\* What touches only the sessions, and the failures of the row.
LEMMA SessionsMove ==
  ASSUME TwoStepInv, UNCHANGED <<steps, secrets, spent, batches>>,
         required' \in BOOLEAN, wrong' \in Seq(Times), mfa' \in MfaRows,
         mfa'.enabled = mfa.enabled, mfa'.secret = mfa.secret, mfa'.pending = mfa.pending,
         mfa'.lastStep = mfa.lastStep, mfa'.backups = mfa.backups,
         sessions' \in [Sessions -> SessionRows],
         \A s \in Sessions : sessions'[s].phase = "live" =>
           sessions'[s].verified = 0 \/ (sessions[s].phase = "live" /\ sessions'[s].verified = sessions[s].verified)
  PROVE  TwoStepInv'
<1> USE DEF TwoStepInv
<1>1. Codes' = Codes /\ MfaRows' = MfaRows /\ SessionRows' = SessionRows
  BY DEF Codes, MfaRows, SessionRows
<1>2. TwoStepTypeOK'
  BY <1>1 DEF TwoStepTypeOK
<1>3. RowIsWhole'
  BY DEF RowIsWhole
<1>4. SpentInv'
  BY DEF SpentInv
<1>5. VerifiedByWhatIsEnrolled'
  BY DEF VerifiedByWhatIsEnrolled
<1>6. QED
  BY <1>2, <1>3, <1>4, <1>5

\* The end of a request.
LEMMA RepliedKeeps ==
  ASSUME TwoStepInv, NEW s \in Sessions
  PROVE  /\ Replied(s) \in [Sessions -> SessionRows]
         /\ \A x \in Sessions : /\ Replied(s)[x].phase = "live" => sessions[x].phase = "live"
                                /\ sessions[x].phase = "live" => Replied(s)[x].verified = sessions[x].verified
<1> USE TwoStepAssumption DEF TwoStepInv, TwoStepAssumption
<1> DEFINE r == IF sessions[s].phase = "live" THEN [sessions[s] EXCEPT !.asks = "none"] ELSE SignedOut
<1>1. secrets \in Nat /\ sessions \in [Sessions -> SessionRows]
  BY DEF TwoStepTypeOK
<1>2. r \in SessionRows /\ (r.phase = "live" => sessions[s].phase = "live")
      /\ (sessions[s].phase = "live" => r.verified = sessions[s].verified)
  BY <1>1 DEF SessionRows, SignedOut, Asks
<1>3. Replied(s) = [sessions EXCEPT ![s] = r]
  BY DEF Replied
<1> HIDE DEF r
<1>4. QED
  BY <1>1, <1>2, <1>3

\* What is left of a session that ends.
LEMMA EndingKeepsType ==
  ASSUME NEW q \in SessionRows, NEW a \in Asks \cup {"none"}
  PROVE  /\ [q EXCEPT !.phase = "ended", !.asks = a] \in SessionRows
         /\ [q EXCEPT !.phase = "ended", !.asks = a].phase = "ended"
BY DEF SessionRows

LEMMA EndedIs ==
  ASSUME TwoStepInv, NEW r \in SessionRows
  PROVE  Ended(r) \in SessionRows /\ Ended(r).phase # "live"
<1> USE TwoStepAssumption DEF TwoStepAssumption, TwoStepInv, TwoStepTypeOK
<1>1. SignedOut \in SessionRows /\ SignedOut.phase = "free"
  BY DEF SessionRows, SignedOut
<1>2. [SignedOut EXCEPT !.phase = "ended", !.asks = r.asks] \in SessionRows
      /\ [SignedOut EXCEPT !.phase = "ended", !.asks = r.asks].phase = "ended"
  <2>1. r.asks \in Asks \cup {"none"}
    BY DEF SessionRows
  <2>2. QED
    BY <1>1, <2>1, EndingKeepsType
<1>3. QED
  BY <1>1, <1>2 DEF Ended

LEMMA SessionStepsInv ==
  ASSUME TwoStepInv, NEW s \in Sessions, NEW ask \in Asks,
         SignIn(s) \/ SessionEnds(s) \/ Asked(s, ask) \/ Refused(s)
  PROVE  TwoStepInv'
<1>1. sessions \in [Sessions -> SessionRows] /\ mfa \in MfaRows /\ wrong \in Seq(Times) /\ required \in BOOLEAN
  BY DEF TwoStepInv, TwoStepTypeOK
<1>2. UNCHANGED <<mfa, required, steps, secrets, spent, wrong, batches>>
  BY DEF SignIn, SessionEnds, Asked, Refused
<1>3. /\ sessions' \in [Sessions -> SessionRows]
      /\ \A x \in Sessions : sessions'[x].phase = "live" =>
           sessions'[x].verified = 0 \/ (sessions[x].phase = "live" /\ sessions'[x].verified = sessions[x].verified)
  <2>1. CASE SignIn(s)
    <3> DEFINE r == [SignedOut EXCEPT !.phase = "live"]
    <3>1. r \in SessionRows /\ r.verified = 0
      BY TwoStepAssumption DEF TwoStepAssumption, TwoStepInv, TwoStepTypeOK, SessionRows, SignedOut
    <3>2. sessions' = [sessions EXCEPT ![s] = r]
      BY <2>1, <1>1 DEF SignIn
    <3> HIDE DEF r
    <3>3. QED
      BY <1>1, <3>1, <3>2
  <2>2. CASE SessionEnds(s)
    <3>1. sessions' = [sessions EXCEPT ![s] = Ended(sessions[s])]
      BY <2>2 DEF SessionEnds
    <3>2. QED
      BY <1>1, <3>1, EndedIs
  <2>3. CASE Asked(s, ask)
    <3> DEFINE r == [sessions[s] EXCEPT !.asks = ask]
    <3>1. r \in SessionRows /\ r.verified = sessions[s].verified /\ r.phase = sessions[s].phase
      BY <1>1 DEF SessionRows
    <3>2. sessions' = [sessions EXCEPT ![s] = r]
      BY <2>3, <1>1 DEF Asked
    <3> HIDE DEF r
    <3>3. QED
      BY <1>1, <3>1, <3>2
  <2>4. CASE Refused(s)
    BY <2>4, RepliedKeeps DEF Refused
  <2>5. QED
    BY <2>1, <2>2, <2>3, <2>4
<1>4. QED
  BY <1>1, <1>2, <1>3, SessionsMove

LEMMA WrongCodeInv ==
  ASSUME TwoStepInv, NEW s \in Sessions, WrongCode(s)
  PROVE  TwoStepInv'
<1> USE TwoStepAssumption DEF TwoStepAssumption
<1>1. /\ sessions \in [Sessions -> SessionRows] /\ mfa \in MfaRows /\ wrong \in Seq(Times) /\ required \in BOOLEAN
      /\ steps \in Times /\ steps \in Nat /\ secrets \in Nat
  BY DEF TwoStepInv, TwoStepTypeOK, Times
<1>2. UNCHANGED <<required, steps, secrets, spent, batches>> /\ mfa' = AfterFailure
  BY DEF WrongCode
<1>3. /\ mfa' \in MfaRows
      /\ mfa'.enabled = mfa.enabled /\ mfa'.secret = mfa.secret /\ mfa'.pending = mfa.pending
      /\ mfa'.lastStep = mfa.lastStep /\ mfa'.backups = mfa.backups
  <2> DEFINE fresh == mfa.failedSince = 0 \/ steps - mfa.failedSince > WindowLength
             count == (IF fresh THEN 0 ELSE mfa.failedCount) + 1
             since == IF fresh THEN steps ELSE mfa.failedSince
             until == IF count >= UserFailures THEN steps + LockLength ELSE mfa.lockedUntil
  <2>1. count \in Nat /\ since \in 0..steps /\ until \in Nat
    BY <1>1 DEF MfaRows
  <2>2. mfa' = [mfa EXCEPT !.failedCount = count, !.failedSince = since, !.lockedUntil = until]
    BY <1>1, <1>2 DEF AfterFailure, MfaRows
  <2> HIDE DEF count, since, until
  <2>3. QED
    BY <1>1, <2>1, <2>2 DEF MfaRows
<1>4. wrong' \in Seq(Times)
  BY <1>1 DEF WrongCode
<1>5. /\ sessions' \in [Sessions -> SessionRows]
      /\ \A x \in Sessions : sessions'[x].phase = "live" =>
           sessions'[x].verified = 0 \/ (sessions[x].phase = "live" /\ sessions'[x].verified = sessions[x].verified)
  <2>1. CASE sessions' = Replied(s)
    BY <2>1, RepliedKeeps
  <2>2. CASE sessions' = [sessions EXCEPT ![s] = Ended(sessions[s])]
    BY <1>1, <2>2, EndedIs
  <2>3. CASE /\ ~(sessions[s].failures + 1 >= SessionFailures)
             /\ sessions' = [sessions EXCEPT ![s] = [sessions[s] EXCEPT !.failures = @ + 1]]
    <3> DEFINE r == [sessions[s] EXCEPT !.failures = @ + 1]
    <3>1. sessions[s] \in SessionRows
      BY <1>1
    <3>2. r \in SessionRows /\ r.verified = sessions[s].verified /\ r.phase = sessions[s].phase
      BY <2>3, <3>1 DEF SessionRows
    <3>3. sessions' = [sessions EXCEPT ![s] = r]
      BY <2>3
    <3> HIDE DEF r
    <3>4. QED
      BY <1>1, <3>2, <3>3
  <2>4. \/ sessions' = Replied(s)
        \/ sessions' = [sessions EXCEPT ![s] =
             IF sessions[s].failures + 1 >= SessionFailures THEN Ended(sessions[s])
             ELSE [sessions[s] EXCEPT !.failures = @ + 1]]
    BY DEF WrongCode
  <2>5. QED
    BY <2>1, <2>2, <2>3, <2>4
<1>6. QED
  BY <1>1, <1>2, <1>3, <1>4, <1>5, SessionsMove

\* What a code does to the row of whoever is enrolled.
LEMMA ConsumedIs ==
  ASSUME TwoStepInv, mfa.enabled, NEW c \in Codes, Accepts(c)
  PROVE  /\ Consumed(c) \in MfaRows
         /\ Consumed(c).enabled /\ Consumed(c).secret = mfa.secret /\ Consumed(c).pending = mfa.pending
         /\ c.kind = "totp" => /\ c.of = mfa.secret /\ c.at > mfa.lastStep
                                /\ Consumed(c).lastStep = c.at /\ Consumed(c).backups = mfa.backups
         /\ c.kind # "totp" => Consumed(c).lastStep = mfa.lastStep /\ Consumed(c).backups = mfa.backups \ {c}
<1> USE TwoStepAssumption DEF TwoStepAssumption, TwoStepInv
<1>1. mfa \in MfaRows /\ steps \in Nat
  BY DEF TwoStepTypeOK, Times
<1>2. CASE c.kind = "totp"
  <2>1. Fits(c, mfa.secret, mfa.lastStep) /\ c.at \in 1..MaxSteps + 1
    BY <1>2, CodesAre DEF Accepts, RowIsWhole
  <2>2. Consumed(c) = Cleared([mfa EXCEPT !.lastStep = c.at])
    BY <1>2 DEF Consumed
  <2>3. Consumed(c) = [mfa EXCEPT !.lastStep = c.at, !.failedCount = 0, !.failedSince = 0, !.lockedUntil = 0]
    BY <1>1, <2>2 DEF Cleared, MfaRows
  <2>4. 0 \in 0..steps /\ c.at \in 0..MaxSteps + 1 /\ 0 \in Nat
    BY <1>1, <2>1
  <2>5. Consumed(c) \in MfaRows
    BY <1>1, <2>3, <2>4 DEF MfaRows
  <2>6. QED
    BY <1>1, <1>2, <2>1, <2>3, <2>5 DEF MfaRows, Fits
<1>3. CASE c.kind # "totp"
  <2>1. Consumed(c) = Cleared([mfa EXCEPT !.backups = @ \ {c}])
    BY <1>3 DEF Consumed
  <2>2. Consumed(c) = [mfa EXCEPT !.backups = mfa.backups \ {c}, !.failedCount = 0, !.failedSince = 0, !.lockedUntil = 0]
    BY <1>1, <2>1 DEF Cleared, MfaRows
  <2>3. 0 \in 0..steps /\ mfa.backups \ {c} \subseteq Codes
    BY <1>1 DEF MfaRows
  <2>4. Consumed(c) \in MfaRows
    <3>1. Consumed(c) = [enabled |-> mfa.enabled, secret |-> mfa.secret, pending |-> mfa.pending,
                         lastStep |-> mfa.lastStep, backups |-> mfa.backups \ {c},
                         failedCount |-> 0, failedSince |-> 0, lockedUntil |-> 0]
      BY <1>1, <2>2 DEF MfaRows
    <3>2. QED
      BY <1>1, <2>3, <3>1 DEF MfaRows
  <2>5. /\ Consumed(c).enabled = mfa.enabled /\ Consumed(c).secret = mfa.secret /\ Consumed(c).pending = mfa.pending
        /\ Consumed(c).lastStep = mfa.lastStep /\ Consumed(c).backups = mfa.backups \ {c}
    BY <1>1, <2>2 DEF MfaRows
  <2>6. QED
    BY <1>3, <2>4, <2>5
<1>4. QED
  BY <1>2, <1>3

\* A code is spent as the row takes it in; the backup codes are as it leaves them, or a new batch.
LEMMA CodeSpentInv ==
  ASSUME TwoStepInv, mfa.enabled, NEW c \in Codes, Accepts(c), mfa' \in MfaRows', Proved(c),
         secrets' = secrets, batches' \in {batches, batches + 1}, TwoStepTypeOK', VerifiedByWhatIsEnrolled',
         mfa'.enabled, mfa'.secret = mfa.secret, mfa'.pending = mfa.pending, mfa'.lastStep = Consumed(c).lastStep,
         \/ mfa'.backups = Consumed(c).backups
         \/ c.kind = "totp" /\ batches' = batches + 1 /\ mfa'.backups = Batch(batches')
  PROVE  TwoStepInv'
<1> USE DEF TwoStepInv
<1>1. /\ batches \in Nat /\ mfa.lastStep \in Nat /\ mfa.secret \in Nat
      /\ \A d \in spent \cup {c} : d \in Codes
  BY TwoStepAssumption DEF TwoStepAssumption, TwoStepTypeOK, MfaRows
<1>2. RowIsWhole'
  BY ConsumedIs, BatchIs DEF RowIsWhole
<1>3. SpentInv'
  <2> SUFFICES ASSUME NEW d \in spent \cup {c}
               PROVE  /\ d.kind = "totp" => d.of # mfa'.pending /\ (d.of = mfa'.secret => d.at <= mfa'.lastStep)
                      /\ d \notin mfa'.backups
    BY DEF SpentInv, Proved
  <2>1. d.kind = "totp" => d.of \in 1..secrets /\ d.at \in Nat
    BY <1>1, CodesAre, TwoStepAssumption DEF TwoStepAssumption
  <2>2. c.kind = "totp" => c.at \in Nat
    BY CodesAre, TwoStepAssumption DEF TwoStepAssumption
  <2>3. d.kind = "totp" => d.of # mfa'.pending
    BY <2>1 DEF RowIsWhole
  <2>4. d.kind = "totp" /\ d.of = mfa'.secret => d.at <= mfa'.lastStep
    BY <1>1, <2>1, <2>2, ConsumedIs DEF SpentInv
  <2>5. CASE mfa'.backups = Consumed(c).backups
    <3>1. c.kind = "totp" => Consumed(c).backups = mfa.backups
      BY ConsumedIs
    <3>2. c.kind # "totp" => Consumed(c).backups = mfa.backups \ {c}
      BY ConsumedIs
    <3>3. c.kind = "totp" => c \notin mfa.backups
      BY DEF RowIsWhole
    <3>4. d # c => d \notin mfa.backups
      BY DEF SpentInv
    <3>5. d \notin mfa'.backups
      BY <2>5, <3>1, <3>2, <3>3, <3>4
    <3>6. QED
      BY <2>3, <2>4, <3>5
  <2>6. CASE c.kind = "totp" /\ batches' = batches + 1 /\ mfa'.backups = Batch(batches')
    <3>1. d.kind = "backup" => d.of \in 1..batches
      BY <1>1, CodesAre
    <3>2. d \notin Batch(batches + 1)
      BY <1>1, <2>6, <3>1, CodesAre, BatchIs
    <3>3. QED
      BY <2>3, <2>4, <2>6, <3>2
  <2>7. QED
    BY <2>3, <2>4, <2>5, <2>6
<1>4. QED
  BY <1>2, <1>3

LEMMA ProvedTyped ==
  ASSUME TwoStepInv, NEW c \in Codes, Proved(c), Codes \subseteq Codes'
  PROVE  spent' \subseteq Codes' /\ wrong' \in Seq(Times)
  BY DEF Proved, TwoStepInv, TwoStepTypeOK

LEMMA MfaVerifyInv ==
  ASSUME TwoStepInv, NEW s \in Sessions, NEW c \in Codes, MfaVerify(s, c)
  PROVE  TwoStepInv'
<1> USE TwoStepAssumption DEF TwoStepAssumption
<1>1. /\ mfa.enabled /\ Accepts(c) /\ mfa' = Consumed(c) /\ Proved(c)
      /\ UNCHANGED <<required, steps, secrets, batches>>
  BY DEF MfaVerify
<1>2. Codes' = Codes /\ MfaRows' = MfaRows /\ SessionRows' = SessionRows
  BY <1>1 DEF Codes, MfaRows, SessionRows
<1>3. /\ sessions \in [Sessions -> SessionRows] /\ mfa.secret \in 0..secrets /\ secrets \in Nat
  BY DEF TwoStepInv, TwoStepTypeOK, MfaRows
<1> DEFINE r == [sessions[s] EXCEPT !.verified = mfa.secret, !.failures = 0]
<1>4. r \in SessionRows /\ r.verified = mfa.secret
  <2>1. sessions[s] \in SessionRows /\ 0 \in 0..SessionFailures
    BY <1>3
  <2>2. QED
    BY <1>3, <2>1 DEF SessionRows
<1>5. sessions' = [sessions EXCEPT ![s] = r]
  BY <1>3 DEF MfaVerify
<1> HIDE DEF r
<1>6. sessions' \in [Sessions -> SessionRows]
  BY <1>3, <1>4, <1>5
<1>7. mfa' \in MfaRows'
  BY <1>1, <1>2, ConsumedIs
<1>8. TwoStepTypeOK'
  BY <1>1, <1>2, <1>6, <1>7, ProvedTyped DEF TwoStepInv, TwoStepTypeOK
<1>9. VerifiedByWhatIsEnrolled'
  <2>1. mfa'.secret = mfa.secret
    BY <1>1, ConsumedIs
  <2>2. QED
    BY <1>1, <1>3, <1>4, <1>5, <2>1 DEF TwoStepInv, VerifiedByWhatIsEnrolled
<1>10. batches' \in {batches, batches + 1}
  BY <1>1
<1>11. QED
  BY <1>1, <1>7, <1>8, <1>9, <1>10, ConsumedIs, CodeSpentInv

LEMMA MfaStartEnrollmentInv ==
  ASSUME TwoStepInv, NEW s \in Sessions, MfaStartEnrollment(s)
  PROVE  TwoStepInv'
<1> USE TwoStepAssumption DEF TwoStepAssumption
<1>1. /\ ~mfa.enabled /\ secrets < MaxSecrets /\ secrets' = secrets + 1 /\ mfa' = [mfa EXCEPT !.pending = secrets']
      /\ sessions' = Replied(s) /\ UNCHANGED <<required, steps, spent, wrong, batches>>
  BY DEF MfaStartEnrollment
<1>2. /\ secrets \in Nat /\ batches \in Nat /\ steps \in Nat /\ mfa \in MfaRows
      /\ spent \subseteq Codes
  BY DEF TwoStepInv, TwoStepTypeOK, Times
<1>3. Codes \subseteq Codes' /\ MfaRows \subseteq MfaRows' /\ SessionRows \subseteq SessionRows'
  BY <1>1, <1>2, TypesGrow DEF TwoStepInv
<1>4. mfa' \in MfaRows'
  <2>1. mfa \in MfaRows'
    BY <1>2, <1>3
  <2>2. secrets' \in 0..secrets'
    BY <1>1, <1>2
  <2>3. QED
    BY <1>1, <2>1, <2>2 DEF MfaRows
<1>5. /\ mfa'.enabled = FALSE /\ mfa'.secret = mfa.secret /\ mfa'.pending = secrets + 1
      /\ mfa'.lastStep = mfa.lastStep /\ mfa'.backups = mfa.backups
  BY <1>1, <1>2 DEF MfaRows
<1>6. sessions' \in [Sessions -> SessionRows']
  BY <1>1, <1>3, RepliedKeeps
<1>7. TwoStepTypeOK'
  BY <1>1, <1>2, <1>3, <1>4, <1>6 DEF TwoStepInv, TwoStepTypeOK
<1>8. RowIsWhole' /\ VerifiedByWhatIsEnrolled'
  BY <1>1, <1>5 DEF TwoStepInv, RowIsWhole, VerifiedByWhatIsEnrolled
<1>9. SpentInv'
  <2> SUFFICES ASSUME NEW c \in spent
               PROVE  /\ c.kind = "totp" => c.of # mfa'.pending /\ (c.of = mfa'.secret => c.at <= mfa'.lastStep)
                      /\ c \notin mfa'.backups
    BY <1>1 DEF SpentInv
  <2>1. c.kind = "totp" => c.of \in 1..secrets
    BY <1>2, CodesAre
  <2>2. QED
    BY <1>2, <1>5, <2>1 DEF TwoStepInv, SpentInv
<1>10. QED
  BY <1>7, <1>8, <1>9 DEF TwoStepInv

LEMMA MfaConfirmEnrollmentInv ==
  ASSUME TwoStepInv, NEW s \in Sessions, NEW c \in Codes, MfaConfirmEnrollment(s, c)
  PROVE  TwoStepInv'
<1> USE TwoStepAssumption DEF TwoStepAssumption
<1>1. /\ ~mfa.enabled /\ mfa.pending # 0 /\ Fits(c, mfa.pending, 0) /\ Proved(c)
      /\ batches < MaxBatches /\ batches' = batches + 1
      /\ mfa' = [NotEnrolled EXCEPT !.enabled = TRUE, !.secret = mfa.pending, !.lastStep = c.at,
                               !.backups = Batch(batches')]
      /\ UNCHANGED <<required, steps, secrets>>
  BY DEF MfaConfirmEnrollment, NewBatch
<1>2. /\ secrets \in Nat /\ batches \in Nat /\ steps \in Nat /\ mfa \in MfaRows /\ mfa.pending \in 1..secrets
      /\ spent \subseteq Codes /\ sessions \in [Sessions -> SessionRows]
  <2>1. /\ secrets \in Nat /\ batches \in Nat /\ steps \in Nat /\ mfa \in MfaRows
        /\ spent \subseteq Codes /\ sessions \in [Sessions -> SessionRows]
    BY DEF TwoStepInv, TwoStepTypeOK, Times
  <2>2. mfa.pending \in 0..secrets
    BY <2>1 DEF MfaRows
  <2>3. QED
    BY <1>1, <2>1, <2>2
<1>3. Codes \subseteq Codes' /\ MfaRows \subseteq MfaRows' /\ SessionRows \subseteq SessionRows'
  BY <1>1, <1>2, TypesGrow DEF TwoStepInv
<1>4. c.kind = "totp" /\ c.of = mfa.pending /\ c.at \in 1..MaxSteps + 1
  BY <1>1, CodesAre DEF Fits
<1>5. Batch(batches') \subseteq Codes'
  <2>1. batches' \in 1..batches'
    BY <1>1, <1>2
  <2>2. QED
    BY <2>1 DEF Codes
<1>6. /\ mfa' \in MfaRows'
      /\ mfa'.enabled /\ mfa'.secret = mfa.pending /\ mfa'.pending = 0 /\ mfa'.lastStep = c.at
      /\ mfa'.backups = Batch(batches')
  <2>1. mfa.pending \in 0..secrets' /\ 0 \in 0..secrets' /\ 0 \in 0..steps' /\ c.at \in 0..MaxSteps + 1
    BY <1>1, <1>2, <1>4
  <2>2. mfa' = [enabled |-> TRUE, secret |-> mfa.pending, pending |-> 0, lastStep |-> c.at, backups |-> Batch(batches'),
                failedCount |-> 0, failedSince |-> 0, lockedUntil |-> 0]
    BY <1>1 DEF NotEnrolled
  <2>3. QED
    BY <1>5, <2>1, <2>2 DEF MfaRows
<1>7. /\ sessions' \in [Sessions -> SessionRows']
      /\ \A x \in Sessions : sessions'[x].phase = "live" => sessions'[x].verified \in {0, mfa.pending}
  <2>1. mfa.pending \in 0..secrets' /\ 0 \in 0..secrets' /\ 0 \in 0..SessionFailures
    BY <1>1, <1>2
  <2>2. \A x \in Sessions : sessions[x] \in SessionRows'
    BY <1>2, <1>3
  <2>3. SignedOut \in SessionRows' /\ SignedOut.phase # "live"
    BY <2>1 DEF SessionRows, SignedOut
  <2>4. ASSUME NEW x \in Sessions
        PROVE  /\ sessions'[x] \in SessionRows'
               /\ sessions'[x].phase = "live" => sessions'[x].verified \in {0, mfa.pending}
    <3>1. CASE x # s
      <4>1. sessions'[x] = [sessions[x] EXCEPT !.verified = 0]
        BY <3>1 DEF MfaConfirmEnrollment
      <4>2. QED
        BY <2>1, <2>2, <4>1 DEF SessionRows
    <3>2. CASE x = s /\ sessions[s].phase = "live"
      <4>1. sessions'[x] = [sessions[s] EXCEPT !.asks = "none", !.verified = mfa.pending, !.failures = 0]
        BY <3>2 DEF MfaConfirmEnrollment
      <4>2. QED
        BY <2>1, <2>2, <3>2, <4>1 DEF SessionRows
    <3>3. CASE x = s /\ sessions[s].phase # "live"
      <4>1. sessions'[x] = SignedOut
        BY <3>3 DEF MfaConfirmEnrollment
      <4>2. QED
        BY <2>3, <4>1
    <3>4. QED
      BY <3>1, <3>2, <3>3
  <2>5. sessions' = [x \in Sessions |-> sessions'[x]]
    BY DEF MfaConfirmEnrollment
  <2>6. QED
    BY <2>4, <2>5
<1>8. TwoStepTypeOK'
  BY <1>1, <1>2, <1>3, <1>6, <1>7, ProvedTyped DEF TwoStepInv, TwoStepTypeOK
<1>9. RowIsWhole' /\ VerifiedByWhatIsEnrolled'
  BY <1>2, <1>6, <1>7, BatchIs DEF RowIsWhole, VerifiedByWhatIsEnrolled
<1>10. SpentInv'
  <2> SUFFICES ASSUME NEW d \in spent \cup {c}
               PROVE  /\ d.kind = "totp" => d.of # mfa'.pending /\ (d.of = mfa'.secret => d.at <= mfa'.lastStep)
                      /\ d \notin mfa'.backups
    BY <1>1 DEF SpentInv, Proved
  <2>1. /\ d.kind = "totp" => d.of \in 1..secrets
        /\ d.kind # "totp" => d.of \in 1..batches
        /\ d.kind = "totp" \/ d.kind = "backup"
    BY <1>2, CodesAre
  <2>2. d # c /\ d.kind = "totp" => d.of # mfa.pending
    BY DEF TwoStepInv, SpentInv
  <2>3. d \notin Batch(batches')
    BY <1>1, <1>2, <2>1, BatchIs
  <2>4. QED
    BY <1>2, <1>4, <1>6, <2>1, <2>2, <2>3
<1>11. QED
  BY <1>8, <1>9, <1>10 DEF TwoStepInv

LEMMA MfaRegenerateBackupCodesInv ==
  ASSUME TwoStepInv, NEW s \in Sessions, NEW c \in Codes, MfaRegenerateBackupCodes(s, c)
  PROVE  TwoStepInv'
<1> USE TwoStepAssumption DEF TwoStepAssumption
<1>1. /\ mfa.enabled /\ Fits(c, mfa.secret, mfa.lastStep) /\ Proved(c) /\ sessions' = Replied(s)
      /\ batches < MaxBatches /\ batches' = batches + 1
      /\ mfa' = [Consumed(c) EXCEPT !.backups = Batch(batches')]
      /\ UNCHANGED <<required, steps, secrets>>
  BY DEF MfaRegenerateBackupCodes, WithFreshCode, NewBatch
<1>2. secrets \in Nat /\ batches \in Nat /\ steps \in Nat
  BY DEF TwoStepInv, TwoStepTypeOK, Times
<1>3. Codes \subseteq Codes' /\ MfaRows \subseteq MfaRows' /\ SessionRows \subseteq SessionRows'
  BY <1>1, <1>2, TypesGrow DEF TwoStepInv
<1>4. Accepts(c) /\ c.kind = "totp"
  BY <1>1 DEF Accepts, Fits
<1>5. Batch(batches') \subseteq Codes'
  <2>1. batches' \in 1..batches'
    BY <1>1, <1>2
  <2>2. QED
    BY <2>1 DEF Codes
<1>6. /\ mfa' \in MfaRows' /\ mfa'.enabled /\ mfa'.secret = mfa.secret /\ mfa'.pending = mfa.pending
      /\ mfa'.lastStep = Consumed(c).lastStep /\ mfa'.backups = Batch(batches')
  <2>1. Consumed(c) \in MfaRows'
    BY <1>1, <1>3, <1>4, ConsumedIs
  <2>2. /\ mfa' \in MfaRows' /\ mfa'.enabled = Consumed(c).enabled /\ mfa'.secret = Consumed(c).secret
        /\ mfa'.pending = Consumed(c).pending /\ mfa'.lastStep = Consumed(c).lastStep
        /\ mfa'.backups = Batch(batches')
    BY <1>1, <1>5, <2>1 DEF MfaRows
  <2>3. QED
    BY <1>1, <1>4, <2>2, ConsumedIs
<1>7. sessions' \in [Sessions -> SessionRows']
  BY <1>1, <1>3, RepliedKeeps
<1>8. TwoStepTypeOK'
  BY <1>1, <1>2, <1>3, <1>6, <1>7, ProvedTyped DEF TwoStepInv, TwoStepTypeOK
<1>9. VerifiedByWhatIsEnrolled'
  BY <1>1, <1>6, RepliedKeeps DEF TwoStepInv, VerifiedByWhatIsEnrolled
<1>10. QED
  BY <1>1, <1>4, <1>6, <1>8, <1>9, CodeSpentInv

\* The row is gone.
LEMMA RowGone ==
  ASSUME TwoStepInv, mfa' = NotEnrolled, UNCHANGED <<steps, secrets, batches>>, required' \in BOOLEAN,
         spent' \subseteq Codes, wrong' \in Seq(Times), sessions' \in [Sessions -> SessionRows]
  PROVE  TwoStepInv'
<1> USE TwoStepAssumption DEF TwoStepAssumption
<1>1. Codes' = Codes /\ MfaRows' = MfaRows /\ SessionRows' = SessionRows
  BY DEF Codes, MfaRows, SessionRows
<1>2. NotEnrolled \in MfaRows
  BY DEF TwoStepInv, TwoStepTypeOK, Times, NotEnrolled, MfaRows
<1>3. TwoStepTypeOK'
  BY <1>1, <1>2 DEF TwoStepInv, TwoStepTypeOK
<1>4. RowIsWhole' /\ VerifiedByWhatIsEnrolled'
  BY DEF RowIsWhole, VerifiedByWhatIsEnrolled, NotEnrolled
<1>5. SpentInv'
  <2> SUFFICES ASSUME NEW c \in spent', c.kind = "totp" PROVE c.of # 0
    BY DEF SpentInv, NotEnrolled
  <2>1. c.of \in 1..secrets
    BY CodesAre
  <2>2. QED
    BY <2>1 DEF TwoStepInv, TwoStepTypeOK
<1>6. QED
  BY <1>3, <1>4, <1>5 DEF TwoStepInv

LEMMA StepPassesInv ==
  ASSUME TwoStepInv, StepPasses
  PROVE  TwoStepInv'
<1> USE TwoStepAssumption DEF TwoStepAssumption
<1>1. /\ steps < MaxSteps /\ steps' = steps + 1 /\ spent' \subseteq spent
      /\ UNCHANGED <<mfa, required, sessions, secrets, batches>>
  BY DEF StepPasses
<1>2. secrets \in Nat /\ batches \in Nat /\ steps \in Times /\ steps \in Nat
  BY DEF TwoStepInv, TwoStepTypeOK, Times
<1>3. Codes \subseteq Codes' /\ MfaRows \subseteq MfaRows' /\ SessionRows \subseteq SessionRows'
  BY <1>1, <1>2, TypesGrow DEF TwoStepInv
<1>4. wrong' \in Seq(Times) /\ steps' \in Times
  BY <1>1, <1>2 DEF StepPasses, TwoStepInv, TwoStepTypeOK, Times
<1>5. TwoStepTypeOK'
  BY <1>1, <1>2, <1>3, <1>4 DEF TwoStepInv, TwoStepTypeOK
<1>6. RowIsWhole' /\ SpentInv' /\ VerifiedByWhatIsEnrolled'
  BY <1>1 DEF TwoStepInv, RowIsWhole, SpentInv, VerifiedByWhatIsEnrolled
<1>7. QED
  BY <1>5, <1>6 DEF TwoStepInv

LEMMA TwoStepStepInv == TwoStepInv /\ [TwoStepNext]_twoStepVars => TwoStepInv'
<1> SUFFICES ASSUME TwoStepInv, [TwoStepNext]_twoStepVars PROVE TwoStepInv'
  OBVIOUS
<1>1. /\ sessions \in [Sessions -> SessionRows] /\ mfa \in MfaRows /\ wrong \in Seq(Times) /\ required \in BOOLEAN
      /\ spent \subseteq Codes
  BY DEF TwoStepInv, TwoStepTypeOK
<1>2. ASSUME NEW s \in Sessions, SignIn(s) \/ SessionEnds(s) \/ (\E ask \in Asks : Asked(s, ask)) \/ Refused(s)
      PROVE  TwoStepInv'
  BY <1>2, SessionStepsInv DEF Asks
<1>3. ASSUME NEW s \in Sessions, WrongCode(s) \/ MfaStartEnrollment(s) PROVE TwoStepInv'
  BY <1>3, WrongCodeInv, MfaStartEnrollmentInv
<1>4. ASSUME NEW s \in Sessions, NEW c \in Codes,
             MfaVerify(s, c) \/ MfaConfirmEnrollment(s, c) \/ MfaRegenerateBackupCodes(s, c)
      PROVE  TwoStepInv'
  BY <1>4, MfaVerifyInv, MfaConfirmEnrollmentInv, MfaRegenerateBackupCodesInv
<1>5. ASSUME NEW s \in Sessions, NEW c \in Codes, MfaDisable(s, c) PROVE TwoStepInv'
  <2>1. /\ mfa' = NotEnrolled /\ sessions' = Replied(s) /\ Proved(c)
        /\ UNCHANGED <<required, steps, secrets, batches>>
    BY <1>5 DEF MfaDisable, WithFreshCode
  <2>2. spent' \subseteq Codes /\ wrong' \in Seq(Times)
    BY <1>1, <2>1 DEF Proved
  <2>3. QED
    BY <1>1, <2>1, <2>2, RepliedKeeps, RowGone
<1>6. CASE MfaReset
  <2>1. sessions' \in [Sessions -> SessionRows]
    BY <1>1, <1>6, EndedIs DEF MfaReset
  <2>2. QED
    BY <1>1, <1>6, <2>1, RowGone DEF MfaReset
<1>7. CASE MfaTurnOff
  <2>1. wrong' \in Seq(Times)
    BY <1>7 DEF MfaTurnOff
  <2>2. QED
    BY <1>1, <1>7, <2>1, RowGone DEF MfaTurnOff
<1>8. CASE MfaRequired
  BY <1>1, <1>8, SessionsMove DEF MfaRequired
<1>9. CASE StepPasses
  BY <1>9, StepPassesInv
<1>10. CASE UNCHANGED twoStepVars
  BY <1>1, <1>10, SessionsMove DEF twoStepVars
<1>11. QED
  BY <1>2, <1>3, <1>4, <1>5, <1>6, <1>7, <1>8, <1>9, <1>10 DEF TwoStepNext

\* Every variable of the second step keeps its type, and codes, authenticators, sessions and locks
\* agree with each other at every moment (postgres-identity-service.js, mfa.js).
THEOREM TwoStepInvariant == TwoStepSpec => []TwoStepInv
  BY TwoStepInitInv, TwoStepStepInv, PTL DEF TwoStepSpec

\* A code that has been accepted is never accepted again, and a session counts as verified only by
\* a code of the authenticator that is enrolled now (postgres-identity-service.js, mfa.js), for
\* any sessions, secrets and time.
THEOREM SecondStepIsProved == TwoStepSpec => []SecondStepProves
<1>1. TwoStepInv => SecondStepProves
  <2> SUFFICES ASSUME TwoStepInv, NEW c \in spent
               PROVE  /\ mfa.enabled => ~Accepts(c)
                      /\ ~mfa.enabled => ~Fits(c, mfa.pending, 0)
    BY DEF TwoStepInv, SecondStepProves, SpentIsRefused
  <2>1. c \in Codes /\ mfa.lastStep \in Nat
    BY TwoStepAssumption DEF TwoStepAssumption, TwoStepInv, TwoStepTypeOK, MfaRows
  <2>2. c.kind = "totp" => c.at \in Nat
    BY <2>1, CodesAre, TwoStepAssumption DEF TwoStepAssumption
  <2>3. QED
    BY <2>1, <2>2 DEF TwoStepInv, SpentInv, Accepts, Fits
<1>2. QED
  BY <1>1, TwoStepInvariant, PTL
-----------------------------------------------------------------------------
(***************************************************************************)
(* Guessing.  The wrong codes of the present window are the last ones, as  *)
(* many as the row has counted.  One more than lock it come only where the *)
(* lock and the window end at once, and then all others came at its start. *)
(***************************************************************************)
WindowStart == Len(wrong) - mfa.failedCount + 1

InOrder ==
  /\ \A i, j \in 1..Len(wrong) : i <= j => wrong[i] <= wrong[j]
  /\ \A i \in 1..Len(wrong) : wrong[i] <= steps

\* What the row has counted.
CountsAgree ==
  IF wrong = <<>> THEN mfa.failedCount = 0 /\ mfa.failedSince = 0
  ELSE LET last == wrong[Len(wrong)] IN
       /\ mfa.failedCount \in 1..Len(wrong) /\ mfa.failedCount <= UserFailures + 1
       /\ wrong[WindowStart] = mfa.failedSince /\ last - mfa.failedSince <= WindowLength
       /\ mfa.failedCount >= UserFailures => mfa.lockedUntil = last + LockLength
       /\ mfa.failedCount > UserFailures =>
            wrong[WindowStart + UserFailures - 1] = mfa.failedSince /\ last = mfa.failedSince + WindowLength

\* What came before the present window, and before as many wrong codes as lock the row.
EarlierIsPast ==
  /\ WindowStart \in 2..Len(wrong) => wrong[WindowStart - 1] < mfa.failedSince
  /\ WindowStart \in UserFailures + 1..Len(wrong) =>
       mfa.failedSince - wrong[WindowStart - UserFailures] > WindowLength

CountsStand == InOrder /\ CountsAgree /\ EarlierIsPast

LEMMA CountsInit == TwoStepInit => CountsStand /\ GuessesAreLimited
  BY DEF TwoStepInit, NotEnrolled, CountsStand, InOrder, CountsAgree, EarlierIsPast, WindowStart, GuessesAreLimited

\* Whoever proves the second step, or loses it, begins anew.
LEMMA CountsClear ==
  ASSUME wrong' = <<>>, mfa'.failedCount = 0, mfa'.failedSince = 0
  PROVE  CountsStand' /\ GuessesAreLimited'
  BY DEF CountsStand, InOrder, CountsAgree, EarlierIsPast, WindowStart, GuessesAreLimited

\* What leaves the counting alone, though time may pass.
LEMMA CountsStay ==
  ASSUME TwoStepInv, CountsStand, GuessesAreLimited, UNCHANGED wrong,
         mfa'.failedCount = mfa.failedCount, mfa'.failedSince = mfa.failedSince, mfa'.lockedUntil = mfa.lockedUntil,
         steps' \in Nat, steps <= steps'
  PROVE  CountsStand' /\ GuessesAreLimited'
<1>1. steps \in Nat /\ \A i \in 1..Len(wrong) : wrong[i] \in Nat
  BY TwoStepAssumption DEF TwoStepAssumption, TwoStepInv, TwoStepTypeOK, Times
<1>2. InOrder'
  BY <1>1 DEF CountsStand, InOrder
<1>3. CountsAgree' /\ EarlierIsPast' /\ GuessesAreLimited'
  BY DEF CountsStand, CountsAgree, EarlierIsPast, WindowStart, GuessesAreLimited
<1>4. QED
  BY <1>2, <1>3 DEF CountsStand

LEMMA WrongCodeCounts ==
  ASSUME TwoStepInv, CountsStand, GuessesAreLimited, ~Throttled,
         mfa' = AfterFailure, wrong' = Append(wrong, steps), steps' = steps
  PROVE  CountsStand' /\ GuessesAreLimited'
<1> DEFINE n == Len(wrong)
           c == mfa.failedCount
           s == mfa.failedSince
           b == n - c + 1
           U == UserFailures
           fresh == s = 0 \/ steps - s > WindowLength
           count == (IF fresh THEN 0 ELSE c) + 1
           since == IF fresh THEN steps ELSE s
           until == IF count >= U THEN steps + LockLength ELSE mfa.lockedUntil
<1>1. /\ n \in Nat /\ c \in Nat /\ s \in Nat /\ steps \in Nat \ {0} /\ mfa.lockedUntil \in Nat
      /\ U \in Nat /\ WindowLength \in Nat /\ LockLength \in Nat \ {0} /\ WindowLength <= LockLength /\ U >= 2
      /\ \A i \in 1..n : wrong[i] \in Nat \ {0}
      /\ wrong \in Seq(Times) /\ steps \in Times
  BY TwoStepAssumption, LimitsAssumption
  DEF TwoStepAssumption, LimitsAssumption, TwoStepInv, TwoStepTypeOK, MfaRows, Times
<1>2. Len(wrong') = n + 1 /\ wrong'[n + 1] = steps /\ \A i \in 1..n : wrong'[i] = wrong[i]
  BY <1>1
<1>3. mfa'.failedCount = count /\ mfa'.failedSince = since /\ mfa'.lockedUntil = until
  BY DEF AfterFailure, TwoStepInv, TwoStepTypeOK, MfaRows
<1>4. InOrder'
  BY <1>1, <1>2 DEF CountsStand, InOrder
<1>5. wrong = <<>> <=> n = 0
  BY <1>1
<1>6. n = 0 => c = 0 /\ s = 0
  BY <1>5 DEF CountsStand, CountsAgree
<1>7. n > 0 => /\ c \in 1..n /\ c <= U + 1 /\ b \in 1..n
               /\ wrong[b] = s /\ s > 0 /\ wrong[n] - s <= WindowLength
               /\ c >= U => mfa.lockedUntil = wrong[n] + LockLength
               /\ c > U => wrong[b + U - 1] = s /\ wrong[n] = s + WindowLength
  <2> SUFFICES ASSUME n > 0 PROVE <1>7!2
    OBVIOUS
  <2>1. /\ c \in 1..n /\ c <= U + 1
        /\ wrong[b] = s /\ wrong[n] - s <= WindowLength
        /\ c >= U => mfa.lockedUntil = wrong[n] + LockLength
        /\ c > U => wrong[b + U - 1] = s /\ wrong[n] = s + WindowLength
    BY <1>5 DEF CountsStand, CountsAgree, WindowStart
  <2>2. QED
    BY <1>1, <2>1
<1>8. /\ b \in 2..n => wrong[b - 1] < s
      /\ b \in U + 1..n => s - wrong[b - U] > WindowLength
  BY DEF CountsStand, EarlierIsPast, WindowStart
<1>9. \A i, j \in 1..n : i <= j => wrong[i] <= wrong[j]
  BY DEF CountsStand, InOrder
<1>10. mfa.lockedUntil <= steps /\ \A i \in 1..n : wrong[i] <= steps
  BY <1>1 DEF Throttled, CountsStand, InOrder
<1> HIDE DEF n, c, s, b, U
<1>11. CASE fresh
  <2>1. count = 1 /\ since = steps /\ until = mfa.lockedUntil
    BY <1>1, <1>11
  <2>2. n > 0 => s + WindowLength < steps /\ wrong[n] < steps
    BY <1>1, <1>7, <1>11
  <2>3. CountsAgree'
    BY <1>1, <1>2, <1>3, <2>1 DEF CountsAgree, WindowStart, n, U
  <2>4. ASSUME n + 1 - U \in 1..n PROVE steps - wrong[n + 1 - U] > WindowLength
    <3>1. CASE c <= U
      BY <1>1, <1>7, <1>9, <2>2, <2>4, <3>1 DEF b
    <3>2. CASE c = U + 1
      <4>1. n + 1 - U = b + 1 /\ b + 1 \in 1..n /\ b + U - 1 \in 1..n /\ b + 1 <= b + U - 1
        BY <1>1, <1>7, <2>4, <3>2 DEF b
      <4>2. QED
        <5>1. n > 0
          BY <1>1, <2>4
        <5>2. wrong[b + 1] <= s
          <6>1. wrong[b + 1] <= wrong[b + U - 1]
            BY <1>9, <4>1
          <6>2. wrong[b + U - 1] = s
            BY <1>1, <1>7, <3>2, <5>1
          <6>3. QED
            BY <6>1, <6>2
        <5>3. QED
          BY <1>1, <1>7, <2>2, <4>1, <5>1, <5>2
    <3>3. QED
      BY <1>1, <1>7, <2>4, <3>1, <3>2
  <2>5. EarlierIsPast'
    BY <1>1, <1>2, <1>3, <2>1, <2>2, <2>4 DEF EarlierIsPast, WindowStart, n, U
  <2>6. ASSUME NEW i \in 1..n, n + 1 >= i + 2 * U - 1 PROVE steps - wrong[i] > WindowLength
    <3>1. n + 1 - U \in 1..n /\ i <= n + 1 - U
      BY <1>1, <2>6
    <3>2. QED
      BY <1>1, <1>9, <2>4, <3>1
  <2>7. GuessesAreLimited'
    <3> SUFFICES ASSUME NEW i \in 1..n + 1, NEW j \in 1..n + 1, j >= i + 2 * U - 1
                 PROVE  wrong'[j] - wrong'[i] > WindowLength
      BY <1>2 DEF GuessesAreLimited, U
    <3>1. i \in 1..n
      BY <1>1
    <3>2. CASE j = n + 1
      BY <1>2, <2>6, <3>1, <3>2
    <3>3. CASE j \in 1..n
      BY <1>2, <3>1, <3>3 DEF GuessesAreLimited, n, U
    <3>4. j = n + 1 \/ j \in 1..n
      <4>1. n \in Nat
        BY <1>1
      <4>2. QED
        BY <4>1
    <3>5. QED
      BY <3>2, <3>3, <3>4
  <2>8. QED
    BY <1>4, <2>3, <2>5, <2>7 DEF CountsStand
<1>12. CASE ~fresh
  <2>1. count = c + 1 /\ since = s /\ n > 0 /\ steps - s <= WindowLength
    BY <1>1, <1>6, <1>12
  <2>2. c >= U => c = U /\ wrong[n] = s /\ steps = s + WindowLength
    BY <1>1, <1>7, <1>9, <1>10, <2>1
  <2>3. /\ Len(wrong') = n + 1 /\ WindowStart' = b /\ b \in 1..n
        /\ wrong'[b] = s /\ wrong'[n + 1] = steps
        /\ b > 1 => wrong'[b - 1] = wrong[b - 1]
        /\ b > U => wrong'[b - U] = wrong[b - U]
    <3>1. b \in 1..n
      BY <1>7, <2>1
    <3>2. Len(wrong') = n + 1 /\ mfa'.failedCount = c + 1 /\ n \in Nat /\ c \in Nat
      BY <1>1, <1>2, <1>3, <2>1
    <3>3. WindowStart' = b
      BY <3>2 DEF WindowStart, b
    <3>4. (b > 1 => b - 1 \in 1..n) /\ (b > U => b - U \in 1..n)
      BY <1>1, <3>1
    <3>5. QED
      BY <1>2, <1>7, <2>1, <3>1, <3>3, <3>4
  <2>4. CountsAgree'
    <3>1. c + 1 \in 1..n + 1 /\ c + 1 <= U + 1
      BY <1>1, <1>7, <2>1, <2>2
    <3>2. c + 1 >= U => until = steps + LockLength
      BY <2>1
    <3>3. c + 1 > U => wrong'[b + U - 1] = s /\ steps = s + WindowLength
      <4>1. ASSUME c + 1 > U PROVE c = U /\ b + U - 1 = n /\ n \in 1..n
        BY <1>1, <1>7, <2>1, <2>2, <4>1 DEF b
      <4>2. QED
        BY <1>1, <1>2, <1>7, <2>1, <2>2, <4>1
    <3>4. wrong' # <<>>
      BY <1>1, <1>2
    <3>5. QED
      BY <1>1, <1>3, <2>1, <2>3, <3>1, <3>2, <3>3, <3>4 DEF CountsAgree, U
  <2>5. EarlierIsPast'
    BY <1>1, <1>3, <1>7, <1>8, <2>1, <2>3 DEF EarlierIsPast, U
  <2>6. ASSUME NEW i \in 1..n, n + 1 >= i + 2 * U - 1 PROVE steps - wrong[i] > WindowLength
    <3>1. CASE c >= U
      <4>1. b \in 2..n /\ b - 1 \in 1..n /\ i <= b - 1
        BY <1>1, <1>7, <2>1, <2>2, <2>6, <3>1 DEF b
      <4>2. QED
        BY <1>1, <1>8, <1>9, <2>2, <3>1, <4>1
    <3>2. CASE c < U
      <4>1. b \in U + 1..n /\ b - U \in 1..n /\ i <= b - U
        BY <1>1, <1>7, <2>1, <2>6, <3>2 DEF b
      <4>2. wrong[i] <= wrong[b - U] /\ s <= steps
        BY <1>1, <1>7, <1>9, <1>10, <2>1, <4>1
      <4>3. QED
        BY <1>1, <1>8, <4>1, <4>2
    <3>3. QED
      BY <1>1, <3>1, <3>2
  <2>7. GuessesAreLimited'
    <3> SUFFICES ASSUME NEW i \in 1..n + 1, NEW j \in 1..n + 1, j >= i + 2 * U - 1
                 PROVE  wrong'[j] - wrong'[i] > WindowLength
      BY <1>2 DEF GuessesAreLimited, U
    <3>1. i \in 1..n
      BY <1>1
    <3>2. CASE j = n + 1
      BY <1>2, <2>6, <3>1, <3>2
    <3>3. CASE j \in 1..n
      BY <1>2, <3>1, <3>3 DEF GuessesAreLimited, n, U
    <3>4. j = n + 1 \/ j \in 1..n
      <4>1. n \in Nat
        BY <1>1
      <4>2. QED
        BY <4>1
    <3>5. QED
      BY <3>2, <3>3, <3>4
  <2>8. QED
    BY <1>4, <2>4, <2>5, <2>7 DEF CountsStand
<1>13. QED
  BY <1>11, <1>12

LEMMA CountsStep == TwoStepInv /\ CountsStand /\ GuessesAreLimited /\ [TwoStepNext]_twoStepVars => CountsStand' /\ GuessesAreLimited'
<1> SUFFICES ASSUME TwoStepInv, CountsStand, GuessesAreLimited, [TwoStepNext]_twoStepVars
             PROVE  CountsStand' /\ GuessesAreLimited'
  OBVIOUS
<1>1. mfa \in MfaRows /\ steps \in Nat
  BY TwoStepAssumption DEF TwoStepAssumption, TwoStepInv, TwoStepTypeOK, Times
<1>2. NotEnrolled.failedCount = 0 /\ NotEnrolled.failedSince = 0
  BY DEF NotEnrolled
<1>3. ASSUME NEW s \in Sessions, SignIn(s) \/ SessionEnds(s) \/ (\E ask \in Asks : Asked(s, ask)) \/ Refused(s)
      PROVE  UNCHANGED <<mfa, steps, wrong>>
  BY <1>3 DEF SignIn, SessionEnds, Asked, Refused
<1>4. ASSUME NEW s \in Sessions, WrongCode(s) PROVE CountsStand' /\ GuessesAreLimited'
  BY <1>4, WrongCodeCounts DEF WrongCode
<1>5. ASSUME NEW s \in Sessions, MfaStartEnrollment(s)
      PROVE  /\ UNCHANGED <<steps, wrong>> /\ mfa'.lockedUntil = mfa.lockedUntil
             /\ mfa'.failedCount = mfa.failedCount /\ mfa'.failedSince = mfa.failedSince
  BY <1>1, <1>5 DEF MfaStartEnrollment, MfaRows
<1>6. ASSUME NEW s \in Sessions, NEW c \in Codes, MfaVerify(s, c) \/ MfaRegenerateBackupCodes(s, c)
      PROVE  wrong' = <<>> /\ mfa'.failedCount = 0 /\ mfa'.failedSince = 0
  <2>1. wrong' = <<>> /\ mfa.enabled /\ Accepts(c)
    BY <1>6 DEF MfaVerify, MfaRegenerateBackupCodes, WithFreshCode, Proved, Accepts
  <2>2. Consumed(c) \in MfaRows /\ Consumed(c).failedCount = 0 /\ Consumed(c).failedSince = 0
    BY <1>1, <2>1, ConsumedIs DEF Consumed, Cleared, MfaRows
  <2>3. mfa' = Consumed(c) \/ mfa' = [Consumed(c) EXCEPT !.backups = Batch(batches')]
    BY <1>6 DEF MfaVerify, MfaRegenerateBackupCodes
  <2>4. QED
    BY <2>1, <2>2, <2>3 DEF MfaRows
<1>7. ASSUME NEW s \in Sessions, NEW c \in Codes, MfaConfirmEnrollment(s, c) \/ MfaDisable(s, c)
      PROVE  wrong' = <<>> /\ mfa'.failedCount = 0 /\ mfa'.failedSince = 0
  <2>1. CASE MfaConfirmEnrollment(s, c)
    <3>1. wrong' = <<>> /\ mfa' = [NotEnrolled EXCEPT !.enabled = TRUE, !.secret = mfa.pending, !.lastStep = c.at,
                                                       !.backups = Batch(batches')]
      BY <2>1 DEF MfaConfirmEnrollment, Proved
    <3>2. mfa'.failedCount = NotEnrolled.failedCount /\ mfa'.failedSince = NotEnrolled.failedSince
      BY <3>1 DEF NotEnrolled
    <3>3. QED
      BY <1>2, <3>1, <3>2
  <2>2. CASE MfaDisable(s, c)
    BY <1>2, <2>2 DEF MfaDisable, WithFreshCode, Proved
  <2>3. QED
    BY <1>7, <2>1, <2>2
<1>8. CASE MfaReset \/ MfaTurnOff
  BY <1>2, <1>8, CountsClear DEF MfaReset, MfaTurnOff
<1>9. CASE MfaRequired \/ StepPasses \/ UNCHANGED twoStepVars
  BY <1>1, <1>9, CountsStay DEF MfaRequired, StepPasses, twoStepVars
<1>10. QED
  BY <1>1, <1>3, <1>4, <1>5, <1>6, <1>7, <1>8, <1>9, CountsStay, CountsClear DEF TwoStepNext

\* "Guessing is limited" (docs/mfa.md): no stretch as long as the window has as many wrong codes as
\* two windows that touch may count, however many sessions they come from and whichever requests fail.
THEOREM GuessesStayLimited == TwoStepSpec => []GuessesAreLimited
<1>1. TwoStepInit => CountsStand /\ GuessesAreLimited
  BY CountsInit
<1>2. QED
  BY <1>1, TwoStepInvariant, CountsStep, PTL DEF TwoStepSpec
=============================================================================
