------------------------------- MODULE Accounts -------------------------------
(***************************************************************************)
(* The local accounts: who logs in, who administers whom, and what becomes *)
(* of the cookies and of the requests in flight (AccountService, web/deps, *)
(* the auth and admin_users routes, create-admin).                         *)
(*                                                                         *)
(* Handlers run on the threads of a pool.  A request is authorised in one  *)
(* transaction and acts in another, which reads a row (or looks a name up) *)
(* before its first write takes the database's lock: between these steps   *)
(* the other requests, and a console creating an administrator, go on.     *)
(***************************************************************************)
EXTENDS FiniteSets

CONSTANTS
  Ids,        \* primary keys of the table users
  Nobody,     \* nobody: the console
  Spellings,  \* user names as they are typed
  Fold,       \* [Spellings -> Spellings]: strip().casefold()
  Secrets,    \* passwords of ten characters and more
  Given,      \* the one accounts are created with
  Requests,   \* threads handling requests (and consoles)
  NoRow       \* no row was found

ASSUME FoldAssumption ==
  Fold \in [Spellings -> Spellings] /\ \A s \in Spellings : Fold[Fold[s]] = Fold[s]
ASSUME GivenAssumption == Given \in Secrets
ASSUME NobodyAssumption == Nobody \notin Ids

Roles == {"ADMIN", "EMPLOYEE"}
Account == [name : Spellings, role : Roles, active : BOOLEAN, secret : Secrets]
ASSUME NoRowAssumption == NoRow \notin Account

Toggle == [kind : {"toggle"}, user : Ids, active : BOOLEAN]
Reset == [kind : {"reset"}, user : Ids, secret : Secrets]
Create == [kind : {"create"}, name : Spellings, role : Roles]
Page == [kind : {"page"}]    \* whatever an employee may do
Login == [kind : {"login"}]
Operation == Toggle \cup Reset \cup Create \cup Page \cup Login

Idle == [step |-> "idle"]
Acting == [step : {"acting"}, by : Ids \cup {Nobody}, op : Operation]
Loaded == [step : {"loaded"}, by : Ids \cup {Nobody}, op : Operation,
           row : Account \cup {NoRow}]

VARIABLES
  users,    \* the table: a function from the ids in use to their accounts
  cookies,  \* users for whom some browser holds a valid cookie
  req,      \* [Requests -> what the thread is doing]
  crossed,  \* history: an account was disabled by an administrator who had
            \* been disabled since the request was authorised
  chosen    \* history: [DOMAIN users -> password last chosen for the account]

vars == <<users, cookies, req, crossed, chosen>>

Known == DOMAIN users
Active(u) == u \in Known /\ users[u].active
Admin(u) == u \in Known /\ users[u].role = "ADMIN"
Holders(name) == {u \in Known : users[u].name = Fold[name]}

Init ==
  /\ users = [u \in {} |-> NoRow] /\ chosen = [u \in {} |-> NoRow]
  /\ cookies = {} /\ crossed = FALSE
  /\ req = [r \in Requests |-> Idle]
-----------------------------------------------------------------------------
(* Logging in and out.                                                     *)

\* authenticate: the account is read once, and its password checked.
Authenticate(r, name, secret) ==
  /\ req[r] = Idle
  /\ \E u \in Holders(name) :
       /\ users[u].active /\ users[u].secret = secret
       /\ req' = [req EXCEPT ![r] = [step |-> "acting", by |-> u, op |-> [kind |-> "login"]]]
  /\ UNCHANGED <<users, cookies, crossed, chosen>>

\* The cookie is set whatever has become of the account.
SetCookie(r) ==
  /\ req[r] \in Acting /\ req[r].op \in Login
  /\ cookies' = cookies \cup {req[r].by}
  /\ req' = [req EXCEPT ![r] = Idle]
  /\ UNCHANGED <<users, crossed, chosen>>

\* The user's last cookie is dropped by a logout, or is twelve hours old.
DropCookie(u) ==
  /\ u \in cookies /\ cookies' = cookies \ {u}
  /\ UNCHANGED <<users, req, crossed, chosen>>
-----------------------------------------------------------------------------
(* Authorising a request.                                                  *)

\* Slip: the cookie is proof enough.
CookieIsEnough(u) == u \in cookies /\ u \in Known

\* get_current_user: the cookie names the user, the table says if he may.
CurrentUser(u) == u \in cookies /\ Active(u)

\* require_user, require_admin.
Authorise(r, u, op) ==
  /\ req[r] = Idle /\ CurrentUser(u)
  /\ op \in Page \/ Admin(u)
  /\ req' = [req EXCEPT ![r] = [step |-> "acting", by |-> u, op |-> op]]
  /\ UNCHANGED <<users, cookies, crossed, chosen>>

\* The console needs no authorisation.
CreateAdmin(r, op) ==
  /\ req[r] = Idle /\ op.role = "ADMIN"
  /\ req' = [req EXCEPT ![r] = [step |-> "acting", by |-> Nobody, op |-> op]]
  /\ UNCHANGED <<users, cookies, crossed, chosen>>

\* The answer is a page, or an error: the password is too short, the origin
\* another, the account one's own, the name in use, the database locked.
Answer(r) ==
  /\ req[r] # Idle /\ req[r].op \notin Login
  /\ req' = [req EXCEPT ![r] = Idle]
  /\ UNCHANGED <<users, cookies, crossed, chosen>>
-----------------------------------------------------------------------------
(* Administration.                                                         *)

Loads(r, row) ==
  /\ req' = [req EXCEPT ![r] = [step |-> "loaded", by |-> req[r].by, op |-> req[r].op,
                                row |-> row]]
  /\ UNCHANGED <<users, cookies, crossed, chosen>>

\* Slip: administrators may disable themselves.
LoadAccountAnyhow(r) ==
  /\ req[r] \in Acting /\ req[r].op \in Toggle
  /\ req[r].op.user \in Known
  /\ Loads(r, users[req[r].op.user])

\* set_active, but not oneself: the row is read.
LoadAccount(r) ==
  /\ req[r] \in Acting /\ req[r].op \in Toggle
  /\ req[r].op.user \in Known
  /\ ~(req[r].op.user = req[r].by /\ ~req[r].op.active)
  /\ Loads(r, users[req[r].op.user])

\* create_user: the name is not in use.
LookUpName(r) ==
  /\ req[r] \in Acting /\ req[r].op \in Create
  /\ Holders(req[r].op.name) = {}
  /\ Loads(r, NoRow)

Crossing(r) == ~req[r].op.active /\ req[r].by \in Known /\ ~Active(req[r].by)

\* Slip: all columns of the row that was read are written back.
WriteRowBack(r) ==
  /\ req[r] \in Loaded /\ req[r].op \in Toggle
  /\ users' = [users EXCEPT ![req[r].op.user] = [req[r].row EXCEPT !.active = req[r].op.active]]
  /\ crossed' = (crossed \/ Crossing(r))
  /\ req' = [req EXCEPT ![r] = Idle]
  /\ UNCHANGED <<cookies, chosen>>

\* Only a column that changes is written, by primary key; none if the account
\* was found as it should be.
SetActive(r) ==
  /\ req[r] \in Loaded /\ req[r].op \in Toggle
  /\ IF req[r].row.active = req[r].op.active
     THEN UNCHANGED <<users, crossed>>
     ELSE /\ users' = [users EXCEPT ![req[r].op.user].active = req[r].op.active]
          /\ crossed' = (crossed \/ Crossing(r))
  /\ req' = [req EXCEPT ![r] = Idle]
  /\ UNCHANGED <<cookies, chosen>>

Inserted(f, u, x) == [v \in DOMAIN f \cup {u} |-> IF v = u THEN x ELSE f[v]]

\* set_password_hash.  A salted hash always differs from the one that was
\* read, so that the column is written whatever the row held.
SetPassword(r) ==
  /\ req[r] \in Acting /\ req[r].op \in Reset /\ req[r].op.user \in Known
  /\ users' = [users EXCEPT ![req[r].op.user].secret = req[r].op.secret]
  /\ chosen' = [chosen EXCEPT ![req[r].op.user] = req[r].op.secret]
  /\ req' = [req EXCEPT ![r] = Idle]
  /\ UNCHANGED <<cookies, crossed>>

\* The unique constraint decides; its IntegrityError is an error page.  (What
\* the new user is spared of old notifications: UnreadState.)
Insert(r, u) ==
  /\ req[r] \in Loaded /\ req[r].op \in Create /\ u \notin Known
  /\ Holders(req[r].op.name) = {}
  /\ users' = Inserted(users, u, [name |-> Fold[req[r].op.name], role |-> req[r].op.role,
                                  active |-> TRUE, secret |-> Given])
  /\ chosen' = Inserted(chosen, u, Given)
  /\ req' = [req EXCEPT ![r] = Idle]
  /\ UNCHANGED <<cookies, crossed>>

Handle(r) ==
  \/ SetCookie(r) \/ Answer(r)
  \/ LoadAccount(r) \/ LookUpName(r)
  \/ SetActive(r) \/ SetPassword(r)
  \/ \E u \in Ids : Insert(r, u)

Next ==
  \/ \E r \in Requests, name \in Spellings, secret \in Secrets : Authenticate(r, name, secret)
  \/ \E r \in Requests, u \in Ids, op \in Operation \ Login : Authorise(r, u, op)
  \/ \E r \in Requests, op \in Create : CreateAdmin(r, op)
  \/ \E u \in Ids : DropCookie(u)
  \/ \E r \in Requests : Handle(r)

Spec == Init /\ [][Next]_vars

\* A handler waits for no other, and the database makes it wait for five
\* seconds at most.  Only /refresh waits for the portal: for a poll, which ends.
FairSpec == Spec /\ \A r \in Requests : WF_vars(Handle(r))
-----------------------------------------------------------------------------
(* Properties.                                                             *)

\* Types.
TypeOK ==
  /\ Known \subseteq Ids /\ users \in [Known -> Account]
  /\ chosen \in [Known -> Secrets]
  /\ cookies \subseteq Ids /\ crossed \in BOOLEAN
  /\ req \in [Requests -> {Idle} \cup Acting \cup Loaded]

\* Whoever creates accounts at the same time, a name typed in any way means
\* one account at most.
NamesAreUnique ==
  \A u, v \in Known : Fold[users[u].name] = Fold[users[v].name] => u = v

\* As long as no administrator was overtaken by the disabling of his own
\* account, one who may administer is left: the check of set_active against
\* oneself is enough for that, and only two crossing requests defeat it.
AdminRemains == (\E u \in Known : Admin(u)) /\ ~crossed => \E u \in Known : Admin(u) /\ Active(u)

\* The password last chosen for an account opens it: a request that activates
\* or disables the account at the same time does not bring the old one back.
ResetHolds == \A u \in Known : users[u].secret = chosen[u]

Busy(u) == \E r \in Requests : req[r] # Idle /\ req[r].by = u

\* The requests of an account that stays disabled end, and no other begins,
\* whatever cookies it holds and whatever login was under way.
DisabledGoesQuiet == \A u \in Ids : <>[](u \in Known /\ ~Active(u)) => <>[]~Busy(u)
=============================================================================
