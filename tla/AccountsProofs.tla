---------------------------- MODULE AccountsProofs ----------------------------
(***************************************************************************)
(* Proofs of the safety properties of Accounts, for any number of users,   *)
(* names and requests.                                                     *)
(***************************************************************************)
EXTENDS Accounts, TLAPS

\* The names in the table are folded ones, each its own.
NamesOK ==
  /\ \A u \in Known : Fold[users[u].name] = users[u].name
  /\ \A u, v \in Known : users[u].name = users[v].name => u = v

\* A request that changes an account was made by an administrator, and one
\* that is about to disable an account by another one.
RequestOK(r) ==
  req[r] # Idle =>
    /\ req[r].op \in Toggle => Admin(req[r].by)
    /\ req[r].op \in Login => req[r].by \in Ids
    /\ req[r].op \in Toggle /\ req[r].step = "loaded" /\ ~req[r].op.active =>
         req[r].op.user # req[r].by

ReqOK == \A r \in Requests : RequestOK(r)

IndInv == TypeOK /\ NamesOK /\ ReqOK /\ AdminRemains /\ ResetHolds

\* The kinds of operations do not overlap.
LEMMA Kinds == ASSUME NEW op \in Operation PROVE
  /\ op \in Toggle <=> op.kind = "toggle"
  /\ op \in Reset <=> op.kind = "reset"
  /\ op \in Create <=> op.kind = "create"
  /\ op \in Page <=> op.kind = "page"
  /\ op \in Login <=> op.kind = "login"
  BY DEF Operation, Toggle, Reset, Create, Page, Login

LEMMA Steps ==
  /\ \A x \in Acting : x.step = "acting" /\ x \notin Loaded /\ x # Idle
  /\ \A x \in Loaded : x.step = "loaded" /\ x \notin Acting /\ x # Idle
  BY DEF Acting, Loaded, Idle

LEMMA InitInv == Init => IndInv
<1> SUFFICES ASSUME Init PROVE IndInv
  OBVIOUS
<1>1. Known = {} /\ DOMAIN chosen = {}
  BY DEF Init, Known
<1>2. users \in [Known -> Account] /\ chosen \in [Known -> Secrets]
  BY <1>1 DEF Init
<1>3. TypeOK
  BY <1>1, <1>2 DEF Init, TypeOK
<1>4. NamesOK /\ ReqOK /\ ResetHolds
  BY <1>1 DEF Init, NamesOK, ReqOK, RequestOK, ResetHolds
<1>5. AdminRemains
  BY <1>1 DEF AdminRemains
<1> QED
  BY <1>3, <1>4, <1>5 DEF IndInv
-----------------------------------------------------------------------------
(* Steps that leave the table alone.                                       *)

LEMMA TableUnchanged ==
  ASSUME IndInv, UNCHANGED <<users, chosen, crossed>>
  PROVE  NamesOK' /\ AdminRemains' /\ ResetHolds'
  BY DEF IndInv, NamesOK, AdminRemains, ResetHolds, Known, Active, Admin

\* A request begins.
LEMMA BeginInv ==
  ASSUME IndInv, NEW r \in Requests, NEW u \in Ids \cup {Nobody}, NEW op \in Operation,
         op \in Toggle => Admin(u), op \in Login => u \in Ids,
         req' = [req EXCEPT ![r] = [step |-> "acting", by |-> u, op |-> op]],
         UNCHANGED <<users, cookies, crossed, chosen>>
  PROVE  IndInv'
<1> USE DEF IndInv
<1>1. NamesOK' /\ AdminRemains' /\ ResetHolds'
  BY TableUnchanged
<1>2. [step |-> "acting", by |-> u, op |-> op] \in Acting
  BY DEF Acting
<1>3. TypeOK'
  BY <1>2 DEF TypeOK, Known
<1>4. ReqOK'
  <2> SUFFICES ASSUME NEW q \in Requests PROVE RequestOK(q)'
    BY DEF ReqOK
  <2>1. \A x : Admin(x)' <=> Admin(x)
    BY DEF Admin, Known
  <2>2. CASE q = r
    <3>1. req'[q] = [step |-> "acting", by |-> u, op |-> op]
      BY <2>2 DEF TypeOK
    <3> QED
      BY <2>1, <3>1 DEF RequestOK
  <2>3. CASE q # r
    <3>1. req'[q] = req[q]
      BY <2>3 DEF TypeOK
    <3> QED
      BY <2>1, <3>1 DEF ReqOK, RequestOK
  <2> QED
    BY <2>2, <2>3
<1> QED
  BY <1>1, <1>3, <1>4

\* The threads' part of the invariant, when one of them ends its request and no
\* administrator loses the role.
LEMMA EndReq ==
  ASSUME TypeOK, ReqOK, NEW r \in Requests, req' = [req EXCEPT ![r] = Idle],
         \A u : Admin(u) => Admin(u)'
  PROVE  ReqOK' /\ req' \in [Requests -> {Idle} \cup Acting \cup Loaded]
<1>1. req' \in [Requests -> {Idle} \cup Acting \cup Loaded]
  BY DEF TypeOK
<1>2. ASSUME NEW q \in Requests PROVE RequestOK(q)'
  <2>1. req'[q] = req[q] \/ req'[q] = Idle
    BY DEF TypeOK
  <2> QED
    BY <2>1 DEF ReqOK, RequestOK
<1> QED
  BY <1>1, <1>2 DEF ReqOK

LEMMA LightInv ==
  ASSUME IndInv, NEW r \in Requests, SetCookie(r) \/ Answer(r)
  PROVE  IndInv'
<1> USE DEF IndInv
<1>1. UNCHANGED <<users, chosen, crossed>> /\ req' = [req EXCEPT ![r] = Idle]
  BY DEF SetCookie, Answer
<1>2. NamesOK' /\ AdminRemains' /\ ResetHolds'
  BY <1>1, TableUnchanged
<1>3. ReqOK' /\ req' \in [Requests -> {Idle} \cup Acting \cup Loaded]
  <2>1. \A u : Admin(u) => Admin(u)'
    BY <1>1 DEF Admin, Known
  <2> QED
    BY <1>1, <2>1, EndReq
<1>4. cookies' \subseteq Ids
  <2>1. CASE SetCookie(r)
    <3>1. req[r].by \in Ids
      BY <2>1, Steps DEF SetCookie, ReqOK, RequestOK
    <3> QED
      BY <2>1, <3>1 DEF SetCookie, TypeOK
  <2>2. CASE Answer(r)
    BY <2>2 DEF Answer, TypeOK
  <2> QED
    BY <2>1, <2>2
<1> QED
  BY <1>1, <1>2, <1>3, <1>4 DEF TypeOK, Known

LEMMA DropInv ==
  ASSUME IndInv, NEW u \in Ids, DropCookie(u)
  PROVE  IndInv'
<1> USE DEF IndInv, DropCookie
<1>1. NamesOK' /\ AdminRemains' /\ ResetHolds'
  BY TableUnchanged
<1>2. TypeOK'
  BY DEF TypeOK, Known
<1>3. ReqOK'
  BY DEF ReqOK, RequestOK, Admin, Known
<1> QED
  BY <1>1, <1>2, <1>3

LEMMA StartInv ==
  ASSUME IndInv,
         \/ \E r \in Requests, name \in Spellings, secret \in Secrets :
              Authenticate(r, name, secret)
         \/ \E r \in Requests, u \in Ids, op \in Operation \ Login : Authorise(r, u, op)
         \/ \E r \in Requests, op \in Create : CreateAdmin(r, op)
  PROVE  IndInv'
<1>1. ASSUME NEW r \in Requests, NEW name \in Spellings, NEW secret \in Secrets,
             Authenticate(r, name, secret)
      PROVE  IndInv'
  <2>1. PICK u \in Holders(name) :
          req' = [req EXCEPT ![r] = [step |-> "acting", by |-> u, op |-> [kind |-> "login"]]]
    BY <1>1 DEF Authenticate
  <2>2. u \in Ids
    BY DEF IndInv, TypeOK, Holders
  <2>3. [kind |-> "login"] \in Login /\ [kind |-> "login"] \in Operation
    BY DEF Login, Operation
  <2>4. [kind |-> "login"] \notin Toggle
    BY <2>3, Kinds
  <2>5. UNCHANGED <<users, cookies, crossed, chosen>>
    BY <1>1 DEF Authenticate
  <2> QED
    BY <2>1, <2>2, <2>3, <2>4, <2>5, BeginInv
<1>2. ASSUME NEW r \in Requests, NEW u \in Ids, NEW op \in Operation \ Login,
             Authorise(r, u, op)
      PROVE  IndInv'
  <2>1. op \in Toggle => Admin(u)
    BY <1>2, Kinds DEF Authorise
  <2> QED
    BY <1>2, <2>1, BeginInv DEF Authorise
<1>3. ASSUME NEW r \in Requests, NEW op \in Create, CreateAdmin(r, op)
      PROVE  IndInv'
  <2>1. op \in Operation
    BY DEF Operation
  <2>2. op \notin Toggle /\ op \notin Login
    BY <2>1, Kinds
  <2> QED
    BY <1>3, <2>1, <2>2, BeginInv DEF CreateAdmin
<1> QED
  BY <1>1, <1>2, <1>3

\* A row, or a name, has been looked up.
LEMMA LoadInv ==
  ASSUME IndInv, NEW r \in Requests, LoadAccount(r) \/ LookUpName(r)
  PROVE  IndInv'
<1> USE DEF IndInv
<1>1. PICK row \in Account \cup {NoRow} : Loads(r, row)
  <2>1. CASE LoadAccount(r)
    BY <2>1 DEF LoadAccount, TypeOK
  <2>2. CASE LookUpName(r)
    BY <2>2 DEF LookUpName
  <2> QED
    BY <2>1, <2>2
<1>2. /\ req[r] \in Acting /\ req[r].by \in Ids \cup {Nobody} /\ req[r].op \in Operation
      /\ UNCHANGED <<users, cookies, crossed, chosen>>
      /\ req' = [req EXCEPT ![r] = [step |-> "loaded", by |-> req[r].by, op |-> req[r].op,
                                    row |-> row]]
  BY <1>1 DEF LoadAccount, LookUpName, Loads, Acting
<1>3. [step |-> "loaded", by |-> req[r].by, op |-> req[r].op, row |-> row] \in Loaded
  BY <1>2 DEF Loaded
<1>4. TypeOK'
  BY <1>2, <1>3 DEF TypeOK, Known
<1>5. NamesOK' /\ AdminRemains' /\ ResetHolds'
  BY <1>2, TableUnchanged
<1>6. req[r].op \in Toggle /\ ~req[r].op.active => req[r].op.user # req[r].by
  <2>1. CASE LoadAccount(r)
    BY <2>1 DEF LoadAccount
  <2>2. CASE LookUpName(r)
    BY <1>2, <2>2, Kinds DEF LookUpName
  <2> QED
    BY <2>1, <2>2
<1>7. ReqOK'
  <2> SUFFICES ASSUME NEW q \in Requests PROVE RequestOK(q)'
    BY DEF ReqOK
  <2>1. \A x : Admin(x)' <=> Admin(x)
    BY <1>2 DEF Admin, Known
  <2>2. RequestOK(q) /\ RequestOK(r)
    BY DEF ReqOK
  <2>3. CASE q = r
    <3>1. req'[q].by = req[q].by /\ req'[q].op = req[q].op /\ req[q] # Idle
      BY <1>2, <2>3, Steps DEF TypeOK
    <3> QED
      BY <1>6, <2>1, <2>2, <2>3, <3>1 DEF RequestOK
  <2>4. CASE q # r
    <3>1. req'[q] = req[q]
      BY <1>2, <2>4 DEF TypeOK
    <3> QED
      BY <2>1, <2>2, <3>1 DEF RequestOK
  <2> QED
    BY <2>3, <2>4
<1> QED
  BY <1>4, <1>5, <1>7
-----------------------------------------------------------------------------
(* Steps that write a row.                                                 *)

LEMMA SetActiveInv ==
  ASSUME IndInv, NEW r \in Requests, SetActive(r)
  PROVE  IndInv'
<1> USE DEF IndInv
<1> DEFINE op == req[r].op
<1>1. /\ op \in Toggle /\ op.user \in Ids /\ op.active \in BOOLEAN
      /\ req' = [req EXCEPT ![r] = Idle] /\ UNCHANGED <<cookies, chosen>>
  BY DEF SetActive, Toggle
<1>2. RequestOK(r) /\ req[r] # Idle /\ req[r].step = "loaded"
  BY Steps DEF SetActive, ReqOK
<1>3. CASE UNCHANGED <<users, crossed>>
  <2>1. NamesOK' /\ AdminRemains' /\ ResetHolds'
    BY <1>1, <1>3, TableUnchanged
  <2>2. \A u : Admin(u) => Admin(u)'
    BY <1>3 DEF Admin, Known
  <2>3. ReqOK' /\ req' \in [Requests -> {Idle} \cup Acting \cup Loaded]
    BY <1>1, <2>2, EndReq
  <2> QED
    BY <1>1, <1>3, <2>1, <2>3 DEF TypeOK, Known
<1>4. CASE /\ users' = [users EXCEPT ![op.user].active = op.active]
           /\ crossed' = (crossed \/ Crossing(r))
  <2>1. /\ Known' = Known
        /\ \A u \in Known : /\ users'[u] \in Account /\ users'[u].name = users[u].name
                            /\ users'[u].role = users[u].role
                            /\ users'[u].secret = users[u].secret
                            /\ users'[u].active = IF u = op.user THEN op.active
                                                  ELSE users[u].active
    BY <1>1, <1>4 DEF TypeOK, Known, Account
  <2>2. \A u : Admin(u)' <=> Admin(u)
    BY <2>1 DEF Admin
  <2>3. ReqOK' /\ req' \in [Requests -> {Idle} \cup Acting \cup Loaded]
    BY <1>1, <2>2, EndReq
  <2>4. TypeOK'
    <3>1. users' \in [Known' -> Account]
      BY <1>4, <2>1 DEF TypeOK, Known
    <3>2. crossed' \in BOOLEAN
      BY <1>4 DEF TypeOK, Crossing
    <3> QED
      BY <1>1, <2>1, <2>3, <3>1, <3>2 DEF TypeOK
  <2>5. NamesOK' /\ ResetHolds'
    BY <1>1, <2>1 DEF NamesOK, ResetHolds
  <2>6. AdminRemains'
    <3> SUFFICES ASSUME \E u \in Known : Admin(u), ~crossed' 
                 PROVE  \E u \in Known' : Admin(u)' /\ Active(u)'
      BY <2>1, <2>2 DEF AdminRemains
    <3>1. ~crossed /\ ~Crossing(r)
      BY <1>4
    <3>2. CASE op.active
      <4>1. PICK u \in Known : Admin(u) /\ Active(u)
        BY <3>1 DEF AdminRemains
      <4>2. Active(u)'
        BY <2>1, <3>2, <4>1 DEF Active
      <4> QED
        BY <2>1, <2>2, <4>1, <4>2
    <3>3. CASE ~op.active
      <4>1. Admin(req[r].by) /\ op.user # req[r].by
        BY <1>1, <1>2, <3>3 DEF RequestOK
      <4>2. PICK u \in Known : Admin(u) /\ Active(u) /\ u # op.user
        BY <3>1, <3>3, <4>1 DEF Crossing, Admin
      <4>3. Active(u)'
        BY <2>1, <4>2 DEF Active
      <4> QED
        BY <2>1, <2>2, <4>2, <4>3
    <3> QED
      BY <3>2, <3>3
  <2> QED
    BY <2>3, <2>4, <2>5, <2>6
<1> QED
  BY <1>3, <1>4 DEF SetActive

LEMMA SetPasswordInv ==
  ASSUME IndInv, NEW r \in Requests, SetPassword(r)
  PROVE  IndInv'
<1> USE DEF IndInv
<1> DEFINE op == req[r].op
<1>1. /\ op \in Reset /\ op.user \in Known /\ op.secret \in Secrets
      /\ req' = [req EXCEPT ![r] = Idle] /\ UNCHANGED <<cookies, crossed>>
      /\ users' = [users EXCEPT ![op.user].secret = op.secret]
      /\ chosen' = [chosen EXCEPT ![op.user] = op.secret]
  BY DEF SetPassword, Reset
<1>2. /\ Known' = Known
      /\ \A u \in Known : /\ users'[u].name = users[u].name /\ users'[u].role = users[u].role
                          /\ users'[u].active = users[u].active
                          /\ users'[u].secret = IF u = op.user THEN op.secret
                                                ELSE users[u].secret
  BY <1>1 DEF TypeOK, Known, Account
<1>3. \A u : /\ Admin(u)' <=> Admin(u)
             /\ Active(u)' <=> Active(u)
  BY <1>2 DEF Admin, Active
<1>4. ReqOK' /\ req' \in [Requests -> {Idle} \cup Acting \cup Loaded]
  BY <1>1, <1>3, EndReq
<1>5. TypeOK'
  <2>1. users' \in [Known' -> Account]
    BY <1>1, <1>2 DEF TypeOK, Known, Account
  <2>2. chosen' \in [Known' -> Secrets]
    BY <1>1, <1>2 DEF TypeOK
  <2> QED
    BY <1>1, <1>2, <1>4, <2>1, <2>2 DEF TypeOK
<1>6. NamesOK'
  BY <1>2 DEF NamesOK
<1>7. AdminRemains'
  BY <1>1, <1>2, <1>3 DEF AdminRemains
<1>8. ResetHolds'
  <2>1. \A u \in Known : chosen'[u] = IF u = op.user THEN op.secret ELSE chosen[u]
    BY <1>1 DEF TypeOK
  <2> QED
    BY <1>2, <2>1 DEF ResetHolds
<1> QED
  BY <1>4, <1>5, <1>6, <1>7, <1>8

LEMMA InsertInv ==
  ASSUME IndInv, NEW r \in Requests, NEW u \in Ids, Insert(r, u)
  PROVE  IndInv'
<1> USE DEF IndInv
<1> DEFINE op == req[r].op
           new == [name |-> Fold[op.name], role |-> op.role, active |-> TRUE, secret |-> Given]
<1>1. /\ op \in Create /\ op.name \in Spellings /\ op.role \in Roles /\ u \notin Known
      /\ req' = [req EXCEPT ![r] = Idle] /\ UNCHANGED <<cookies, crossed>>
      /\ users' = Inserted(users, u, new) /\ chosen' = Inserted(chosen, u, Given)
      /\ Holders(op.name) = {}
  BY DEF Insert, Create
<1>2. new \in Account
  BY <1>1, FoldAssumption, GivenAssumption DEF Account
<1> HIDE DEF new
<1>3. Known' = Known \cup {u}
  BY <1>1 DEF Inserted, Known
<1>4. /\ users'[u] = new /\ chosen'[u] = Given
      /\ \A v \in Known : users'[v] = users[v] /\ chosen'[v] = chosen[v]
  BY <1>1 DEF Inserted, Known, TypeOK
<1>5. /\ new.name = Fold[op.name] /\ new.active /\ new.secret = Given
      /\ Fold[new.name] = new.name
  BY <1>1, FoldAssumption DEF new
<1>6. \A v \in Known : users[v].name # new.name
  BY <1>1, <1>5 DEF Holders
<1>7. \A v : (Admin(v) => Admin(v)') /\ (Active(v) => Active(v)')
  BY <1>3, <1>4 DEF Admin, Active
<1>8. ReqOK' /\ req' \in [Requests -> {Idle} \cup Acting \cup Loaded]
  BY <1>1, <1>7, EndReq
<1>9. TypeOK'
  <2>1. users' \in [Known' -> Account]
    BY <1>1, <1>2, <1>3 DEF Inserted, Known, TypeOK
  <2>2. chosen' \in [Known' -> Secrets]
    BY <1>1, <1>3, GivenAssumption DEF Inserted, Known, TypeOK
  <2> QED
    BY <1>1, <1>3, <1>8, <2>1, <2>2 DEF TypeOK
<1>10. NamesOK'
  BY <1>3, <1>4, <1>5, <1>6 DEF NamesOK
<1>11. ResetHolds'
  BY <1>3, <1>4, <1>5 DEF ResetHolds
<1>12. AdminRemains'
  <2> SUFFICES ASSUME NEW v \in Known', Admin(v)', ~crossed'
               PROVE  \E a \in Known' : Admin(a)' /\ Active(a)'
    BY DEF AdminRemains
  <2>1. CASE v = u
    BY <1>3, <1>4, <1>5, <2>1 DEF Active
  <2>2. CASE v # u
    <3>1. v \in Known /\ Admin(v) /\ ~crossed
      BY <1>1, <1>3, <1>4, <2>2 DEF Admin
    <3>2. PICK a \in Known : Admin(a) /\ Active(a)
      BY <3>1 DEF AdminRemains
    <3> QED
      BY <1>3, <1>7, <3>2
  <2> QED
    BY <2>1, <2>2
<1> QED
  BY <1>8, <1>9, <1>10, <1>11, <1>12
-----------------------------------------------------------------------------
\* The inductive invariant holds in every reachable state.
THEOREM Invariance == Spec => []IndInv
<1>1. IndInv /\ [Next]_vars => IndInv'
  <2> SUFFICES ASSUME IndInv, [Next]_vars PROVE IndInv'
    OBVIOUS
  <2>1. CASE UNCHANGED vars
    <3>1. NamesOK' /\ AdminRemains' /\ ResetHolds'
      BY <2>1, TableUnchanged DEF vars
    <3>2. TypeOK' /\ ReqOK'
      BY <2>1 DEF vars, IndInv, TypeOK, ReqOK, RequestOK, Known, Admin
    <3> QED
      BY <3>1, <3>2 DEF IndInv
  <2>2. ASSUME NEW r \in Requests, Handle(r) PROVE IndInv'
    BY <2>2, LightInv, LoadInv, SetActiveInv, SetPasswordInv, InsertInv DEF Handle
  <2>3. ASSUME NEW u \in Ids, DropCookie(u) PROVE IndInv'
    BY <2>3, DropInv
  <2> QED
    BY <2>1, <2>2, <2>3, StartInv DEF Next
<1> QED
  BY InitInv, <1>1, PTL DEF Spec
-----------------------------------------------------------------------------
\* Every variable keeps its type.
THEOREM TypeCorrect == Spec => []TypeOK
<1>1. IndInv => TypeOK
  BY DEF IndInv
<1> QED
  BY Invariance, <1>1, PTL

\* A name means one account at most, however many are created at once.
THEOREM OneAccountPerName == Spec => []NamesAreUnique
<1>1. IndInv => NamesAreUnique
  BY DEF IndInv, NamesOK, NamesAreUnique
<1> QED
  BY Invariance, <1>1, PTL

\* An administrator is left, unless two of them crossed.
THEOREM SomebodyAdministers == Spec => []AdminRemains
<1>1. IndInv => AdminRemains
  BY DEF IndInv
<1> QED
  BY Invariance, <1>1, PTL

\* No request brings an old password back.
THEOREM PasswordsStay == Spec => []ResetHolds
<1>1. IndInv => ResetHolds
  BY DEF IndInv
<1> QED
  BY Invariance, <1>1, PTL
=============================================================================
