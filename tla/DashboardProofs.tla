--------------------------- MODULE DashboardProofs ---------------------------
(***************************************************************************)
(* Proofs of the safety properties of Dashboard and DashboardList, for any *)
(* number of dossiers, employees and polls.                                *)
(***************************************************************************)
EXTENDS DashboardList, FunctionTheorems, FiniteSetTheorems, SequenceTheorems, TLAPS

\* Nobody has read more notifications than there are.
ReadOK == \A u \in Users, r \in Records : read[u][r] <= alerts[r]

\* What a page has been told so far is not later than the last success.
PageOK ==
  /\ page.at >= 1 => page.said <= success
  /\ page.at = 2 => page.said <= page.sure

IndInv == TypeOK /\ ReadOK /\ PageOK /\ NewUntilOpened

LEMMA InitInv == Init => IndInv
<1> SUFFICES ASSUME Init PROVE IndInv
  OBVIOUS
<1> USE BoundsAssumption DEF Init, LifeInit
<1>1. TypeOK
  <2>1. /\ life \in [Records -> {"unknown", "active", "inactive"}]
        /\ alerts \in [Records -> Nat] /\ watched \in BOOLEAN
    OBVIOUS
  <2>2. /\ clock \in 0..MaxPolls /\ polling \in BOOLEAN /\ success \in 0..clock
        /\ page \in [at : 0..2, said : 0..clock, sure : 0..clock]
    <3>1. 0 \in 0..clock /\ 0 \in 0..2
      OBVIOUS
    <3>2. page = [at |-> 0, said |-> 0, sure |-> 0]
      BY DEF NoPage
    <3>3. page \in [at : 0..2, said : 0..clock, sure : 0..clock]
      BY <3>1, <3>2 DEF Init
    <3>4. 0 \in 0..MaxPolls
      OBVIOUS
    <3>5. clock = 0 /\ polling = FALSE /\ success = 0
      OBVIOUS
    <3> QED
      BY <3>1, <3>3, <3>4, <3>5
  <2>3. detected \in [Records -> 0..clock] /\ quote \in [Records -> 0..MaxDate]
    OBVIOUS
  <2>4. /\ work \in [Records -> WorkStatuses \cup {NoWork}]
        /\ read \in [Users -> [Records -> Nat]] /\ news \in [Users -> SUBSET Records]
    OBVIOUS
  <2> QED
    BY <2>1, <2>2, <2>3, <2>4 DEF TypeOK
<1>2. ReadOK /\ PageOK /\ NewUntilOpened
  BY DEF ReadOK, PageOK, NoPage, NewUntilOpened, Unread
<1> QED
  BY <1>1, <1>2 DEF IndInv

LEMMA ReconcileInv ==
  ASSUME IndInv, NEW seen \in SUBSET Records, NEW retired \in SUBSET Records,
         Reconcile(seen, retired)
  PROVE  IndInv'
<1> USE BoundsAssumption DEF IndInv
<1>1. /\ clock \in Nat /\ clock' = clock + 1 /\ clock' \in 0..MaxPolls
      /\ polling' = TRUE /\ UNCHANGED <<success, quote, work, read, page>>
  BY DEF Reconcile, TypeOK
<1>2. /\ life' \in [Records -> {"unknown", "active", "inactive"}]
      /\ alerts' \in [Records -> Nat]
      /\ \A r \in Records : alerts'[r] >= alerts[r]
  BY DEF Reconcile, Observe, TypeOK
<1>3. watched' \in BOOLEAN
  BY DEF Reconcile, Observe, TypeOK
<1>4. detected' \in [Records -> 0..clock']
  BY <1>1 DEF Reconcile, TypeOK
<1>5. news' = [u \in Users |-> news[u] \cup Alerted] /\ Alerted \subseteq Records
  BY DEF Reconcile, Alerted
<1>6. TypeOK'
  <2>1. success' \in 0..clock' /\ page' \in [at : 0..2, said : 0..clock', sure : 0..clock']
    BY <1>1 DEF TypeOK
  <2>2. news' \in [Users -> SUBSET Records]
    BY <1>5 DEF TypeOK
  <2> QED
    BY <1>1, <1>2, <1>3, <1>4, <2>1, <2>2 DEF TypeOK
<1>7. ReadOK'
  BY <1>1, <1>2 DEF ReadOK, TypeOK
<1>8. PageOK'
  BY <1>1 DEF PageOK
<1>9. NewUntilOpened'
  <2> SUFFICES ASSUME NEW u \in Users, NEW r \in Records
               PROVE  alerts'[r] > read'[u][r] <=> r \in news'[u]
    BY DEF NewUntilOpened, Unread
  <2>1. /\ alerts[r] \in Nat /\ alerts'[r] \in Nat /\ alerts'[r] >= alerts[r]
        /\ read[u][r] \in Nat /\ read[u][r] <= alerts[r] /\ read' = read
    BY <1>1, <1>2 DEF TypeOK, ReadOK
  <2>2. alerts[r] > read[u][r] <=> r \in news[u]
    BY DEF NewUntilOpened, Unread
  <2>3. r \in news'[u] <=> r \in news[u] \/ alerts'[r] > alerts[r]
    BY <1>5 DEF Alerted
  <2> QED
    BY <2>1, <2>2, <2>3
<1> QED
  BY <1>6, <1>7, <1>8, <1>9

LEMMA OpenInv ==
  ASSUME IndInv, NEW u \in Users, NEW r \in Records, Open(u, r)
  PROVE  IndInv'
<1> USE DEF IndInv
<1>1. /\ read' = [read EXCEPT ![u][r] = alerts[r]]
      /\ news' = [news EXCEPT ![u] = @ \ {r}]
      /\ UNCHANGED <<life, alerts, watched, clock, polling, success, detected, quote, work,
                     page>>
  BY DEF Open, MarkRead, lifeVars
<1>2. TypeOK'
  <2>1. read' \in [Users -> [Records -> Nat]]
    BY <1>1 DEF TypeOK
  <2>2. news' \in [Users -> SUBSET Records]
    BY <1>1 DEF TypeOK
  <2> QED
    BY <1>1, <2>1, <2>2 DEF TypeOK
<1>3. \A v \in Users, q \in Records :
        /\ read'[v][q] = IF v = u /\ q = r THEN alerts[r] ELSE read[v][q]
        /\ q \in news'[v] <=> (q \in news[v] /\ ~(v = u /\ q = r))
        /\ alerts[q] \in Nat /\ read[v][q] \in Nat
  BY <1>1 DEF TypeOK
<1>4. ReadOK' /\ NewUntilOpened'
  BY <1>1, <1>3 DEF ReadOK, NewUntilOpened, Unread
<1>5. PageOK'
  BY <1>1 DEF PageOK
<1> QED
  BY <1>2, <1>4, <1>5

\* Steps that disturb neither the alerts nor what was read of them.
LEMMA RestInv ==
  ASSUME IndInv,
         \/ \E r \in Records, date \in 0..MaxDate : SaveDetails(r, date)
         \/ \E complete \in BOOLEAN : Finish(complete)
         \/ \E r \in Records, status \in WorkStatuses : SetWork(r, status)
         \/ Select
         \/ UNCHANGED vars
  PROVE  IndInv'
<1> USE DEF IndInv
<1>1. UNCHANGED <<life, alerts, watched, clock, detected, read, news>>
  BY DEF SaveDetails, Finish, SetWork, Select, lifeVars, tables, vars
<1>2. ReadOK' /\ NewUntilOpened'
  BY <1>1 DEF ReadOK, NewUntilOpened, Unread
<1>3. /\ quote' \in [Records -> 0..MaxDate] /\ work' \in [Records -> WorkStatuses \cup {NoWork}]
      /\ polling' \in BOOLEAN
  <2>1. ASSUME NEW r \in Records, NEW date \in 0..MaxDate, SaveDetails(r, date)
        PROVE  UNCHANGED <<work, polling>> /\ quote' \in [Records -> 0..MaxDate]
    BY <2>1 DEF SaveDetails, TypeOK
  <2>2. ASSUME NEW complete \in BOOLEAN, Finish(complete)
        PROVE  UNCHANGED <<work, quote>> /\ polling' = FALSE
    BY <2>2 DEF Finish
  <2>3. ASSUME NEW r \in Records, NEW status \in WorkStatuses, SetWork(r, status)
        PROVE  /\ UNCHANGED <<quote, polling>>
               /\ work' \in [Records -> WorkStatuses \cup {NoWork}]
    BY <2>3 DEF SetWork, TypeOK
  <2>4. Select \/ UNCHANGED vars => UNCHANGED <<work, quote, polling>>
    BY DEF Select, tables, vars
  <2> QED
    BY <2>1, <2>2, <2>3, <2>4 DEF TypeOK
<1>4. success \in 0..clock /\ clock \in 0..MaxPolls /\ page \in [at : 0..2, said : 0..clock, sure : 0..clock]
  BY DEF TypeOK
<1>5. CASE Select
  <2>1. Selects[1] = "account" /\ Selects[2] = "rows"
    BY DEF Selects
  <2>2. success' = success
    BY <1>5 DEF Select, tables
  <2>3. CASE page.at = 1
    <3>1. page' = [at |-> 2, said |-> page.said, sure |-> success]
      BY <1>5, <2>1, <2>3 DEF Select
    <3> QED
      BY <1>1, <1>2, <1>3, <1>4, <2>2, <2>3, <3>1 DEF TypeOK, PageOK
  <2>4. CASE page.at # 1
    <3>1. page' = [at |-> 1, said |-> success, sure |-> page.sure]
      BY <1>4, <1>5, <2>1, <2>4 DEF Select
    <3> QED
      BY <1>1, <1>2, <1>3, <1>4, <2>2, <3>1 DEF TypeOK, PageOK
  <2> QED
    BY <2>3, <2>4
<1>6. CASE ~Select
  <2>1. page' = page /\ success' \in 0..clock /\ success' >= success
    BY <1>4, <1>6, BoundsAssumption DEF SaveDetails, Finish, SetWork, tables, vars
  <2> QED
    BY <1>1, <1>2, <1>3, <1>4, <2>1 DEF TypeOK, PageOK
<1> QED
  BY <1>5, <1>6

\* The inductive invariant holds in every reachable state.
THEOREM Invariance == Spec => []IndInv
<1>1. IndInv /\ [Next]_vars => IndInv'
  BY ReconcileInv, OpenInv, RestInv DEF Next
<1> QED
  BY InitInv, <1>1, PTL DEF Spec
-----------------------------------------------------------------------------
\* Every variable keeps its type.
THEOREM TypeCorrect == Spec => []TypeOK
<1>1. IndInv => TypeOK
  BY DEF IndInv
<1> QED
  BY Invariance, <1>1, PTL

\* What is new for an employee stays new until he opens it.
THEOREM NewsStays == Spec => []NewUntilOpened
<1>1. IndInv => NewUntilOpened
  BY DEF IndInv
<1> QED
  BY Invariance, <1>1, PTL

\* A page's rows are at least as recent as the synchronization it names.
THEOREM PagesKeepTheirPromise == Spec => []RowsKeepTheirPromise
<1>1. IndInv => RowsKeepTheirPromise
  BY DEF IndInv, PageOK, RowsKeepTheirPromise
<1> QED
  BY Invariance, <1>1, PTL
-----------------------------------------------------------------------------
(* The list.                                                               *)

Keys == Int \X Int \X Int

\* Keys compare by the first component in which they differ.
LEMMA SmallerKeys ==
  ASSUME NEW k \in Keys, NEW l \in Keys
  PROVE  Smaller(k, l) <=>
           \/ k[1] < l[1]
           \/ k[1] = l[1] /\ k[2] < l[2]
           \/ k[1] = l[1] /\ k[2] = l[2] /\ k[3] < l[3]
<1>1. 1..3 = {1, 2, 3} /\ 1..(1 - 1) = {} /\ 1..(2 - 1) = {1} /\ 1..(3 - 1) = {1, 2}
  OBVIOUS
<1> QED
  BY <1>1 DEF Smaller, Keys

\* Rows never tie: those with equal keys are told apart by the database's order.
LEMMA BeforeIsTotal ==
  ASSUME NEW key \in [Records -> Keys], NEW order \in Orders
  PROVE  /\ \A r \in Records : ~Before(order, key, r, r)
         /\ \A r, s \in Records : r # s => Before(order, key, r, s) \/ Before(order, key, s, r)
         /\ \A r, s, t \in Records :
              Before(order, key, r, s) /\ Before(order, key, s, t) => Before(order, key, r, t)
<1> DEFINE Less(k, l) == \/ k[1] < l[1]
                         \/ k[1] = l[1] /\ k[2] < l[2]
                         \/ k[1] = l[1] /\ k[2] = l[2] /\ k[3] < l[3]
<1>1. \A r, s \in Records :
        Before(order, key, r, s) <=>
          Less(key[r], key[s]) \/ (key[r] = key[s] /\ order[r] < order[s])
  BY SmallerKeys DEF Before
<1>2. \A r \in Records : /\ key[r][1] \in Int /\ key[r][2] \in Int /\ key[r][3] \in Int
                         /\ key[r] = <<key[r][1], key[r][2], key[r][3]>>
  BY DEF Keys
<1>3. \A r, s \in Records :
        key[r] = key[s] <=> key[r][1] = key[s][1] /\ key[r][2] = key[s][2] /\ key[r][3] = key[s][3]
  BY <1>2
<1>4. /\ \A r \in Records : order[r] \in Int
      /\ \A r, s \in Records : order[r] = order[s] => r = s
  <2>1. Cardinality(Records) \in Nat
    BY DossiersAssumption, FS_CardinalityType
  <2> QED
    BY <2>1 DEF Orders, IsInjective
<1>5. ASSUME NEW r \in Records PROVE ~Before(order, key, r, r)
  BY <1>1, <1>2, <1>4
<1>6. ASSUME NEW r \in Records, NEW s \in Records, r # s
      PROVE  Before(order, key, r, s) \/ Before(order, key, s, r)
  <2>1. order[r] < order[s] \/ order[s] < order[r]
    BY <1>4, <1>6
  <2> QED
    BY <1>1, <1>2, <1>3, <2>1
<1>7. ASSUME NEW r \in Records, NEW s \in Records, NEW t \in Records,
             Before(order, key, r, s), Before(order, key, s, t)
      PROVE  Before(order, key, r, t)
  BY <1>1, <1>2, <1>3, <1>4, <1>7
<1> QED
  BY <1>5, <1>6, <1>7

\* Sorting loses no row, repeats none, and puts each after those before it.
LEMMA SortedRows ==
  ASSUME NEW rows \in SUBSET Records, NEW key \in [Records -> Keys], NEW order \in Orders,
         NEW list, list = Sorted(rows, order, key)
  PROVE  /\ IsFiniteSet(rows) /\ Cardinality(rows) \in Nat
         /\ DOMAIN list = 1..Cardinality(rows) /\ Len(list) = Cardinality(rows)
         /\ Range(list) = rows /\ IsInjective(list)
         /\ \A i, j \in DOMAIN list : i < j => Before(order, key, list[i], list[j])
<1> DEFINE n == Cardinality(rows)
           ahead(r) == {s \in rows : Before(order, key, s, r)}
           position == [r \in rows |-> 1 + Cardinality(ahead(r))]
<1>1. IsFiniteSet(rows) /\ n \in Nat
  BY DossiersAssumption, FS_Subset, FS_CardinalityType
<1>2. \A r \in rows : ahead(r) \subseteq rows /\ IsFiniteSet(ahead(r)) /\ Cardinality(ahead(r)) \in Nat
  BY <1>1, FS_Subset, FS_CardinalityType
<1>3. ASSUME NEW r \in rows PROVE position[r] \in 1..n
  <2>1. Cardinality(ahead(r)) <= n /\ (n = Cardinality(ahead(r)) => ahead(r) = rows)
    BY <1>1, <1>2, FS_Subset
  <2>2. r \notin ahead(r)
    BY BeforeIsTotal
  <2>3. ahead(r) # rows
    BY <2>2
  <2>4. position[r] = 1 + Cardinality(ahead(r))
    OBVIOUS
  <2> HIDE DEF position, ahead, n
  <2> QED
    BY <1>1, <1>2, <2>1, <2>3, <2>4
<1>4. ASSUME NEW r \in rows, NEW s \in rows, Before(order, key, r, s)
      PROVE  position[r] < position[s]
  <2>1. ahead(r) \subseteq ahead(s) /\ r \in ahead(s) /\ r \notin ahead(r)
    BY <1>4, BeforeIsTotal
  <2>2. Cardinality(ahead(r)) <= Cardinality(ahead(s))
        /\ (Cardinality(ahead(s)) = Cardinality(ahead(r)) => ahead(s) = ahead(r))
    BY <1>2, <2>1, FS_Subset
  <2> QED
    BY <1>2, <2>1, <2>2
<1> HIDE DEF ahead, n
<1>5. \A r, s \in rows : position[r] = position[s] => r = s
  <2> SUFFICES ASSUME NEW r \in rows, NEW s \in rows, r # s PROVE position[r] # position[s]
    OBVIOUS
  <2>1. Before(order, key, r, s) \/ Before(order, key, s, r)
    BY BeforeIsTotal
  <2>2. position[r] \in 1..n /\ position[s] \in 1..n
    BY <1>3
  <2> HIDE DEF position
  <2> QED
    BY <1>1, <1>4, <2>1, <2>2
<1>6. position \in [rows -> 1..n]
  <2>1. position = [r \in rows |-> position[r]]
    OBVIOUS
  <2> HIDE DEF position
  <2> QED
    BY <1>3, <2>1
<1>7. list = [i \in 1..n |-> CHOOSE r \in rows : position[r] = i]
  BY DEF Sorted, ahead, n
<1> HIDE DEF position
<1>8. \A i \in 1..n : \E r \in rows : position[r] = i
  <2>1. position \in Injection(rows, 1..n)
    BY <1>5, <1>6, Fun_IsInj
  <2>2. IsFiniteSet(1..n) /\ Cardinality(1..n) = n
    BY <1>1, FS_Interval
  <2>3. position \in Surjection(rows, 1..n)
    BY <2>1, <2>2, FS_Injection DEF n
  <2> QED
    BY <2>3, Fun_SurjectionProperties
<1>9. \A i \in 1..n : list[i] \in rows /\ position[list[i]] = i
  BY <1>7, <1>8
<1>10. DOMAIN list = 1..n /\ list \in [1..n -> rows]
  BY <1>7, <1>9
<1>11. Len(list) = n
  <2>1. list \in Seq(rows)
    BY <1>1, <1>10, SeqDef
  <2>2. Len(list) \in Nat /\ 1..Len(list) = 1..n
    BY <1>10, <2>1, LenProperties
  <2> QED
    BY <1>1, <2>2
<1>12. Range(list) = rows
  <2>1. Range(list) \subseteq rows
    BY <1>9, <1>10 DEF Range
  <2>2. ASSUME NEW r \in rows PROVE r \in Range(list)
    <3>1. position[r] \in 1..n /\ list[position[r]] = r
      BY <1>3, <1>5, <1>9
    <3> QED
      BY <1>10, <3>1 DEF Range
  <2> QED
    BY <2>1, <2>2
<1>13. IsInjective(list)
  BY <1>9, <1>10 DEF IsInjective
<1>14. ASSUME NEW i \in DOMAIN list, NEW j \in DOMAIN list, i < j
       PROVE  Before(order, key, list[i], list[j])
  <2>1. list[i] \in rows /\ list[j] \in rows /\ list[i] # list[j]
    BY <1>9, <1>10, <1>14
  <2>2. CASE Before(order, key, list[j], list[i])
    <3>1. j < i
      BY <1>4, <1>9, <1>10, <2>1, <2>2
    <3> QED
      BY <1>10, <1>14, <3>1
  <2> QED
    BY <2>1, <2>2, BeforeIsTotal
<1> QED
  BY <1>1, <1>10, <1>11, <1>12, <1>13, <1>14 DEF n

LEMMA SortKeyType == ASSUME TypeOK, NEW u \in Users PROVE SortKey(u) \in [Records -> Keys]
<1>1. ASSUME NEW r \in Records
      PROVE  <<IF Unread(u, r) THEN 0 ELSE 1, -Epoch(quote[r]), -detected[r]>> \in Keys
  <2>1. quote[r] \in Int /\ detected[r] \in Int
    BY BoundsAssumption DEF TypeOK
  <2> QED
    BY <2>1 DEF Epoch, Keys
<1> QED
  BY <1>1 DEF SortKey

\* A dashboard's order is the one promised, for any filter and any order in
\* which the database returns the rows.
THEOREM ListIsOrdered == Spec => []OrderIsAsPromised
<1>1. ASSUME IndInv PROVE OrderIsAsPromised
  <2> USE <1>1 DEF IndInv
  <2> SUFFICES ASSUME NEW u \in Users, NEW order \in Orders, NEW f \in Filters,
                      NEW rows, rows = Filtered(u, f),
                      NEW list, list = Sorted(rows, order, SortKey(u))
               PROVE  /\ Range(list) = rows /\ IsInjective(list)
                      /\ \A i, j \in 1..Len(list) :
                           LET a == list[i]
                               b == list[j]
                               alike == a \in news[u] <=> b \in news[u]
                           IN  i < j =>
                                 /\ b \in news[u] => a \in news[u]
                                 /\ alike /\ quote[b] # 0 => quote[a] >= quote[b]
                                 /\ alike /\ quote[a] = quote[b] => detected[a] >= detected[b]
    BY DEF OrderIsAsPromised
  <2>1. rows \in SUBSET Records
    BY DEF Filtered, Listed
  <2>2. /\ DOMAIN list = 1..Len(list) /\ Range(list) = rows /\ IsInjective(list)
        /\ \A i, j \in DOMAIN list : i < j => Before(order, SortKey(u), list[i], list[j])
    BY <2>1, SortedRows, SortKeyType
  <2>3. ASSUME NEW i \in 1..Len(list), NEW j \in 1..Len(list), i < j,
               NEW a, a = list[i], NEW b, b = list[j]
        PROVE  LET alike == a \in news[u] <=> b \in news[u]
               IN  /\ b \in news[u] => a \in news[u]
                   /\ alike /\ quote[b] # 0 => quote[a] >= quote[b]
                   /\ alike /\ quote[a] = quote[b] => detected[a] >= detected[b]
    <3> DEFINE k == SortKey(u)[a]
               l == SortKey(u)[b]
    <3>1. a \in Records /\ b \in Records
      BY <2>1, <2>2, <2>3 DEF Range
    <3>2. k \in Keys /\ l \in Keys
      BY <3>1, SortKeyType
    <3>3. \/ k[1] < l[1]
          \/ k[1] = l[1] /\ k[2] < l[2]
          \/ k[1] = l[1] /\ k[2] = l[2] /\ k[3] <= l[3]
      <4>1. Smaller(k, l) \/ k = l
        BY <2>2, <2>3 DEF Before
      <4> QED
        BY <3>2, <4>1, SmallerKeys DEF Keys
    <3>4. /\ k[1] = IF Unread(u, a) THEN 0 ELSE 1
          /\ k[2] = -Epoch(quote[a]) /\ k[3] = -detected[a]
          /\ l[1] = IF Unread(u, b) THEN 0 ELSE 1
          /\ l[2] = -Epoch(quote[b]) /\ l[3] = -detected[b]
      BY <3>1 DEF SortKey
    <3>5. (Unread(u, a) <=> a \in news[u]) /\ (Unread(u, b) <=> b \in news[u])
      BY <3>1 DEF NewUntilOpened
    <3>6. quote[a] \in Nat /\ quote[b] \in Nat /\ detected[a] \in Nat /\ detected[b] \in Nat
      BY <3>1, BoundsAssumption DEF TypeOK
    <3> HIDE DEF k, l
    <3> QED
      BY <3>3, <3>4, <3>5, <3>6 DEF Epoch
  <2> QED
    BY <2>2, <2>3
<1> QED
  BY Invariance, <1>1, PTL

\* The counts above a dashboard are those of its lists, and the lists of the
\* statuses share the dossiers out.
THEOREM CountsAreOfTheLists == Spec => []CountsAgree
<1>1. ASSUME IndInv PROVE CountsAgree
  <2> USE <1>1 DEF IndInv
  <2> SUFFICES ASSUME NEW u \in Users, NEW order \in Orders
               PROVE  LET unread == FilterAndSort(u, [NoFilter EXCEPT !.unread_only = TRUE], order)
                          ofStatus == [s \in WorkStatuses |->
                            FilterAndSort(u, [NoFilter EXCEPT !.work_status = s], order)]
                      IN  /\ NewForMe(u) = Len(unread)
                          /\ \A s \in WorkStatuses : CountOf(s) = Len(ofStatus[s])
                          /\ \A r \in Listed : \E s \in WorkStatuses :
                               \A t \in WorkStatuses : r \in Range(ofStatus[t]) <=> t = s
    BY DEF CountsAgree
  <2>1. \A f : LET list == FilterAndSort(u, f, order)
               IN  Len(list) = Cardinality(Filtered(u, f)) /\ Range(list) = Filtered(u, f)
    <3> SUFFICES ASSUME NEW f, NEW list, list = FilterAndSort(u, f, order)
                 PROVE  Len(list) = Cardinality(Filtered(u, f)) /\ Range(list) = Filtered(u, f)
      OBVIOUS
    <3>1. Filtered(u, f) \in SUBSET Records
      BY DEF Filtered, Listed
    <3> QED
      BY <3>1, SortedRows, SortKeyType DEF FilterAndSort
  <2>2. Filtered(u, [NoFilter EXCEPT !.unread_only = TRUE]) = {r \in Listed : Unread(u, r)}
    BY DEF Filtered, NoFilter, Matches, Listed
  <2>3. \A s \in WorkStatuses :
          Filtered(u, [NoFilter EXCEPT !.work_status = s]) = {r \in Listed : Status(r) = s}
    BY AnyStatusAssumption DEF Filtered, NoFilter, Matches, Listed
  <2>4. \A r \in Listed : Status(r) \in WorkStatuses
    BY WorkAssumption DEF Status, Listed, TypeOK
  <2> DEFINE unread == FilterAndSort(u, [NoFilter EXCEPT !.unread_only = TRUE], order)
             ofStatus == [s \in WorkStatuses |->
                            FilterAndSort(u, [NoFilter EXCEPT !.work_status = s], order)]
  <2>5. NewForMe(u) = Len(unread)
    BY <2>1, <2>2 DEF NewForMe
  <2>6. ASSUME NEW s \in WorkStatuses
        PROVE  /\ CountOf(s) = Len(ofStatus[s])
               /\ Range(ofStatus[s]) = {r \in Listed : Status(r) = s}
    BY <2>1, <2>3 DEF CountOf
  <2>7. ASSUME NEW r \in Listed
        PROVE  \E s \in WorkStatuses :
                 \A t \in WorkStatuses : r \in Range(ofStatus[t]) <=> t = s
    <3> HIDE DEF ofStatus
    <3>1. Status(r) \in WorkStatuses
      BY <2>4
    <3>2. \A t \in WorkStatuses : r \in Range(ofStatus[t]) <=> t = Status(r)
      BY <2>6
    <3> QED
      BY <3>1, <3>2
  <2> QED
    BY <2>5, <2>6, <2>7
<1> QED
  BY Invariance, <1>1, PTL
=============================================================================
