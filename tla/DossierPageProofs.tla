-------------------------- MODULE DossierPageProofs --------------------------
(***************************************************************************)
(* Proofs of the safety properties of the two components behind the page   *)
(* of a dossier: UnreadState, for any users, any number of tabs and any    *)
(* bound on the notifications, and WorkStatus, for any employees, any      *)
(* statuses and any bound on the updates.  Neither needs the other.        *)
(***************************************************************************)
EXTENDS UnreadState, WorkStatus, TLAPS
-----------------------------------------------------------------------------
(* UnreadState.                                                            *)

\* A request that selected ids selected or found read all that it showed.
PagesOK ==
  \A q \in Requests :
    /\ page[q].shown <= notifs
    /\ page[q].ids \subseteq 1..notifs
    /\ page[q].stage = "selected" =>
         1..page[q].shown \subseteq page[q].ids \cup reads[User(q)]

\* Whatever a request has seen of the notifications without showing it came
\* after its page was read and before it selected the ids.
GapsOK ==
  \A q \in Requests :
    /\ page[q].stage = "read" => 1..notifs \subseteq 1..page[q].shown \cup gap[User(q)]
    /\ page[q].stage = "selected" => page[q].ids \subseteq 1..page[q].shown \cup gap[User(q)]

OpenedOK == \A u \in Users : opened[u] <= notifs

IndInv ==
  TypeOK /\ PagesOK /\ GapsOK /\ OpenedOK /\ DeliveredMeansRead /\ ReadMeansShown

LEMMA Owner == \A q \in Requests : User(q) \in Users
  BY DEF Requests, User

LEMMA InitInv == Init => IndInv
<1> SUFFICES ASSUME Init PROVE IndInv
  OBVIOUS
<1>1. NoPage \in Pages
  BY MaxNotifsAssumption DEF NoPage, Pages
<1>2. notifs \in 0..MaxNotifs /\ opened \in [Users -> 0..MaxNotifs]
  BY MaxNotifsAssumption DEF Init
<1>3. page \in [Requests -> Pages]
  BY <1>1 DEF Init
<1>4. TypeOK
  BY <1>2, <1>3 DEF Init, TypeOK
<1>5. PagesOK /\ GapsOK
  <2>1. \A q \in Requests : page[q] = NoPage
    BY DEF Init, Requests
  <2> QED
    BY <2>1 DEF PagesOK, GapsOK, Init, NoPage
<1>6. OpenedOK /\ DeliveredMeansRead /\ ReadMeansShown
  BY DEF Init, OpenedOK, DeliveredMeansRead, ReadMeansShown
<1> QED
  BY <1>4, <1>5, <1>6 DEF IndInv
-----------------------------------------------------------------------------
\* Steps that leave every request alone.
LEMMA NotifyInv ==
  ASSUME IndInv, Notify
  PROVE  IndInv'
<1> USE DEF IndInv
<1>1. /\ notifs' = notifs + 1 /\ notifs \in Nat /\ notifs' \in 0..MaxNotifs
      /\ UNCHANGED <<reads, created, writer, page, opened>>
  BY MaxNotifsAssumption DEF Notify, TypeOK
<1>2. 1..notifs \subseteq 1..notifs' /\ 1..notifs' = 1..notifs \cup {notifs'}
  BY <1>1
<1>9. /\ gap' \in [Users -> SUBSET (1..notifs')]
      /\ \A u \in Users : gap[u] \subseteq gap'[u]
      /\ \A q \in Requests : page[q].stage = "read" => notifs' \in gap'[User(q)]
  <2>1. gap' = [u \in Users |->
                  IF \E t \in Tabs : page[<<u, t>>].stage = "read"
                  THEN gap[u] \cup {notifs'} ELSE gap[u]]
    BY DEF Notify
  <2>2. \A u \in Users : gap[u] \subseteq 1..notifs'
    BY <1>2 DEF TypeOK
  <2>3. notifs' \in 1..notifs'
    BY <1>1
  <2>4. \A q \in Requests : User(q) \in Users /\ \E t \in Tabs : q = <<User(q), t>>
    BY DEF Requests, User
  <2> QED
    BY <2>1, <2>2, <2>3, <2>4
<1>3. TypeOK'
  <2>1. reads \in [Users -> SUBSET (1..notifs')]
    BY <1>2 DEF TypeOK
  <2> QED
    BY <1>1, <1>9, <2>1 DEF TypeOK
<1>4. PagesOK'
  <2> SUFFICES ASSUME NEW q \in Requests
               PROVE  /\ page[q].shown <= notifs'
                      /\ page[q].ids \subseteq 1..notifs'
                      /\ page[q].stage = "selected" =>
                           1..page[q].shown \subseteq page[q].ids \cup reads[User(q)]
    BY <1>1 DEF PagesOK
  <2>1. page[q].shown \in 0..MaxNotifs
    BY DEF TypeOK, Pages, Requests
  <2> QED
    BY <1>1, <1>2, <2>1, MaxNotifsAssumption DEF PagesOK
<1>5. OpenedOK' /\ DeliveredMeansRead'
  BY <1>1, MaxNotifsAssumption DEF OpenedOK, DeliveredMeansRead, TypeOK
<1>6. ReadMeansShown'
  BY <1>1, <1>9 DEF ReadMeansShown
<1>7. GapsOK'
  BY <1>1, <1>2, <1>9, Owner DEF GapsOK
<1> QED
  BY <1>3, <1>4, <1>5, <1>6, <1>7

\* An account comes with every notification read; nobody else's reads change.
LEMMA UserInv ==
  ASSUME IndInv, UserCreated \/ UserRolledBack \/ \E u \in Users : CreateUser(u)
  PROVE  IndInv'
<1> USE DEF IndInv
<1>1. /\ UNCHANGED <<notifs, page, gap>>
      /\ created' \subseteq Users /\ writer' \in Users \cup {Nobody}
  BY DEF UserCreated, UserRolledBack, CreateUser, InsertUser, TypeOK
<1>2. /\ reads' \in [Users -> SUBSET (1..notifs)]
      /\ \A u \in Users : reads[u] \subseteq reads'[u]
  BY DEF UserCreated, UserRolledBack, CreateUser, Unread, TypeOK
<1>3. /\ opened' \in [Users -> 0..MaxNotifs]
      /\ \A u \in Users : \/ (opened'[u] = opened[u] /\ reads'[u] = reads[u])
                         \/ (opened'[u] = notifs /\ 1..notifs \subseteq reads'[u])
  BY DEF UserCreated, UserRolledBack, CreateUser, Unread, TypeOK
<1>4. TypeOK'
  BY <1>1, <1>2, <1>3 DEF TypeOK
<1>5. PagesOK' /\ GapsOK' /\ DeliveredMeansRead'
  BY <1>1, <1>2, <1>3, Owner DEF PagesOK, GapsOK, DeliveredMeansRead
<1>6. OpenedOK'
  BY <1>1, <1>3, MaxNotifsAssumption DEF OpenedOK, TypeOK
<1>7. ReadMeansShown'
  BY <1>1, <1>2, <1>3 DEF ReadMeansShown
<1> QED
  BY <1>4, <1>5, <1>6, <1>7
-----------------------------------------------------------------------------
\* A request that goes to another stage.
LEMMA PageInv ==
  ASSUME NEW q \in Requests, NEW next \in Pages, IndInv,
         UNCHANGED <<notifs, reads, created, writer, opened, gap>>,
         page' = [page EXCEPT ![q] = next],
         next.shown <= notifs, next.ids \subseteq 1..notifs,
         next.stage = "selected" => 1..next.shown \subseteq next.ids \cup reads[User(q)],
         next.stage = "read" => 1..notifs \subseteq 1..next.shown \cup gap[User(q)],
         next.stage = "selected" => next.ids \subseteq 1..next.shown \cup gap[User(q)]
  PROVE  IndInv'
<1> USE DEF IndInv
<1>1. TypeOK'
  BY DEF TypeOK, Requests
<1>2. \A r \in Requests : page'[r] = IF r = q THEN next ELSE page[r]
  BY DEF TypeOK, Requests
<1>3. PagesOK' /\ GapsOK'
  BY <1>2 DEF PagesOK, GapsOK
<1>4. OpenedOK' /\ DeliveredMeansRead' /\ ReadMeansShown'
  BY DEF OpenedOK, DeliveredMeansRead, ReadMeansShown
<1> QED
  BY <1>1, <1>3, <1>4

LEMMA ReadInv ==
  ASSUME NEW q \in Requests, IndInv,
         ReadPage(q) \/ SelectUnread(q) \/ PageFails(q)
  PROVE  IndInv'
<1> USE MaxNotifsAssumption DEF IndInv
<1>1. UNCHANGED <<notifs, reads, created, writer, opened, gap>>
  BY DEF ReadPage, SelectUnread, PageFails
<1>2. notifs \in 0..MaxNotifs /\ page[q] \in Pages 
  BY DEF TypeOK, Requests
<1>3. CASE ReadPage(q)
  <2> DEFINE next == [NoPage EXCEPT !.stage = "read", !.shown = notifs]
  <2>1. page' = [page EXCEPT ![q] = next]
    BY <1>3 DEF ReadPage
  <2>2. next \in Pages /\ next.shown = notifs /\ next.ids = {} /\ next.stage = "read"
    BY <1>2 DEF Pages, NoPage
  <2>3. next.shown <= notifs
    BY <1>2, <2>2
  <2> HIDE DEF next
  <2> QED
    BY <1>1, <2>1, <2>2, <2>3, PageInv
<1>4. CASE SelectUnread(q)
  <2> DEFINE next == [page[q] EXCEPT !.stage = "selected", !.ids = Unread(User(q))]
  <2>1. page' = [page EXCEPT ![q] = next]
    BY <1>4 DEF SelectUnread
  <2>2. Unread(User(q)) \subseteq 1..notifs /\ 1..notifs \subseteq Notifs
    BY <1>2 DEF Unread, Notifs
  <2>3. /\ next \in Pages /\ next.shown = page[q].shown
        /\ next.ids = Unread(User(q)) /\ next.stage = "selected"
    BY <1>2, <2>2 DEF Pages
  <2> HIDE DEF next
  <2>4. next.shown \in 0..MaxNotifs /\ next.shown <= notifs
    BY <1>2, <2>3 DEF PagesOK, Pages
  <2>5. 1..next.shown \subseteq next.ids \cup reads[User(q)]
    BY <1>2, <2>3, <2>4 DEF Unread
  <2>6. next.ids \subseteq 1..notifs
    BY <2>2, <2>3
  <2>7. next.ids \subseteq 1..next.shown \cup gap[User(q)]
    <3>1. page[q].stage = "read"
      BY <1>4 DEF SelectUnread
    <3> QED
      BY <2>3, <2>6, <3>1 DEF GapsOK
  <2> QED
    BY <1>1, <2>1, <2>3, <2>4, <2>5, <2>6, <2>7, PageInv
<1>5. CASE PageFails(q)
  <2>1. page' = [page EXCEPT ![q] = NoPage]
    BY <1>5 DEF PageFails
  <2>2. NoPage \in Pages /\ NoPage.shown <= notifs /\ NoPage.ids \subseteq 1..notifs
        /\ NoPage.stage = "none"
    BY <1>2 DEF NoPage, Pages
  <2> QED
    BY <1>1, <2>1, <2>2, PageInv
<1> QED
  BY <1>3, <1>4, <1>5

LEMMA AcknowledgeInv ==
  ASSUME NEW q \in Requests, IndInv, Acknowledge(q)
  PROVE  IndInv'
<1> USE MaxNotifsAssumption DEF IndInv
<1> DEFINE asked == page[q]
           u == User(q)
<1>0. u \in Users /\ q \in Requests
  BY DEF Requests, User
<1>1. /\ asked.stage = "selected" /\ page' = [page EXCEPT ![q] = NoPage]
      /\ UNCHANGED <<notifs, created, writer, gap>> /\ InsertReads(q)
  BY DEF Acknowledge
<1>2. /\ asked.shown <= notifs /\ asked.ids \subseteq 1..notifs
      /\ 1..asked.shown \subseteq asked.ids \cup reads[u]
      /\ asked.shown \in 0..MaxNotifs
      /\ asked.ids \subseteq 1..asked.shown \cup gap[u]
  BY <1>1 DEF PagesOK, GapsOK, TypeOK, Requests, Pages
<1>3. NoPage \in Pages
  BY DEF NoPage, Pages
<1>4. page' \in [Requests -> Pages]
  BY <1>1, <1>3 DEF TypeOK
<1>5. \A r \in Requests : page'[r] = IF r = q THEN NoPage ELSE page[r]
  BY <1>1 DEF TypeOK, Requests
<1>6. CASE asked.ids \cap reads[u] = {}
  <2>1. /\ reads' = [reads EXCEPT ![u] = @ \cup asked.ids]
        /\ opened' = [opened EXCEPT ![u] = IF asked.shown > @ THEN asked.shown ELSE @]
    BY <1>1, <1>6 DEF InsertReads, Delivered
  <2> HIDE DEF asked, u
  <2>2. /\ reads' \in [Users -> SUBSET (1..notifs)]
        /\ reads'[u] = reads[u] \cup asked.ids
        /\ \A v \in Users : v # u => reads'[v] = reads[v]
    BY <1>0, <1>2, <2>1 DEF TypeOK
  <2>3. /\ opened' \in [Users -> 0..MaxNotifs]
        /\ opened'[u] \in {asked.shown, opened[u]}
        /\ asked.shown <= opened'[u] /\ opened[u] <= opened'[u]
        /\ \A v \in Users : v # u => opened'[v] = opened[v]
    BY <1>0, <1>2, <2>1 DEF TypeOK
  <2>4. TypeOK'
    BY <1>1, <1>4, <2>2, <2>3 DEF TypeOK
  <2>5. PagesOK' /\ GapsOK'
    <3>1. \A v \in Users : reads[v] \subseteq reads'[v]
      BY <2>2
    <3>2. NoPage.shown <= notifs /\ NoPage.ids = {} /\ NoPage.stage = "none"
      BY DEF NoPage, TypeOK
    <3> QED
      BY <1>1, <1>5, <3>1, <3>2, Owner DEF PagesOK, GapsOK
  <2>6. OpenedOK'
    BY <1>1, <1>2, <2>3 DEF OpenedOK
  <2>7. DeliveredMeansRead'
    BY <1>2, <2>2, <2>3 DEF DeliveredMeansRead
  <2>8. ReadMeansShown'
    <3>1. \A v \in Users : opened[v] \in 0..MaxNotifs /\ opened'[v] \in 0..MaxNotifs
      BY <2>3 DEF TypeOK
    <3>2. 1..asked.shown \subseteq 1..opened'[u] /\ 1..opened[u] \subseteq 1..opened'[u]
      BY <1>0, <1>2, <2>3, <3>1
    <3>3. reads'[u] \subseteq 1..opened'[u] \cup gap[u]
      BY <1>0, <1>2, <2>2, <3>2 DEF ReadMeansShown
    <3> QED
      BY <1>1, <2>2, <2>3, <3>3 DEF ReadMeansShown
  <2> QED
    BY <2>4, <2>5, <2>6, <2>7, <2>8
<1>7. CASE asked.ids \cap reads[u] # {}
  <2>1. UNCHANGED <<reads, opened>>
    BY <1>1, <1>7 DEF InsertReads
  <2>2. TypeOK'
    BY <1>1, <1>4, <2>1 DEF TypeOK
  <2>3. PagesOK' /\ GapsOK'
    BY <1>1, <1>5, <2>1 DEF PagesOK, GapsOK, NoPage, TypeOK
  <2>4. OpenedOK' /\ DeliveredMeansRead' /\ ReadMeansShown'
    BY <1>1, <2>1 DEF OpenedOK, DeliveredMeansRead, ReadMeansShown
  <2> QED
    BY <2>2, <2>3, <2>4
<1> QED
  BY <1>6, <1>7

\* The inductive invariant holds in every reachable state.
THEOREM Invariance == Spec => []IndInv
<1>1. IndInv /\ [Next]_vars => IndInv'
  <2> SUFFICES ASSUME IndInv, [Next]_vars PROVE IndInv'
    OBVIOUS
  <2>1. CASE Notify
    BY <2>1, NotifyInv
  <2>2. CASE UserCreated \/ UserRolledBack \/ \E u \in Users : CreateUser(u)
    BY <2>2, UserInv
  <2>3. ASSUME NEW q \in Requests,
               ReadPage(q) \/ SelectUnread(q) \/ PageFails(q)
        PROVE  IndInv'
    BY <2>3, ReadInv
  <2>4. ASSUME NEW q \in Requests, Acknowledge(q) PROVE IndInv'
    BY <2>4, AcknowledgeInv
  <2>5. CASE UNCHANGED vars
    BY <2>5 DEF vars, IndInv, TypeOK, PagesOK, GapsOK, OpenedOK, DeliveredMeansRead,
                ReadMeansShown
  <2> QED
    BY <2>1, <2>2, <2>3, <2>4, <2>5 DEF Next
<1> QED
  BY InitInv, <1>1, PTL DEF Spec
-----------------------------------------------------------------------------
\* Every variable keeps its type; nothing is read before it was committed.
THEOREM TypeCorrect == Spec => []TypeOK
<1>1. IndInv => TypeOK
  BY DEF IndInv
<1> QED
  BY Invariance, <1>1, PTL

\* What a delivered page showed is read, for any number of tabs.
THEOREM Acknowledgement == Spec => []DeliveredMeansRead
<1>1. IndInv => DeliveredMeansRead
  BY DEF IndInv
<1> QED
  BY Invariance, <1>1, PTL

\* Nothing is marked read unseen but what came between the two transactions of
\* a page.
THEOREM NothingSwallowed == Spec => []ReadMeansShown
<1>1. IndInv => ReadMeansShown
  BY DEF IndInv
<1> QED
  BY Invariance, <1>1, PTL

\* No account is committed with an unread notification.
THEOREM Newcomers == Spec => NewcomersStartAtZero
<1>1. ASSUME IndInv, [Next]_vars
      PROVE  [\A u \in created' \ created : 1..notifs' \subseteq reads'[u]]_vars
  <2> SUFFICES ASSUME NEW u \in created' \ created
               PROVE  1..notifs' \subseteq reads'[u]
    OBVIOUS
  <2>1. UserCreated
    BY <1>1 DEF Next, vars, Notify, CreateUser, InsertUser, UserRolledBack, ReadPage,
                SelectUnread, Acknowledge, PageFails
  <2>2. u = writer /\ notifs' = notifs /\ u \in Users
    BY <1>1, <2>1 DEF UserCreated, IndInv, TypeOK
  <2>3. reads'[u] = reads[u] \cup Unread(u)
    BY <1>1, <2>1, <2>2 DEF UserCreated, IndInv, TypeOK
  <2> QED
    BY <2>2, <2>3 DEF Unread
<1> QED
  BY Invariance, <1>1, PTL DEF Spec, NewcomersStartAtZero
-----------------------------------------------------------------------------
(* UnreadState implements Inbox.                                           *)

\* An employee has read the notifications up to some one of them, and the ids
\* a request selected go on from where the employee was then.
InOrder ==
  /\ writer # Nobody => writer \notin created
  /\ \A u \in Users : \E k \in 0..notifs : reads[u] = 1..k
  /\ \A q \in Requests :
       /\ page[q].stage # "none" => User(q) \in created
       /\ page[q].stage = "selected" =>
            \E j, n \in 0..notifs : page[q].ids = (j + 1)..n /\ 1..j \subseteq reads[User(q)]

\* A page that is acknowledged moves its reader on, or is rejected.
LEMMA AcknowledgeOpens ==
  ASSUME NEW q \in Requests, IndInv, InOrder, Acknowledge(q), NEW u, u = User(q)
  PROVE  /\ u \in Users /\ u \in created /\ UNCHANGED <<notifs, created>>
         /\ \/ reads' = reads
            \/ \E h \in 0..notifs : reads' = [reads EXCEPT ![u] = @ \cup 1..h] /\ reads'[u] = 1..h
<1>1. /\ page[q].stage = "selected" /\ InsertReads(q) /\ UNCHANGED <<notifs, created>>
  BY DEF Acknowledge
<1>2. u \in Users /\ u \in created /\ notifs \in Nat
  BY <1>1, Owner, MaxNotifsAssumption DEF InOrder, IndInv, TypeOK
<1>3. PICK k \in 0..notifs : reads[u] = 1..k
  BY <1>2 DEF InOrder
<1>4. PICK j \in 0..notifs, n \in 0..notifs :
        page[q].ids = (j + 1)..n /\ 1..j \subseteq reads[u]
  BY <1>1 DEF InOrder
<1>5. CASE page[q].ids \cap reads[u] = {}
  <2>1. reads' = [reads EXCEPT ![u] = @ \cup page[q].ids]
    BY <1>1, <1>5 DEF InsertReads
  <2>2. k \in Nat /\ j \in Nat /\ n \in Nat
    BY <1>2
  <2>3. PICK h \in {k, n} : /\ reads[u] \cup page[q].ids = 1..h
                            /\ reads[u] \cup page[q].ids = reads[u] \cup 1..h
    <3>1. CASE n <= j
      <4>1. page[q].ids = {}
        BY <1>4, <2>2, <3>1
      <4> QED
        BY <1>3, <4>1
    <3>2. CASE n > j
      <4>1. j <= k
        BY <1>3, <1>4, <2>2
      <4>2. j + 1 \in page[q].ids
        BY <1>4, <2>2, <3>2
      <4>3. j = k
        BY <1>3, <1>5, <2>2, <4>1, <4>2
      <4>4. reads[u] \cup page[q].ids = 1..n /\ reads[u] \cup 1..n = 1..n
        BY <1>3, <1>4, <2>2, <3>2, <4>3
      <4> QED
        BY <4>4
    <3> QED
      BY <2>2, <3>1, <3>2
  <2>4. h \in 0..notifs
    BY <2>3
  <2>5. reads' = [reads EXCEPT ![u] = @ \cup 1..h] /\ reads'[u] = 1..h
    BY <1>2, <2>1, <2>3 DEF IndInv, TypeOK
  <2> QED
    BY <1>1, <1>2, <2>4, <2>5
<1>6. CASE page[q].ids \cap reads[u] # {}
  BY <1>1, <1>2, <1>6 DEF InsertReads
<1> QED
  BY <1>5, <1>6

\* A step that lets nobody read less, nor anything but in order.
LEMMA InOrderKept ==
  ASSUME InOrder, IndInv, IndInv', notifs <= notifs', created \subseteq created',
         writer' # Nobody => writer' \notin created',
         \A u \in Users : reads[u] \subseteq reads'[u] /\ \E k \in 0..notifs' : reads'[u] = 1..k,
         \A q \in Requests : page'[q] = page[q] \/ page'[q].stage = "none"
  PROVE  InOrder'
<1>1. 0..notifs \subseteq 0..notifs'
  BY MaxNotifsAssumption DEF IndInv, TypeOK
<1>2. ASSUME NEW q \in Requests, page'[q] = page[q], page[q].stage = "selected"
      PROVE  \E j, n \in 0..notifs' :
               page'[q].ids = (j + 1)..n /\ 1..j \subseteq reads'[User(q)]
  <2>1. PICK j \in 0..notifs, n \in 0..notifs :
          page[q].ids = (j + 1)..n /\ 1..j \subseteq reads[User(q)]
    BY <1>2 DEF InOrder
  <2>2. reads[User(q)] \subseteq reads'[User(q)]
    BY Owner
  <2> QED
    BY <1>1, <1>2, <2>1, <2>2
<1>3. ASSUME NEW q \in Requests, page'[q].stage # "none" PROVE User(q) \in created'
  BY <1>3 DEF InOrder
<1> QED
  BY <1>2, <1>3 DEF InOrder

LEMMA StepInOrder ==
  ASSUME IndInv, IndInv', InOrder, [Next]_vars
  PROVE  InOrder'
<1> USE MaxNotifsAssumption
<1>0. notifs \in Nat
  BY DEF IndInv, TypeOK
<1>1. CASE Notify
  <2>1. /\ notifs' = notifs + 1 /\ writer = Nobody
        /\ UNCHANGED <<reads, created, writer, page>>
    BY <1>1 DEF Notify
  <2>2. 0..notifs \subseteq 0..notifs'
    BY <1>0, <2>1
  <2> QED
    BY <1>0, <2>1, <2>2, InOrderKept DEF InOrder
<1>2. CASE \E u \in Users : CreateUser(u)
  BY <1>0, <1>2, InOrderKept DEF CreateUser, InsertUser, InOrder
<1>3. CASE UserCreated
  <2>1. /\ writer \in Users /\ writer' = Nobody /\ UNCHANGED <<notifs, page>>
        /\ created \subseteq created'
    BY <1>3 DEF UserCreated, IndInv, TypeOK
  <2>2. reads' = [reads EXCEPT ![writer] = 1..notifs] /\ reads[writer] \subseteq 1..notifs
    BY <1>3, <2>1 DEF UserCreated, Unread, IndInv, TypeOK
  <2>3. \A u \in Users : reads[u] \subseteq reads'[u] /\ \E k \in 0..notifs : reads'[u] = 1..k
    <3> SUFFICES ASSUME NEW u \in Users
                 PROVE  reads[u] \subseteq reads'[u] /\ \E k \in 0..notifs : reads'[u] = 1..k
      OBVIOUS
    <3>1. CASE u = writer
      <4>1. reads'[u] = 1..notifs /\ reads[u] \subseteq 1..notifs
        BY <2>1, <2>2, <3>1 DEF IndInv, TypeOK
      <4>2. notifs \in 0..notifs
        BY <1>0
      <4> QED
        BY <4>1, <4>2
    <3>2. CASE u # writer
      BY <2>2, <3>2 DEF InOrder, IndInv, TypeOK
    <3> QED
      BY <3>1, <3>2
  <2> QED
    BY <1>0, <2>1, <2>3, InOrderKept
<1>4. CASE UserRolledBack
  BY <1>0, <1>4, InOrderKept DEF UserRolledBack, InOrder
<1>5. ASSUME NEW q \in Requests, ReadPage(q) PROVE InOrder'
  <2>1. /\ User(q) \in created /\ UNCHANGED <<notifs, reads, created, writer>>
        /\ \A r \in Requests : r # q => page'[r] = page[r]
        /\ page'[q].stage = "read"
    BY <1>5 DEF ReadPage, NoPage, IndInv, TypeOK
  <2> QED
    BY <2>1 DEF InOrder
<1>6. ASSUME NEW q \in Requests, SelectUnread(q) PROVE InOrder'
  <2>1. /\ page[q].stage = "read" /\ UNCHANGED <<notifs, reads, created, writer>>
        /\ \A r \in Requests : r # q => page'[r] = page[r]
        /\ page'[q].stage = "selected" /\ page'[q].ids = Unread(User(q))
    BY <1>6 DEF SelectUnread, IndInv, TypeOK, Pages
  <2>2. PICK k \in 0..notifs : reads[User(q)] = 1..k
    BY Owner DEF InOrder
  <2>3. Unread(User(q)) = (k + 1)..notifs
    BY <1>0, <2>2 DEF Unread
  <2>4. notifs \in 0..notifs
    BY <1>0
  <2>5. \E j, n \in 0..notifs : page'[q].ids = (j + 1)..n /\ 1..j \subseteq reads[User(q)]
    BY <2>1, <2>2, <2>3, <2>4
  <2> QED
    BY <2>1, <2>5 DEF InOrder
<1>7. ASSUME NEW q \in Requests, Acknowledge(q) PROVE InOrder'
  <2>1. /\ UNCHANGED <<notifs, created, writer>> /\ writer = Nobody
        /\ page'[q].stage = "none" /\ \A r \in Requests : r # q => page'[r] = page[r]
    BY <1>7 DEF Acknowledge, NoPage, IndInv, TypeOK
  <2>2. ASSUME NEW u \in Users
        PROVE  reads[u] \subseteq reads'[u] /\ \E k \in 0..notifs : reads'[u] = 1..k
    <3>1. CASE reads'[u] = reads[u]
      BY <3>1 DEF InOrder
    <3>2. CASE reads'[u] # reads[u]
      <4>1. PICK h \in 0..notifs : /\ reads' = [reads EXCEPT ![User(q)] = @ \cup 1..h]
                                   /\ reads'[User(q)] = 1..h
        BY <1>7, <3>2, AcknowledgeOpens
      <4>2. u = User(q)
        BY <3>2, <4>1 DEF IndInv, TypeOK
      <4>3. reads'[u] = reads[u] \cup 1..h
        BY <4>1, <4>2 DEF IndInv, TypeOK
      <4> QED
        BY <4>1, <4>2, <4>3
    <3> QED
      BY <3>1, <3>2
  <2> QED
    BY <1>0, <2>1, <2>2, InOrderKept
<1>8. ASSUME NEW q \in Requests, PageFails(q) PROVE InOrder'
  <2>1. /\ UNCHANGED <<notifs, reads, created, writer>>
        /\ page'[q].stage = "none" /\ \A r \in Requests : r # q => page'[r] = page[r]
    BY <1>8 DEF PageFails, NoPage, IndInv, TypeOK
  <2> QED
    BY <1>0, <2>1, InOrderKept DEF InOrder
<1>9. CASE UNCHANGED vars
  BY <1>9 DEF vars, InOrder
<1> QED
  BY <1>1, <1>2, <1>3, <1>4, <1>5, <1>6, <1>7, <1>8, <1>9 DEF Next

\* Every step is a notification, a new account, an opening, or nothing to Inbox.
LEMMA StepReceives ==
  ASSUME IndInv, InOrder, [Next]_vars
  PROVE  [Received!InboxNext]_(Received!inboxVars)
<1>1. CASE Notify
  BY <1>1 DEF Notify, Received!Send, Received!InboxNext
<1>2. CASE UserCreated
  <2>1. writer \in Users /\ writer \notin created /\ created' = created \cup {writer}
        /\ notifs' = notifs
    BY <1>2 DEF UserCreated, InOrder, IndInv, TypeOK
  <2>2. reads' = [reads EXCEPT ![writer] = 1..notifs]
    BY <1>2, <2>1 DEF UserCreated, Unread, IndInv, TypeOK
  <2> QED
    BY <2>1, <2>2 DEF Received!Join, Received!InboxNext
<1>3. ASSUME NEW q \in Requests, Acknowledge(q) PROVE [Received!InboxNext]_(Received!inboxVars)
  BY <1>3, AcknowledgeOpens
     DEF Received!Open, Received!InboxNext, Received!inboxVars
<1>4. ASSUME UNCHANGED <<notifs, created, reads>>
      PROVE  [Received!InboxNext]_(Received!inboxVars)
  BY <1>4 DEF Received!inboxVars
<1>5. CASE (\E u \in Users : CreateUser(u)) \/ UserRolledBack \/ UNCHANGED vars
  BY <1>4, <1>5 DEF CreateUser, InsertUser, UserRolledBack, vars
<1>6. ASSUME NEW q \in Requests, ReadPage(q) \/ SelectUnread(q) \/ PageFails(q)
      PROVE  [Received!InboxNext]_(Received!inboxVars)
  BY <1>4, <1>6 DEF ReadPage, SelectUnread, PageFails
<1> QED
  BY <1>1, <1>2, <1>3, <1>5, <1>6 DEF Next

\* The rows of notification_reads implement Inbox: what an employee has not
\* read is always the latest, whatever tabs, polls and accounts interleave.
THEOREM ReadInOrder == Spec => ImplementsInbox
<1>1. Init => InOrder /\ Received!InboxInit
  <2> SUFFICES ASSUME Init PROVE InOrder /\ Received!InboxInit
    OBVIOUS
  <2>1. \A u \in Users : \E k \in 0..notifs : reads[u] = 1..k
    <3>1. 1..0 = {} /\ 0 \in 0..0
      OBVIOUS
    <3>2. notifs = 0 /\ \A u \in Users : reads[u] = {}
      BY DEF Init
    <3> QED
      BY <3>1, <3>2
  <2>2. \A q \in Requests : page[q].stage = "none"
    BY DEF Init, NoPage
  <2>3. InOrder
    BY <2>1, <2>2 DEF Init, InOrder
  <2>4. Received!InboxInit
    BY DEF Init, Received!InboxInit
  <2> QED
    BY <2>3, <2>4
<1>2. IndInv /\ IndInv' /\ InOrder /\ [Next]_vars => InOrder'
  BY StepInOrder
<1>3. IndInv /\ InOrder /\ [Next]_vars => [Received!InboxNext]_(Received!inboxVars)
  BY StepReceives
<1> QED
  BY <1>1, <1>2, <1>3, Invariance, PTL DEF Spec, ImplementsInbox, Received!InboxSpec
-----------------------------------------------------------------------------
(* WorkStatus.                                                             *)

\* A form that showed the latest update has the row's version.
FormsAgree ==
  \A e \in Employees :
    /\ seen[e] <= written
    /\ seen[e] = written => form[e].version = row.version

\* Without overlap the version counts the updates, for the row and the forms,
\* and at most one request is about to write, on the row as it is.
Serial ==
  ~overlapped =>
    /\ row.version = written + 1
    /\ \A e \in Employees : form[e].version = seen[e] + 1
    /\ \A e \in Employees : Between(e) => seen[e] = written /\ loaded[e] = row
    /\ \A e, d \in Employees : Between(e) /\ Between(d) => e = d

WorkInv == WorkTypeOK /\ FormsAgree /\ Serial /\ RefusedMeansStale

LEMMA WorkInitInv == WorkInit => WorkInv
<1> SUFFICES ASSUME WorkInit PROVE WorkInv
  OBVIOUS
<1>1. /\ written = 0 /\ overlapped = FALSE
      /\ row \in Contents /\ row.version = 1
      /\ \A e \in Employees : form[e] = row /\ request[e] = "none" /\ seen[e] = 0
  BY DEF WorkInit, Contents
<1>2. WorkTypeOK
  <2>1. form \in [Employees -> Contents] /\ loaded \in [Employees -> Contents]
    BY <1>1 DEF WorkInit
  <2>2. request \in [Employees -> Stages] /\ seen \in [Employees -> Nat]
    BY DEF WorkInit, Stages
  <2> QED
    BY <1>1, <2>1, <2>2 DEF WorkTypeOK
<1>3. FormsAgree /\ Serial /\ RefusedMeansStale
  BY <1>1 DEF FormsAgree, Serial, RefusedMeansStale, Between
<1> QED
  BY <1>2, <1>3 DEF WorkInv
-----------------------------------------------------------------------------
LEMMA OpenPageInv ==
  ASSUME NEW e \in Employees, WorkInv, OpenPage(e)
  PROVE  WorkInv'
<1> USE DEF WorkInv
<1>1. /\ form' = [form EXCEPT ![e] = row] /\ seen' = [seen EXCEPT ![e] = written]
      /\ request[e] = "none" /\ UNCHANGED <<row, request, loaded, written, overlapped>>
  BY DEF OpenPage, Shows
<1>2. WorkTypeOK'
  <2>1. UNCHANGED Contents
    BY <1>1 DEF Contents
  <2> QED
    BY <1>1, <2>1 DEF WorkTypeOK
<1>3. FormsAgree'
  BY <1>1 DEF FormsAgree, WorkTypeOK
<1>4. Serial'
  BY <1>1 DEF Serial, WorkTypeOK, Between
<1>5. RefusedMeansStale'
  BY <1>1 DEF RefusedMeansStale, WorkTypeOK
<1> QED
  BY <1>2, <1>3, <1>4, <1>5

LEMMA LoadInv ==
  ASSUME NEW e \in Employees, WorkInv, Load(e)
  PROVE  WorkInv'
<1> USE DEF WorkInv
<1>1. /\ request[e] = "none" /\ loaded' = [loaded EXCEPT ![e] = row]
      /\ request' = [request EXCEPT ![e] = IF Conflict(e) THEN "refused" ELSE "between"]
      /\ overlapped' = (overlapped \/ \E d \in Employees : ~Conflict(e) /\ Between(d))
      /\ UNCHANGED <<row, form, written, seen>>
  BY DEF Load
<1>2. WorkTypeOK'
  <2>1. UNCHANGED Contents
    BY <1>1 DEF Contents
  <2>2. overlapped' \in BOOLEAN
    BY <1>1 DEF WorkTypeOK
  <2>3. request' \in [Employees -> Stages]
    BY <1>1 DEF WorkTypeOK, Stages
  <2> QED
    BY <1>1, <2>1, <2>2, <2>3 DEF WorkTypeOK
<1>3. FormsAgree'
  BY <1>1 DEF FormsAgree
<1>4. RefusedMeansStale'
  BY <1>1 DEF RefusedMeansStale, FormsAgree, Conflict, WorkTypeOK
<1>5. Serial'
  <2> SUFFICES ASSUME overlapped' = FALSE PROVE Serial'
    BY <1>2 DEF Serial, WorkTypeOK
  <2>1. overlapped = FALSE /\ \A d \in Employees : Conflict(e) \/ ~Between(d)
    BY <1>1 DEF WorkTypeOK
  <2>2. /\ row.version = written + 1
        /\ \A d \in Employees : form[d].version = seen[d] + 1
        /\ \A d \in Employees : Between(d) => seen[d] = written /\ loaded[d] = row
        /\ \A d, f \in Employees : Between(d) /\ Between(f) => d = f
    BY <2>1 DEF Serial
  <2>3. \A d \in Employees : d # e => Between(d)' = Between(d) /\ loaded'[d] = loaded[d]
    BY <1>1 DEF Between, WorkTypeOK
  <2>4. Between(e)' = ~Conflict(e) /\ loaded'[e] = row
    BY <1>1 DEF Between, WorkTypeOK
  <2>5. ~Conflict(e) => seen[e] = written
    BY <2>2 DEF Conflict, WorkTypeOK, FormsAgree
  <2> QED
    BY <1>1, <2>1, <2>2, <2>3, <2>4, <2>5 DEF Serial
<1> QED
  BY <1>2, <1>3, <1>4, <1>5

LEMMA WriteInv ==
  ASSUME NEW e \in Employees, NEW want \in Statuses, WorkInv, Write(e, want)
  PROVE  WorkInv'
<1> USE DEF WorkInv
<1> DEFINE next == loaded[e].version + 1
<1>1. /\ Between(e) /\ written' = written + 1
      /\ request' = [request EXCEPT ![e] = "none"] /\ UNCHANGED <<loaded, overlapped>>
  BY DEF Write
<1>2. /\ row' = [status |-> IF want = loaded[e].status THEN row.status ELSE want,
                 version |-> next]
      /\ form' = [form EXCEPT ![e] = [status |-> want, version |-> next]]
      /\ seen' = [seen EXCEPT ![e] = written + 1]
  BY DEF Write, Commit, Shows
<1>3. next \in 1..written' + 1 /\ written \in Nat
  BY <1>1 DEF WorkTypeOK, Contents
<1> HIDE DEF next
<1>4. WorkTypeOK'
  <2>1. Contents \subseteq Contents'
    BY <1>1, <1>3 DEF Contents
  <2>2. row' \in Contents'
    BY <1>2, <1>3 DEF WorkTypeOK, Contents
  <2>3. [status |-> want, version |-> next] \in Contents'
    BY <1>3 DEF Contents
  <2>4. form' \in [Employees -> Contents'] /\ loaded' \in [Employees -> Contents']
    BY <1>1, <1>2, <2>1, <2>3 DEF WorkTypeOK
  <2>5. request' \in [Employees -> Stages] /\ seen' \in [Employees -> Nat]
    BY <1>1, <1>2, <1>3 DEF WorkTypeOK, Stages
  <2> QED
    BY <1>1, <1>3, <2>2, <2>4, <2>5 DEF WorkTypeOK
<1>5. /\ seen'[e] = written' /\ form'[e].version = row'.version
      /\ \A d \in Employees : d # e => seen'[d] = seen[d] /\ form'[d] = form[d]
  BY <1>1, <1>2 DEF WorkTypeOK
<1>6. FormsAgree'
  BY <1>1, <1>3, <1>5 DEF FormsAgree, WorkTypeOK
<1>7. RefusedMeansStale'
  BY <1>1, <1>3, <1>5 DEF RefusedMeansStale, FormsAgree, WorkTypeOK
<1>8. Serial'
  <2> SUFFICES ASSUME ~overlapped PROVE Serial'
    BY <1>1 DEF Serial
  <2>1. /\ row.version = written + 1 /\ loaded[e] = row
        /\ \A d \in Employees : form[d].version = seen[d] + 1
        /\ \A d \in Employees : Between(d) => d = e
    BY <1>1 DEF Serial
  <2>2. row'.version = written' + 1
    BY <1>1, <1>2, <2>1 DEF next
  <2>3. \A d \in Employees : form'[d].version = seen'[d] + 1
    BY <1>5, <2>1, <2>2
  <2>4. \A d \in Employees : ~Between(d)'
    BY <1>1, <2>1 DEF Between, WorkTypeOK
  <2> QED
    BY <2>2, <2>3, <2>4 DEF Serial
<1> QED
  BY <1>4, <1>6, <1>7, <1>8

\* A request that ends without writing, its form left behind or rendered anew.
LEMMA AnswerInv ==
  ASSUME NEW e \in Employees, WorkInv, request[e] # "none",
         WriteFails(e) \/ \E htmx \in BOOLEAN : AnswerConflict(e, htmx)
  PROVE  WorkInv'
<1> USE DEF WorkInv
<1>1. /\ request' = [request EXCEPT ![e] = "none"]
      /\ UNCHANGED <<row, loaded, written, overlapped>>
      /\ \/ UNCHANGED <<form, seen>>
         \/ form' = [form EXCEPT ![e] = row] /\ seen' = [seen EXCEPT ![e] = written]
  BY DEF WriteFails, AnswerConflict, Shows
<1>2. WorkTypeOK'
  <2>1. UNCHANGED Contents
    BY <1>1 DEF Contents
  <2> QED
    BY <1>1, <2>1 DEF WorkTypeOK, Stages
<1>3. FormsAgree'
  BY <1>1 DEF FormsAgree, WorkTypeOK
<1>4. Serial'
  BY <1>1 DEF Serial, WorkTypeOK, Between
<1>5. RefusedMeansStale'
  BY <1>1 DEF RefusedMeansStale, WorkTypeOK
<1> QED
  BY <1>2, <1>3, <1>4, <1>5

\* The inductive invariant holds in every reachable state.
THEOREM WorkInvariance == WorkSpec => []WorkInv
<1>1. WorkInv /\ [WorkNext]_workVars => WorkInv'
  <2> SUFFICES ASSUME WorkInv, [WorkNext]_workVars PROVE WorkInv'
    OBVIOUS
  <2>1. ASSUME NEW e \in Employees, OpenPage(e) PROVE WorkInv'
    BY <2>1, OpenPageInv
  <2>2. ASSUME NEW e \in Employees, Load(e) PROVE WorkInv'
    BY <2>2, LoadInv
  <2>3. ASSUME NEW e \in Employees, NEW want \in Statuses, Write(e, want) PROVE WorkInv'
    BY <2>3, WriteInv
  <2>4. ASSUME NEW e \in Employees,
               WriteFails(e) \/ \E htmx \in BOOLEAN : AnswerConflict(e, htmx)
        PROVE  WorkInv'
    BY <2>4, AnswerInv DEF WriteFails, AnswerConflict, Between
  <2>5. CASE UNCHANGED workVars
    BY <2>5 DEF workVars, WorkInv, WorkTypeOK, Contents, FormsAgree, Serial,
               RefusedMeansStale, Between
  <2> QED
    BY <2>1, <2>2, <2>3, <2>4, <2>5 DEF WorkNext
<1> QED
  BY WorkInitInv, <1>1, PTL DEF WorkSpec
-----------------------------------------------------------------------------
\* Every variable keeps its type, and no version outruns the updates.
THEOREM WorkTypeCorrect == WorkSpec => []WorkTypeOK
<1>1. WorkInv => WorkTypeOK
  BY DEF WorkInv
<1> QED
  BY WorkInvariance, <1>1, PTL

\* A conflict is only reported to an employee whose form is out of date.
THEOREM ConflictsAreReal == WorkSpec => []RefusedMeansStale
<1>1. WorkInv => RefusedMeansStale
  BY DEF WorkInv
<1> QED
  BY WorkInvariance, <1>1, PTL

\* The version check is sound for requests that do not overlap.
THEOREM SerialUpdates == WorkSpec => []SerialUpdatesSeeAll
<1>1. WorkInv => SerialUpdatesSeeAll
  BY DEF WorkInv, Serial, SerialUpdatesSeeAll
<1> QED
  BY WorkInvariance, <1>1, PTL
=============================================================================
