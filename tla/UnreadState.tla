----------------------------- MODULE UnreadState -----------------------------
(***************************************************************************)
(* notification_reads: which notifications of one dossier each employee    *)
(* has left to read.  The poll commits notifications (DossierSync's notif) *)
(* while employees open the dossier's page, in as many tabs as they like,  *)
(* and administrators create accounts.                                     *)
(*                                                                         *)
(* SQLite has one writer at a time: writer holds it from the first write   *)
(* of a transaction to its commit.  Reads need nothing, and those before   *)
(* the first write are not part of the transaction.                        *)
(***************************************************************************)
EXTENDS Naturals

CONSTANTS
  Users,     \* rows of the users table, present or to come
  Tabs,      \* requests a user may have at a time
  Nobody,    \* no user
  MaxNotifs  \* bound: notifications of the dossier

ASSUME NobodyAssumption == Nobody \notin Users
ASSUME MaxNotifsAssumption == MaxNotifs \in Nat

VARIABLES
  notifs,   \* notifications committed so far: 1..notifs
  reads,    \* notification_reads: [Users -> SUBSET Notifs]
  created,  \* users whose account is committed
  writer,   \* the user being inserted by a transaction, or Nobody
  page,     \* [Requests -> where the request for the dossier's page is]
  opened,   \* history: notifications that a delivered page came after, or
            \* that were there before the account
  gap       \* history: notifications committed while a page of the user's
            \* was between its two transactions

vars == <<notifs, reads, created, writer, page, opened, gap>>

Notifs == 1..MaxNotifs
Requests == Users \X Tabs
User(q) == q[1]

\* shown: notifications there were when the page was read; ids: those that
\* acknowledge_dossier found unread.
NoPage == [stage |-> "none", shown |-> 0, ids |-> {}]
Pages == [stage : {"none", "read", "selected"}, shown : 0..MaxNotifs, ids : SUBSET Notifs]

Init ==
  /\ notifs = 0 /\ created = {} /\ writer = Nobody
  /\ reads = [u \in Users |-> {}]
  /\ page = [q \in Requests |-> NoPage]
  /\ opened = [u \in Users |-> 0] /\ gap = [u \in Users |-> {}]

\* notification ids without a read row of u's.
Unread(u) == (1..notifs) \ reads[u]
-----------------------------------------------------------------------------
\* The reconciliation of a poll commits a notification of this dossier.
Notify ==
  /\ writer = Nobody
  /\ notifs < MaxNotifs /\ notifs' = notifs + 1
  /\ gap' = [u \in Users |->
               IF \E t \in Tabs : page[<<u, t>>].stage = "read"
               THEN gap[u] \cup {notifs'} ELSE gap[u]]
  /\ UNCHANGED <<reads, created, writer, page, opened>>

\* Slip: the account is committed before its notifications are marked.
InsertUserCommits(u) ==
  /\ created' = created \cup {u}
  /\ UNCHANGED writer

\* create_user flushes the INSERT: the transaction is the writer from here.
InsertUser(u) ==
  /\ writer' = u
  /\ UNCHANGED created

CreateUser(u) ==
  /\ writer = Nobody /\ u \notin created
  /\ InsertUser(u)
  /\ UNCHANGED <<notifs, reads, page, opened, gap>>

\* mark_all_existing_as_read_for_user and the commit.
UserCreated ==
  /\ writer # Nobody
  /\ reads' = [reads EXCEPT ![writer] = @ \cup Unread(writer)]
  /\ created' = created \cup {writer}
  /\ opened' = [opened EXCEPT ![writer] = notifs]
  /\ writer' = Nobody
  /\ UNCHANGED <<notifs, page, gap>>

\* The transaction is rolled back (crash, database error).
UserRolledBack ==
  /\ writer # Nobody /\ writer' = Nobody
  /\ UNCHANGED <<notifs, reads, created, page, opened, gap>>
-----------------------------------------------------------------------------
(* GET /dossiers/{id}: request q of the employee User(q).                  *)

\* get_dossier, in a session of its own.
ReadPage(q) ==
  /\ User(q) \in created /\ page[q].stage = "none"
  /\ page' = [page EXCEPT ![q] = [NoPage EXCEPT !.stage = "read", !.shown = notifs]]
  /\ UNCHANGED <<notifs, reads, created, writer, opened, gap>>

\* acknowledge_dossier: the unread ids are selected.
SelectUnread(q) ==
  /\ page[q].stage = "read"
  /\ page' = [page EXCEPT ![q] = [@ EXCEPT !.stage = "selected", !.ids = Unread(User(q))]]
  /\ UNCHANGED <<notifs, reads, created, writer, opened, gap>>

Delivered(q) ==
  opened' = [opened EXCEPT ![User(q)] = IF page[q].shown > @ THEN page[q].shown ELSE @]

\* Slip: the key conflict is swallowed, and with it the whole transaction.
InsertReadsOrNothing(q) ==
  /\ reads' = IF page[q].ids \cap reads[User(q)] = {}
              THEN [reads EXCEPT ![User(q)] = @ \cup page[q].ids] ELSE reads
  /\ Delivered(q)

\* Slip: what is unread by now is marked, not what was selected.
InsertReadsAnew(q) ==
  /\ reads' = [reads EXCEPT ![User(q)] = @ \cup Unread(User(q))]
  /\ Delivered(q)

\* The inserts: the primary key (notification, user) rejects all of them when
\* another tab acknowledged one first, and the request is an error page.
InsertReads(q) ==
  IF page[q].ids \cap reads[User(q)] = {}
  THEN /\ reads' = [reads EXCEPT ![User(q)] = @ \cup page[q].ids]
       /\ Delivered(q)
  ELSE UNCHANGED <<reads, opened>>

Acknowledge(q) ==
  /\ writer = Nobody
  /\ page[q].stage = "selected"
  /\ InsertReads(q)
  /\ page' = [page EXCEPT ![q] = NoPage]
  /\ UNCHANGED <<notifs, created, writer, gap>>

\* The request dies before its commit: nothing was written.
PageFails(q) ==
  /\ page[q].stage # "none"
  /\ page' = [page EXCEPT ![q] = NoPage]
  /\ UNCHANGED <<notifs, reads, created, writer, opened, gap>>

Next ==
  \/ Notify
  \/ \E u \in Users : CreateUser(u)
  \/ UserCreated \/ UserRolledBack
  \/ \E q \in Requests :
       ReadPage(q) \/ SelectUnread(q) \/ Acknowledge(q) \/ PageFails(q)

Spec == Init /\ [][Next]_vars
-----------------------------------------------------------------------------
\* Types; nothing is read before it was committed.
TypeOK ==
  /\ notifs \in 0..MaxNotifs
  /\ reads \in [Users -> SUBSET (1..notifs)]
  /\ created \subseteq Users /\ writer \in Users \cup {Nobody}
  /\ page \in [Requests -> Pages] /\ opened \in [Users -> 0..MaxNotifs]
  /\ gap \in [Users -> SUBSET (1..notifs)]

\* A page that was delivered leaves nothing of what it showed unread, however
\* the tabs of an employee and the poll interleave.
DeliveredMeansRead == \A u \in Users : 1..opened[u] \subseteq reads[u]

\* The page is read and acknowledged in two transactions.  A notification is
\* marked read for an employee who was shown nothing of it only when the poll
\* committed it between the two: neither one that was there when the page was
\* read nor one that came after the acknowledgement is ever swallowed.
ReadMeansShown == \A u \in Users : reads[u] \subseteq 1..opened[u] \cup gap[u]

\* An account is committed with every notification read: the employee starts
\* with zero inherited unread notifications, even when a poll runs meanwhile.
NewcomersStartAtZero ==
  [][\A u \in created' \ created : 1..notifs' \subseteq reads'[u]]_vars

Received == INSTANCE Inbox WITH sent <- notifs, staff <- created, read <- reads

\* Whichever tabs, polls and new accounts interleave, the rows of
\* notification_reads change as Inbox says: no employee ever has an older
\* notification unread below a newer one that is read, a newcomer has none.
ImplementsInbox == Received!InboxSpec
=============================================================================
