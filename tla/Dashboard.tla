------------------------------ MODULE Dashboard ------------------------------
(***************************************************************************)
(* What an employee's dashboard is computed from (list_for_dashboard,      *)
(* compute_counts, _render_dashboard): the dossiers' lives and alerts, as  *)
(* DossierLifecycle abstracts the polls that DossierSync details, their    *)
(* quote dates, the work status and the notifications each employee has    *)
(* left to read.                                                           *)
(*                                                                         *)
(* A page is made of two SELECTs without a common snapshot, the account's  *)
(* and the dossiers', while polls and colleagues commit.  Openings and     *)
(* status updates are steps here; WorkStatus and UnreadState look inside.  *)
(***************************************************************************)
EXTENDS DossierLifecycle, FiniteSets

CONSTANTS
  Users,
  WorkStatuses, ToDo,  \* WorkStatus, and the one a dossier starts with
  NoWork,              \* no row in dossier_work
  MaxPolls, MaxDate    \* bounds: polls, and dates of a garage's quote

ASSUME WorkAssumption == ToDo \in WorkStatuses /\ NoWork \notin WorkStatuses
ASSUME BoundsAssumption == MaxPolls \in Nat /\ MaxDate \in Nat

VARIABLES
  clock,     \* polls reconciled so far: the time
  polling,   \* the last of them has not ended
  success,   \* last_success_at, 0 for none
  detected,  \* [Records -> time of the last notification, or of the creation]
  quote,     \* [Records -> date_envoi_devis_garage, 0 for none]
  work,      \* [Records -> status in dossier_work, or NoWork]
  read,      \* [Users -> [Records -> notifications of the dossier with a read row]]
  page,      \* the page of somebody's that is being made, or was made last
  news       \* history: [Users -> dossiers with an alert since the last opening]

tables == <<life, alerts, watched, clock, polling, success, detected, quote, work, read, news>>
vars == <<tables, page>>

\* at: SELECTs done.
NoPage == [at |-> 0, said |-> 0, sure |-> 0]

Init ==
  /\ LifeInit
  /\ clock = 0 /\ polling = FALSE /\ success = 0
  /\ detected = [r \in Records |-> 0] /\ quote = [r \in Records |-> 0]
  /\ work = [r \in Records |-> NoWork]
  /\ read = [u \in Users |-> [r \in Records |-> 0]]
  /\ page = NoPage
  /\ news = [u \in Users |-> {}]
-----------------------------------------------------------------------------
(* A poll.                                                                 *)

Alerted == {r \in Records : alerts'[r] > alerts[r]}
Created == {r \in Records : life[r] = "unknown" /\ life'[r] = "active"}

\* The transaction of the reconciliation.
Reconcile(seen, retired) ==
  /\ ~polling /\ polling' = TRUE
  /\ clock < MaxPolls /\ clock' = clock + 1
  /\ Observe(seen, retired)
  /\ detected' = [r \in Records |-> IF r \in Alerted \cup Created THEN clock' ELSE detected[r]]
  /\ news' = [u \in Users |-> news[u] \cup Alerted]
  /\ UNCHANGED <<success, quote, work, read, page>>

\* save_details: a date, or none if the page had none or could not be read.
SaveDetails(r, date) ==
  /\ polling /\ life[r] = "active"
  /\ quote' = [quote EXCEPT ![r] = date]
  /\ UNCHANGED <<lifeVars, clock, polling, success, detected, work, read, page, news>>

\* The run is finished, or given up.
Finish(complete) ==
  /\ polling /\ polling' = FALSE
  /\ success' = IF complete THEN clock ELSE success
  /\ UNCHANGED <<lifeVars, clock, detected, quote, work, read, page, news>>
-----------------------------------------------------------------------------
(* The employees.                                                          *)

SetWork(r, status) ==
  /\ life[r] # "unknown"
  /\ work' = [work EXCEPT ![r] = status]
  /\ UNCHANGED <<lifeVars, clock, polling, success, detected, quote, read, page, news>>

\* Slip: read rows are not told apart by user.
OpenForAll(u, r) == read' = [v \in Users |-> [read[v] EXCEPT ![r] = alerts[r]]]

\* The dossier's page: its notifications are read now.
MarkRead(u, r) == read' = [read EXCEPT ![u][r] = alerts[r]]

Open(u, r) ==
  /\ life[r] # "unknown"
  /\ MarkRead(u, r)
  /\ news' = [news EXCEPT ![u] = @ \ {r}]
  /\ UNCHANGED <<lifeVars, clock, polling, success, detected, quote, work, page>>
-----------------------------------------------------------------------------
(* The rows.                                                               *)

Listed == {r \in Records : life[r] = "active"}

\* bool(unread_count).
Unread(u, r) == alerts[r] > read[u][r]

\* Slip: a dossier without a row in dossier_work has no status.
StatusOfRow(r) == work[r]

\* The outer join's status.
Status(r) == IF work[r] = NoWork THEN ToDo ELSE work[r]

\* compute_counts, over all listed rows whatever the filters.
NewForMe(u) == Cardinality({r \in Listed : Unread(u, r)})
CountOf(status) == Cardinality({r \in Listed : Status(r) = status})
-----------------------------------------------------------------------------
(* Making a page.                                                          *)

\* Slip: the account is read after the rows.
SelectsSwapped == <<"rows", "account">>

\* get_default, then list_for_dashboard, each with a snapshot of its own.
Selects == <<"account", "rows">>

\* The next SELECT of a page, or the first one of the next page (every 30 s).
\* said: "Derniere synchronisation reussie"; sure: the last synchronization
\* whose every write the rows were read after.
Select ==
  LET i == IF page.at = 2 THEN 1 ELSE page.at + 1
  IN  /\ page' = [at |-> i,
                  said |-> IF Selects[i] = "account" THEN success ELSE page.said,
                  sure |-> IF Selects[i] = "rows" THEN success ELSE page.sure]
      /\ UNCHANGED tables

Next ==
  \/ \E seen, retired \in SUBSET Records : Reconcile(seen, retired)
  \/ \E r \in Records, date \in 0..MaxDate : SaveDetails(r, date)
  \/ \E complete \in BOOLEAN : Finish(complete)
  \/ \E r \in Records, status \in WorkStatuses : SetWork(r, status)
  \/ \E u \in Users, r \in Records : Open(u, r)
  \/ Select

Spec == Init /\ [][Next]_vars
-----------------------------------------------------------------------------
(* Properties.                                                             *)

\* Types.
TypeOK ==
  /\ life \in [Records -> {"unknown", "active", "inactive"}]
  /\ alerts \in [Records -> Nat] /\ watched \in BOOLEAN
  /\ clock \in 0..MaxPolls /\ polling \in BOOLEAN /\ success \in 0..clock
  /\ detected \in [Records -> 0..clock] /\ quote \in [Records -> 0..MaxDate]
  /\ work \in [Records -> WorkStatuses \cup {NoWork}]
  /\ read \in [Users -> [Records -> Nat]]
  /\ page \in [at : 0..2, said : 0..clock, sure : 0..clock]
  /\ news \in [Users -> SUBSET Records]

\* A dossier is new for an employee from its alert to his own opening of it,
\* whoever else opens it, also while it is away from the dashboard and when
\* it comes back with a second alert.
NewUntilOpened == \A u \in Users, r \in Records : Unread(u, r) <=> r \in news[u]

\* The rows of a page are never older than the synchronization it names,
\* although a poll may commit and end between its two SELECTs.
RowsKeepTheirPromise == page.at = 2 => page.said <= page.sure
=============================================================================
