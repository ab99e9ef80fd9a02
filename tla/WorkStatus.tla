------------------------------ MODULE WorkStatus ------------------------------
(***************************************************************************)
(* The shared work status of one dossier: the forms employees have on      *)
(* screen, and POST /dossiers/{id}/status, which runs in a thread per      *)
(* request.  The row exists since the dossier does (create_from_row), so   *)
(* upsert() updates it.                                                    *)
(*                                                                         *)
(* upsert() reads the row before its transaction begins (SQLite's BEGIN    *)
(* comes with the first write) and compares versions there; the UPDATE     *)
(* that follows names the row by its key only, and sets the columns whose  *)
(* value differs from the one read.                                        *)
(***************************************************************************)
EXTENDS Naturals

CONSTANTS
  Employees,  \* browser tabs, one form each
  Statuses,   \* WorkStatus
  MaxWrites   \* bound: committed updates

ASSUME MaxWritesAssumption == MaxWrites \in Nat

VARIABLES
  row,        \* dossier_work: [status, version]
  form,       \* what each form shows and will send back as expected_version
  request,    \* stage of the POST each employee is waiting for
  loaded,     \* the row as that request read it
  written,    \* history: committed updates
  seen,       \* history: of those, how many precede the rendering of the form
  overlapped  \* history: two requests were between their read and their write

workVars == <<row, form, request, loaded, written, seen, overlapped>>

\* A version counts updates, so it is at most one more than they are.
Contents == [status : Statuses, version : 1..written + 1]
Stages == {"none", "between", "refused"}

\* The request has read the row and not written it yet.
Between(e) == request[e] = "between"

\* Everybody has the page open.
WorkInit ==
  /\ row \in {[status |-> s, version |-> 1] : s \in Statuses}
  /\ form = [e \in Employees |-> row] /\ loaded = form
  /\ request = [e \in Employees |-> "none"]
  /\ written = 0 /\ seen = [e \in Employees |-> 0]
  /\ overlapped = FALSE

Shows(e, content, count) ==
  /\ form' = [form EXCEPT ![e] = content]
  /\ seen' = [seen EXCEPT ![e] = count]
-----------------------------------------------------------------------------
\* GET /dossiers/{id}.
OpenPage(e) ==
  /\ request[e] = "none"
  /\ Shows(e, row, written)
  /\ UNCHANGED <<row, request, loaded, written, overlapped>>

\* Slip: the versions are not compared.
ConflictNever(e) == FALSE

Conflict(e) == form[e].version # row.version

\* The request reads the row and compares.
Load(e) ==
  /\ request[e] = "none"
  /\ request' = [request EXCEPT ![e] = IF Conflict(e) THEN "refused" ELSE "between"]
  /\ loaded' = [loaded EXCEPT ![e] = row]
  /\ overlapped' = (overlapped \/ \E d \in Employees : ~Conflict(e) /\ Between(d))
  /\ UNCHANGED <<row, form, written, seen>>

\* Slip: the form keeps the version it sent.
CommitShowsOldVersion(e, want) ==
  /\ row' = [status |-> want, version |-> loaded[e].version + 1]
  /\ Shows(e, [status |-> want, version |-> loaded[e].version], written + 1)

\* UPDATE and commit.  The response shows the values the request computed.
Commit(e, want) ==
  LET next == loaded[e].version + 1
  IN  /\ row' = [status |-> IF want = loaded[e].status THEN row.status ELSE want,
                 version |-> next]
      /\ Shows(e, [status |-> want, version |-> next], written + 1)

\* want is the status the employee chose.
Write(e, want) ==
  /\ Between(e) /\ written < MaxWrites
  /\ Commit(e, want)
  /\ written' = written + 1
  /\ request' = [request EXCEPT ![e] = "none"]
  /\ UNCHANGED <<loaded, overlapped>>

\* The commit fails (database locked): an error page, the form left behind.
WriteFails(e) ==
  /\ Between(e)
  /\ request' = [request EXCEPT ![e] = "none"]
  /\ UNCHANGED <<row, form, loaded, written, seen, overlapped>>

\* WorkStatusConflict: with htmx the current row is read again and rendered;
\* without, an error page, from which the employee may go back to the form.
AnswerConflict(e, htmx) ==
  /\ request[e] = "refused"
  /\ request' = [request EXCEPT ![e] = "none"]
  /\ IF htmx THEN Shows(e, row, written) ELSE UNCHANGED <<form, seen>>
  /\ UNCHANGED <<row, loaded, written, overlapped>>

WorkNext ==
  \E e \in Employees :
    \/ OpenPage(e) \/ Load(e)
    \/ \E want \in Statuses : Write(e, want)
    \/ WriteFails(e)
    \/ \E htmx \in BOOLEAN : AnswerConflict(e, htmx)

WorkSpec == WorkInit /\ [][WorkNext]_workVars
-----------------------------------------------------------------------------
\* Types.
WorkTypeOK ==
  /\ row \in Contents
  /\ form \in [Employees -> Contents] /\ loaded \in [Employees -> Contents]
  /\ request \in [Employees -> Stages]
  /\ written \in Nat /\ seen \in [Employees -> Nat]
  /\ overlapped \in BOOLEAN

\* A refused update was a stale one: somebody committed since the form was
\* rendered, whatever the version counter went through in between.
RefusedMeansStale ==
  \A e \in Employees : request[e] = "refused" => seen[e] < written

\* As long as no two requests overlapped, an update that passed the check is
\* made on a form that showed every update before it.
SerialUpdatesSeeAll ==
  ~overlapped => \A e \in Employees : Between(e) => seen[e] = written

\* docs/architecture.md: work status is "optimistic-locked via version".  Two
\* overlapping requests from the same version are both accepted, and the
\* second overwrites the first unseen.
NoLostUpdate ==
  [][\A e \in Employees, want \in Statuses :
       Write(e, want) => seen[e] = written]_workVars
=============================================================================
