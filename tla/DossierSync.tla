----------------------------- MODULE DossierSync -----------------------------
(***************************************************************************)
(* One poll of the portal, as SyncAgreementQueue._execute_once and         *)
(* _reconcile_and_enrich run it, over the tables it writes.                *)
(*                                                                         *)
(* An action is what runs between two awaits: the event loop cannot        *)
(* interleave anything else there, and every database write of the code    *)
(* sits inside such a stretch.  A read and the transaction that follows it *)
(* without an await are therefore one action; the portal moves, the        *)
(* session check of SessionConnector and the death of the process fall     *)
(* between actions.  Coalescing of concurrent execute() calls is           *)
(* SyncQueue's subject: here at most one poll runs.                        *)
(***************************************************************************)
EXTENDS SyncRules

CONSTANTS
  Statuses,     \* portal_status values of a queue row
  Absent,       \* the record is not listed
  MaxMoves,     \* bound: changes of the portal's queue
  MaxFaults     \* bound: crashes, cancellations, failed final commits

ASSUME AbsentAssumption == Absent \notin Statuses
ASSUME BoundsAssumption == MaxMoves \in Nat /\ MaxFaults \in Nat

VARIABLES
  queue,     \* the portal: [Records -> Statuses \cup {Absent}]
  dossier,   \* table dossiers
  notif,     \* table notifications, rows per dossier
  account,   \* the portal_accounts row
  openRuns,  \* table poll_runs, rows whose completed_at is NULL
  poll,      \* local variables of the running poll
  hist,      \* history variable, see Observed
  moves, faults

vars == <<queue, dossier, notif, account, openRuns, poll, hist, moves, faults>>
env  == <<moves, faults>>

Views == [Records -> Statuses \cup {Absent}]
Listed(view) == {r \in Records : view[r] # Absent}

NoRow == [known |-> FALSE, active |-> FALSE, missing |-> 0, status |-> Absent,
          quote |-> FALSE, complete |-> FALSE]

\* quote stands for the detail dates: date_envoi_devis_garage, the required
\* one, is present.  complete is detail_complete.
Rows == [known : BOOLEAN, active : BOOLEAN, missing : 0..MaxMissing,
         status : Statuses \cup {Absent}, quote : BOOLEAN, complete : BOOLEAN]

SessionStatus == {"UNKNOWN", "READY", "AUTH_REQUIRED", "ERROR"}
Accounts == [enabled : BOOLEAN, baseline : BOOLEAN, succeeded : BOOLEAN,
             session : SessionStatus]

\* pc "opening": awaiting the browser and its profile; "reading": the queue;
\* "enriching": the detail pages left in todo, then the close of the reader.
\* views are the values each row had since the read began; failed the dossiers
\* counted in details_failed; authLost (history): the portal showed a login
\* screen where rows or details were expected, recognised as one or not.
NoPoll == [pc |-> "idle", base |-> FALSE, status |-> "FAILED",
           views |-> [r \in Records |-> {}], todo |-> {}, failed |-> {},
           authLost |-> FALSE]
Polls == [pc : {"idle", "opening", "reading", "enriching"}, base : BOOLEAN,
          status : PollStatus, views : [Records -> SUBSET (Statuses \cup {Absent})],
          todo : SUBSET Records, failed : SUBSET Records, authLost : BOOLEAN]

Init ==
  /\ queue \in Views
  /\ dossier = [r \in Records |-> NoRow]
  /\ notif = [r \in Records |-> 0]
  /\ account \in [enabled : BOOLEAN, baseline : {FALSE}, succeeded : {FALSE},
                  session : {"UNKNOWN"}]
  /\ openRuns = 0
  /\ poll = NoPoll
  /\ hist = [r \in Records |-> [streak |-> 0, readFor |-> Absent]]
  /\ moves = 0 /\ faults = 0
-----------------------------------------------------------------------------
(* The two ends of a poll's bookkeeping.                                   *)

\* mark_poll_finished.  UNKNOWN is never written back.
SessionAfter(status) ==
  CASE status \in Usable           -> "READY"
    [] status = "AUTH_REQUIRED"    -> "AUTH_REQUIRED"
    [] status = "FAILED"           -> "ERROR"

PollFinished(status) ==
  account' = [account EXCEPT !.session = SessionAfter(status),
                             !.succeeded = @ \/ status = "COMPLETE"]

\* poll_runs: start() inserts a row without completed_at, finish() sets it.
RunStarted == openRuns' = openRuns + 1
RunFinished == openRuns' = openRuns - 1

\* _record_failed_poll: the row is started and finished in one transaction.
RecordFailedPoll ==
  /\ PollFinished("FAILED")
  /\ poll' = NoPoll
  /\ UNCHANGED <<queue, dossier, notif, openRuns, hist, env>>

\* A skip, or an exception raised before anything was written.
EndWithoutTrace ==
  /\ poll' = NoPoll
  /\ UNCHANGED <<queue, dossier, notif, account, openRuns, hist, env>>
-----------------------------------------------------------------------------
(* Opening the browser.                                                    *)

\* The account is read here, and base keeps what it said about the baseline.
\* saved: has_saved_session().  A disabled account or a missing session
\* returns a skip at once and leaves the poll idle.
Begin(saved) ==
  /\ poll.pc = "idle"
  /\ poll' = IF account.enabled /\ saved
             THEN [NoPoll EXCEPT !.pc = "opening", !.base = account.baseline]
             ELSE NoPoll
  /\ UNCHANGED <<queue, dossier, notif, account, openRuns, hist, env>>

\* BrowserProfileLockedError is a skip with no writes.  (A launch failure
\* whose FAILED row cannot be committed either raises, and leaves as little.)
OpenLocked == poll.pc = "opening" /\ EndWithoutTrace

\* Any other launch failure, or a run row that could not be inserted (the
\* reader is closed first): one FAILED row.
OpenFails == poll.pc = "opening" /\ RecordFailedPoll

Open ==
  /\ poll.pc = "opening"
  /\ RunStarted
  /\ poll' = [poll EXCEPT !.pc = "reading", !.views = [r \in Records |-> {queue[r]}]]
  /\ UNCHANGED <<queue, dossier, notif, account, hist, env>>
-----------------------------------------------------------------------------
(* Reading the queue and reconciling it in one transaction.                *)

\* Rows a read may return.  The portal may move between two pages: a row
\* that moved is seen as it was at some time, or not at all, and a shift of
\* the page boundaries can hide a row that did not move.
ReadViews(status) ==
  {v \in Views : \A r \in Records :
     \/ v[r] \in poll.views[r]
     \/ /\ v[r] = Absent
        /\ status = "PARTIAL" \/ \E s \in Records : poll.views[s] # {queue[s]}}

\* The repository's writes to one row.
CreateFromRow(status) ==
  [NoRow EXCEPT !.known = TRUE, !.active = TRUE, !.status = status]

\* Slip: detail_complete survives from before the absence.
ReactivateKeepsDetails(row, status) ==
  [row EXCEPT !.active = TRUE, !.missing = 0, !.status = status]

Reactivate(row, status) ==
  [row EXCEPT !.active = TRUE, !.missing = 0, !.status = status, !.complete = FALSE]

\* Slip: missing_complete_polls stays as it was.
TouchKeepsCount(row, status) == [row EXCEPT !.status = status]

Touch(row, status) == [row EXCEPT !.missing = 0, !.status = status]

\* Slip: the new count is computed and never stored.
CountAbsenceUnstored(row, gone) == [row EXCEPT !.active = ~gone]

\* apply_absence_increment, and deactivate when gone.
CountAbsence(row, gone) == [row EXCEPT !.missing = @ + 1, !.active = ~gone]

\* The row of r once the reconciliation has been applied.
Reconciled(r, status, view) ==
  LET seen == Listed(view)
  IN  CASE r \in ToCreate(seen, dossier)     -> CreateFromRow(view[r])
        [] r \in ToReactivate(seen, dossier) -> Reactivate(dossier[r], view[r])
        [] r \in ToTouch(seen, dossier)      -> Touch(dossier[r], view[r])
        [] r \in Absentees(status, seen, dossier) ->
             CountAbsence(dossier[r], r \in ToDeactivate(status, seen, dossier))
        [] OTHER -> dossier[r]

\* Slip: details that failed in an earlier poll are not retried.
NeedingDetailWithoutRetries(view) ==
  LET seen == Listed(view)
  IN  ToCreate(seen, dossier) \cup ToReactivate(seen, dossier)
      \cup {r \in ToTouch(seen, dossier) :
              dossier[r].status # view[r] \/ ~dossier[r].quote}

\* dossiers_needing_detail: the retries are queried before the mutations;
\* a refreshed dossier joins them when its portal_status changed or its
\* quote date was never captured.
NeedingDetail(view) ==
  LET seen == Listed(view)
  IN  {r \in Records : dossier[r].active /\ ~dossier[r].complete}
      \cup ToCreate(seen, dossier)
      \cup ToReactivate(seen, dossier)
      \cup {r \in ToTouch(seen, dossier) :
              dossier[r].status # view[r] \/ ~dossier[r].quote}

\* History.  streak: COMPLETE polls that did not list r since a usable poll,
\* COMPLETE or PARTIAL, last listed it.  readFor: the portal_status under which
\* r's details were last read since it (re)appeared.
Observed(r, status, view) ==
  LET seen == Listed(view)
  IN  [streak  |-> IF r \in seen THEN 0
                   ELSE IF status = "COMPLETE" /\ hist[r].streak < MaxMissing
                   THEN hist[r].streak + 1 ELSE hist[r].streak,
       readFor |-> IF r \in ToCreate(seen, dossier) \cup ToReactivate(seen, dossier)
                   THEN Absent ELSE hist[r].readFor]

Reconcile(status, auth, view) ==
  /\ dossier' = [r \in Records |-> Reconciled(r, status, view)]
  /\ notif' = [r \in Records |->
                 IF r \in ToNotify(poll.base, Listed(view), dossier)
                 THEN notif[r] + 1 ELSE notif[r]]
  /\ account' = IF IsBaselinePoll(status, poll.base)
                THEN [account EXCEPT !.baseline = TRUE] ELSE account
  /\ hist' = [r \in Records |-> Observed(r, status, view)]
  /\ poll' = [poll EXCEPT !.pc = "enriching", !.status = status,
                          !.views = NoPoll.views, !.todo = NeedingDetail(view),
                          !.authLost = auth]

\* auth: a login screen came up in the middle of the read.  Every page is
\* checked for one after its rows were taken, so no read that reached the last
\* page met one; but _go_to_page does not look for one while it waits for the
\* next page's rows, and its time-out makes the pages before it a PARTIAL read.
ReadUsable(status, auth) ==
  /\ poll.pc = "reading"
  /\ auth => status = "PARTIAL"
  /\ \E view \in ReadViews(status) : Reconcile(status, auth, view)
  /\ UNCHANGED <<queue, openRuns, env>>

\* Slip: a failed read is tried again in the same poll, without a bound.
GiveUpRetriesRead(status, auth) ==
  /\ poll' = [poll EXCEPT !.status = status]
  /\ UNCHANGED <<queue, dossier, notif, account, openRuns, hist, env>>

\* Nothing usable was read, or the reconciliation transaction rolled back.
GiveUp(status, auth) ==
  /\ poll' = [poll EXCEPT !.pc = "enriching", !.status = status,
                          !.views = NoPoll.views, !.todo = {}, !.failed = {},
                          !.authLost = auth]
  /\ UNCHANGED <<queue, dossier, notif, account, openRuns, hist, env>>

\* AUTH_REQUIRED is a login screen that was recognised; FAILED may be one that
\* came up during a wait that does not look for it.
ReadUnusable(status, auth) ==
  /\ poll.pc = "reading"
  /\ status \in PollStatus \ Usable
  /\ status = "AUTH_REQUIRED" => auth
  /\ GiveUp(status, auth)
-----------------------------------------------------------------------------
(* Detail pages: each is read, then saved in a transaction of its own.     *)

SaveDetails(r, quote, complete) ==
  dossier' = [dossier EXCEPT ![r].quote = quote, ![r].complete = complete]

\* The page may or may not show the quote date.  A login screen stays until an
\* employee signs in, for which this poll would have to give up the profile.
DetailRead(r, quote) ==
  /\ poll.pc = "enriching" /\ r \in poll.todo
  /\ ~poll.authLost
  /\ SaveDetails(r, quote, TRUE)
  /\ hist' = [hist EXCEPT ![r].readFor = dossier[r].status]
  /\ poll' = [poll EXCEPT !.todo = @ \ {r}]
  /\ UNCHANGED <<queue, notif, account, openRuns, env>>

\* Slip: the blank dates are saved as if they had been read.
DetailUnreadableUnnoticed(r, auth) ==
  /\ poll.pc = "enriching" /\ r \in poll.todo
  /\ SaveDetails(r, FALSE, TRUE)
  /\ poll' = [poll EXCEPT !.todo = @ \ {r}, !.authLost = @ \/ auth]
  /\ UNCHANGED <<queue, notif, account, openRuns, hist, env>>

\* DetailReadError: _failed_details carries blank dates.  auth: the page was a
\* login screen that came up after the check that follows goto, and the wait
\* for the dates timed out before the second check was reached.
DetailUnreadable(r, auth) ==
  /\ poll.pc = "enriching" /\ r \in poll.todo
  /\ SaveDetails(r, FALSE, FALSE)
  /\ poll' = [poll EXCEPT !.todo = @ \ {r}, !.failed = @ \cup {r},
                          !.authLost = @ \/ auth]
  /\ UNCHANGED <<queue, notif, account, openRuns, hist, env>>

\* Slip: the loop is left, and the poll keeps the status of its read.
DetailAbortsSilently(auth) ==
  /\ poll.pc = "enriching" /\ poll.todo # {}
  /\ poll' = [poll EXCEPT !.todo = {}, !.failed = {},
                          !.authLost = @ \/ auth]
  /\ UNCHANGED <<queue, dossier, notif, account, openRuns, hist, env>>

\* PortalAuthRequiredError (auth), a failed save or any other exception
\* leaves the loop: the rest of todo is forgotten, the poll is FAILED.
DetailAborts(auth) ==
  /\ poll.pc = "enriching" /\ poll.todo # {}
  /\ poll' = [poll EXCEPT !.status = "FAILED", !.todo = {}, !.failed = {},
                          !.authLost = @ \/ auth]
  /\ UNCHANGED <<queue, dossier, notif, account, openRuns, hist, env>>
-----------------------------------------------------------------------------
(* The end of a poll.                                                      *)

\* clean: the reader's close was confirmed within its bound.  An unconfirmed
\* one makes the poll FAILED whatever was read and committed before.
Finish(clean) ==
  /\ poll.pc = "enriching" /\ poll.todo = {}
  /\ PollFinished(IF clean THEN poll.status ELSE "FAILED")
  /\ RunFinished
  /\ poll' = NoPoll
  /\ UNCHANGED <<queue, dossier, notif, hist, env>>

\* The final commit fails and execute() raises, the process dies, or the
\* task is cancelled at shutdown: the run row, if any, stays unfinished.
Abandon ==
  /\ poll.pc # "idle"
  /\ faults < MaxFaults /\ faults' = faults + 1
  /\ poll' = NoPoll
  /\ UNCHANGED <<queue, dossier, notif, account, openRuns, hist, moves>>

\* Outside the poll: the portal's users, and verify_session or
\* mark_login_teardown_failed run by SessionConnector.
PortalMoves(r, value) ==
  /\ queue[r] # value
  /\ moves < MaxMoves /\ moves' = moves + 1
  /\ queue' = [queue EXCEPT ![r] = value]
  /\ poll' = IF poll.pc = "reading" THEN [poll EXCEPT !.views[r] = @ \cup {value}] ELSE poll
  /\ UNCHANGED <<dossier, notif, account, openRuns, hist, faults>>

SessionChecked(status) ==
  /\ account' = [account EXCEPT !.session = status]
  /\ UNCHANGED <<queue, dossier, notif, openRuns, poll, hist, env>>

PollStep ==
  \/ OpenLocked \/ OpenFails \/ Open
  \/ \E status \in Usable, auth \in BOOLEAN : ReadUsable(status, auth)
  \/ \E status \in PollStatus, auth \in BOOLEAN : ReadUnusable(status, auth)
  \/ \E r \in Records, quote \in BOOLEAN : DetailRead(r, quote)
  \/ \E r \in Records, auth \in BOOLEAN : DetailUnreadable(r, auth)
  \/ \E auth \in BOOLEAN : DetailAborts(auth)
  \/ \E clean \in BOOLEAN : Finish(clean)

Next ==
  \/ \E saved \in BOOLEAN : Begin(saved)
  \/ PollStep
  \/ Abandon
  \/ \E r \in Records, value \in Statuses \cup {Absent} : PortalMoves(r, value)
  \/ \E status \in SessionStatus \ {"UNKNOWN"} : SessionChecked(status)

Spec == Init /\ [][Next]_vars

\* Every wait of a running poll is bounded (Playwright's page timeouts, the
\* 30 s close), so its next step is always taken.
TimelySpec == Spec /\ WF_vars(PollStep)

\* What no program can promise about another: the scheduler keeps polling a
\* connected account, and again and again the browser opens, the queue is read
\* to its last page, and the detail page of a dossier that is due answers.
PortalServes ==
  /\ WF_vars(Begin(TRUE))
  /\ SF_vars(Open)
  /\ SF_vars(ReadUsable("COMPLETE", FALSE))
  /\ \A r \in Records : SF_vars(\E quote \in BOOLEAN : DetailRead(r, quote))
-----------------------------------------------------------------------------
(* Properties.                                                             *)

\* Type invariant of the tables and of the poll's locals.
TypeOK ==
  /\ queue \in Views
  /\ dossier \in [Records -> Rows]
  /\ notif \in [Records -> Nat]
  /\ account \in Accounts
  /\ openRuns \in Nat
  /\ poll \in Polls
  /\ hist \in [Records -> [streak : 0..MaxMissing, readFor : Statuses \cup {Absent}]]
  /\ moves \in 0..MaxMoves /\ faults \in 0..MaxFaults

\* No dossier is inactive while the baseline is open, so a reappearance is
\* never swallowed by the baseline's silence (create_notifications is decided
\* from an account row read before the browser was opened).
InactiveOnlyAfterBaseline ==
  \A r \in Records : dossier[r].known /\ ~dossier[r].active => account.baseline

\* The counter is the number of COMPLETE polls that did not list the dossier
\* since any usable poll last listed it, whatever crashed or failed in between,
\* and the dossier is on the dashboard exactly as long as they are fewer than
\* MAX_MISSING_COMPLETE_POLLS.  A PARTIAL poll that lists it starts the count
\* anew: the documentation, for which PARTIAL polls leave the counter alone
\* (PartialLeavesAbsences below), has it leave earlier then, never later.
AbsenceCountIsTrue ==
  \A r \in Records : dossier[r].known =>
    /\ dossier[r].missing = hist[r].streak
    /\ dossier[r].active <=> hist[r].streak < MaxMissing

\* detail_complete is never left over from before a reappearance: it says the
\* detail page has been read since the dossier entered the dashboard.
CompleteMeansRead ==
  \A r \in Records : dossier[r].complete => hist[r].readFor # Absent

\* When a usable poll has run its detail loop to the end, a dossier still
\* shown without details is one whose page failed in this very poll.
NoDetailForgotten ==
  poll.pc = "enriching" /\ poll.todo = {} /\ poll.status \in Usable =>
    {r \in Records : dossier[r].active /\ ~dossier[r].complete} \subseteq poll.failed

\* last_success_at is only set once the baseline is: a success shown to the
\* employee always means that the queue was stored.
SuccessMeansBaseline == account.succeeded => account.baseline

\* An unfinished poll_runs row belongs to the running poll or to a poll that
\* was abandoned; skips and launch failures leave none.
NoDanglingRun ==
  openRuns <= faults + IF poll.pc \in {"reading", "enriching"} THEN 1 ELSE 0

\* A quote date that was captured disappears from the table only because its
\* page was read in this very step, under the status the dossier has, and
\* showed none; or because the page could not be read, and then the row says
\* so: it is incomplete and the poll counts it as failed.
DatesLostAreOwed ==
  [][\A r \in Records : dossier[r].quote /\ ~dossier'[r].quote =>
       IF dossier'[r].complete THEN hist'[r].readFor = dossier[r].status
       ELSE r \in poll'.failed]_vars

\* Exactly one notification per appearance after the baseline, none before,
\* and none for a dossier that was only refreshed; it is committed with the
\* appearance itself.
AlertPerAppearance ==
  [][\A r \in Records :
       LET appears == dossier'[r].active /\ ~dossier[r].active
       IN  notif'[r] = notif[r] + IF appears /\ account.baseline THEN 1 ELSE 0]_vars

\* The tables implement the lifecycle the dashboard shows.
LifeOf(row) == IF ~row.known THEN "unknown"
               ELSE IF row.active THEN "active" ELSE "inactive"

Lifecycle == INSTANCE DossierLifecycle WITH
  life    <- [r \in Records |-> LifeOf(dossier[r])],
  alerts  <- notif,
  watched <- account.baseline

\* Whatever fails, dossiers appear, retire and alert as DossierLifecycle
\* promises: a poll's effect on the dashboard is one Observe step or nothing.
ImplementsLifecycle == Lifecycle!LifeSpec

\* Every step of a poll takes it to a later stage, or a dossier off its list:
\* whatever the portal answers, nothing in it repeats.
Stages == [idle |-> 0, enriching |-> 1, reading |-> 2, opening |-> 3]

PollAdvances ==
  [][PollStep =>
       \/ Stages[poll'.pc] < Stages[poll.pc]
       \/ /\ poll'.pc = poll.pc
          /\ poll'.todo \subseteq poll.todo /\ poll'.todo # poll.todo]_vars

\* A poll that began ends, whatever the portal answers.
PollEnds == poll.pc # "idle" ~> poll.pc = "idle"

\* A dossier that stays out of the portal's queue does not stay on the
\* dashboard, provided the portal is not down for ever.
AbsentIsRetired ==
  PortalServes => \A r \in Records :
    account.enabled /\ dossier[r].active /\ queue[r] = Absent
      ~> ~dossier[r].active \/ queue[r] # Absent

\* Details that could not be read are read in the end, after any number of
\* failed, partial or abandoned polls, provided the portal serves them.
DetailsArrive ==
  PortalServes => \A r \in Records :
    account.enabled /\ dossier[r].active /\ ~dossier[r].complete
      ~> dossier[r].complete \/ ~dossier[r].active
-----------------------------------------------------------------------------
(* Rules the documentation states and the code departs from.               *)

\* docs/architecture.md: PARTIAL polls "never touch missing_complete_polls".
\* touch() resets the counter of every row a PARTIAL poll returned.
PartialLeavesAbsences ==
  [][poll.pc = "reading" /\ poll'.pc = "enriching" /\ poll'.status = "PARTIAL" =>
       \A r \in Records : dossier[r].known => dossier'[r].missing = dossier[r].missing]_vars

\* docs/architecture.md: detail pages are fetched for every dossier that "has
\* a changed portal_status".  The change is committed before the page is
\* read: when the detail loop is left early, no later poll sees a reason to
\* read the page of a dossier that is complete and has its quote date.
StatusChangeIsRead ==
  poll.pc = "idle" =>
    \A r \in Records :
      dossier[r].active /\ dossier[r].complete /\ dossier[r].quote =>
        hist[r].readFor = dossier[r].status

\* application/dto.py: "a PARTIAL poll must never wipe out previously reliable
\* data".  A detail page that cannot be read blanks the dates kept so far.
DatesSurvivePartial ==
  [][poll.pc = "enriching" /\ poll.status = "PARTIAL" =>
       \A r \in Records : dossier[r].quote => dossier'[r].quote]_vars

\* docs/omegaflow-contract.md: both login screens "must be treated as
\* AUTH_REQUIRED".  A poll that met one is recorded as a success when only a
\* wait noticed: a detail page's, or _go_to_page's.
ExpiryIsNoSuccess ==
  [][poll.authLost /\ openRuns' < openRuns =>
       /\ account'.session \in {"AUTH_REQUIRED", "ERROR"}
       /\ account'.succeeded = account.succeeded]_vars

\* The same claim to the letter: even a screen that was recognised, when it
\* was on a detail page, ends the poll as FAILED / ERROR.
ExpiryIsAuthRequired ==
  [][Finish(TRUE) /\ poll.authLost => account'.session = "AUTH_REQUIRED"]_vars
=============================================================================
