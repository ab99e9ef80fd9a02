# RMA Portal: a verification project in TLA+

RMA Portal is the local web application with which an agency follows its
"Garage agréé" dossiers. It reads the queue of the OmegaFlow portal with a
controlled browser every few minutes, keeps the dossiers in SQLite, tells the
employees what is new and lets them record what they did. This directory holds
TLA+ models of the parts of it that are hard to get right and hard to test, TLC
configurations that check them on small instances, and TLAPS proofs of the safety
properties for every value of the constants.

Paths below are relative to the repository (`src/rma_portal/...` is the
package). `PROJECT.json` maps every modelled definition to its lines.

## 1. Inventory of the system

One process runs everything: a FastAPI application with one event loop, worker
threads for the synchronous (`def`) routes, one scheduler task, and up to three
tasks of the session connector. A console tool, `configure-session`, is a second
process that uses the same browser profile.

| Component | State it keeps | Operations | What makes it correct |
|---|---|---|---|
| **Reconciliation policy** `domain/sync_rules.py` | none (pure) | `reconcile` | two COMPLETE polls that missed a dossier since a usable poll last listed it retire it, never fewer and never more; a PARTIAL poll retires nothing; alerts only after the baseline |
| **Synchronization** `application/sync_service.py` (`SyncAgreementQueue._execute_once`, `_reconcile_and_enrich`) | tables `dossiers`, `notifications`, `poll_runs`, `portal_accounts`; locals of the running poll | one poll: open, read, reconcile, enrich, close, finish | the tables agree with what was read whichever step fails; every appearance alerts once; details are not forgotten; the poll ends |
| **Coalescing** `SyncAgreementQueue.execute` | `_lock`, `_inflight` | call, join, cancel | one poll at a time; no stale answer; nobody waits for ever |
| **Poll scheduler** `infrastructure/scheduler/poller.py` | its task | loop, `start`, `stop` | only its own cancellation ends it |
| **Session connector** `infrastructure/portal/session_connector.py` | login, verify and sync tasks | `start`, the three task bodies, `shutdown` | one connection at a time; what failed is shown; shutdown leaves nothing behind |
| **Profile lock** `infrastructure/portal/profile_lock.py` | lock file, registry of unconfirmed teardowns | acquire, release, keep | the lock is held exactly while a browser of ours may be alive |
| **Login window** `infrastructure/portal/session_setup.py`, `cli.py` | a visible browser | launch, wait, capture, close | as above, under cancellation |
| **Portal reader** `infrastructure/portal/camoufox_reader.py` | browser, page | open, read pages, verify, read details, close | COMPLETE is said only of a whole queue |
| **Queue page parser** `infrastructure/portal/parser.py` | none | rows, page count, merge, dates | stable row identity across pages |
| **Work status** `SqlAlchemyDossierWorkRepository`, `DossierService`, `web/routes/dossier.py` | table `dossier_work` with `version` | show, update | no update is lost, no fresh form is refused |
| **Notifications and unread state** | tables `notifications`, `notification_reads` | notify, acknowledge, create account | what a page showed is read; newcomers start at zero |
| **Accounts and authentication** `application/accounts.py`, `web/deps.py`, ... | `users`, signed cookies | log in, authorise, create, activate, reset a password | a name is one account; an active administrator remains; a disabled account goes quiet |
| **Saved session state** `infrastructure/portal/session_state.py` | one JSON file | save (temporary file, replace), load | a crash leaves the old or the new state |
| **Unit of work** `infrastructure/db/unit_of_work.py` | one session | begin, commit, roll back | a failed transaction leaves nothing |
| **Dashboard** `application/dashboard.py`, `web/routes/dashboard.py`, `list_for_dashboard` | none (reads the tables in two SELECTs) | list, filter, sort, count | what is new for an employee stays new until he opens it; rows are no older than the synchronization the page names |
| Shared notes, workflows and memberships, composition root, configuration, logging, templates, migrations, installation | | | see section 8 |

**Interactions.** The scheduler, the refresh route and the connector's sync task
call `execute()`; it runs one poll or joins the running one. A poll, a
verification, the login window and the console tool all open a browser on one
profile, through the profile lock. A poll writes dossiers and notifications; the
dossier page reads both and acknowledges the notifications; the dashboard reads
both, the account and the work status, while all of them change. Requests of the
administrators run beside each other and beside the requests they are about. The
application's
lifespan starts the scheduler, and on shutdown stops the scheduler, then the
connector.

**Hard behaviours.** Every `await` of a poll is a point where the portal, a
session check, a cancellation or the end of the process may come in. The portal's
list changes between two pages of one read. Several of the writes of a poll are
transactions of their own, so each may be the last one. Cancellation travels
through awaited Futures. A browser's close may be unconfirmed. Two requests run
in two threads over a database whose transaction begins at the first write. The
employee opens and closes tabs, signs in and out, while his session is captured in
two calls and its file is replaced.
`PROJECT.json` lists each of these hazards at the line where it bites, with the
properties aimed at it.

## 2. Modules

| Module | Models | Checked by | Proved in |
|---|---|---|---|
| `SyncRules` | `reconcile()` as set operators | through `DossierSync` | |
| `DossierSync` | polls over the tables | `MCDossierSync` | `DossierSyncProofs` |
| `DossierLifecycle` | abstract: what the dashboard is promised | implemented by `DossierSync` | `DossierSyncProofs` (`Refinement`) |
| `SyncQueue` | `execute()`, scheduler, shutdown | `MCSyncQueue` | `SyncQueueProofs` |
| `FreshAnswers` | abstract: what a caller of `execute()` is promised | implemented by `SyncQueue` | `SyncQueueProofs` (`KeepsPromise`) |
| `SessionConnector` | connector, verification, profile lock, browsers, console tool | itself (no constants) | `SessionConnectorProofs` |
| `ProfileUse` | abstract: what the profile lock is for | implemented by `SessionConnector` | `SessionConnectorProofs` (`ProfileIsUsedInTurn`) |
| `QueueReader` | pagination of a changing list | `MCQueueReader` | `QueueReaderProofs` |
| `WorkStatus` | optimistic update of the work status | `MCWorkStatus` | `DossierPageProofs` |
| `UnreadState` | acknowledgement and new accounts | `MCUnreadState` | `DossierPageProofs` |
| `Inbox` | abstract: what notifications promise the employees | implemented by `UnreadState` | `DossierPageProofs` (`ReadInOrder`) |
| `LoginWindow` | tabs, login and close, capture and save of the session | `MCLoginWindow` | `LoginWindowProofs` |
| `Accounts` | logins, cookies, crossing administration | `MCAccounts` | `AccountsProofs` |
| `Dashboard` | what a page is computed from, and when | `MCDashboard` | `DashboardProofs` |
| `DashboardList` | filter, order and counts of the list | `MCDashboard` | `DashboardProofs` |

The modules meet at named places. `DossierSync` extends `SyncRules`. One "poll
runs" step of `SyncQueue` stands for a whole poll of `DossierSync`, and
`SyncQueue!Complete` may be assumed to come because `PollEnds` holds there. What
`QueueReader` returns is what `DossierSync!ReadViews` may take: a whole view, or
one in which rows that moved are seen as they were at some time of the read or not at all
(the shift that refutes `CompleteIsWhole` is the reason why a COMPLETE view may
hide a row). The session check of `SessionConnector` is `DossierSync!SessionChecked`.
The notifications `DossierSync` commits are `UnreadState!Notify`, and the part of
`create_user` that `Accounts` leaves out is `UnreadState`'s. `Dashboard` extends
`DossierLifecycle`, the abstract specification that `DossierSync` is proved to
implement: what it says of the page holds of the polls as detailed there. Its `Open`
and `SetWork` stand for what `UnreadState` and `WorkStatus` look into. The window of
`LoginWindow` is the "login" or the "console" user of `SessionConnector`, which
allows one at a time and says what an unconfirmed close does to the profile.

A definition introduced by "Slip:" is not the code's. It is its neighbour with a
plausible mistake, kept beside it to show which property would notice; it is never
part of a specification.

### 2.1 `SyncRules`, `DossierSync`, `DossierLifecycle`

`dossier[r]` is the row of record `r` with the columns the properties tell apart:
known (there is a row), active, missing (`missing_complete_polls`), status
(`portal_status`), quote (the required quote date is present) and complete
(`detail_complete`). `notif[r]` counts notification rows, `account` is the
`portal_accounts` row, `openRuns` the unfinished `poll_runs` rows. `poll` holds
the locals of `_execute_once`: `pc`, the value of `baseline_already_completed`
read at the start (`base`), the status, the dossiers whose page is still due
(`todo`) and those counted in `details_failed`.

An action is what runs between two awaits. No other coroutine can come in there,
and the code opens and commits its units of work only within such a stretch.

| Action | Code |
|---|---|
| `Begin` | `execute()` up to the browser: account read, skips for a disabled account or a missing session |
| `OpenLocked`, `OpenFails`, `Open` | the reader's `__aenter__`: profile taken, launch failure (one FAILED row), run row started |
| `ReadUsable`, `ReadUnusable` | `read_agreement_queue` and, for COMPLETE and PARTIAL, the whole reconciliation transaction; a PARTIAL or FAILED read may have ended at a login screen that only a wait's time-out noticed |
| `DetailRead`, `DetailUnreadable`, `DetailAborts` | one detail page and its save; blank dates after `DetailReadError`, which is also what a login screen becomes when it comes up after the check that follows `goto`; an exception that leaves the loop |
| `Finish` | close of the reader (confirmed or not) and the final transaction |
| `Abandon` | cancellation, death of the process, or a failed final commit |
| `PortalMoves`, `SessionChecked` | the portal's users; `_mark_session_checked` of the connector |

`account.enabled` is chosen in `Init`: the seed row of the migration has it true
and no code under `src/` writes it. `poll.authLost` is a history variable: a login
screen stood where rows or dates were expected, whether the code recognised it or not. Order matters in the detail loop only through
which pages have been read when it stops, so `todo` is a set.

`DossierLifecycle` says what an employee is promised, without polls, pages,
counters or failures: dossiers appear and retire, nothing retires before the
baseline, and each appearance after it raises one alert. The refinement mapping
takes the life of a record from known and active, the alerts from `notif`, and
the baseline from the account; every step of `DossierSync` is one `Observe` or
changes nothing the dashboard shows.

### 2.2 `SyncQueue`

Callers are the scheduler, the connector's sync task and a set of requests. The
state is the lock, the Future published as `_inflight`, each caller's stage and
the Future it waits on, and the phase of the shutdown. `Execute` is one uninterrupted
stretch of `execute()`: join the Future when the lock is taken, else take the lock
and publish a new one. `Complete` ends a poll and settles its Future;
`Resume`/`Proceed` are the event loop's later turn. `CancelWaiter`, `Stop` and
`Shutdown` are cancellations and the lifespan's exit. That exit cancels the
scheduler, then the connector's tasks, and awaits each.

`FreshAnswers` promises the same to the callers without lock or Future: polls follow
one another, and whoever asks is answered with the outcome of a poll that ended after
he asked, or with a cancellation that was meant for him. The mapping takes the polls
that are over from the settled Futures and a caller's question from the number of
polls that were over when he made it.

### 2.3 `SessionConnector`

`pc[u]` is the stage of each user of the browser profile (login window,
verification, poll, console tool): created, launching, using, closing. `body[u]`
is what its work ended with, `lock` the profile lock ("free", its holder, or
"unconfirmed" for an entry of the registry), `strays` tells of browsers no task
controls any more ("unclosed": its close was not confirmed; "leaked": its launch failed late), `session` the status the dashboard shows, `cancelled` the tasks
with a cancellation on its way, `phase` the application's life, restarts included.
Each launch, work and close may succeed, fail in each of the places the code
distinguishes, or be cancelled there. `Card` is the session card of the dashboard
(`session_view`): what is going on, or the stored status when nothing is.

`ProfileUse` says what the lock is for: one controlled browser at a time, of whichever
process, and none after an unconfirmed close until the application's process is gone.
The users are the tasks at a browser, "unclosed" is the browser among the strays whose
close was not confirmed, and "kept" is the lock itself. The two are separate on purpose:
`ProfileUse` demands that an unclosed browser keeps the profile. It allows one exception,
because the code makes it: when the shutdown cancels the close of the login window,
the profile is given back and the window may still be there (`TeardownKeepsLock`,
section 4). It does not speak of the browser that a failed launch can leave behind
(`OneBrowser`, section 4).

### 2.4 `QueueReader`, `WorkStatus`, `UnreadState`

`QueueReader` reads page after page of a list that other people change: page 1
fixes the page count; a next page is accepted when its rows differ from those of
the page before; the "next" control is looked at after the last page. A page is given
by its positions in the list. The history variable keeps which records were listed
throughout, and how many have left.

`WorkStatus` has a form per employee with the hidden `expected_version`, and a
request in two steps, `Load` (the row is read outside a write transaction) and
`Commit` (`UPDATE ... WHERE dossier_id`), since the SQLite driver begins the
transaction at the first write. `Write` is the same handler when no other request
comes in between.

`UnreadState` has users with several tabs. A page is read in one unit of work and
acknowledged in another (`SelectUnread`, `InsertReads`); a second insert of the same
row violates the primary key and fails the page. Accounts are created with every
notification so far marked read. `Inbox` is what this amounts to: joining reads
everything, opening reads the oldest notifications up to some point, and what stays
unread is always the latest.

### 2.5 `LoginWindow`

`pc` is where `launch_visible_browser_and_wait` is; `tabs`, `cookie` and `shown` are
the window: the open tabs, the login the profile's cookies belong to, and the login
each tab shows. Cookies are shared by the tabs, `sessionStorage` is a tab's own, and
the program looks at the first tab only. `LoginSeen` and `CloseSeen` are the two
waiting tasks, `Resume` the return of `asyncio.wait`, which looks at what is done
only then. `CaptureCookies` and `CaptureStorage` are the two calls of
`capture_session_state`, `WriteTemp`, `Replace` and `SaveFails` the ways through
`save_session_state`. The employee's steps may come between any two of these; so may
the death of the process. `touched` remembers that somebody signed in or out after
the first tab's login, or while its session was captured.

### 2.6 `Accounts`

`users` is the table, `cookies` the users some browser holds a valid cookie for,
`req` what each thread of the pool is doing. A request is authorised in one
transaction (`Authorise`, or `Authenticate` for a login, or `CreateAdmin` for the
console) and acts in another, which for `set_active` and `create_user` reads first
(`LoadAccount`, `LookUpName`) and writes later (`SetActive`, `Insert`). `SetCookie`
sets the cookie of a login whatever has become of the account. Two history variables
serve the properties: `crossed` (a disabling was written by an administrator whose
own account had been disabled since the request was authorised) and `chosen` (the
password last chosen for each account).

### 2.7 `Dashboard`, `DashboardList`

`Reconcile`, `SaveDetails` and `Finish` are a poll's transactions as the dashboard
sees them, over `DossierLifecycle!Observe`. `detected`, `quote`, `work` and `read` are
the columns and joins of `list_for_dashboard`; `clock` counts polls and dates them.
A page is two `Select`s, each with its own snapshot: the account, whose
`last_success_at` the page names, then the rows. `news` remembers which dossiers have
alerted since an employee last opened them. `DashboardList` has the filters, the sort
key with its two reversed parts, and the counts above the list. The SELECT asks for no
order, so the rows may come in any (`Orders`), and `sorted()` leaves rows with equal
keys in it: a row's position is one more than the number of rows before it.

## 3. Runs that pass

| Run | Instance | Distinct states | Shows |
|---|---|---|---|
| `dossier_sync` | 2 records, 1 portal status, threshold 2, 3 portal moves, 1 abandoned poll | 844,425 | counters and details are right after any sequence of polls; a date that is lost is owed another read; the tables implement `DossierLifecycle` |
| `dossier_progress` | 1 record, 2 statuses, 2 moves, 1 fault | 68,143 | every poll ends; with a portal that serves, absent dossiers leave and missing details come |
| `sync_queue` | scheduler, connector, 2 requests, 3 polls | 75,916 | the scheduler lives; `execute()` implements `FreshAnswers`; every call is answered and the shutdown completes |
| `session_connector` | no constants, no bound | 9,106 | lock and browsers agree and implement `ProfileUse`, failures are shown, READY on the card is earned, shutdown is clean; verifications and shutdowns end |
| `queue_reader` | 5 records, 2 per page, 3 changes | 20,665 | what COMPLETE guarantees |
| `work_status` | 3 employees, 2 statuses, 4 updates | 99,344 | a refusal is justified; requests that do not overlap lose nothing |
| `unread_state` | 2 users with 2 tabs, 2 notifications | 279,411 | a delivered page leaves nothing unread and swallows nothing it could have shown; the transactions implement `Inbox` |
| `login_window` | 2 tabs, 3 logins, 2 faults | 47,202 | the session file is the old or a whole new one, of one login; the wait ends when the last tab is closed and a login is not missed |
| `accounts` | 2 ids, 3 spellings of 2 names, 2 requests, 2 passwords | 728,793 | an administrator remains unless two disablings cross; no old password comes back; a disabled account goes quiet |
| `dashboard` | 2 dossiers, 2 employees, 3 polls, 2 dates, all filters | 521,599 | new until opened, rows no older than what the page names, order and counts for every order the database may return |

**Why the bounds are enough.** The reconciliation treats records independently
but for the poll they share; two records are the first instance where one is
absent, or fails its detail page, in the poll that succeeds for the other.
Three moves let a record come, go and come back. One fault lets a poll be
abandoned at each of its awaits and others run afterwards. A second
portal status is only of interest to one record at a time (`dossier_progress` and
`stale_details`). Polls are not bounded: counters saturate at the threshold, and
notifications are bounded by the portal's moves. Two requests, with scheduler and
connector, are one runner and three waiters; three polls are one a caller saw
end, one it may join, and one that follows. Five records on pages of two are
three pages, the last one partial, so that pages shift, appear and vanish. Three
employees allow two overlapping updates and one that is refused. Two tabs are the
one the program looks at and one it does not; three logins are one it saw, one that
replaces it and one of another tab; two faults are a crash in one window and another
in the next. Two accounts are what two administrators who disable each other need,
and two requests are theirs; two spellings fold to one name, the third is another;
a second password tells a reset from none. Two dossiers are enough for an order and
for ties, three polls for a baseline, a retirement and a return that alerts, two dates
for a date that is missing, earlier or later. (A second alert of one dossier takes four
polls: `MaxPolls = 4` with `MaxDate = 1` finds no error in 1,764,668 states and five
minutes, and `NewsStays` covers every number.) The counters `MaxPolls`, `MaxWrites`,
`MaxNotifs`, `MaxMoves`, `MaxFaults`, `MaxLogins` and `MaxDate` are the only bounds.
The theorems of section 6 hold without these sizes.

Records, employees and offices (users with their tabs) are interchangeable, so
the runs of safety properties use symmetry; the runs with liveness do not.
A run checks what is hard and not said by its other properties. The type
invariants, and the invariants that follow from a property of the run
(`InactiveOnlyAfterBaseline` and `AlertPerAppearance` from the refinement,
`AnswersAreFresh`, `UnconfirmedIsKept` and `NewcomersStartAtZero` from the other
three refinements, `NoOrphanWaiter` from `EveryCallAnswered`) or say what one mechanism is there for
(`OnePoll`, `NoDanglingRun`, `SuccessMeansBaseline`, `NoStrayTemp`,
`NamesAreUnique`), are proved in section 6 and can be added to the configurations
as they are.

Deadlock is checked except in the runs of `SyncQueue`, where the application really
goes down and may run out of its bounded polls.

## 4. Runs that find a departure

Each of these states a rule of the documentation or of a comment and TLC finds
a behaviour of the code that breaks it. `PROJECT.json` quotes the lines.

| Run | Rule | What happens |
|---|---|---|
| `stale_details` | a changed portal status gets its detail page read | the change is committed first; an early end of the loop leaves no trace of it |
| `lost_update` | the work status is optimistically locked | overlapping requests both pass the version check |

Nine other departures are stated at the end of their modules and have no run of
their own; TLC refutes each when its name is put in the configuration
named here, in place of the properties there.

| Definition | Configuration | Rule | What happens |
|---|---|---|---|
| `OneBrowser` | `SessionConnector.cfg` (INVARIANT) | `profile_lock.py`: two browsers never share the profile | a launch that fails late releases the lock and keeps the browser |
| `TeardownKeepsLock` | `SessionConnector.cfg` (PROPERTY) | `session_connector.py`: a cancelled teardown keeps the lock | `except Exception` does not catch the cancellation |
| `CompleteIsWhole` | `MCQueueReader.cfg` (INVARIANT) | `docs/architecture.md`: a COMPLETE poll read the full queue | a departure shifts a row onto a page already read |
| `PartialLeavesAbsences` | `StaleDetails.cfg` (PROPERTY) | `docs/architecture.md:184-187`: PARTIAL polls never touch the absence counter | `touch()` resets it for the rows a PARTIAL poll returned |
| `DatesSurvivePartial` | `StaleDetails.cfg` (PROPERTY) | `application/dto.py:95-96`: a PARTIAL poll never wipes reliable data | an unreadable detail page saves blank dates |
| `ExpiryIsAuthRequired` | `StaleDetails.cfg` (PROPERTY) | `docs/omegaflow-contract.md:94-95`: an expired session is AUTH_REQUIRED | on a detail page, a recognised login screen becomes FAILED and ERROR |
| `ExpiryIsNoSuccess` | `StaleDetails.cfg` (PROPERTY) | the same, and `camoufox_reader.py:415-428`: a one-time check after `goto` is not enough | a login screen that comes up after the check of a detail page (`camoufox_reader.py:543-554`) or during the wait for a next page (`:384-392`) is a time-out; the poll ends COMPLETE or PARTIAL, READY, with a new `last_success_at` |
| `UnclosedLoginIsShown` | `SessionConnector.cfg` (INVARIANT) | `session_connector.py:195-196`: an unconfirmed login teardown is shown | not when the navigation failed too |
| `ConnectingMeansLaunch` | `SessionConnector.cfg` (PROPERTY) | `session_connector.py:118-120`: CONNECTING means a launch that can happen | only the synchronization is looked at before the task is created |

The passing runs state the strongest related guarantee that does hold. For
example, `AbsenceCountIsTrue` says what the counter does count, a PARTIAL poll that
lists the dossier starting it anew, beside `PartialLeavesAbsences`; the documented
rule would have such a dossier leave earlier, never later. `ImplementsProfile` has the
one exception that `TeardownKeepsLock` is about; `OnlyDeparturesHide` (a COMPLETE read misses at most as many records as
left during it) stands beside `CompleteIsWhole`, and `SerialUpdatesSeeAll` beside
`NoLostUpdate`. The note under the dashboard's list
(`templates/partials/dashboard_content.html:34`) says that the rows are those of the
last successful synchronization; a poll that fails after its reconciliation, and a
PARTIAL one, have changed them all the same. What holds is `RowsKeepTheirPromise`:
the rows are never older than that.

## 5. Liveness and fairness

- `DossierSync!TimelySpec`: weak fairness of a running poll's next step. Every
  wait of a poll is bounded: Playwright's timeouts for navigation, search, page
  transitions and details, 30 s for the close.
- `DossierSync!PortalServes` is the hypothesis of `AbsentIsRetired` and
  `DetailsArrive`, what no program can promise about another: the
  scheduler goes on polling an account with a saved session, and again and again
  the browser opens, a read reaches the last page and a due detail page answers.
- `SyncQueue!FairSpec`: a running poll completes (`PollEnds`), the event loop
  resumes ready tasks, the shutdown is carried on. Nothing obliges anybody to
  call or to shut down.
- `LoginWindow!FairSpec`: the two polls of the window have periods of 0.5 s and 1 s, a
  ready task is resumed, navigation and capture are bounded by the browser's
  timeouts, the close by 30 s. Nothing is assumed of the employee, who need not log
  in, close, or leave the window alone.
- `Accounts!FairSpec`: a handler goes on. It waits for no other handler, and the
  database makes it wait for five seconds at most, then it is an error. Only `/refresh`
  waits for the portal (`routes/dashboard.py:79-94`): it awaits a poll, and polls end
  (`PollEnds`) with an answer to every caller (`EveryCallAnswered`).
- `SessionConnector!FairSpec`: created tasks run, the verification's launch and
  check are bounded by `asyncio.wait_for` (45 s each), every close is bounded (30
  or 45 s), a cancellation is delivered, a shutdown once begun goes on. Nothing is
  assumed of the employee in front of the login window or of a poll that was not
  cancelled.

## 6. What is proved

The proofs need no bound on records, callers, employees, users, tabs, moves or
polls. They assume only the named ASSUMEs of the modules: finitely many records, a
page that holds at least one row, a threshold of at least
2, bounds that are naturals, a folding of names that changes nothing the second time,
a first tab that is a tab, a work status to start with, and special values (`Absent`,
`AnyStatus`, `Nobody`, `NoRow`, `NoWork`, `None`, `Torn`, the callers that are not requests) that
are not ordinary ones.

- **`DossierSyncProofs`.** The inductive invariant has seven conjuncts: the types;
  `RowsOK` (each row against its history: the counter equals the number of COMPLETE
  polls that missed it since a usable one, PARTIAL included, listed it, inactive means the threshold is reached and the baseline taken,
  complete means read since the appearance); `BaselineRead` (a poll that remembers
  a baseline is right about it, and no other can make it: this is what makes the
  value read before the awaits safe to use after them); `LoopOwes` (a usable poll
  in its detail loop owes exactly the dossiers without details that have not
  failed); `RunOpen` (an open run row for a poll past its opening);
  `SuccessMeansBaseline`; `NoDanglingRun`. None of the row properties is inductive
  alone: that nothing is inactive before the baseline needs the threshold to be at
  least 2, because a dossier stored by an earlier PARTIAL poll is counted absent
  once by the baseline poll itself. From it: all safety invariants of the module, the
  action properties `AlertPerAppearance` and `DatesLostAreOwed`, and the
  refinement of `DossierLifecycle` step by step (with the seen and retired
  sets as witnesses). `PollAdvances` is the safety half of `PollEnds`: each step of a poll
  goes to a later stage or leaves fewer pages to read, so that a poll has at most three
  steps more than there are dossiers. That the steps are taken is fairness, and TLC's.
- **`SyncQueueProofs`.** Lock, Future and callers agree: exactly the runner holds
  the lock, a waiter's Future is the one in flight or settled, cancellations
  are delivered in the order of the shutdown. From it: one poll at a time, fresh
  answers, no orphan waiter, and that the scheduler only dies of its own
  cancellation. `KeepsPromise` is the refinement of `FreshAnswers`, one lemma per action:
  `Execute` asks, `Complete` ends a poll or, for a waiter's turn, shares its outcome.
  The settled Futures are the polls that are over, a caller's Future is never older than
  his question, and while nobody shuts down no task is told to stop.
- **`SessionConnectorProofs`.** The lock has a holder exactly while that user is at
  the browser; the registry and the "unconfirmed" lock are one fact, and a browser whose close was
  not confirmed implies both until the application shuts down; a cancelled
  body belongs to a cancelled task or a shutdown; each stage of the shutdown
  leaves the earlier tasks finished, although they create one another. From it:
  the invariants of the run, and the action property `ReadyIsEarned` about the card.
  `ProfileIsUsedInTurn` is the refinement of `ProfileUse`: under the invariant the users
  at a browser are exactly the holder of the lock, so that taking it opens, releasing it
  closes, keeping it abandons, and the end of the process ends both; a release without a close
  happens only to the login window and only during a shutdown. `UnconfirmedKeepsProfile`
  says the rest of it as an invariant.
- **`QueueReaderProofs`.** The list is a sequence whose positions shift as records
  enter and leave. Let n pages have been collected. The argument counts the records
  listed throughout that are not yet read and stand in front of the edge, the position
  at which page n + 1 begins (`Missed`): a departure in front of the edge moves one more
  record over it, an arrival only moves records back behind it, and the next page takes
  those right behind it. So `Missed` never exceeds the departures. When no page follows
  the last one, every position is in front of the edge, which is why the look at the
  "next" control is needed: without it the page count of page 1 would be trusted
  (`LastPageTrusted`). For a list that stood still the rows are exactly the records in
  front of the edge. The lemmas say what `InsertAt` and `RemoveAt` of the community
  modules do to positions, and how a page, cut by positions, grows the part read.
- **`DossierPageProofs`.** The two halves of a dossier page, side by side (hence the
  names `WorkSpec`, `WorkInit` and so on of the second). *Notifications:* a page's
  notifications were committed before it was read, and what it selected and what is
  already read cover them until it is delivered. From it: acknowledgement, that nothing
  else is acknowledged, and newcomers. The refinement of `Inbox` needs `InOrder` besides:
  what a user has read is always 1..n, and what a pending page selected goes on from an
  older n. Two tabs may therefore select from different points, but the union is again
  a beginning. *Work status:* no form is ahead of the table, and while requests do not
  overlap the version counts the updates. From it: refusals are justified and serial
  updates lose nothing.
- **`LoginWindowProofs`.** As long as nobody touched it, the first tab's login is the
  profile's, it is still there when it was seen, and it is the one whose cookies were
  captured (`LoginOK`); a whole capture is one login's (`SnapOK`), the file is replaced
  at the end only (`FileOK`), and a temporary file exists while one is being replaced
  (`TempsOK`). From it: the safety properties of the run and the bound on temporary files, for any number of tabs and logins.
- **`AccountsProofs`.** Stored names are folded and unique (`NamesOK`); a request that
  activates or disables an account was authorised for an administrator, and never for
  disabling his own (`ReqOK`), which is what `AdminRemains` needs to be
  inductive: the author of a disabling is still active, and remains, or was disabled
  himself in between, which is a crossing. From it: names, administrators and
  passwords for any number of requests at once.
- **`DashboardProofs`.** No employee has read more notifications than there are
  (`ReadOK`), and what a page has been told is no later than the last success
  (`PageOK`). From it: `NewUntilOpened`, for any number of employees and polls, and
  `RowsKeepTheirPromise`, since successes only grow. For the list: `Before` is a total
  order of the rows, because keys are compared lexicographically and the rows of equal
  keys by a database order without ties; so the numbers of rows before each are a
  bijection onto 0..n-1, and the sorted list holds each row once, in order. No induction
  on a sorting algorithm is needed, only cardinalities of finite sets. The order promised
  to the employee, and that each count is the length of its list, follow from `ReadOK`.

Only model-checked: the liveness properties, since fairness and ENABLED are outside the
prover's reach (`PollEnds`, `AbsentIsRetired`, `DetailsArrive`, `EveryCallAnswered`,
`ShutdownCompletes`, `VerifyEnds`, `ShutdownEnds`, `ClosedWindowEnds`, `LoginIsNoticed`,
`DisabledGoesQuiet`). Every safety property of every passing run is a theorem.

## 7. Abstractions to know of

- Texts of rows, dates, addresses and error messages are dropped, except the two
  the synchronization decides by: the portal status and the required quote date.
- `SessionConnector` leaves database failures out and takes for granted that a
  process that ends gives up its file lock and its browsers. How the login window
  notices that it was closed is `LoginWindow`'s, and "the work ends" there.
- `Accounts`: cookies are the set of their users, so that a logout that leaves
  another browser's cookie changes nothing; logout and expiry are one step. Hashing,
  signing, the length of a password and the origin of a form are answers that change
  nothing. `reset_password` is one step, since a salted hash always differs from the
  one that was read. Accounts are created with one given password.
- `Dashboard` follows one page at a time. Openings and status updates are one step,
  a text search is any set of dossiers, and `detected` is the time of the last
  notification or, without one, of the creation.
- A login screen that a poll has met stays: to sign in, an employee needs the browser
  profile, which the poll holds.
- A failed final commit and a cancelled poll leave the same tables, so both are
  `Abandon`.
- The dossier row exists before its page is opened and the template always sends
  `expected_version`; after overlapping updates the version may go backwards,
  and the model keeps that.
- Intervals and timeouts are not timed: a timeout is a step that may come at any
  moment of the wait it bounds.

## 8. What is not modelled

Shared notes (append-only, one transaction each after a length check), workflows and
memberships (nothing writes them at this commit), the composition root, configuration
and logging, templates, static files, migrations and installation scripts. The
reader's selectors and its read-only request filter, the parser's date formats and
the script with which a saved session is restored keep no state a property is about.
How a close of the login window that cannot be confirmed is reported when the
navigation has failed too is stated (`UnclosedLoginIsShown`) and refuted, not repaired.

## 9. Plan

The modules were written in this order, the most important behaviour first:
`SyncRules` and `DossierSync` with its proofs and abstract specification,
`SyncQueue`, `SessionConnector`, `QueueReader`, `WorkStatus`, `UnreadState`,
`LoginWindow`, `Accounts`, `Dashboard` on the abstract specification. What is left:

1. A composition of `SyncQueue` with the connector's tasks, so that the skip of a
   poll by the profile lock and the coalescing onto it are seen together.
2. The refinement of the outcomes `DossierSync!ReadViews` takes by `QueueReader`.
3. A refinement of `Dashboard`'s `Open` and `SetWork` by `UnreadState` and `WorkStatus`,
   with two pages in flight.
4. The safety halves of further liveness properties, as `PollAdvances` is of `PollEnds`:
   that the stages of a verification, of a shutdown and of the login window only advance.

## 10. Running

```
cd tla
tlc -workers 2 -config MCDossierSync.cfg MCDossierSync.tla
tlapm DossierSyncProofs.tla
```

Every run takes between a second and a few minutes. The proofs of a module take
from seconds to a few minutes.
