--------------------------- MODULE SessionConnector ---------------------------
(***************************************************************************)
(* Who may open a browser on the persistent OmegaFlow profile: the login   *)
(* window of SessionConnector, the verification that follows it, a poll of *)
(* SyncAgreementQueue, and the console tool "configure-session", a process *)
(* of its own.  They share one lock file, taken without waiting.           *)
(*                                                                         *)
(* All four open, use and close a browser, so one set of actions describes *)
(* them; what differs is what they do when the lock is taken, the launch   *)
(* fails, the close cannot be confirmed, or the application shuts down.    *)
(* The poll's own work is DossierSync; coalescing of polls is SyncQueue.   *)
(* Assumed of the platform: a process that ends gives up its locks and     *)
(* takes its browsers with it.                                             *)
(***************************************************************************)
EXTENDS Naturals

VARIABLES
  lock,      \* the lock file: "free", the user that holds it, or "unconfirmed"
  keptBy,    \* entry of the _unconfirmed registry: who could not close
  pc, body,  \* [Users -> ...], how far each user is, how its work ended
  strays,    \* browsers of the application that may be running and that no task
             \* controls: "unclosed" when a close was begun and not confirmed,
             \* "leaked" when a launch failed or was cancelled
  session,   \* portal_accounts.session_status
  saved,     \* the session state file exists
  wanted,    \* the sync task exists and has not run yet
  runner,    \* who runs the poll
  cancelled, \* tasks with a CancelledError to be delivered
  phase      \* the application: "off", "up", then the stages of its shutdown

vars == <<lock, keptBy, pc, body, strays, session, saved, wanted, runner, cancelled, phase>>

Tasks   == {"login", "verify", "poll"}
Users   == Tasks \cup {"cli"}
Readers == {"verify", "poll"}
Opened  == {"launching", "using", "closing"}
SessionStatus == {"UNKNOWN", "READY", "AUTH_REQUIRED", "ERROR"}
Shutdown == {"stop scheduler", "stop login", "stop verify", "stop sync", "down"}

Holders == {u \in Users : pc[u] \in Opened}

Init ==
  /\ lock = "free" /\ keptBy = "none"
  /\ pc = [u \in Users |-> "none"]
  /\ body = [u \in Users |-> "none"]
  /\ strays = {} /\ cancelled = {}
  /\ session = "UNKNOWN" /\ saved \in BOOLEAN
  /\ wanted = FALSE /\ runner = "none"
  /\ phase = "off"

Goes(u, stage) == pc' = [pc EXCEPT ![u] = stage]
-----------------------------------------------------------------------------
(* Starting.                                                               *)

\* Slip: a verification under way is forgotten, and another may begin.
MayConnectOverVerify == pc["login"] = "none" /\ pc["poll"] = "none"

\* start() refuses while a window is open or being verified, and while a
\* synchronization runs.  (last_start_blocked_by_sync is read by the same
\* request with no await in between: it is part of the answer.)
MayConnect == pc["login"] = "none" /\ pc["verify"] = "none" /\ pc["poll"] = "none"

Connect ==
  /\ phase = "up" /\ MayConnect
  /\ Goes("login", "created")
  /\ UNCHANGED <<lock, keptBy, body, strays, session, saved, wanted, runner, cancelled, phase>>

\* Slip: the lock file is waited for.
AcquireBlocking(u) ==
  /\ lock = "free" /\ lock' = u /\ Goes(u, "launching") /\ UNCHANGED session

\* Slip: a refused verification ends silently, as a refused login does.
AcquireSilently(u) ==
  \/ lock = "free" /\ lock' = u /\ Goes(u, "launching") /\ UNCHANGED session
  \/ lock # "free" /\ Goes(u, "none") /\ UNCHANGED <<lock, session>>

\* acquire_profile_lock: refused at once when the file is locked or the
\* registry has an entry.  A refused login ends silently.
Acquire(u) ==
  \/ lock = "free" /\ lock' = u /\ Goes(u, "launching") /\ UNCHANGED session
  \/ /\ lock # "free" /\ Goes(u, "none") /\ UNCHANGED lock
     /\ session' = IF u = "verify" THEN "ERROR" ELSE session

\* The first step of a task of the connector.
Enter(u) ==
  /\ pc[u] = "created" /\ u \notin cancelled
  /\ Acquire(u)
  /\ UNCHANGED <<keptBy, body, strays, saved, wanted, runner, cancelled, phase>>

\* execute(), up to its first await.  Without a saved session or the lock the
\* poll is skipped; while another one runs the call is coalesced onto it.
Execute(who) ==
  /\ IF who = "sync" THEN wanted ELSE phase = "up"
  /\ wanted' = (wanted /\ who # "sync")
  /\ IF pc["poll"] = "none" /\ saved /\ lock = "free"
     THEN lock' = "poll" /\ Goes("poll", "launching") /\ runner' = who
     ELSE UNCHANGED <<lock, pc, runner>>
  /\ UNCHANGED <<keptBy, body, strays, session, saved, cancelled, phase>>

\* configure-session; refused, it prints a message and exits.
RunCli ==
  /\ pc["cli"] = "none" /\ lock = "free"
  /\ lock' = "cli" /\ Goes("cli", "launching")
  /\ UNCHANGED <<keptBy, body, strays, session, saved, wanted, runner, cancelled, phase>>
-----------------------------------------------------------------------------
(* Opening, using and closing the browser.                                 *)

Launched(u) ==
  /\ pc[u] = "launching" /\ u \notin cancelled
  /\ Goes(u, "using")
  /\ UNCHANGED <<lock, keptBy, body, strays, session, saved, wanted, runner, cancelled, phase>>

\* Slip: a launch that failed keeps the lock.
LaunchFailsLocked(u, left) ==
  /\ pc[u] = "launching" /\ u \notin cancelled
  /\ left => u \in Readers
  /\ Goes(u, "none")
  /\ strays' = IF left THEN strays \cup {"leaked"} ELSE strays
  /\ session' = IF u \in Readers THEN "ERROR" ELSE session
  /\ UNCHANGED <<lock, keptBy, body, saved, wanted, runner, cancelled, phase>>

\* left: CamoufoxPortalReader.__aenter__ failed, or timed out, after the
\* browser was up.  It releases the lock and leaves the browser behind.
LaunchFails(u, left) ==
  /\ pc[u] = "launching" /\ u \notin cancelled
  /\ left => u \in Readers
  /\ lock' = "free" /\ Goes(u, "none")
  /\ strays' = IF left THEN strays \cup {"leaked"} ELSE strays
  /\ session' = IF u \in Readers THEN "ERROR" ELSE session
  /\ UNCHANGED <<keptBy, body, saved, wanted, runner, cancelled, phase>>

\* What a check finds: the authenticated view, a login screen, or neither
\* before its timeout (any other error is the same).  A poll finds no other.
Found == {"READY", "AUTH_REQUIRED", "ERROR"}

\* How the work in the browser can end.  A login window ends "ok" when the
\* employee logged in, or closed it.
Endings(u) == IF u \in Readers THEN Found ELSE {"ok", "raised"}

\* save_session_state replaces the file whole: an old one survives a failure.
Saves(captured) == saved' = (saved \/ captured)

\* captured: the login was detected and its session state saved.
WorkEnds(u, ending, captured) ==
  /\ pc[u] = "using" /\ u \notin cancelled
  /\ ending \in Endings(u)
  /\ captured => ending = "ok"
  /\ Goes(u, "closing")
  /\ body' = [body EXCEPT ![u] = ending]
  /\ Saves(captured)
  /\ UNCHANGED <<lock, keptBy, strays, session, wanted, runner, cancelled, phase>>

\* mark_profile_teardown_unconfirmed: the lock is kept in the registry.
Unconfirmed(u) ==
  /\ lock' = "unconfirmed" /\ keptBy' = u
  /\ strays' = strays \cup {"unclosed"}

Finished(u) ==
  /\ Goes(u, "none") /\ body' = [body EXCEPT ![u] = "none"]

\* A confirmed close.  The status found is stored, by mark_poll_finished or
\* _mark_session_checked; a cancelled task stores nothing and starts nothing.
Close(u) ==
  /\ pc[u] = "closing" /\ u \notin cancelled
  /\ lock' = "free"
  /\ body' = [body EXCEPT ![u] = "none"]
  /\ session' = IF u \in Readers /\ body[u] # "cancelled" THEN body[u] ELSE session
  /\ pc' = [pc EXCEPT ![u] = "none",
                      !["verify"] = IF u = "login" /\ body[u] = "ok" THEN "created"
                                    ELSE IF u = "verify" THEN "none" ELSE @]
  /\ wanted' = (wanted \/ (u = "verify" /\ body[u] = "READY"))
  /\ UNCHANGED <<keptBy, strays, saved, runner, cancelled, phase>>

\* Slip: what the check found is stored although its browser is not closed.
StatusWithoutCleanup(u) ==
  IF body[u] \in SessionStatus THEN body[u] ELSE session

\* An unconfirmed close overrides whatever was found; of a login window it
\* is only reported when nothing else was being raised.
StatusUnclosed(u) ==
  IF (u \in Readers /\ body[u] # "cancelled") \/ (u = "login" /\ body[u] = "ok")
  THEN "ERROR" ELSE session

\* The close failed or passed its bound (30 s, 45 s for a verification).
CloseFails(u) ==
  /\ u \in Tasks
  /\ pc[u] = "closing" /\ u \notin cancelled
  /\ Unconfirmed(u) /\ Finished(u)
  /\ session' = StatusUnclosed(u)
  /\ UNCHANGED <<saved, wanted, runner, cancelled, phase>>

\* The console tool closes badly, or is killed: its process is gone.
CliEnds ==
  /\ pc["cli"] \in Opened /\ lock' = "free" /\ Finished("cli")
  /\ UNCHANGED <<keptBy, strays, session, saved, wanted, runner, cancelled, phase>>
-----------------------------------------------------------------------------
(* Cancellation and shutdown.                                              *)

\* CancelledError while the browser is launched: the lock is released, and
\* the browser may be there already.
CancelLaunch(u, left) ==
  /\ pc[u] = "launching" /\ lock' = "free" /\ Finished(u)
  /\ strays' = IF left THEN strays \cup {"leaked"} ELSE strays
  /\ UNCHANGED keptBy

\* Slip: the "finally" of a reader, too, catches Exception only.
CancelCloseReleases(u) ==
  /\ pc[u] = "closing" /\ Finished(u) /\ lock' = "free"
  /\ strays' = strays \cup {"unclosed"} /\ UNCHANGED keptBy

\* CancelledError while it is being closed, which nothing confirms then: a
\* reader's "finally" keeps the lock, but the login window's "except Exception"
\* never sees it, and the lock is released.
CancelClose(u) ==
  /\ pc[u] = "closing" /\ Finished(u)
  /\ IF u \in Readers THEN Unconfirmed(u)
     ELSE lock' = "free" /\ strays' = strays \cup {"unclosed"} /\ UNCHANGED keptBy

Cancelled(u) ==
  /\ u \in cancelled /\ cancelled' = cancelled \ {u}
  /\ \/ pc[u] = "created" /\ Finished(u) /\ UNCHANGED <<lock, keptBy, strays>>
     \/ \E left \in BOOLEAN : CancelLaunch(u, left)
     \/ /\ pc[u] = "using" /\ Goes(u, "closing")
        /\ body' = [body EXCEPT ![u] = "cancelled"]
        /\ UNCHANGED <<lock, keptBy, strays>>
     \/ CancelClose(u)
  /\ UNCHANGED <<session, saved, wanted, runner, phase>>

PollOf(who) == pc["poll"] # "none" /\ runner = who
Ask(u) == cancelled' = IF pc[u] = "none" THEN cancelled ELSE cancelled \cup {u}

\* Slip: the connector stops its tasks in the opposite order.
StopBackwards ==
  \/ /\ phase = "up" /\ ~PollOf("request") /\ phase' = "stop scheduler"
     /\ cancelled' = IF PollOf("scheduler") THEN {"poll"} ELSE {}
     /\ UNCHANGED wanted
  \/ /\ phase = "stop scheduler" /\ ~PollOf("scheduler") /\ phase' = "stop sync"
     /\ Ask("poll") /\ wanted' = FALSE
  \/ /\ phase = "stop sync" /\ pc["poll"] = "none" /\ phase' = "stop verify"
     /\ Ask("verify") /\ UNCHANGED wanted
  \/ /\ phase = "stop verify" /\ pc["verify"] = "none" /\ phase' = "stop login"
     /\ Ask("login") /\ UNCHANGED wanted
  \/ /\ phase = "stop login" /\ pc["login"] = "none" /\ phase' = "down"
     /\ UNCHANGED <<cancelled, wanted>>

\* Slip: the login task is awaited and not cancelled.
StopPatiently ==
  \/ /\ phase = "up" /\ ~PollOf("request") /\ phase' = "stop scheduler"
     /\ cancelled' = IF PollOf("scheduler") THEN {"poll"} ELSE {}
     /\ UNCHANGED wanted
  \/ /\ phase = "stop scheduler" /\ ~PollOf("scheduler") /\ phase' = "stop login"
     /\ UNCHANGED <<cancelled, wanted>>
  \/ /\ phase = "stop login" /\ pc["login"] = "none" /\ phase' = "down"
     /\ UNCHANGED <<cancelled, wanted>>

\* lifespan, once the server has answered its last request: the scheduler's
\* task, then shutdown()'s login, verify and sync tasks, each awaited before
\* the next is looked at.
Stop ==
  \/ /\ phase = "up" /\ ~PollOf("request") /\ phase' = "stop scheduler"
     /\ cancelled' = IF PollOf("scheduler") THEN {"poll"} ELSE {}
     /\ UNCHANGED wanted
  \/ /\ phase = "stop scheduler" /\ ~PollOf("scheduler") /\ phase' = "stop login"
     /\ Ask("login") /\ UNCHANGED wanted
  \/ /\ phase = "stop login" /\ pc["login"] = "none" /\ phase' = "stop verify"
     /\ Ask("verify") /\ UNCHANGED wanted
  \/ /\ phase = "stop verify" /\ pc["verify"] = "none" /\ phase' = "stop sync"
     /\ Ask("poll") /\ wanted' = FALSE
  \/ /\ phase = "stop sync" /\ pc["poll"] = "none" /\ phase' = "down"
     /\ UNCHANGED <<cancelled, wanted>>

StopStep ==
  /\ Stop
  /\ UNCHANGED <<lock, keptBy, pc, body, strays, session, saved, runner>>

\* The process exits or dies; the database and the state file stay.
Exit ==
  /\ phase # "off" /\ phase' = "off"
  /\ lock' = IF lock = "cli" THEN lock ELSE "free"
  /\ keptBy' = "none" /\ strays' = {} /\ cancelled' = {}
  /\ pc' = [u \in Users |-> IF u \in Tasks THEN "none" ELSE pc[u]]
  /\ body' = [u \in Users |-> IF u \in Tasks THEN "none" ELSE body[u]]
  /\ wanted' = FALSE /\ runner' = "none"
  /\ UNCHANGED <<session, saved>>

Start ==
  /\ phase = "off" /\ phase' = "up"
  /\ UNCHANGED <<lock, keptBy, pc, body, strays, session, saved, wanted, runner, cancelled>>
-----------------------------------------------------------------------------
Opens(u) == Launched(u) \/ \E left \in BOOLEAN : LaunchFails(u, left)
Works(u) ==
  \E ending \in Endings(u), captured \in BOOLEAN : WorkEnds(u, ending, captured)
Closes(u) == Close(u) \/ CloseFails(u)

Next ==
  \/ Start \/ Exit \/ StopStep
  \/ Connect \/ RunCli \/ CliEnds
  \/ \E u \in {"login", "verify"} : Enter(u)
  \/ \E who \in {"scheduler", "request", "sync"} : Execute(who)
  \/ \E u \in Users : Opens(u) \/ Works(u) \/ Closes(u)
  \/ \E u \in Tasks : Cancelled(u)

Spec == Init /\ [][Next]_vars

\* Ready tasks run, every close is bounded, and so are the launch and the
\* work of a verification (three asyncio.wait_for).  Nothing is assumed of the
\* employee in front of the login window, nor of a poll that is not cancelled.
FairSpec ==
  /\ Spec
  /\ \A u \in {"login", "verify"} : WF_vars(Enter(u))
  /\ WF_vars(Opens("verify")) /\ WF_vars(Works("verify"))
  /\ \A u \in Tasks : WF_vars(Closes(u)) /\ WF_vars(Cancelled(u))
  /\ WF_vars(phase # "up" /\ StopStep)
-----------------------------------------------------------------------------
(* What the employee sees.                                                 *)

\* The session card: the connector's tasks first, then the stored status.
Card == IF pc["login"] # "none" THEN "CONNECTING"
        ELSE IF pc["verify"] # "none" THEN "VERIFYING" ELSE session
-----------------------------------------------------------------------------
(* Properties.                                                             *)

\* Types.
TypeOK ==
  /\ lock \in Users \cup {"free", "unconfirmed"}
  /\ keptBy \in Tasks \cup {"none"}
  /\ pc \in [Users -> {"none", "created"} \cup Opened]
  /\ body \in [Users -> {"none", "ok", "raised", "cancelled"} \cup SessionStatus]
  /\ strays \subseteq {"unclosed", "leaked"}
  /\ session \in SessionStatus /\ saved \in BOOLEAN /\ wanted \in BOOLEAN
  /\ runner \in {"none", "scheduler", "request", "sync"}
  /\ cancelled \subseteq Tasks
  /\ phase \in {"off", "up"} \cup Shutdown

\* Whoever has a browser on the profile holds its lock, and nobody holds it
\* after its browser: so no two of the four ever have one together.
LockCoversBrowser == \A u \in Users : lock = u <=> u \in Holders

\* While the application is up, a browser of it whose close was not confirmed,
\* whoever opened it and however the close ended, has the profile to itself:
\* the lock is taken, and it is the registry that holds it.  In a shutdown this
\* is not so (TeardownKeepsLock below).
UnconfirmedIsKept ==
  phase = "up" /\ "unclosed" \in strays => lock = "unconfirmed" /\ keptBy # "none"

Profile == INSTANCE ProfileUse WITH
  Windows  <- {"login"},
  Others   <- {"cli"},
  life     <- IF phase \in Shutdown THEN "ending" ELSE phase,
  using    <- Holders,
  unclosed <- "unclosed" \in strays,
  kept     <- lock = "unconfirmed"

\* Whatever is refused, cancelled, killed or restarted, browsers come and go on
\* the profile as ProfileUse says: one under control at a time, and after one
\* that could not be closed none before a restart, but for a login window whose
\* close the shutdown cancels.  (Those "leaked" are not told of.)
ImplementsProfile == Profile!ProfileSpec

\* One connection at a time: no second window, and so no second check and no
\* second synchronization, while a window is open or being verified.
OneConnection == pc["login"] = "none" \/ pc["verify"] = "none"

\* When a poll or a verification could not close its browser, the dashboard
\* says ERROR for as long as the profile is unavailable.
UnclosedReaderIsShown ==
  phase = "up" /\ keptBy \in Readers => session = "ERROR"

\* A shutdown leaves no task behind, the ones its own cancellations let start
\* included.
ShutdownIsClean ==
  phase = "down" => ~wanted /\ \A u \in Tasks : pc[u] = "none"

\* The card goes from VERIFYING to READY only when this verification found the
\* authenticated view and closed its browser, never because of a READY stored
\* before it: not when the profile was taken first, the launch failed or the
\* close was not confirmed.
ReadyIsEarned ==
  [][phase = "up" /\ phase' = "up" /\ Card = "VERIFYING" /\ Card' = "READY" =>
       body["verify"] = "READY" /\ lock' = "free"]_vars

\* The card does not stay on VERIFYING, which offers no button: the bounded
\* check ends, even with the profile unavailable for good.
VerifyEnds == Card = "VERIFYING" ~> Card # "VERIFYING"

\* A shutdown ends, even with an employee who never closes the login window.
ShutdownEnds == phase = "stop scheduler" ~> phase \in {"down", "off"}
-----------------------------------------------------------------------------
(* Rules the comments state and the code departs from.                     *)

\* profile_lock.py: users of the profile "can never launch a browser against
\* it concurrently".  A reader whose __aenter__ fails late leaves one behind.
OneBrowser ==
  (IF strays = {} THEN 0 ELSE 1) + (IF lock \in Users /\ pc[lock] \in {"using", "closing"}
                                    THEN 1 ELSE 0) <= 1

\* session_connector.py: without ERROR "the dashboard would show no sign
\* anything went wrong at all".  A window whose navigation failed and whose
\* close then fails leaves the profile unavailable and the status as it was.
UnclosedLoginIsShown ==
  phase = "up" /\ keptBy = "login" => session = "ERROR"

\* session_connector.py: "never let the `with` block above release the lock"
\* when cleanup cannot be confirmed, "this whole method is itself being
\* cancelled" included.  Cancelled during the close, it is released.
TeardownKeepsLock ==
  [][pc["login"] = "closing" /\ pc'["login"] = "none" /\ phase' # "off" =>
       strays' = strays \/ lock' = "unconfirmed"]_vars

\* session_connector.py: "is_active never flips true for a launch that was
\* never going to happen".  The profile can be taken by the console tool, kept
\* as unconfirmed, or taken by a poll before the login task's first step.
ConnectingMeansLaunch ==
  [][pc["login"] = "created" /\ pc'["login"] = "none" => phase' # "up"]_vars
=============================================================================
