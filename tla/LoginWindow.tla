----------------------------- MODULE LoginWindow -----------------------------
(***************************************************************************)
(* The visible window in which an employee logs in to OmegaFlow, from its  *)
(* opening to its close, and the file in which the session is saved for    *)
(* the polls to come (launch_visible_browser_and_wait).                    *)
(*                                                                         *)
(* The employee opens and closes tabs, signs in and out.  Cookies belong   *)
(* to the profile, sessionStorage to a tab; the program looks at the first *)
(* tab only.  Two tasks wait, one for a login and one for the close; the   *)
(* login's session is read in two calls and written through a temporary    *)
(* file.  The profile lock (SessionConnector) allows one window at a time. *)
(***************************************************************************)
EXTENDS Naturals

CONSTANTS
  Tabs, First,  \* tabs of the window, the one the program looks at
  None, Torn,   \* no file; a file that cannot be parsed
  MaxLogins,    \* bound: times somebody signs in
  MaxFaults     \* bound: crashes, and temporary files that cannot be removed

ASSUME FirstAssumption == First \in Tabs
ASSUME BoundsAssumption == MaxLogins \in Nat /\ MaxFaults \in Nat

VARIABLES
  pc,        \* where launch_visible_browser_and_wait is
  tabs,      \* open tabs
  cookie,    \* login the profile's cookies belong to, 0 for none
  shown,     \* [Tabs -> login whose authenticated view the tab shows, or 0]
  loginDone, closeDone,  \* login_task and close_task are done
  snap,      \* what has been captured of the session
  file,      \* the session state file
  temps,     \* temporary files beside it
  logins, faults,  \* bounds
  before,    \* history: the file when the window was opened
  touched    \* history: somebody signed in or out after the first tab's
             \* login, or while its session was being captured

window == <<tabs, cookie, shown, logins, touched>>
disk == <<file, temps, before>>
vars == <<pc, window, loginDone, closeDone, snap, disk, faults>>

Logins == 0..MaxLogins
Captures == [cookie : Logins, session : Logins, touched : BOOLEAN]
ASSUME FileAssumption == None \notin Captures /\ Torn \notin Captures

Stages == {"idle", "opening", "waiting", "capturing cookies", "capturing storage",
           "writing", "replacing", "closing"}

\* A first run finds no file, or one that an earlier program left unreadable.
Init ==
  /\ pc = "idle" /\ tabs = {} /\ cookie = 0
  /\ shown = [t \in Tabs |-> 0]
  /\ loginDone = FALSE /\ closeDone = FALSE
  /\ snap = None /\ temps = 0
  /\ file \in {None, Torn} /\ before = file
  /\ logins = 0 /\ faults = 0 /\ touched = FALSE

Goes(from, to) == pc = from /\ pc' = to
-----------------------------------------------------------------------------
(* Opening.                                                                *)

\* The browser is launched on the profile.  Its cookies may have been lost by
\* a process that was killed; sessionStorage never survives.
Open ==
  /\ Goes("idle", "opening")
  /\ tabs' = {First} /\ cookie' \in {cookie, 0}
  /\ loginDone' = FALSE /\ closeDone' = FALSE
  /\ snap' = None /\ before' = file /\ touched' = FALSE
  /\ UNCHANGED <<shown, file, temps, logins, faults>>

\* page.goto returns, or fails: then nothing is waited for.
Navigated(ok) ==
  /\ ok => First \in tabs
  /\ Goes("opening", IF ok THEN "waiting" ELSE "closing")
  /\ UNCHANGED <<window, loginDone, closeDone, snap, disk, faults>>
-----------------------------------------------------------------------------
(* The employee and the portal.                                            *)

OpenTab(t) ==
  /\ tabs # {} /\ t \notin tabs \cup {First}
  /\ tabs' = tabs \cup {t}
  /\ UNCHANGED <<pc, cookie, shown, logins, touched, loginDone, closeDone, snap, disk, faults>>

\* Some tabs are closed, or all of them with the window; none comes back.
CloseTabs(closed) ==
  /\ closed # {}
  /\ tabs' = tabs \ closed
  /\ shown' = [t \in Tabs |-> IF t \in closed THEN 0 ELSE shown[t]]
  /\ UNCHANGED <<pc, cookie, logins, touched, loginDone, closeDone, snap, disk, faults>>

\* The first tab's login is the one to be captured, until it is captured; what
\* other tabs did before it does not matter.
SignIn(t) ==
  /\ t \in tabs /\ shown[t] = 0
  /\ logins < MaxLogins /\ logins' = logins + 1
  /\ cookie' = logins' /\ shown' = [shown EXCEPT ![t] = logins']
  /\ touched' = IF pc \in {"opening", "waiting"}
                THEN t # First /\ (touched \/ shown[First] # 0) ELSE TRUE
  /\ UNCHANGED <<pc, tabs, loginDone, closeDone, snap, disk, faults>>

\* The other tabs go on showing what they show.
SignOut(t) ==
  /\ t \in tabs /\ shown[t] # 0
  /\ cookie' = 0 /\ shown' = [shown EXCEPT ![t] = 0]
  /\ touched' = TRUE
  /\ UNCHANGED <<pc, tabs, logins, loginDone, closeDone, snap, disk, faults>>
-----------------------------------------------------------------------------
(* Waiting for a login or the close of the window.                         *)

\* Slip: any tab of the context will do.
AuthenticatedAnywhere == \E t \in tabs : shown[t] # 0

\* is_authenticated_view_present: a closed page raises, and is tried again.
Authenticated == First \in tabs /\ shown[First] # 0

\* _poll_for_login, every 0.5 s.
LoginSeen ==
  /\ pc = "waiting" /\ ~loginDone /\ Authenticated
  /\ loginDone' = TRUE
  /\ UNCHANGED <<pc, window, closeDone, snap, disk, faults>>

\* _is_context_closed: no pages are left, or asking for them raises.
ContextClosed == tabs = {}

\* _wait_until_closed: the first check, an event, or the poll every second.
CloseSeen ==
  /\ pc = "waiting" /\ ~closeDone /\ ContextClosed
  /\ closeDone' = TRUE
  /\ UNCHANGED <<pc, window, loginDone, snap, disk, faults>>

\* Slip: both tasks are waited for.
ResumeWhenAll ==
  /\ loginDone /\ closeDone
  /\ Goes("waiting", "capturing cookies")
  /\ UNCHANGED <<window, loginDone, closeDone, snap, disk, faults>>

\* Slip: the close is waited for, and the login looked up afterwards.
ResumeWhenClosed ==
  /\ closeDone
  /\ Goes("waiting", IF loginDone THEN "capturing cookies" ELSE "closing")
  /\ UNCHANGED <<window, loginDone, closeDone, snap, disk, faults>>

\* asyncio.wait returns; which tasks are done is looked at only now, so both
\* may be, and then the login counts.
Resume ==
  /\ loginDone \/ closeDone
  /\ Goes("waiting", IF loginDone THEN "capturing cookies" ELSE "closing")
  /\ UNCHANGED <<window, loginDone, closeDone, snap, disk, faults>>
-----------------------------------------------------------------------------
(* capture_session_state and save_session_state.                           *)

\* context.storage_state().
CaptureCookies ==
  /\ tabs # {} /\ Goes("capturing cookies", "capturing storage")
  /\ snap' = [cookie |-> cookie, session |-> 0, touched |-> TRUE]
  /\ UNCHANGED <<window, loginDone, closeDone, disk, faults>>

\* page.evaluate() on the first tab.
CaptureStorage ==
  /\ First \in tabs /\ Goes("capturing storage", "writing")
  /\ snap' = [snap EXCEPT !.session = shown[First], !.touched = touched]
  /\ UNCHANGED <<window, loginDone, closeDone, disk, faults>>

\* A failure is logged, and the window is closed as if nothing had been seen.
CaptureFails ==
  /\ pc \in {"capturing cookies", "capturing storage"} /\ pc' = "closing"
  /\ UNCHANGED <<window, loginDone, closeDone, snap, disk, faults>>

\* Slip: the file itself is opened for writing.
WriteInPlace ==
  /\ Goes("writing", "replacing")
  /\ file' = Torn /\ temps' = temps + 1
  /\ UNCHANGED <<window, loginDone, closeDone, snap, before, faults>>

\* mkstemp and json.dump.
WriteTemp ==
  /\ Goes("writing", "replacing")
  /\ temps' = temps + 1
  /\ UNCHANGED <<window, loginDone, closeDone, snap, file, before, faults>>

\* os.replace.
Replace ==
  /\ Goes("replacing", "closing")
  /\ file' = snap /\ temps' = temps - 1
  /\ UNCHANGED <<window, loginDone, closeDone, snap, before, faults>>

\* Disk full, file locked: the temporary file is removed, if it can be.
SaveFails ==
  /\ pc \in {"writing", "replacing"} /\ pc' = "closing"
  /\ \/ /\ temps' = IF pc = "replacing" THEN temps - 1 ELSE temps
        /\ UNCHANGED faults
     \/ /\ pc = "replacing" /\ faults < MaxFaults /\ faults' = faults + 1
        /\ UNCHANGED temps
  /\ UNCHANGED <<window, loginDone, closeDone, snap, file, before>>
-----------------------------------------------------------------------------
(* The end.                                                                *)

\* The application shuts down: every await may raise CancelledError.  The
\* writing has none.
Cancel ==
  /\ pc \in {"opening", "waiting", "capturing cookies", "capturing storage"}
  /\ pc' = "closing"
  /\ UNCHANGED <<window, loginDone, closeDone, snap, disk, faults>>

Gone ==
  /\ pc' = "idle" /\ tabs' = {} /\ shown' = [t \in Tabs |-> 0]
  /\ UNCHANGED <<cookie, logins, touched, loginDone, closeDone, snap, disk>>

\* The bounded close of the browser (SessionConnector: what an unconfirmed
\* one does to the profile).
Close == pc = "closing" /\ Gone /\ UNCHANGED faults

\* The process dies, its browser with it.
Crash ==
  /\ pc # "idle" /\ Gone
  /\ faults < MaxFaults /\ faults' = faults + 1

Employee ==
  \/ \E t \in Tabs : OpenTab(t) \/ SignIn(t) \/ SignOut(t)
  \/ \E closed \in SUBSET tabs : CloseTabs(closed)

Capturing == CaptureCookies \/ CaptureStorage \/ CaptureFails
Saving == WriteTemp \/ Replace \/ SaveFails

Next ==
  \/ Open \/ \E ok \in BOOLEAN : Navigated(ok)
  \/ Employee
  \/ LoginSeen \/ CloseSeen \/ Resume
  \/ Capturing \/ Saving
  \/ Cancel \/ Close \/ Crash

Spec == Init /\ [][Next]_vars

\* The two polls have periods of 0.5 s and 1 s, a ready task is resumed, and
\* navigation, capture and close are bounded by the browser's timeouts and by
\* 30 s.  Nothing is assumed of the employee.
FairSpec ==
  /\ Spec
  /\ WF_vars(\E ok \in BOOLEAN : Navigated(ok))
  /\ WF_vars(LoginSeen) /\ WF_vars(CloseSeen) /\ WF_vars(Resume)
  /\ WF_vars(Capturing) /\ WF_vars(Saving) /\ WF_vars(Close)
-----------------------------------------------------------------------------
(* Properties.                                                             *)

\* Types.
TypeOK ==
  /\ pc \in Stages /\ tabs \subseteq Tabs
  /\ cookie \in Logins /\ shown \in [Tabs -> Logins]
  /\ loginDone \in BOOLEAN /\ closeDone \in BOOLEAN
  /\ snap \in Captures \cup {None}
  /\ file \in Captures \cup {None, Torn} /\ before \in Captures \cup {None, Torn}
  /\ temps \in Nat /\ logins \in Logins /\ faults \in 0..MaxFaults
  /\ touched \in BOOLEAN

\* Whenever the process dies and whatever fails, the file is the one the
\* window found, or a whole capture made after the program saw a login in this
\* window; a window without a login leaves the last good session alone.
OldOrNew == file = before \/ (loginDone /\ file = snap /\ snap # None)

\* What load_session_state returns to the next poll.
Loaded == IF file = Torn THEN None ELSE file

\* The cookies and the sessionStorage that the next poll restores belong to
\* one login that was complete, although they are read in two calls some time
\* after it was seen, unless somebody signed in or out around them.
SavedIsOneLogin ==
  Loaded # None /\ ~Loaded.touched =>
    Loaded.cookie = Loaded.session /\ Loaded.session # 0

\* Temporary files, which hold a session, are left behind only by a crash or
\* by a disk that refuses to remove them.
NoStrayTemp == temps <= faults + IF pc = "replacing" THEN 1 ELSE 0

\* The employee closes the window, in any way and at any moment: the program
\* notices, and the connection ends.
ClosedWindowEnds == pc # "idle" /\ tabs = {} ~> pc = "idle"

\* A login in the first tab does not go unnoticed.
LoginIsNoticed == pc = "waiting" /\ Authenticated ~> pc # "waiting" \/ ~Authenticated
=============================================================================
