-------------------------- MODULE LoginWindowProofs --------------------------
(***************************************************************************)
(* Proofs of the safety properties of LoginWindow, for any number of tabs, *)
(* logins and faults.                                                      *)
(***************************************************************************)
EXTENDS LoginWindow, TLAPS

\* A tab that is not open shows nothing, and no tab is open without a window.
TabsOK ==
  /\ pc = "idle" => tabs = {}
  /\ \A t \in Tabs : t \notin tabs => shown[t] = 0

\* As long as nobody touched it, the first tab's login is the profile's, it is
\* still there when it was seen, and it is the one whose cookies were captured.
LoginOK ==
  ~touched /\ First \in tabs =>
    /\ shown[First] # 0 => cookie = shown[First]
    /\ loginDone /\ pc \in {"waiting", "capturing cookies", "capturing storage"} =>
         shown[First] # 0
    /\ pc = "capturing storage" => snap.cookie = shown[First]

OneLogin(c) == ~c.touched => c.cookie = c.session /\ c.session # 0

\* Captures follow a login, seen after the navigation; a whole one is one login's.
SnapOK ==
  /\ pc = "opening" => ~loginDone
  /\ pc \in {"capturing cookies", "capturing storage", "writing", "replacing"} => loginDone
  /\ pc = "capturing storage" => snap \in Captures /\ snap.touched
  /\ pc \in {"writing", "replacing"} => snap \in Captures
  /\ snap \in Captures => OneLogin(snap)

\* The file is replaced once, at the end.
FileOK ==
  /\ pc \in {"opening", "waiting", "capturing cookies", "capturing storage", "writing",
             "replacing"} => file = before
  /\ file \in Captures => OneLogin(file)

TempsOK == NoStrayTemp /\ (pc = "replacing" => temps >= 1)

IndInv ==
  TypeOK /\ TabsOK /\ LoginOK /\ SnapOK /\ FileOK /\ TempsOK /\ OldOrNew

LEMMA NoLogin == 0 \in Logins
  BY BoundsAssumption DEF Logins

LEMMA InitInv == Init => IndInv
<1> SUFFICES ASSUME Init PROVE IndInv
  OBVIOUS
<1>1. cookie \in Logins /\ logins \in Logins /\ shown \in [Tabs -> Logins]
  BY NoLogin DEF Init
<1>2. TypeOK
  <2>1. pc \in Stages /\ tabs \subseteq Tabs /\ temps \in Nat
    BY DEF Init, Stages
  <2>2. faults \in 0..MaxFaults
    BY BoundsAssumption DEF Init
  <2>3. loginDone \in BOOLEAN /\ closeDone \in BOOLEAN /\ touched \in BOOLEAN
    BY DEF Init
  <2>4. /\ snap \in Captures \cup {None}
        /\ file \in Captures \cup {None, Torn} /\ before \in Captures \cup {None, Torn}
    BY DEF Init
  <2> QED
    BY <1>1, <2>1, <2>2, <2>3, <2>4 DEF TypeOK
<1>3. TabsOK /\ LoginOK
  BY DEF Init, TabsOK, LoginOK
<1>4. snap \notin Captures /\ file \notin Captures
  BY FileAssumption DEF Init
<1>5. SnapOK /\ FileOK
  BY <1>4 DEF Init, SnapOK, FileOK
<1>6. TempsOK /\ OldOrNew
  BY BoundsAssumption DEF Init, TempsOK, NoStrayTemp, OldOrNew
<1> QED
  BY <1>2, <1>3, <1>5, <1>6 DEF IndInv
-----------------------------------------------------------------------------
(* The employee's steps leave the disk and the program alone.              *)

LEMMA EmployeeInv ==
  ASSUME IndInv, Employee
  PROVE  IndInv'
<1> USE FirstAssumption, BoundsAssumption DEF IndInv
<1>1. UNCHANGED <<pc, loginDone, closeDone, snap, disk, faults>>
  BY DEF Employee, OpenTab, SignIn, SignOut, CloseTabs
<1>2. FileOK' /\ TempsOK' /\ OldOrNew'
  BY <1>1 DEF FileOK, TempsOK, NoStrayTemp, OldOrNew, disk
<1>3. SnapOK'
  BY <1>1 DEF SnapOK
<1>4. ASSUME NEW t \in Tabs, OpenTab(t) PROVE IndInv'
  <2>1. TypeOK' /\ TabsOK'
    BY <1>1, <1>4 DEF OpenTab, TypeOK, TabsOK, disk
  <2>2. LoginOK'
    <3>1. First \in tabs' <=> First \in tabs
      BY <1>4 DEF OpenTab
    <3>2. UNCHANGED <<pc, cookie, shown, touched, loginDone, snap>>
      BY <1>4 DEF OpenTab
    <3> QED
      BY <3>1, <3>2 DEF LoginOK
  <2> QED
    BY <1>2, <1>3, <2>1, <2>2
<1>5. ASSUME NEW t \in Tabs, SignIn(t) PROVE IndInv'
  <2>1. logins' \in Logins /\ logins' # 0
    BY <1>5 DEF SignIn, TypeOK, Logins
  <2>2. TypeOK' /\ TabsOK'
    BY <1>1, <1>5, <2>1 DEF SignIn, TypeOK, TabsOK, disk
  <2>3. LoginOK'
    <3>1. CASE t = First
      <4>1. shown' = [shown EXCEPT ![First] = logins'] /\ cookie' = logins'
        BY <1>5, <3>1 DEF SignIn
      <4>2. shown'[First] = logins'
        BY <4>1 DEF TypeOK
      <4>3. ~touched' => pc \in {"opening", "waiting"}
        BY <1>5 DEF SignIn
      <4> QED
        BY <1>1, <2>1, <4>1, <4>2, <4>3 DEF LoginOK
    <3>2. CASE t # First
      <4>1. shown'[First] = shown[First] /\ tabs' = tabs
        BY <1>5, <3>2 DEF SignIn, TypeOK
      <4>2. ~touched' => ~touched /\ shown[First] = 0 /\ pc \in {"opening", "waiting"}
        BY <1>5, <3>2 DEF SignIn, TypeOK
      <4> QED
        BY <1>1, <4>1, <4>2 DEF LoginOK
    <3> QED
      BY <3>1, <3>2
  <2> QED
    BY <1>2, <1>3, <2>2, <2>3
<1>6. ASSUME NEW t \in Tabs, SignOut(t) PROVE IndInv'
  <2>1. TypeOK' /\ TabsOK'
    BY <1>1, <1>6 DEF SignOut, TypeOK, TabsOK, Logins, disk
  <2>2. LoginOK'
    BY <1>1, <1>6 DEF SignOut, LoginOK
  <2> QED
    BY <1>2, <1>3, <2>1, <2>2
<1>7. ASSUME NEW closed \in SUBSET tabs, CloseTabs(closed) PROVE IndInv'
  <2>1. TypeOK' /\ TabsOK'
    BY <1>1, <1>7 DEF CloseTabs, TypeOK, TabsOK, Logins, disk
  <2>2. LoginOK'
    <3>1. First \in tabs' => First \in tabs /\ First \notin closed
      BY <1>7 DEF CloseTabs
    <3>2. First \notin closed => shown'[First] = shown[First]
      BY <1>7 DEF CloseTabs
    <3>3. UNCHANGED <<pc, cookie, touched, loginDone, snap>>
      BY <1>7 DEF CloseTabs
    <3> QED
      BY <3>1, <3>2, <3>3 DEF LoginOK
  <2> QED
    BY <1>2, <1>3, <2>1, <2>2
<1> QED
  BY <1>4, <1>5, <1>6, <1>7 DEF Employee
-----------------------------------------------------------------------------
(* The program's steps.                                                    *)

LEMMA OpenInv ==
  ASSUME IndInv, Open
  PROVE  IndInv'
<1> USE FirstAssumption, FileAssumption DEF IndInv, Open, Goes
<1>1. TypeOK'
  <2>1. pc' \in Stages /\ tabs' \subseteq Tabs
    BY DEF Stages
  <2>2. cookie' \in Logins /\ shown' \in [Tabs -> Logins] /\ logins' \in Logins
    BY NoLogin DEF TypeOK
  <2>3. /\ snap' \in Captures \cup {None}
        /\ file' \in Captures \cup {None, Torn} /\ before' \in Captures \cup {None, Torn}
    BY DEF TypeOK
  <2> QED
    BY <2>1, <2>2, <2>3 DEF TypeOK
<1>2. TabsOK' /\ LoginOK'
  BY DEF TabsOK, LoginOK
<1>3. SnapOK' /\ FileOK'
  BY DEF SnapOK, FileOK
<1>4. TempsOK' /\ OldOrNew'
  BY DEF TempsOK, NoStrayTemp, OldOrNew, TypeOK
<1> QED
  BY <1>1, <1>2, <1>3, <1>4

\* Steps that write nothing and look at nothing but the window.
LEMMA WaitInv ==
  ASSUME IndInv,
         (\E ok \in BOOLEAN : Navigated(ok)) \/ LoginSeen \/ CloseSeen \/ Resume
         \/ CaptureFails \/ Cancel
  PROVE  IndInv'
<1> USE DEF IndInv, Goes
<1>1. UNCHANGED <<window, snap, disk, faults>>
      /\ pc \in {"opening", "waiting", "capturing cookies", "capturing storage"}
      /\ pc' \in {"waiting", "capturing cookies", "closing"}
  BY DEF Navigated, LoginSeen, CloseSeen, Resume, CaptureFails, Cancel
<1>2. /\ loginDone' \in BOOLEAN /\ closeDone' \in BOOLEAN
      /\ loginDone => loginDone'
      /\ pc' = "capturing cookies" => loginDone'
  <2>1. CASE LoginSeen
    BY <2>1 DEF LoginSeen, TypeOK
  <2>2. CASE CloseSeen
    BY <2>2 DEF CloseSeen, TypeOK
  <2>3. CASE Resume
    BY <2>3 DEF Resume, TypeOK
  <2>4. CASE (\E ok \in BOOLEAN : Navigated(ok)) \/ CaptureFails \/ Cancel
    <3>1. UNCHANGED <<loginDone, closeDone>> /\ pc' # "capturing cookies"
      BY <2>4 DEF Navigated, CaptureFails, Cancel
    <3> QED
      BY <3>1 DEF TypeOK
  <2> QED
    BY <2>1, <2>2, <2>3, <2>4
<1>3. TypeOK' /\ TabsOK'
  BY <1>1, <1>2 DEF TypeOK, TabsOK, window, disk, Stages
<1>4. LoginOK'
  <2>1. UNCHANGED <<tabs, cookie, shown, touched, snap>>
    BY <1>1 DEF window
  <2>2. ASSUME loginDone', pc' \in {"waiting", "capturing cookies"}, First \in tabs, ~touched
        PROVE  shown[First] # 0
    <3>1. CASE LoginSeen
      BY <3>1 DEF LoginSeen, Authenticated
    <3>2. CASE ~LoginSeen
      <4>1. loginDone /\ pc = "waiting"
        BY <2>2, <3>2 DEF Navigated, CloseSeen, Resume, CaptureFails, Cancel, SnapOK
      <4> QED
        BY <2>2, <4>1 DEF LoginOK
    <3> QED
      BY <3>1, <3>2
  <2>3. ~touched /\ First \in tabs /\ shown[First] # 0 => cookie = shown[First]
    BY DEF LoginOK
  <2>4. pc' # "capturing storage"
    BY <1>1
  <2> QED
    BY <2>1, <2>2, <2>3, <2>4 DEF LoginOK
<1>5. SnapOK' /\ FileOK'
  BY <1>1, <1>2 DEF SnapOK, FileOK, disk
<1>6. TempsOK' /\ OldOrNew'
  BY <1>1, <1>2 DEF TempsOK, NoStrayTemp, OldOrNew, window, disk
<1> QED
  BY <1>3, <1>4, <1>5, <1>6

LEMMA CaptureInv ==
  ASSUME IndInv, CaptureCookies \/ CaptureStorage
  PROVE  IndInv'
<1> USE FirstAssumption, FileAssumption DEF IndInv, Goes
<1>1. UNCHANGED <<window, loginDone, closeDone, disk, faults>>
  BY DEF CaptureCookies, CaptureStorage
<1>2. CASE CaptureCookies
  <2>1. /\ pc = "capturing cookies" /\ pc' = "capturing storage"
        /\ snap' \in Captures /\ snap'.cookie = cookie /\ snap'.touched
    BY <1>2, NoLogin DEF CaptureCookies, Captures, TypeOK
  <2>2. TypeOK' /\ TabsOK'
    BY <1>1, <2>1 DEF TypeOK, TabsOK, window, disk, Stages
  <2>3. LoginOK'
    BY <1>1, <2>1 DEF LoginOK, SnapOK, window
  <2>4. SnapOK' /\ FileOK'
    BY <1>1, <2>1 DEF SnapOK, OneLogin, FileOK, disk
  <2>5. TempsOK' /\ OldOrNew'
    BY <1>1, <2>1 DEF TempsOK, NoStrayTemp, OldOrNew, FileOK, window, disk
  <2> QED
    BY <2>2, <2>3, <2>4, <2>5
<1>3. CASE CaptureStorage
  <2>1. /\ pc = "capturing storage" /\ pc' = "writing" /\ snap \in Captures /\ First \in tabs
        /\ snap' = [snap EXCEPT !.session = shown[First], !.touched = touched]
    BY <1>3 DEF CaptureStorage, SnapOK
  <2>2. /\ snap' \in Captures /\ snap'.cookie = snap.cookie /\ snap'.session = shown[First]
        /\ snap'.touched = touched
    BY <2>1 DEF Captures, TypeOK
  <2>3. ~touched => snap.cookie = shown[First] /\ shown[First] # 0
    BY <2>1 DEF LoginOK, SnapOK
  <2>4. SnapOK' /\ FileOK'
    BY <1>1, <2>1, <2>2, <2>3 DEF SnapOK, OneLogin, FileOK, disk
  <2>5. TypeOK' /\ TabsOK'
    BY <1>1, <2>1, <2>2 DEF TypeOK, TabsOK, window, disk, Stages
  <2>6. LoginOK'
    BY <1>1, <2>1 DEF LoginOK, window
  <2>7. TempsOK' /\ OldOrNew'
    BY <1>1, <2>1 DEF TempsOK, NoStrayTemp, OldOrNew, FileOK, window, disk
  <2> QED
    BY <2>4, <2>5, <2>6, <2>7
<1> QED
  BY <1>2, <1>3

LEMMA SavingInv ==
  ASSUME IndInv, Saving
  PROVE  IndInv'
<1> USE FileAssumption, BoundsAssumption DEF IndInv, Goes
<1>1. /\ UNCHANGED <<window, loginDone, closeDone, snap, before>>
      /\ pc \in {"writing", "replacing"} /\ pc' \in {"replacing", "closing"}
      /\ file' = file \/ (file' = snap /\ pc' = "closing")
      /\ snap \in Captures /\ loginDone /\ file = before
  BY DEF Saving, WriteTemp, Replace, SaveFails, SnapOK, FileOK
<1>2. temps' \in Nat /\ faults' \in 0..MaxFaults /\ TempsOK'
  BY DEF Saving, WriteTemp, Replace, SaveFails, TypeOK, TempsOK, NoStrayTemp
<1>3. TypeOK' /\ TabsOK'
  BY <1>1, <1>2 DEF TypeOK, TabsOK, window, Stages
<1>4. LoginOK'
  BY <1>1 DEF LoginOK, window
<1>5. SnapOK' /\ FileOK' /\ OldOrNew'
  BY <1>1 DEF SnapOK, FileOK, OldOrNew, OneLogin
<1> QED
  BY <1>2, <1>3, <1>4, <1>5

LEMMA GoneInv ==
  ASSUME IndInv, Close \/ Crash
  PROVE  IndInv'
<1> USE BoundsAssumption DEF IndInv, Gone
<1>1. /\ UNCHANGED <<cookie, logins, touched, loginDone, closeDone, snap, disk>>
      /\ pc' = "idle" /\ tabs' = {} /\ shown' = [t \in Tabs |-> 0]
      /\ faults' \in 0..MaxFaults
      /\ temps <= faults'
  BY DEF Close, Crash, TypeOK, TempsOK, NoStrayTemp
<1>2. TypeOK' /\ TabsOK'
  <2>1. shown' \in [Tabs -> Logins] /\ pc' \in Stages
    BY <1>1, NoLogin DEF Stages
  <2> QED
    BY <1>1, <2>1 DEF TypeOK, TabsOK, disk
<1>3. LoginOK' /\ SnapOK' /\ FileOK'
  BY <1>1 DEF LoginOK, SnapOK, FileOK, disk
<1>4. TempsOK'
  <2>1. temps' <= faults' /\ faults' \in Nat
    BY <1>1 DEF disk
  <2> QED
    BY <1>1, <2>1 DEF TempsOK, NoStrayTemp
<1>5. OldOrNew'
  BY <1>1 DEF OldOrNew, disk
<1> QED
  BY <1>2, <1>3, <1>4, <1>5

\* The inductive invariant holds in every reachable state.
THEOREM Invariance == Spec => []IndInv
<1>1. IndInv /\ [Next]_vars => IndInv'
  <2> SUFFICES ASSUME IndInv, [Next]_vars PROVE IndInv'
    OBVIOUS
  <2>1. CASE Open
    BY <2>1, OpenInv
  <2>2. CASE Employee
    BY <2>2, EmployeeInv
  <2>3. CASE (\E ok \in BOOLEAN : Navigated(ok)) \/ LoginSeen \/ CloseSeen \/ Resume
             \/ CaptureFails \/ Cancel
    BY <2>3, WaitInv
  <2>4. CASE CaptureCookies \/ CaptureStorage
    BY <2>4, CaptureInv
  <2>5. CASE Saving
    BY <2>5, SavingInv
  <2>6. CASE Close \/ Crash
    BY <2>6, GoneInv
  <2>7. CASE UNCHANGED vars
    <3> USE <2>7 DEF vars, window, disk, IndInv
    <3>1. TypeOK' /\ TabsOK'
      BY DEF TypeOK, TabsOK
    <3>2. LoginOK' /\ SnapOK'
      BY DEF LoginOK, SnapOK
    <3>3. FileOK' /\ TempsOK'
      BY DEF FileOK, TempsOK, NoStrayTemp
    <3>4. OldOrNew'
      BY DEF OldOrNew
    <3> QED
      BY <3>1, <3>2, <3>3, <3>4
  <2> QED
    BY <2>1, <2>2, <2>3, <2>4, <2>5, <2>6, <2>7 DEF Next, Capturing
<1> QED
  BY InitInv, <1>1, PTL DEF Spec
-----------------------------------------------------------------------------
\* Every variable keeps its type.
THEOREM TypeCorrect == Spec => []TypeOK
<1>1. IndInv => TypeOK
  BY DEF IndInv
<1> QED
  BY Invariance, <1>1, PTL

\* The session file is replaced whole, after a login, or not at all.
THEOREM AtomicSave == Spec => []OldOrNew
<1>1. IndInv => OldOrNew
  BY DEF IndInv
<1> QED
  BY Invariance, <1>1, PTL

\* Both halves of what the next poll restores belong to one login.
THEOREM CapturesAreCoherent == Spec => []SavedIsOneLogin
<1>1. IndInv => SavedIsOneLogin
  BY DEF IndInv, TypeOK, FileOK, OneLogin, SavedIsOneLogin, Loaded
<1> QED
  BY Invariance, <1>1, PTL

\* A save that fails removes what it wrote.
THEOREM TempsAreRemoved == Spec => []NoStrayTemp
<1>1. IndInv => NoStrayTemp
  BY DEF IndInv, TempsOK
<1> QED
  BY Invariance, <1>1, PTL
=============================================================================
