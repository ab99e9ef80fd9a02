------------------------ MODULE SessionConnectorProofs ------------------------
(***************************************************************************)
(* Proofs of the safety properties of SessionConnector.                    *)
(***************************************************************************)
EXTENDS SessionConnector, TLAPS

\* The registry has an entry exactly while the lock is kept for it.
RegistryIsLock == keptBy # "none" <=> lock = "unconfirmed"

\* Cancellation belongs to the shutdown.
NoCancelWhileUp ==
  phase = "up" => cancelled = {} /\ \A u \in Tasks : body[u] # "cancelled"

\* A process that is not there has no task and no browser.
OffIsEmpty ==
  phase = "off" => /\ cancelled = {} /\ keptBy = "none" /\ ~wanted /\ strays = {}
                   /\ \A u \in Tasks : pc[u] = "none" /\ body[u] = "none"

\* What the work of a reader can have ended with.
BodyFits ==
  \A u \in Readers :
    body[u] \notin {"ok", "raised"} /\ (pc[u] = "closing" => body[u] # "none")

\* What each stage of the shutdown has left behind.
StagesDone ==
  /\ phase \in {"stop verify", "stop sync", "down"} => pc["login"] = "none"
  /\ phase \in {"stop sync", "down"} => pc["verify"] = "none" /\ ~wanted

IndInv ==
  /\ TypeOK
  /\ LockCoversBrowser
  /\ RegistryIsLock
  /\ UnconfirmedIsKept
  /\ OneConnection
  /\ BodyFits
  /\ NoCancelWhileUp
  /\ OffIsEmpty
  /\ StagesDone
  /\ UnclosedReaderIsShown
  /\ ShutdownIsClean

LEMMA InitInv == Init => IndInv
  BY DEF Init, IndInv, TypeOK, LockCoversBrowser, RegistryIsLock, UnconfirmedIsKept,
         OneConnection, BodyFits, NoCancelWhileUp, OffIsEmpty, StagesDone, Holders, Opened, Users, Tasks,
         UnclosedReaderIsShown, ShutdownIsClean, Readers, SessionStatus, Shutdown
-----------------------------------------------------------------------------
(* One lemma per action, one step per conjunct it may disturb.              *)

LEMMA ConnectInv ==
  ASSUME IndInv, Connect
  PROVE  IndInv'
<1> USE DEF IndInv, Connect, MayConnect, Goes
<1>1. TypeOK'
  BY DEF TypeOK
<1>2. LockCoversBrowser'
  BY DEF TypeOK, LockCoversBrowser, Holders, Opened, Users, Tasks
<1>3. RegistryIsLock' /\ UnconfirmedIsKept'
  BY DEF TypeOK, LockCoversBrowser, RegistryIsLock, UnconfirmedIsKept, NoCancelWhileUp,
         OffIsEmpty, Holders, Opened, Users, Tasks
<1>4. OneConnection' /\ BodyFits'
  BY DEF TypeOK, OneConnection, BodyFits, Users, Tasks, Readers, SessionStatus
<1>5. NoCancelWhileUp' /\ OffIsEmpty'
  BY DEF TypeOK, NoCancelWhileUp, OffIsEmpty, Users, Tasks, Readers, SessionStatus
<1>6. StagesDone' /\ ShutdownIsClean'
  BY DEF TypeOK, StagesDone, OneConnection, ShutdownIsClean, OffIsEmpty, Users, Tasks
<1>7. UnclosedReaderIsShown'
  BY DEF TypeOK, LockCoversBrowser, RegistryIsLock, NoCancelWhileUp, OffIsEmpty,
         UnclosedReaderIsShown, Holders, Opened, Users, Tasks, Readers
<1> QED
  BY <1>1, <1>2, <1>3, <1>4, <1>5, <1>6, <1>7

LEMMA EnterInv ==
  ASSUME NEW u \in {"login", "verify"}, IndInv, Enter(u)
  PROVE  IndInv'
<1> USE DEF IndInv, Enter, Acquire, Goes
<1>1. TypeOK'
  <2>1. lock' \in Users \cup {"free", "unconfirmed"}
    BY DEF TypeOK, Users, Tasks
  <2>2. pc' \in [Users -> {"none", "created"} \cup Opened]
    BY DEF TypeOK, Opened, Users, Tasks
  <2>3. session' \in SessionStatus
    BY DEF TypeOK, SessionStatus
  <2> QED
    BY <2>1, <2>2, <2>3 DEF TypeOK
<1>2. LockCoversBrowser'
  BY DEF TypeOK, LockCoversBrowser, Holders, Opened, Users, Tasks
<1>3. RegistryIsLock' /\ UnconfirmedIsKept'
  BY DEF TypeOK, LockCoversBrowser, RegistryIsLock, UnconfirmedIsKept, NoCancelWhileUp,
         OffIsEmpty, Holders, Opened, Users, Tasks
<1>4. OneConnection' /\ BodyFits'
  BY DEF TypeOK, OneConnection, BodyFits, Users, Tasks, Readers, SessionStatus
<1>5. NoCancelWhileUp' /\ OffIsEmpty'
  BY DEF TypeOK, NoCancelWhileUp, OffIsEmpty, Users, Tasks, Readers, SessionStatus
<1>6. StagesDone' /\ ShutdownIsClean'
  BY DEF TypeOK, StagesDone, OneConnection, ShutdownIsClean, OffIsEmpty, Users, Tasks
<1>7. UnclosedReaderIsShown'
  BY DEF TypeOK, LockCoversBrowser, RegistryIsLock, NoCancelWhileUp, OffIsEmpty,
         UnclosedReaderIsShown, Holders, Opened, Users, Tasks, Readers
<1> QED
  BY <1>1, <1>2, <1>3, <1>4, <1>5, <1>6, <1>7

LEMMA ExecuteInv ==
  ASSUME NEW who \in {"scheduler", "request", "sync"}, IndInv, Execute(who)
  PROVE  IndInv'
<1> USE DEF IndInv, Execute, Goes
<1>1. TypeOK'
  <2>1. lock' \in Users \cup {"free", "unconfirmed"}
    BY DEF TypeOK, Users, Tasks
  <2>2. pc' \in [Users -> {"none", "created"} \cup Opened]
    BY DEF TypeOK, Opened, Users, Tasks
  <2>3. wanted' \in BOOLEAN
    BY DEF TypeOK
  <2>4. runner' \in {"none", "scheduler", "request", "sync"}
    BY DEF TypeOK
  <2> QED
    BY <2>1, <2>2, <2>3, <2>4 DEF TypeOK
<1>2. LockCoversBrowser'
  BY DEF TypeOK, LockCoversBrowser, Holders, Opened, Users, Tasks
<1>3. RegistryIsLock' /\ UnconfirmedIsKept'
  BY DEF TypeOK, LockCoversBrowser, RegistryIsLock, UnconfirmedIsKept, NoCancelWhileUp,
         OffIsEmpty, Holders, Opened, Users, Tasks
<1>4. OneConnection' /\ BodyFits'
  BY DEF TypeOK, OneConnection, BodyFits, Users, Tasks, Readers, SessionStatus
<1>5. NoCancelWhileUp' /\ OffIsEmpty'
  BY DEF TypeOK, NoCancelWhileUp, OffIsEmpty, Users, Tasks, Readers, SessionStatus
<1>6. StagesDone' /\ ShutdownIsClean'
  BY DEF TypeOK, StagesDone, OneConnection, ShutdownIsClean, OffIsEmpty, Users, Tasks
<1>7. UnclosedReaderIsShown'
  BY DEF TypeOK, LockCoversBrowser, RegistryIsLock, NoCancelWhileUp, OffIsEmpty,
         UnclosedReaderIsShown, Holders, Opened, Users, Tasks, Readers
<1> QED
  BY <1>1, <1>2, <1>3, <1>4, <1>5, <1>6, <1>7

LEMMA RunCliInv ==
  ASSUME IndInv, RunCli
  PROVE  IndInv'
<1> USE DEF IndInv, RunCli, Goes
<1>1. TypeOK'
  <2>1. lock' \in Users \cup {"free", "unconfirmed"}
    BY DEF TypeOK, Users, Tasks
  <2>2. pc' \in [Users -> {"none", "created"} \cup Opened]
    BY DEF TypeOK, Opened, Users, Tasks
  <2> QED
    BY <2>1, <2>2 DEF TypeOK
<1>2. LockCoversBrowser'
  BY DEF TypeOK, LockCoversBrowser, Holders, Opened, Users, Tasks
<1>3. RegistryIsLock' /\ UnconfirmedIsKept'
  BY DEF TypeOK, LockCoversBrowser, RegistryIsLock, UnconfirmedIsKept, NoCancelWhileUp,
         OffIsEmpty, Holders, Opened, Users, Tasks
<1>4. OneConnection' /\ BodyFits'
  BY DEF TypeOK, OneConnection, BodyFits, Users, Tasks, Readers, SessionStatus
<1>5. NoCancelWhileUp' /\ OffIsEmpty'
  BY DEF TypeOK, NoCancelWhileUp, OffIsEmpty, Users, Tasks, Readers, SessionStatus
<1>6. StagesDone' /\ ShutdownIsClean'
  BY DEF TypeOK, StagesDone, OneConnection, ShutdownIsClean, OffIsEmpty, Users, Tasks
<1>7. UnclosedReaderIsShown'
  BY DEF TypeOK, LockCoversBrowser, RegistryIsLock, NoCancelWhileUp, OffIsEmpty,
         UnclosedReaderIsShown, Holders, Opened, Users, Tasks, Readers
<1> QED
  BY <1>1, <1>2, <1>3, <1>4, <1>5, <1>6, <1>7

LEMMA CliEndsInv ==
  ASSUME IndInv, CliEnds
  PROVE  IndInv'
<1> USE DEF IndInv, CliEnds, Finished, Goes
<1>1. TypeOK'
  BY DEF TypeOK
<1>2. LockCoversBrowser'
  BY DEF TypeOK, LockCoversBrowser, Holders, Opened, Users, Tasks
<1>3. RegistryIsLock' /\ UnconfirmedIsKept'
  BY DEF TypeOK, LockCoversBrowser, RegistryIsLock, UnconfirmedIsKept, NoCancelWhileUp,
         OffIsEmpty, Holders, Opened, Users, Tasks
<1>4. OneConnection' /\ BodyFits'
  BY DEF TypeOK, OneConnection, BodyFits, Users, Tasks, Readers, SessionStatus
<1>5. NoCancelWhileUp' /\ OffIsEmpty'
  BY DEF TypeOK, NoCancelWhileUp, OffIsEmpty, Users, Tasks, Readers, SessionStatus
<1>6. StagesDone' /\ ShutdownIsClean'
  BY DEF TypeOK, StagesDone, OneConnection, ShutdownIsClean, OffIsEmpty, Users, Tasks
<1>7. UnclosedReaderIsShown'
  BY DEF TypeOK, LockCoversBrowser, RegistryIsLock, NoCancelWhileUp, OffIsEmpty,
         UnclosedReaderIsShown, Holders, Opened, Users, Tasks, Readers
<1> QED
  BY <1>1, <1>2, <1>3, <1>4, <1>5, <1>6, <1>7

LEMMA LaunchedInv ==
  ASSUME NEW u \in Users, IndInv, Launched(u)
  PROVE  IndInv'
<1> USE DEF IndInv, Launched, Goes
<1>1. TypeOK'
  <2>1. pc' \in [Users -> {"none", "created"} \cup Opened]
    BY DEF TypeOK, Opened, Users, Tasks
  <2> QED
    BY <2>1 DEF TypeOK
<1>2. LockCoversBrowser'
  BY DEF TypeOK, LockCoversBrowser, Holders, Opened, Users, Tasks
<1>3. RegistryIsLock' /\ UnconfirmedIsKept'
  BY DEF TypeOK, LockCoversBrowser, RegistryIsLock, UnconfirmedIsKept, NoCancelWhileUp,
         OffIsEmpty, Holders, Opened, Users, Tasks
<1>4. OneConnection' /\ BodyFits'
  BY DEF TypeOK, OneConnection, BodyFits, Users, Tasks, Readers, SessionStatus
<1>5. NoCancelWhileUp' /\ OffIsEmpty'
  BY DEF TypeOK, NoCancelWhileUp, OffIsEmpty, Users, Tasks, Readers, SessionStatus
<1>6. StagesDone' /\ ShutdownIsClean'
  BY DEF TypeOK, StagesDone, OneConnection, ShutdownIsClean, OffIsEmpty, Users, Tasks
<1>7. UnclosedReaderIsShown'
  BY DEF TypeOK, LockCoversBrowser, RegistryIsLock, NoCancelWhileUp, OffIsEmpty,
         UnclosedReaderIsShown, Holders, Opened, Users, Tasks, Readers
<1> QED
  BY <1>1, <1>2, <1>3, <1>4, <1>5, <1>6, <1>7

LEMMA LaunchFailsInv ==
  ASSUME NEW u \in Users, NEW left \in BOOLEAN, IndInv, LaunchFails(u, left)
  PROVE  IndInv'
<1> USE DEF IndInv, LaunchFails, Goes
<1>1. TypeOK'
  <2>1. pc' \in [Users -> {"none", "created"} \cup Opened]
    BY DEF TypeOK, Opened, Users, Tasks
  <2>2. strays' \subseteq {"unclosed", "leaked"}
    BY DEF TypeOK
  <2>3. session' \in SessionStatus
    BY DEF TypeOK, SessionStatus
  <2> QED
    BY <2>1, <2>2, <2>3 DEF TypeOK
<1>2. LockCoversBrowser'
  BY DEF TypeOK, LockCoversBrowser, Holders, Opened, Users, Tasks
<1>3. RegistryIsLock' /\ UnconfirmedIsKept'
  BY DEF TypeOK, LockCoversBrowser, RegistryIsLock, UnconfirmedIsKept, NoCancelWhileUp,
         OffIsEmpty, Holders, Opened, Users, Tasks
<1>4. OneConnection' /\ BodyFits'
  BY DEF TypeOK, OneConnection, BodyFits, Users, Tasks, Readers, SessionStatus
<1>5. NoCancelWhileUp' /\ OffIsEmpty'
  BY DEF TypeOK, NoCancelWhileUp, OffIsEmpty, Users, Tasks, Readers, SessionStatus
<1>6. StagesDone' /\ ShutdownIsClean'
  BY DEF TypeOK, StagesDone, OneConnection, ShutdownIsClean, OffIsEmpty, Users, Tasks
<1>7. UnclosedReaderIsShown'
  BY DEF TypeOK, LockCoversBrowser, RegistryIsLock, NoCancelWhileUp, OffIsEmpty,
         UnclosedReaderIsShown, Holders, Opened, Users, Tasks, Readers
<1> QED
  BY <1>1, <1>2, <1>3, <1>4, <1>5, <1>6, <1>7

LEMMA WorksInv ==
  ASSUME NEW u \in Users, NEW ending \in Endings(u), NEW captured \in BOOLEAN, IndInv, WorkEnds(u, ending, captured)
  PROVE  IndInv'
<1> USE DEF IndInv, WorkEnds, Saves, Endings, Found, Goes
<1>1. TypeOK'
  <2>1. pc' \in [Users -> {"none", "created"} \cup Opened]
    BY DEF TypeOK, Opened, Users, Tasks
  <2>2. body' \in [Users -> {"none", "ok", "raised", "cancelled"} \cup SessionStatus]
    BY DEF TypeOK, Users, Tasks, SessionStatus, Readers
  <2>3. saved' \in BOOLEAN
    BY DEF TypeOK
  <2> QED
    BY <2>1, <2>2, <2>3 DEF TypeOK
<1>2. LockCoversBrowser'
  BY DEF TypeOK, LockCoversBrowser, Holders, Opened, Users, Tasks
<1>3. RegistryIsLock' /\ UnconfirmedIsKept'
  BY DEF TypeOK, LockCoversBrowser, RegistryIsLock, UnconfirmedIsKept, NoCancelWhileUp,
         OffIsEmpty, Holders, Opened, Users, Tasks
<1>4. OneConnection' /\ BodyFits'
  BY DEF TypeOK, OneConnection, BodyFits, Users, Tasks, Readers, SessionStatus
<1>5. NoCancelWhileUp' /\ OffIsEmpty'
  BY DEF TypeOK, NoCancelWhileUp, OffIsEmpty, Users, Tasks, Readers, SessionStatus
<1>6. StagesDone' /\ ShutdownIsClean'
  BY DEF TypeOK, StagesDone, OneConnection, ShutdownIsClean, OffIsEmpty, Users, Tasks
<1>7. UnclosedReaderIsShown'
  BY DEF TypeOK, LockCoversBrowser, RegistryIsLock, NoCancelWhileUp, OffIsEmpty,
         UnclosedReaderIsShown, Holders, Opened, Users, Tasks, Readers
<1> QED
  BY <1>1, <1>2, <1>3, <1>4, <1>5, <1>6, <1>7

LEMMA CloseInv ==
  ASSUME NEW u \in Users, IndInv, Close(u)
  PROVE  IndInv'
<1> USE DEF IndInv, Close
<1>1. TypeOK'
  <2>1. pc' \in [Users -> {"none", "created"} \cup Opened]
    BY DEF TypeOK, Opened, Users, Tasks
  <2>2. body' \in [Users -> {"none", "ok", "raised", "cancelled"} \cup SessionStatus]
    BY DEF TypeOK, Users, Tasks, SessionStatus
  <2>3. session' \in SessionStatus
    BY DEF TypeOK, SessionStatus, BodyFits, Readers
  <2>4. wanted' \in BOOLEAN
    BY DEF TypeOK
  <2> QED
    BY <2>1, <2>2, <2>3, <2>4 DEF TypeOK
<1>2. LockCoversBrowser'
  BY DEF TypeOK, LockCoversBrowser, Holders, Opened, Users, Tasks
<1>3. RegistryIsLock' /\ UnconfirmedIsKept'
  BY DEF TypeOK, LockCoversBrowser, RegistryIsLock, UnconfirmedIsKept, NoCancelWhileUp,
         OffIsEmpty, Holders, Opened, Users, Tasks
<1>4. OneConnection' /\ BodyFits'
  BY DEF TypeOK, OneConnection, BodyFits, Users, Tasks, Readers, SessionStatus
<1>5. NoCancelWhileUp' /\ OffIsEmpty'
  BY DEF TypeOK, NoCancelWhileUp, OffIsEmpty, Users, Tasks, Readers, SessionStatus
<1>6. StagesDone' /\ ShutdownIsClean'
  BY DEF TypeOK, StagesDone, OneConnection, ShutdownIsClean, OffIsEmpty, Users, Tasks
<1>7. UnclosedReaderIsShown'
  BY DEF TypeOK, LockCoversBrowser, RegistryIsLock, NoCancelWhileUp, OffIsEmpty,
         UnclosedReaderIsShown, Holders, Opened, Users, Tasks, Readers
<1> QED
  BY <1>1, <1>2, <1>3, <1>4, <1>5, <1>6, <1>7

LEMMA CloseFailsInv ==
  ASSUME NEW u \in Users, IndInv, CloseFails(u)
  PROVE  IndInv'
<1> USE DEF IndInv, CloseFails, StatusUnclosed, Unconfirmed, Finished, Goes
<1>1. TypeOK'
  <2>1. keptBy' \in Tasks \cup {"none"}
    BY DEF TypeOK
  <2>2. pc' \in [Users -> {"none", "created"} \cup Opened]
    BY DEF TypeOK, Opened, Users, Tasks
  <2>3. body' \in [Users -> {"none", "ok", "raised", "cancelled"} \cup SessionStatus]
    BY DEF TypeOK, Users, Tasks, SessionStatus
  <2>4. strays' \subseteq {"unclosed", "leaked"}
    BY DEF TypeOK
  <2>5. session' \in SessionStatus
    BY DEF TypeOK, SessionStatus
  <2> QED
    BY <2>1, <2>2, <2>3, <2>4, <2>5 DEF TypeOK
<1>2. LockCoversBrowser'
  BY DEF TypeOK, LockCoversBrowser, Holders, Opened, Users, Tasks
<1>3. RegistryIsLock' /\ UnconfirmedIsKept'
  BY DEF TypeOK, LockCoversBrowser, RegistryIsLock, UnconfirmedIsKept, NoCancelWhileUp,
         OffIsEmpty, Holders, Opened, Users, Tasks
<1>4. OneConnection' /\ BodyFits'
  BY DEF TypeOK, OneConnection, BodyFits, Users, Tasks, Readers, SessionStatus
<1>5. NoCancelWhileUp' /\ OffIsEmpty'
  BY DEF TypeOK, NoCancelWhileUp, OffIsEmpty, Users, Tasks, Readers, SessionStatus
<1>6. StagesDone' /\ ShutdownIsClean'
  BY DEF TypeOK, StagesDone, OneConnection, ShutdownIsClean, OffIsEmpty, Users, Tasks
<1>7. UnclosedReaderIsShown'
  BY DEF TypeOK, LockCoversBrowser, RegistryIsLock, NoCancelWhileUp, OffIsEmpty,
         UnclosedReaderIsShown, Holders, Opened, Users, Tasks, Readers
<1> QED
  BY <1>1, <1>2, <1>3, <1>4, <1>5, <1>6, <1>7

LEMMA CancelledInv ==
  ASSUME NEW u \in Tasks, IndInv, Cancelled(u)
  PROVE  IndInv'
<1> USE DEF IndInv, Cancelled, CancelLaunch, CancelClose, Unconfirmed, Finished, Goes
<1>1. TypeOK'
  <2>1. lock' \in Users \cup {"free", "unconfirmed"}
    BY DEF TypeOK, Users, Tasks
  <2>2. keptBy' \in Tasks \cup {"none"}
    BY DEF TypeOK
  <2>3. pc' \in [Users -> {"none", "created"} \cup Opened]
    BY DEF TypeOK, Opened, Users, Tasks
  <2>4. body' \in [Users -> {"none", "ok", "raised", "cancelled"} \cup SessionStatus]
    BY DEF TypeOK, Users, Tasks, SessionStatus
  <2>5. strays' \subseteq {"unclosed", "leaked"}
    BY DEF TypeOK
  <2>6. cancelled' \subseteq Tasks
    BY DEF TypeOK, Tasks
  <2> QED
    BY <2>1, <2>2, <2>3, <2>4, <2>5, <2>6 DEF TypeOK
<1>2. LockCoversBrowser'
  BY DEF TypeOK, LockCoversBrowser, Holders, Opened, Users, Tasks
<1>3. RegistryIsLock' /\ UnconfirmedIsKept'
  BY DEF TypeOK, LockCoversBrowser, RegistryIsLock, UnconfirmedIsKept, NoCancelWhileUp,
         OffIsEmpty, Holders, Opened, Users, Tasks
<1>4. OneConnection' /\ BodyFits'
  BY DEF TypeOK, OneConnection, BodyFits, Users, Tasks, Readers, SessionStatus
<1>5. NoCancelWhileUp' /\ OffIsEmpty'
  BY DEF TypeOK, NoCancelWhileUp, OffIsEmpty, Users, Tasks, Readers, SessionStatus
<1>6. StagesDone' /\ ShutdownIsClean'
  BY DEF TypeOK, StagesDone, OneConnection, ShutdownIsClean, OffIsEmpty, Users, Tasks
<1>7. UnclosedReaderIsShown'
  BY DEF TypeOK, LockCoversBrowser, RegistryIsLock, NoCancelWhileUp, OffIsEmpty,
         UnclosedReaderIsShown, Holders, Opened, Users, Tasks, Readers
<1> QED
  BY <1>1, <1>2, <1>3, <1>4, <1>5, <1>6, <1>7

LEMMA StopInv ==
  ASSUME IndInv, StopStep
  PROVE  IndInv'
<1> USE DEF IndInv, StopStep, Stop, Ask, PollOf
<1>1. TypeOK'
  <2>1. wanted' \in BOOLEAN
    BY DEF TypeOK
  <2>2. cancelled' \subseteq Tasks
    BY DEF TypeOK, Tasks
  <2>3. phase' \in {"off", "up"} \cup Shutdown
    BY DEF TypeOK, Shutdown
  <2> QED
    BY <2>1, <2>2, <2>3 DEF TypeOK
<1>2. LockCoversBrowser'
  BY DEF TypeOK, LockCoversBrowser, Holders, Opened, Users, Tasks
<1>3. RegistryIsLock' /\ UnconfirmedIsKept'
  BY DEF TypeOK, LockCoversBrowser, RegistryIsLock, UnconfirmedIsKept, NoCancelWhileUp,
         OffIsEmpty, Holders, Opened, Users, Tasks
<1>4. OneConnection' /\ BodyFits'
  BY DEF TypeOK, OneConnection, BodyFits, Users, Tasks, Readers, SessionStatus
<1>5. NoCancelWhileUp' /\ OffIsEmpty'
  BY DEF TypeOK, NoCancelWhileUp, OffIsEmpty, Users, Tasks, Readers, SessionStatus
<1>6. StagesDone' /\ ShutdownIsClean'
  <2>1. StagesDone'
    <3>1. phase' \in {"stop sync", "down"} => wanted' = FALSE
      BY DEF StagesDone, TypeOK
    <3>2. phase' \in {"stop verify", "stop sync", "down"} => pc["login"] = "none"
      BY DEF StagesDone
    <3>3. phase' \in {"stop sync", "down"} => pc["verify"] = "none"
      BY DEF StagesDone
    <3> QED
      BY <3>1, <3>2, <3>3 DEF StagesDone
  <2>2. phase' = "down" => \A u \in Tasks : pc[u] = "none"
    BY DEF StagesDone, ShutdownIsClean, Tasks
  <2> QED
    BY <2>1, <2>2 DEF StagesDone, ShutdownIsClean
<1>7. UnclosedReaderIsShown'
  BY DEF TypeOK, LockCoversBrowser, RegistryIsLock, NoCancelWhileUp, OffIsEmpty,
         UnclosedReaderIsShown, Holders, Opened, Users, Tasks, Readers
<1> QED
  BY <1>1, <1>2, <1>3, <1>4, <1>5, <1>6, <1>7

LEMMA ExitInv ==
  ASSUME IndInv, Exit
  PROVE  IndInv'
<1> USE DEF IndInv, Exit
<1>1. TypeOK'
  BY DEF TypeOK
<1>2. LockCoversBrowser'
  BY DEF TypeOK, LockCoversBrowser, Holders, Opened, Users, Tasks
<1>3. RegistryIsLock' /\ UnconfirmedIsKept'
  BY DEF TypeOK, LockCoversBrowser, RegistryIsLock, UnconfirmedIsKept, NoCancelWhileUp,
         OffIsEmpty, Holders, Opened, Users, Tasks
<1>4. OneConnection' /\ BodyFits'
  BY DEF TypeOK, OneConnection, BodyFits, Users, Tasks, Readers, SessionStatus
<1>5. NoCancelWhileUp' /\ OffIsEmpty'
  BY DEF TypeOK, NoCancelWhileUp, OffIsEmpty, Users, Tasks, Readers, SessionStatus
<1>6. StagesDone' /\ ShutdownIsClean'
  BY DEF TypeOK, StagesDone, OneConnection, ShutdownIsClean, OffIsEmpty, Users, Tasks
<1>7. UnclosedReaderIsShown'
  BY DEF TypeOK, LockCoversBrowser, RegistryIsLock, NoCancelWhileUp, OffIsEmpty,
         UnclosedReaderIsShown, Holders, Opened, Users, Tasks, Readers
<1> QED
  BY <1>1, <1>2, <1>3, <1>4, <1>5, <1>6, <1>7

LEMMA StartInv ==
  ASSUME IndInv, Start
  PROVE  IndInv'
<1> USE DEF IndInv, Start
<1>1. TypeOK'
  BY DEF TypeOK
<1>2. LockCoversBrowser'
  BY DEF TypeOK, LockCoversBrowser, Holders, Opened, Users, Tasks
<1>3. RegistryIsLock' /\ UnconfirmedIsKept'
  BY DEF TypeOK, LockCoversBrowser, RegistryIsLock, UnconfirmedIsKept, NoCancelWhileUp,
         OffIsEmpty, Holders, Opened, Users, Tasks
<1>4. OneConnection' /\ BodyFits'
  BY DEF TypeOK, OneConnection, BodyFits, Users, Tasks, Readers, SessionStatus
<1>5. NoCancelWhileUp' /\ OffIsEmpty'
  BY DEF TypeOK, NoCancelWhileUp, OffIsEmpty, Users, Tasks, Readers, SessionStatus
<1>6. StagesDone' /\ ShutdownIsClean'
  BY DEF TypeOK, StagesDone, OneConnection, ShutdownIsClean, OffIsEmpty, Users, Tasks
<1>7. UnclosedReaderIsShown'
  BY DEF TypeOK, LockCoversBrowser, RegistryIsLock, NoCancelWhileUp, OffIsEmpty,
         UnclosedReaderIsShown, Holders, Opened, Users, Tasks, Readers
<1> QED
  BY <1>1, <1>2, <1>3, <1>4, <1>5, <1>6, <1>7

LEMMA StutterInv ==
  ASSUME IndInv, UNCHANGED vars
  PROVE  IndInv'
<1> USE DEF IndInv, vars
<1>1. TypeOK'
  BY DEF TypeOK
<1>2. LockCoversBrowser'
  BY DEF TypeOK, LockCoversBrowser, Holders, Opened, Users, Tasks
<1>3. RegistryIsLock' /\ UnconfirmedIsKept'
  BY DEF TypeOK, LockCoversBrowser, RegistryIsLock, UnconfirmedIsKept, NoCancelWhileUp,
         OffIsEmpty, Holders, Opened, Users, Tasks
<1>4. OneConnection' /\ BodyFits'
  BY DEF TypeOK, OneConnection, BodyFits, Users, Tasks, Readers, SessionStatus
<1>5. NoCancelWhileUp' /\ OffIsEmpty'
  BY DEF TypeOK, NoCancelWhileUp, OffIsEmpty, Users, Tasks, Readers, SessionStatus
<1>6. StagesDone' /\ ShutdownIsClean'
  BY DEF TypeOK, StagesDone, OneConnection, ShutdownIsClean, OffIsEmpty, Users, Tasks
<1>7. UnclosedReaderIsShown'
  BY DEF TypeOK, LockCoversBrowser, RegistryIsLock, NoCancelWhileUp, OffIsEmpty,
         UnclosedReaderIsShown, Holders, Opened, Users, Tasks, Readers
<1> QED
  BY <1>1, <1>2, <1>3, <1>4, <1>5, <1>6, <1>7
-----------------------------------------------------------------------------
\* The inductive invariant holds in every reachable state.
THEOREM Invariance == Spec => []IndInv
<1>1. IndInv /\ [Next]_vars => IndInv'
  <2> SUFFICES ASSUME IndInv, [Next]_vars PROVE IndInv'
    OBVIOUS
  <2>1. CASE Start \/ Exit
    BY <2>1, StartInv, ExitInv
  <2>2. CASE StopStep
    BY <2>2, StopInv
  <2>3. CASE Connect
    BY <2>3, ConnectInv
  <2>4. CASE RunCli \/ CliEnds
    BY <2>4, RunCliInv, CliEndsInv
  <2>5. CASE \E u \in {"login", "verify"} : Enter(u)
    BY <2>5, EnterInv
  <2>6. CASE \E who \in {"scheduler", "request", "sync"} : Execute(who)
    BY <2>6, ExecuteInv
  <2>7. CASE \E u \in Users : Opens(u) \/ Works(u) \/ Closes(u)
    BY <2>7, LaunchedInv, LaunchFailsInv, WorksInv, CloseInv, CloseFailsInv DEF Opens, Works, Closes
  <2>8. CASE \E u \in Tasks : Cancelled(u)
    BY <2>8, CancelledInv
  <2>9. CASE UNCHANGED vars
    BY <2>9, StutterInv
  <2> QED
    BY <2>1, <2>2, <2>3, <2>4, <2>5, <2>6, <2>7, <2>8, <2>9 DEF Next
<1> QED
  BY InitInv, <1>1, PTL DEF Spec
-----------------------------------------------------------------------------
\* Every variable keeps its type.
THEOREM TypeCorrect == Spec => []TypeOK
<1>1. IndInv => TypeOK
  BY DEF IndInv
<1> QED
  BY Invariance, <1>1, PTL

\* No two users of the profile ever have a browser under control together.
THEOREM ProfileIsExclusive == Spec => []LockCoversBrowser
<1>1. IndInv => LockCoversBrowser
  BY DEF IndInv
<1> QED
  BY Invariance, <1>1, PTL

\* Until the application shuts down, a browser whose close was not confirmed
\* keeps the profile for as long as it may be running, whoever opened it.
THEOREM UnconfirmedKeepsProfile == Spec => []UnconfirmedIsKept
<1>1. IndInv => UnconfirmedIsKept
  BY DEF IndInv
<1> QED
  BY Invariance, <1>1, PTL

\* There is never a second connection while one is open or being verified.
THEOREM ConnectionsDoNotOverlap == Spec => []OneConnection
<1>1. IndInv => OneConnection
  BY DEF IndInv
<1> QED
  BY Invariance, <1>1, PTL

\* A poll or verification that could not close its browser shows as ERROR.
THEOREM UnclosedReaders == Spec => []UnclosedReaderIsShown
<1>1. IndInv => UnclosedReaderIsShown
  BY DEF IndInv
<1> QED
  BY Invariance, <1>1, PTL

\* The shutdown awaits every task there is, and every task they start.
THEOREM Shutdowns == Spec => []ShutdownIsClean
<1>1. IndInv => ShutdownIsClean
  BY DEF IndInv
<1> QED
  BY Invariance, <1>1, PTL

\* READY after VERIFYING is what this verification found and not an older
\* status, whatever else the profile was wanted for meanwhile.
THEOREM CardIsHonest == Spec => ReadyIsEarned
<1> DEFINE Earned == phase = "up" /\ phase' = "up" /\ Card = "VERIFYING" /\ Card' = "READY" =>
                       body["verify"] = "READY" /\ lock' = "free"
<1>1. ASSUME IndInv, [Next]_vars PROVE Earned
  <2> SUFFICES ASSUME phase = "up", phase' = "up", Card = "VERIFYING", Card' = "READY"
               PROVE  body["verify"] = "READY" /\ lock' = "free"
    OBVIOUS
  <2>0. TypeOK /\ NoCancelWhileUp
    BY <1>1 DEF IndInv
  <2>1. /\ pc["login"] = "none" /\ pc["verify"] # "none" /\ cancelled = {}
        /\ body["verify"] # "cancelled"
    BY <2>0 DEF Card, SessionStatus, TypeOK, NoCancelWhileUp, Tasks
  <2>2. pc'["login"] = "none" /\ pc'["verify"] = "none" /\ session' = "READY"
    BY DEF Card
  <2> USE DEF TypeOK, Users, Tasks, Goes
  <2>3. CASE \E u \in {"login", "verify"} : Enter(u)
    BY <2>0, <2>1, <2>2, <2>3 DEF Enter, Acquire
  <2>4. CASE \E u \in Users : Close(u)
    <3>1. Close("verify")
      BY <2>0, <2>1, <2>2, <2>4 DEF Close
    <3> QED
      BY <2>1, <2>2, <3>1 DEF Close, Readers
  <2>5. CASE \E u \in Users : CloseFails(u)
    <3>1. CloseFails("verify")
      BY <2>0, <2>1, <2>2, <2>5 DEF CloseFails, Finished
    <3> QED
      BY <2>1, <2>2, <3>1 DEF CloseFails, StatusUnclosed, Readers
  <2>6. CASE \E u \in Users : Opens(u)
    <3>1. CASE \E u \in Users : Launched(u)
      BY <2>0, <2>1, <2>2, <3>1 DEF Launched
    <3>2. CASE \E u \in Users, left \in BOOLEAN : LaunchFails(u, left)
      BY <2>0, <2>1, <2>2, <3>2 DEF LaunchFails, Readers
    <3> QED
      BY <2>6, <3>1, <3>2 DEF Opens
  <2>7. CASE \E u \in Users : Works(u)
    BY <2>0, <2>1, <2>2, <2>7 DEF Works, WorkEnds
  <2>8. CASE \E u \in Tasks : Cancelled(u)
    BY <2>1, <2>8 DEF Cancelled
  <2>9. CASE Start \/ Exit \/ StopStep \/ Connect \/ UNCHANGED vars
    BY <2>0, <2>1, <2>2, <2>9 DEF Start, Exit, StopStep, Connect, vars
  <2>10. CASE RunCli \/ CliEnds
    BY <2>0, <2>1, <2>2, <2>10 DEF RunCli, CliEnds, Finished
  <2>11. CASE \E who \in {"scheduler", "request", "sync"} : Execute(who)
    BY <2>0, <2>1, <2>2, <2>11 DEF Execute
  <2> QED
    BY <1>1, <2>3, <2>4, <2>5, <2>6, <2>7, <2>8, <2>9, <2>10, <2>11 DEF Next, Closes
<1>2. ASSUME IndInv, [Next]_vars PROVE [Earned]_vars
  BY <1>1, <1>2
<1> QED
  BY Invariance, <1>2, PTL DEF Spec, ReadyIsEarned
-----------------------------------------------------------------------------
(* The refinement of ProfileUse.                                           *)

\* A step that takes the lock, gives it up, gives it up with a window that may
\* be running, keeps it for good, or leaves it alone.
Unclosed == "unclosed" \in strays
Life == IF phase \in Shutdown THEN "ending" ELSE phase
Takes == \E u \in Users : lock = "free" /\ lock' = u /\ Life' = Life /\ Unclosed' = Unclosed
                          /\ (u \in Tasks => Life # "off")
Gives == \E u \in Users : lock = u /\ lock' = "free" /\ Life' = Life /\ Unclosed' = Unclosed
Drops == lock = "login" /\ lock' = "free" /\ Life = "ending" /\ Life' = Life /\ Unclosed'
Keeps == \E u \in Tasks : lock = u /\ lock' = "unconfirmed" /\ Life' = Life /\ Unclosed'
Leaves == lock' = lock /\ Unclosed' = Unclosed
          /\ (Life' = Life \/ (Life = "up" /\ Life' = "ending"))

\* What each step but a start and an exit does to the lock.
LEMMA LockMoves ==
  ASSUME IndInv, [Next]_vars, ~Start, ~Exit
  PROVE  Takes \/ Gives \/ Drops \/ Keeps \/ Leaves
<1> USE DEF Users, Tasks, Unclosed
<1>0. /\ \A u \in Users : pc[u] \in Opened => lock = u
      /\ \A u \in Tasks : pc[u] # "none" => phase # "off"
      /\ wanted => phase # "off"
      /\ cancelled # {} => phase \in Shutdown
      /\ phase \in {"off", "up"} \cup Shutdown
  BY DEF IndInv, LockCoversBrowser, Holders, OffIsEmpty, NoCancelWhileUp, TypeOK
<1>00. /\ Life = "off" <=> phase = "off"
       /\ phase \in Shutdown => Life = "ending"
       /\ phase' = phase => Life' = Life
  BY DEF Life, Shutdown
<1>1. CASE StopStep \/ Connect \/ UNCHANGED vars
  BY <1>1 DEF StopStep, Stop, Connect, vars, Leaves, Life, Shutdown
<1>2. CASE RunCli \/ CliEnds
  BY <1>0, <1>00, <1>2 DEF RunCli, CliEnds, Takes, Gives
<1>3. ASSUME NEW u \in {"login", "verify"}, Enter(u) PROVE Takes \/ Leaves
  BY <1>0, <1>00, <1>3 DEF Enter, Acquire, Takes, Leaves
<1>4. ASSUME NEW who \in {"scheduler", "request", "sync"}, Execute(who) PROVE Takes \/ Leaves
  BY <1>0, <1>00, <1>4 DEF Execute, Takes, Leaves
<1>5. ASSUME NEW u \in Users, Opens(u) PROVE Gives \/ Leaves
  BY <1>0, <1>00, <1>5 DEF Opens, Launched, LaunchFails, Opened, Gives, Leaves
<1>6. ASSUME NEW u \in Users, Works(u) PROVE Leaves
  BY <1>00, <1>6 DEF Works, WorkEnds, Leaves
<1>7. ASSUME NEW u \in Users, Closes(u) PROVE Gives \/ Keeps
  BY <1>0, <1>00, <1>7 DEF Closes, Close, CloseFails, Unconfirmed, Opened, Gives, Keeps
<1>8. ASSUME NEW u \in Tasks, Cancelled(u) PROVE Gives \/ Drops \/ Keeps \/ Leaves
  <2>1. phase' = phase /\ phase \in Shutdown /\ Life = "ending" /\ Life' = Life
    BY <1>0, <1>00, <1>8 DEF Cancelled
  <2>2. CASE \E left \in BOOLEAN : CancelLaunch(u, left)
    BY <1>0, <2>1, <2>2 DEF CancelLaunch, Opened, Gives
  <2>3. CASE CancelClose(u)
    BY <1>0, <2>1, <2>3 DEF CancelClose, Unconfirmed, Readers, Opened, Drops, Keeps
  <2>4. CASE UNCHANGED <<lock, strays>>
    BY <2>1, <2>4 DEF Leaves
  <2> QED
    BY <1>8, <2>2, <2>3, <2>4 DEF Cancelled
<1> QED
  BY <1>1, <1>2, <1>3, <1>4, <1>5, <1>6, <1>7, <1>8 DEF Next

LEMMA StepUses ==
  ASSUME IndInv, IndInv', [Next]_vars
  PROVE  [Profile!ProfileNext]_(Profile!profileVars)
<1> DEFINE users == {u \in Users : lock = u}
           next == {u \in Users : lock' = u}
<1>0. Holders = users /\ Holders' = next
  <2>1. Holders = users
    BY DEF IndInv, LockCoversBrowser, Holders
  <2>2. Holders' = next
    BY DEF IndInv, LockCoversBrowser, Holders
  <2> QED
    BY <2>1, <2>2
<1> USE DEF Life, Unclosed
<1>1. CASE Start
  BY <1>0, <1>1 DEF Start, Shutdown, Profile!Begin, Profile!ProfileNext
<1>2. CASE Exit
  <2>1. next = users \ Tasks /\ lock' # "unconfirmed" /\ strays' = {}
    BY <1>2 DEF Exit, Users, Tasks, IndInv, TypeOK
  <2>2. phase # "off" /\ phase' = "off" /\ phase' \notin Shutdown
    BY <1>2 DEF Exit, Shutdown
  <2>3. (IF phase \in Shutdown THEN "ending" ELSE phase) # "off"
    BY <2>2
  <2>4. Profile!Die
    BY <1>0, <2>1, <2>2, <2>3 DEF Profile!Die
  <2> QED
    BY <2>4 DEF Profile!ProfileNext
<1>3. CASE Takes
  <2>1. PICK u \in Users : lock = "free" /\ lock' = u /\ Life' = Life /\ Unclosed' = Unclosed
                           /\ (u \in Tasks => Life # "off")
    BY <1>3 DEF Takes
  <2>2. users = {} /\ next = {u} /\ lock' # "unconfirmed"
    BY <2>1 DEF Users, Tasks
  <2> QED
    BY <1>0, <2>1, <2>2 DEF Users, Profile!Open, Profile!ProfileNext
<1>4. CASE Gives
  <2>1. PICK u \in Users : lock = u /\ lock' = "free" /\ Life' = Life /\ Unclosed' = Unclosed
    BY <1>4 DEF Gives
  <2>2. users = {u} /\ next = {} /\ lock # "unconfirmed"
    BY <2>1 DEF Users, Tasks
  <2> QED
    BY <1>0, <2>1, <2>2 DEF Users, Profile!Close, Profile!ProfileNext
<1>5. CASE Keeps
  <2>1. PICK u \in Tasks : lock = u /\ lock' = "unconfirmed" /\ Life' = Life /\ Unclosed'
    BY <1>5 DEF Keeps
  <2>2. users = {u} /\ next = {}
    BY <2>1 DEF Users, Tasks
  <2> QED
    BY <1>0, <2>1, <2>2 DEF Users, Profile!Abandon, Profile!ProfileNext
<1>6. CASE Drops
  <2>1. users = {"login"} /\ next = {} /\ lock # "unconfirmed" /\ lock' # "unconfirmed"
    BY <1>6 DEF Drops, Users, Tasks
  <2> QED
    BY <1>0, <1>6, <2>1 DEF Drops, Users, Tasks, Profile!Abandon, Profile!ProfileNext
<1>7. CASE Leaves
  <2>1. Holders' = Holders /\ Unclosed' = Unclosed /\ (lock' = "unconfirmed") = (lock = "unconfirmed")
    BY <1>0, <1>7 DEF Leaves
  <2> QED
    BY <1>7, <2>1 DEF Leaves, Profile!End, Profile!ProfileNext, Profile!profileVars
<1> QED
  BY <1>1, <1>2, <1>3, <1>4, <1>5, <1>6, <1>7, LockMoves

\* The lock file and the registry implement ProfileUse: browsers under control
\* follow one another, and one that was not closed is the last of its process,
\* a login window that a shutdown interrupts in its close excepted.
THEOREM ProfileIsUsedInTurn == Spec => ImplementsProfile
<1>1. Init => Profile!ProfileInit
  BY DEF Init, Profile!ProfileInit, Holders, Opened, Users, Tasks, Shutdown
<1>2. IndInv /\ IndInv' /\ [Next]_vars => [Profile!ProfileNext]_(Profile!profileVars)
  BY StepUses
<1> QED
  BY <1>1, <1>2, Invariance, PTL DEF Spec, ImplementsProfile, Profile!ProfileSpec
=============================================================================
