------------------------------ MODULE SyncQueue ------------------------------
(***************************************************************************)
(* SyncAgreementQueue.execute(): concurrent callers coalesced onto the     *)
(* poll already running, by an asyncio.Lock and an in-flight Future, with  *)
(* the callers it has: the PollScheduler loop, the synchronization that    *)
(* SessionConnector starts after a login, and manual refresh requests; and *)
(* the shutdown of the application, which cancels the first two.           *)
(*                                                                         *)
(* The poll itself (DossierSync) is one step here: it ends with a result,  *)
(* an exception, or the cancellation of the task that runs it.  Nothing is *)
(* awaited between the test of the lock and its acquisition, so both are   *)
(* one action.                                                             *)
(***************************************************************************)
EXTENDS Naturals, Sequences

CONSTANTS
  Scheduler,  \* the rma-portal-poller task
  Connector,  \* SessionConnector's sync task
  Requests,   \* POST /refresh requests
  MaxPolls    \* bound: polls started in a behaviour

ASSUME CallersAssumption ==
  Scheduler # Connector /\ Scheduler \notin Requests /\ Connector \notin Requests
ASSUME MaxPollsAssumption == MaxPolls \in Nat

VARIABLES
  lock,      \* asyncio.Lock: locked
  inflight,  \* _inflight: number of the poll whose Future it is, 0 for None
  future,    \* [1..MaxPolls -> Outcomes \cup {"none", "pending"}]
  caller,    \* [Callers -> [pc, poll, outcome]]
  cancelled, \* tasks on which cancel() was called
  phase,     \* the lifespan of the application
  last,      \* number of the latest poll
  since      \* history: last poll already over when each caller called

vars == <<lock, inflight, future, caller, cancelled, phase, last, since>>

Callers  == {Scheduler, Connector} \cup Requests
Outcomes == {"result", "error", "cancelled"}
Polls    == 1..MaxPolls
Phases   == {"up", "stop scheduler", "stop connector", "down"}

\* "answered": execute() has returned or raised, with outcome.
Idle == [pc |-> "idle", poll |-> 0, outcome |-> "none"]
CallerStates == [pc : {"idle", "running", "waiting", "answered", "dead"},
                 poll : 0..MaxPolls, outcome : Outcomes \cup {"none"}]

Init ==
  /\ lock = FALSE /\ inflight = 0 /\ last = 0
  /\ future = [n \in Polls |-> "none"]
  /\ caller = [c \in Callers |-> Idle]
  /\ since = [c \in Callers |-> 0]
  /\ cancelled = {} /\ phase = "up"

Goes(c, pc, poll, outcome) ==
  caller' = [caller EXCEPT ![c] = [pc |-> pc, poll |-> poll, outcome |-> outcome]]
-----------------------------------------------------------------------------
\* Slip: a call joins the latest poll even when it is over.
JoinsLatest == last > 0

\* The shield path of execute().
Joins == lock /\ inflight # 0

Execute(c) ==
  /\ caller[c].pc = "idle"
  /\ c \notin cancelled
  /\ c = Connector => phase \in {"up", "stop scheduler"}
  /\ since' = [since EXCEPT ![c] = IF lock THEN last - 1 ELSE last]
  /\ \/ /\ Joins
        /\ Goes(c, "waiting", last, "none")
        /\ UNCHANGED <<lock, inflight, future, last>>
     \/ /\ ~Joins
        /\ last < MaxPolls /\ last' = last + 1
        /\ future' = [future EXCEPT ![last + 1] = "pending"]
        /\ inflight' = last + 1
        /\ lock' = TRUE
        /\ Goes(c, "running", last + 1, "none")
  /\ UNCHANGED <<cancelled, phase>>

\* Slip: "except Exception" lets a cancellation pass by the Future.
EndPollUnpublished(c, outcome) ==
  /\ future' = IF outcome = "cancelled" THEN future
               ELSE [future EXCEPT ![caller[c].poll] = outcome]
  /\ inflight' = 0 /\ lock' = FALSE
  /\ Goes(c, "answered", caller[c].poll, outcome)

\* set_result or set_exception, then _inflight = None and the lock released,
\* before any other task runs.
EndPoll(c, outcome) ==
  /\ future' = [future EXCEPT ![caller[c].poll] = outcome]
  /\ inflight' = 0 /\ lock' = FALSE
  /\ Goes(c, "answered", caller[c].poll, outcome)

\* CancelledError only reaches a runner whose task was cancelled.
Complete(c) ==
  /\ caller[c].pc = "running"
  /\ \E outcome \in Outcomes :
       /\ outcome = "cancelled" => c \in cancelled
       /\ EndPoll(c, outcome)
  /\ UNCHANGED <<cancelled, phase, last, since>>

\* A shielding task resumes, in a later turn of the loop, with whatever its
\* Future holds: the exception of a cancelled runner is a CancelledError.
Resume(c) ==
  /\ caller[c].pc = "waiting" /\ future[caller[c].poll] \in Outcomes
  /\ Goes(c, "answered", caller[c].poll, future[caller[c].poll])
  /\ UNCHANGED <<lock, inflight, future, cancelled, phase, last, since>>

\* cancel() on a shielding task: the Future it waits for is left alone.
CancelWaiter(c) ==
  /\ caller[c].pc = "waiting" /\ c \in cancelled
  /\ Goes(c, "answered", caller[c].poll, "cancelled")
  /\ UNCHANGED <<lock, inflight, future, cancelled, phase, last, since>>

\* What the caller does with the answer.  PollScheduler._loop re-raises
\* CancelledError, and dies, and logs any other exception; a request
\* responds; the sync task ends, for SessionConnector to make another later.
Proceed(c) ==
  /\ caller[c].pc = "answered"
  /\ IF c = Scheduler /\ caller[c].outcome = "cancelled"
     THEN Goes(c, "dead", 0, "none") ELSE caller' = [caller EXCEPT ![c] = Idle]
  /\ since' = [since EXCEPT ![c] = 0]
  /\ UNCHANGED <<lock, inflight, future, cancelled, phase, last>>

\* The scheduler's task is cancelled between two polls, in asyncio.sleep().
SchedulerStops ==
  /\ caller[Scheduler].pc = "idle" /\ Scheduler \in cancelled
  /\ Goes(Scheduler, "dead", 0, "none")
  /\ UNCHANGED <<lock, inflight, future, cancelled, phase, last, since>>
-----------------------------------------------------------------------------
\* Slip: the connector is shut down first.
StopConnectorFirst ==
  \/ /\ phase = "up" /\ phase' = "stop connector"
     /\ cancelled' = IF caller[Connector].pc = "idle" THEN {} ELSE {Connector}
  \/ /\ phase = "stop connector" /\ caller[Connector].pc = "idle"
     /\ phase' = "stop scheduler" /\ cancelled' = {Connector, Scheduler}
  \/ /\ phase = "stop scheduler" /\ caller[Scheduler].pc = "dead"
     /\ phase' = "down" /\ UNCHANGED cancelled

\* Slip: the loop is awaited and not cancelled.
StopWithoutCancel ==
  \/ /\ phase = "up" /\ phase' = "stop scheduler" /\ UNCHANGED cancelled
  \/ /\ phase = "stop scheduler" /\ caller[Scheduler].pc = "dead"
     /\ phase' = "down" /\ cancelled' = {Connector}

\* lifespan: scheduler.stop() cancels the loop and awaits it, then
\* session_connector.shutdown() cancels the sync task and awaits it.
Stop ==
  \/ /\ phase = "up" /\ phase' = "stop scheduler"
     /\ cancelled' = {Scheduler}
  \/ /\ phase = "stop scheduler" /\ caller[Scheduler].pc = "dead"
     /\ phase' = "stop connector"
     /\ cancelled' = IF caller[Connector].pc = "idle" THEN cancelled
                     ELSE cancelled \cup {Connector}
  \/ /\ phase = "stop connector" /\ caller[Connector].pc = "idle"
     /\ phase' = "down" /\ UNCHANGED cancelled

Shutdown == Stop /\ UNCHANGED <<lock, inflight, future, caller, last, since>>

Next ==
  \/ \E c \in Callers : Execute(c) \/ Complete(c) \/ Resume(c) \/ CancelWaiter(c)
                        \/ Proceed(c)
  \/ SchedulerStops
  \/ Shutdown

Spec == Init /\ [][Next]_vars

\* A running poll ends (DossierSync's PollEnds), a ready task is resumed, and
\* a shutdown that began is carried on.
FairSpec ==
  /\ Spec
  /\ \A c \in Callers : WF_vars(Complete(c)) /\ WF_vars(Resume(c)) /\ WF_vars(Proceed(c))
  /\ WF_vars(SchedulerStops)
  /\ WF_vars(phase # "up" /\ Shutdown)
-----------------------------------------------------------------------------
\* Types.
TypeOK ==
  /\ lock \in BOOLEAN
  /\ inflight \in 0..MaxPolls /\ last \in 0..MaxPolls
  /\ future \in [Polls -> Outcomes \cup {"none", "pending"}]
  /\ caller \in [Callers -> CallerStates]
  /\ since \in [Callers -> 0..MaxPolls]
  /\ cancelled \subseteq {Scheduler, Connector}
  /\ phase \in Phases

Running == {c \in Callers : caller[c].pc = "running"}

\* One poll at a time: the lock is held exactly while one caller runs, and
\* _inflight is then that caller's pending Future and the latest poll.
OnePoll ==
  /\ \A c, d \in Running : c = d
  /\ lock <=> Running # {}
  /\ \A c \in Running :
       inflight = caller[c].poll /\ inflight = last /\ future[last] = "pending"

\* A call is never answered with a poll that was over before it: a refresh
\* shows the portal as it was after the click.
AnswersAreFresh ==
  \A c \in Callers : caller[c].pc \in {"waiting", "answered"} => caller[c].poll > since[c]

\* The polls that are over, and the calls, as FreshAnswers sees them.
Over == [n \in 1..(IF lock THEN last - 1 ELSE last) |-> future[n]]

CallOf(c) ==
  IF caller[c].pc \in {"idle", "dead"} THEN [at |-> "none", after |-> 0, outcome |-> "none"]
  ELSE [at |-> IF caller[c].pc = "answered" THEN "answered" ELSE "asked",
        after |-> since[c], outcome |-> caller[c].outcome]

Promise == INSTANCE FreshAnswers WITH
  running <- lock,
  over <- Over,
  call <- [c \in Callers |-> CallOf(c)],
  told <- cancelled

\* Whoever runs, waits or is cancelled, callers are answered as FreshAnswers
\* says: nobody with a poll that was over before it asked, nobody with
\* another's cancellation unless it was the poll's.
ImplementsPromise == Promise!AnswerSpec

\* No Future is left pending behind: whatever ended the poll was published.
NoOrphanWaiter ==
  \A c \in Callers : caller[c].pc = "waiting" /\ future[caller[c].poll] = "pending" =>
    \E d \in Running : caller[d].poll = caller[c].poll

\* The 5-minute loop dies only when its own task was cancelled: a CancelledError
\* can also come out of the Future of a cancelled sync task, but never does
\* while the loop lives.
SchedulerSurvives == caller[Scheduler].pc = "dead" => Scheduler \in cancelled

\* Every call to execute() returns or raises.
EveryCallAnswered ==
  \A c \in Callers : caller[c].pc \in {"running", "waiting"} ~> caller[c].pc = "answered"

\* A shutdown that began completes, whoever is running or waiting.
ShutdownCompletes == phase # "up" ~> phase = "down"
=============================================================================
