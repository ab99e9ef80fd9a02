---------------------------- MODULE SyncQueueProofs ----------------------------
(***************************************************************************)
(* Proofs of the safety properties of SyncQueue, for any number of request *)
(* callers and any bound on the polls.                                     *)
(***************************************************************************)
EXTENDS SyncQueue, SequenceTheorems, TLAPS

\* Futures are created in order, and only the running poll's is pending.
FuturesOK ==
  \A n \in Polls :
    /\ future[n] = "none" <=> n > last
    /\ future[n] = "pending" => lock /\ n = last

\* Where a caller stands with the poll it runs, awaits or was answered by.
CallersOK ==
  \A c \in Callers : caller[c].pc \in {"running", "waiting", "answered"} =>
    caller[c].poll \in 1..last /\ caller[c].poll > since[c]

\* The scheduler is the first task a shutdown cancels, so no CancelledError
\* is about before it.
CancelOrder ==
  \/ Scheduler \in cancelled
  \/ /\ cancelled = {}
     /\ \A n \in Polls : future[n] # "cancelled"
     /\ \A c \in Callers : caller[c].outcome # "cancelled"

IndInv ==
  /\ TypeOK
  /\ OnePoll
  /\ FuturesOK
  /\ CallersOK
  /\ CancelOrder
  /\ phase # "up" => Scheduler \in cancelled
  /\ phase = "up" => cancelled = {}
  /\ SchedulerSurvives

\* The answers are fresh and nobody waits for nothing.
LEMMA Consequences == IndInv => AnswersAreFresh /\ NoOrphanWaiter
<1> SUFFICES ASSUME IndInv PROVE AnswersAreFresh /\ NoOrphanWaiter
  OBVIOUS
<1>1. AnswersAreFresh
  BY DEF IndInv, CallersOK, AnswersAreFresh
<1>2. NoOrphanWaiter
  <2> SUFFICES ASSUME NEW c \in Callers, caller[c].pc = "waiting",
                      future[caller[c].poll] = "pending"
               PROVE  \E d \in Running : caller[d].poll = caller[c].poll
    BY DEF NoOrphanWaiter
  <2>1. caller[c].poll \in Polls
    <3>1. caller[c].poll \in 1..last /\ last \in 0..MaxPolls
      BY DEF IndInv, CallersOK, TypeOK
    <3> QED
      BY <3>1, MaxPollsAssumption DEF Polls
  <2>2. lock /\ caller[c].poll = last
    BY <2>1 DEF IndInv, FuturesOK
  <2>3. PICK d \in Running : TRUE
    BY <2>2 DEF IndInv, OnePoll
  <2> QED
    BY <2>2, <2>3 DEF IndInv, OnePoll
<1> QED
  BY <1>1, <1>2

LEMMA InitInv == Init => IndInv
<1> SUFFICES ASSUME Init PROVE IndInv
  OBVIOUS
<1>1. /\ lock = FALSE /\ inflight = 0 /\ last = 0 /\ cancelled = {} /\ phase = "up"
      /\ \A n \in Polls : future[n] = "none"
      /\ \A c \in Callers : caller[c].pc = "idle" /\ caller[c].outcome = "none"
  BY DEF Init, Idle
<1>2. caller \in [Callers -> CallerStates]
  <2>1. Idle \in CallerStates
    BY MaxPollsAssumption DEF Idle, CallerStates
  <2> QED
    BY <2>1 DEF Init
<1>3. future \in [Polls -> Outcomes \cup {"none", "pending"}]
  BY DEF Init
<1>4. since \in [Callers -> 0..MaxPolls]
  BY MaxPollsAssumption DEF Init
<1>5. TypeOK
  <2>1. inflight \in 0..MaxPolls /\ last \in 0..MaxPolls
    BY <1>1, MaxPollsAssumption
  <2>2. lock \in BOOLEAN /\ phase \in Phases /\ cancelled \subseteq {Scheduler, Connector}
    BY <1>1 DEF Phases
  <2> QED
    BY <1>2, <1>3, <1>4, <2>1, <2>2 DEF TypeOK
<1>6. OnePoll
  BY <1>1 DEF OnePoll, Running
<1>7. FuturesOK
  BY <1>1 DEF FuturesOK, Polls
<1>8. CallersOK /\ CancelOrder
  BY <1>1 DEF CallersOK, CancelOrder
<1>9. SchedulerSurvives
  BY <1>1 DEF SchedulerSurvives, Callers
<1> QED
  BY <1>1, <1>5, <1>6, <1>7, <1>8, <1>9 DEF IndInv
-----------------------------------------------------------------------------
\* The caller's record after Goes, and nobody else's.
LEMMA GoesTo ==
  ASSUME TypeOK, NEW c \in Callers, NEW stage \in {"running", "waiting", "answered", "dead"},
         NEW n \in 0..MaxPolls, NEW outcome \in Outcomes \cup {"none"},
         Goes(c, stage, n, outcome)
  PROVE  /\ caller' \in [Callers -> CallerStates]
         /\ caller'[c].pc = stage /\ caller'[c].poll = n /\ caller'[c].outcome = outcome
         /\ \A d \in Callers : d # c => caller'[d] = caller[d]
  BY DEF Goes, TypeOK, CallerStates

LEMMA ExecuteInv ==
  ASSUME NEW c \in Callers, IndInv, Execute(c)
  PROVE  IndInv'
<1> USE MaxPollsAssumption DEF IndInv
<1>1. CASE Joins /\ Goes(c, "waiting", last, "none") /\ UNCHANGED <<lock, inflight, future, last>>
  <2>1. lock /\ last \in 1..MaxPolls
    BY <1>1 DEF Joins, OnePoll, TypeOK, Running
  <2>2. since' = [since EXCEPT ![c] = last - 1] /\ UNCHANGED <<cancelled, phase>>
    BY <2>1 DEF Execute
  <2>3. /\ caller' \in [Callers -> CallerStates]
        /\ caller'[c].pc = "waiting" /\ caller'[c].poll = last /\ caller'[c].outcome = "none"
        /\ \A d \in Callers : d # c => caller'[d] = caller[d]
    BY <1>1, <2>1, GoesTo
  <2>4. TypeOK'
    <3>1. since' \in [Callers -> 0..MaxPolls]
      BY <2>1, <2>2 DEF TypeOK
    <3> QED
      BY <1>1, <2>2, <2>3, <3>1 DEF TypeOK
  <2>5. Running' = Running
    BY <2>3 DEF Running, Execute
  <2>6. OnePoll'
    BY <1>1, <2>3, <2>5 DEF OnePoll, Running, Execute
  <2>7. CallersOK'
    BY <1>1, <2>1, <2>2, <2>3 DEF CallersOK, TypeOK
  <2>8. CancelOrder' /\ SchedulerSurvives' /\ FuturesOK'
    BY <1>1, <2>2, <2>3 DEF CancelOrder, SchedulerSurvives, FuturesOK, Callers
  <2> QED
    BY <2>2, <2>4, <2>6, <2>7, <2>8
<1>2. CASE /\ ~Joins /\ last < MaxPolls /\ last' = last + 1
           /\ future' = [future EXCEPT ![last + 1] = "pending"]
           /\ inflight' = last + 1 /\ lock' = TRUE
           /\ Goes(c, "running", last + 1, "none")
  <2>1. ~lock /\ Running = {} /\ last + 1 \in Polls
    BY <1>2 DEF Joins, OnePoll, TypeOK, Running, CallerStates, CallersOK, Polls
  <2>2. since' = [since EXCEPT ![c] = last] /\ UNCHANGED <<cancelled, phase>>
    BY <2>1 DEF Execute
  <2>3. /\ caller' \in [Callers -> CallerStates]
        /\ caller'[c].pc = "running" /\ caller'[c].poll = last + 1 /\ caller'[c].outcome = "none"
        /\ \A d \in Callers : d # c => caller'[d] = caller[d]
    BY <1>2, <2>1, GoesTo DEF TypeOK, Polls
  <2>4. TypeOK'
    <3>1. since' \in [Callers -> 0..MaxPolls]
      BY <2>2 DEF TypeOK
    <3>2. future' \in [Polls -> Outcomes \cup {"none", "pending"}]
      BY <1>2 DEF TypeOK
    <3>3. inflight' \in 0..MaxPolls /\ last' \in 0..MaxPolls
      BY <1>2 DEF TypeOK
    <3>4. lock' \in BOOLEAN
      BY <1>2
    <3> QED
      BY <2>2, <2>3, <3>1, <3>2, <3>3, <3>4 DEF TypeOK
  <2>5. Running' = {c}
    BY <2>1, <2>3 DEF Running
  <2>6. OnePoll'
    BY <1>2, <2>1, <2>3, <2>5 DEF OnePoll, TypeOK
  <2>7. CallersOK'
    BY <1>2, <2>1, <2>2, <2>3 DEF CallersOK, TypeOK, Polls
  <2>8. CancelOrder' /\ SchedulerSurvives'
    BY <1>2, <2>1, <2>2, <2>3 DEF CancelOrder, SchedulerSurvives, Callers, TypeOK
  <2>9. FuturesOK'
    BY <1>2, <2>1 DEF FuturesOK, TypeOK, Polls
  <2> QED
    BY <2>2, <2>4, <2>6, <2>7, <2>8, <2>9
<1> QED
  BY <1>1, <1>2 DEF Execute

LEMMA CompleteInv ==
  ASSUME NEW c \in Callers, IndInv, Complete(c)
  PROVE  IndInv'
<1> USE MaxPollsAssumption DEF IndInv
<1>1. PICK outcome \in Outcomes :
        (outcome = "cancelled" => c \in cancelled) /\ EndPoll(c, outcome)
  BY DEF Complete
<1>2. caller[c].pc = "running" /\ UNCHANGED <<cancelled, phase, last, since>>
  BY DEF Complete
<1>3. Running = {c} /\ caller[c].poll = last /\ last \in Polls
  BY <1>2 DEF OnePoll, Running, CallersOK, TypeOK, Polls
<1>4. /\ future' = [future EXCEPT ![last] = outcome] /\ inflight' = 0 /\ lock' = FALSE
      /\ Goes(c, "answered", last, outcome)
  BY <1>1, <1>3 DEF EndPoll
<1>5. /\ caller' \in [Callers -> CallerStates]
      /\ caller'[c].pc = "answered" /\ caller'[c].poll = last /\ caller'[c].outcome = outcome
      /\ \A d \in Callers : d # c => caller'[d] = caller[d]
  BY <1>3, <1>4, GoesTo DEF Polls
<1>6. TypeOK'
  <2>1. future' \in [Polls -> Outcomes \cup {"none", "pending"}]
    BY <1>4 DEF TypeOK
  <2>2. inflight' \in 0..MaxPolls
    <3>1. 0 \in 0..MaxPolls
      BY MaxPollsAssumption
    <3> QED
      BY <1>4, <3>1
  <2>3. lock' \in BOOLEAN
    BY <1>4
  <2> QED
    BY <1>2, <1>5, <2>1, <2>2, <2>3 DEF TypeOK
<1>7. Running' = {}
  BY <1>3, <1>5 DEF Running
<1>8. OnePoll'
  BY <1>4, <1>7 DEF OnePoll
<1>9. FuturesOK'
  BY <1>2, <1>3, <1>4 DEF FuturesOK, TypeOK, Outcomes, Polls
<1>10. CallersOK'
  BY <1>2, <1>3, <1>5 DEF CallersOK, TypeOK, Polls
<1>11. CancelOrder' /\ SchedulerSurvives'
  BY <1>1, <1>2, <1>3, <1>4, <1>5 DEF CancelOrder, SchedulerSurvives, TypeOK, Callers, Polls
<1> QED
  BY <1>2, <1>6, <1>8, <1>9, <1>10, <1>11

\* A step that only takes one caller, which runs nothing, to another place.
LEMMA CallerInv ==
  ASSUME NEW c \in Callers, IndInv, caller[c].pc # "running",
         UNCHANGED <<lock, inflight, future, cancelled, phase, last>>,
         since' \in [Callers -> 0..MaxPolls],
         caller' \in [Callers -> CallerStates],
         \A d \in Callers : d # c => caller'[d] = caller[d] /\ since'[d] = since[d],
         caller'[c].pc \in {"idle", "answered", "dead"},
         caller'[c].pc = "answered" =>
           caller'[c].poll \in 1..last /\ caller'[c].poll > since'[c],
         caller'[c].outcome = "cancelled" => Scheduler \in cancelled,
         c = Scheduler /\ caller'[c].pc = "dead" => Scheduler \in cancelled
  PROVE  IndInv'
<1> USE DEF IndInv
<1>1. TypeOK'
  BY DEF TypeOK
<1>2. Running' = Running
  BY DEF Running
<1>3. OnePoll'
  BY <1>2 DEF OnePoll, Running
<1>4. FuturesOK'
  BY DEF FuturesOK
<1>5. CallersOK'
  BY DEF CallersOK
<1>6. CancelOrder'
  BY DEF CancelOrder
<1>7. SchedulerSurvives'
  BY DEF SchedulerSurvives, Callers
<1> QED
  BY <1>1, <1>3, <1>4, <1>5, <1>6, <1>7

LEMMA ResumeInv ==
  ASSUME NEW c \in Callers, IndInv, Resume(c)
  PROVE  IndInv'
<1> USE DEF IndInv
<1> DEFINE n == caller[c].poll
<1>1. caller[c].pc = "waiting" /\ n \in 1..last /\ n > since[c] /\ future[n] \in Outcomes
  BY DEF Resume, CallersOK
<1>2. n \in 0..MaxPolls /\ n \in Polls
  BY <1>1, MaxPollsAssumption DEF TypeOK, Polls
<1>3. Goes(c, "answered", n, future[n])
      /\ UNCHANGED <<lock, inflight, future, cancelled, phase, last, since>>
  BY DEF Resume
<1> HIDE DEF n
<1>4. /\ caller' \in [Callers -> CallerStates]
      /\ caller'[c].pc = "answered" /\ caller'[c].poll = n /\ caller'[c].outcome = future[n]
      /\ \A d \in Callers : d # c => caller'[d] = caller[d]
  BY <1>1, <1>2, <1>3, GoesTo
<1>5. caller'[c].outcome = "cancelled" => Scheduler \in cancelled
  BY <1>2, <1>4 DEF CancelOrder
<1> QED
  BY <1>1, <1>3, <1>4, <1>5, CallerInv DEF TypeOK

LEMMA CancelWaiterInv ==
  ASSUME NEW c \in Callers, IndInv, CancelWaiter(c)
  PROVE  IndInv'
<1> USE DEF IndInv
<1> DEFINE n == caller[c].poll
<1>1. caller[c].pc = "waiting" /\ n \in 1..last /\ n > since[c] /\ Scheduler \in cancelled
  BY DEF CancelWaiter, CallersOK, CancelOrder
<1>2. n \in 0..MaxPolls
  BY <1>1, MaxPollsAssumption DEF TypeOK
<1>3. Goes(c, "answered", n, "cancelled")
      /\ UNCHANGED <<lock, inflight, future, cancelled, phase, last, since>>
  BY DEF CancelWaiter
<1> HIDE DEF n
<1>4. /\ caller' \in [Callers -> CallerStates]
      /\ caller'[c].pc = "answered" /\ caller'[c].poll = n
      /\ \A d \in Callers : d # c => caller'[d] = caller[d]
  BY <1>2, <1>3, GoesTo DEF Outcomes
<1> QED
  BY <1>1, <1>3, <1>4, CallerInv DEF TypeOK

LEMMA ProceedInv ==
  ASSUME NEW c \in Callers, IndInv, Proceed(c)
  PROVE  IndInv'
<1> USE MaxPollsAssumption DEF IndInv
<1>1. /\ caller[c].pc = "answered" /\ since' = [since EXCEPT ![c] = 0]
      /\ UNCHANGED <<lock, inflight, future, cancelled, phase, last>>
  BY DEF Proceed
<1>2. /\ since' \in [Callers -> 0..MaxPolls]
      /\ \A d \in Callers : d # c => since'[d] = since[d]
  BY <1>1 DEF TypeOK
<1>3. CASE c = Scheduler /\ caller[c].outcome = "cancelled"
  <2>1. Goes(c, "dead", 0, "none")
    BY <1>3 DEF Proceed
  <2>2. /\ caller' \in [Callers -> CallerStates]
        /\ caller'[c].pc = "dead" /\ caller'[c].outcome = "none"
        /\ \A d \in Callers : d # c => caller'[d] = caller[d]
    BY <2>1, GoesTo
  <2>3. Scheduler \in cancelled
    BY <1>3 DEF CancelOrder
  <2> QED
    BY <1>1, <1>2, <2>2, <2>3, CallerInv
<1>4. CASE ~(c = Scheduler /\ caller[c].outcome = "cancelled")
  <2>1. caller' = [caller EXCEPT ![c] = Idle]
    BY <1>4 DEF Proceed
  <2>2. /\ caller' \in [Callers -> CallerStates]
        /\ caller'[c].pc = "idle" /\ caller'[c].outcome = "none"
        /\ \A d \in Callers : d # c => caller'[d] = caller[d]
    BY <2>1 DEF TypeOK, Idle, CallerStates
  <2> QED
    BY <1>1, <1>2, <2>2, CallerInv
<1> QED
  BY <1>3, <1>4

LEMMA SchedulerStopsInv ==
  ASSUME IndInv, SchedulerStops
  PROVE  IndInv'
<1> USE MaxPollsAssumption DEF IndInv
<1>1. Scheduler \in Callers
  BY DEF Callers
<1>2. /\ caller' \in [Callers -> CallerStates]
      /\ caller'[Scheduler].pc = "dead" /\ caller'[Scheduler].outcome = "none"
      /\ \A d \in Callers : d # Scheduler => caller'[d] = caller[d]
  BY <1>1, GoesTo DEF SchedulerStops
<1> QED
  BY <1>1, <1>2, CallerInv DEF SchedulerStops, TypeOK

LEMMA ShutdownInv ==
  ASSUME IndInv, Shutdown
  PROVE  IndInv'
<1> USE DEF IndInv
<1>1. UNCHANGED <<lock, inflight, future, caller, last, since>>
  BY DEF Shutdown
<1>2. /\ cancelled' \subseteq {Scheduler, Connector} /\ phase' \in Phases
      /\ Scheduler \in cancelled' /\ phase' # "up"
  BY DEF Shutdown, Stop, TypeOK, Phases
<1>3. TypeOK'
  BY <1>1, <1>2 DEF TypeOK
<1>4. OnePoll' /\ FuturesOK' /\ CallersOK'
  BY <1>1 DEF OnePoll, FuturesOK, CallersOK, Running
<1> QED
  BY <1>2, <1>3, <1>4 DEF CancelOrder, SchedulerSurvives

\* The inductive invariant holds in every reachable state.
THEOREM Invariance == Spec => []IndInv
<1>1. IndInv /\ [Next]_vars => IndInv'
  <2> SUFFICES ASSUME IndInv, [Next]_vars PROVE IndInv'
    OBVIOUS
  <2>1. ASSUME NEW c \in Callers,
               Execute(c) \/ Complete(c) \/ Resume(c) \/ CancelWaiter(c) \/ Proceed(c)
        PROVE  IndInv'
    BY <2>1, ExecuteInv, CompleteInv, ResumeInv, CancelWaiterInv, ProceedInv
  <2>2. CASE SchedulerStops
    BY <2>2, SchedulerStopsInv
  <2>3. CASE Shutdown
    BY <2>3, ShutdownInv
  <2>4. CASE UNCHANGED vars
    BY <2>4 DEF vars, IndInv, TypeOK, OnePoll, FuturesOK, CallersOK, CancelOrder,
                SchedulerSurvives, Running
  <2> QED
    BY <2>1, <2>2, <2>3, <2>4 DEF Next
<1> QED
  BY InitInv, <1>1, PTL DEF Spec
-----------------------------------------------------------------------------
\* Every variable keeps its type.
THEOREM TypeCorrect == Spec => []TypeOK
<1>1. IndInv => TypeOK
  BY DEF IndInv
<1> QED
  BY Invariance, <1>1, PTL

\* However many callers there are, one poll runs at a time.
THEOREM PollsDoNotOverlap == Spec => []OnePoll
<1>1. IndInv => OnePoll
  BY DEF IndInv
<1> QED
  BY Invariance, <1>1, PTL

\* Every answer comes from a poll that was not over when the call was made,
\* and nobody waits on a Future that no poll will complete.
THEOREM CoalescingIsSound == Spec => [](AnswersAreFresh /\ NoOrphanWaiter)
  BY Invariance, Consequences, PTL

\* The scheduler's loop outlives every poll but its own cancellation.
THEOREM SchedulerIsKept == Spec => []SchedulerSurvives
<1>1. IndInv => SchedulerSurvives
  BY DEF IndInv
<1> QED
  BY Invariance, <1>1, PTL
-----------------------------------------------------------------------------
\* What FreshAnswers sees: the polls that are over, in their order.
LEMMA OverIsSequence ==
  ASSUME IndInv
  PROVE  /\ Over \in Seq(Outcomes)
         /\ Len(Over) = IF lock THEN last - 1 ELSE last
         /\ \A n \in 1..Len(Over) : Over[n] = future[n]
<1> USE MaxPollsAssumption DEF IndInv
<1> DEFINE n == IF lock THEN last - 1 ELSE last
<1>1. lock => last \in 1..MaxPolls
  BY DEF OnePoll, Running, CallersOK, TypeOK
<1>2. n \in Nat /\ n \in 0..last /\ last \in 0..MaxPolls
  BY <1>1 DEF TypeOK
<1>3. ASSUME NEW k \in 1..n PROVE future[k] \in Outcomes
  <2>1. k \in Polls /\ k <= last /\ (lock => k # last)
    BY <1>2 DEF Polls
  <2> QED
    BY <2>1, <1>2 DEF FuturesOK, TypeOK, Polls
<1>4. Over = [k \in 1..n |-> future[k]]
  BY DEF Over
<1> HIDE DEF n
<1>5. Over \in [1..n -> Outcomes]
  BY <1>3, <1>4
<1>6. Over \in Seq(Outcomes) /\ Len(Over) = n
  <2>1. Over \in Seq(Outcomes)
    BY <1>2, <1>5, SeqDef
  <2> QED
    BY <1>2, <1>5, <2>1, LenProperties
<1> QED
  BY <1>4, <1>6 DEF n

\* A step that leaves the Futures alone leaves what is over alone.
LEMMA SameOver ==
  ASSUME UNCHANGED <<lock, last, future>>
  PROVE  Over' = Over
BY DEF Over

\* What one caller's step does to the calls.
LEMMA CallOfOne ==
  ASSUME NEW c \in Callers,
         \A d \in Callers : d # c => caller'[d] = caller[d] /\ since'[d] = since[d]
  PROVE  [d \in Callers |-> CallOf(d)]' =
           [[d \in Callers |-> CallOf(d)] EXCEPT ![c] = CallOf(c)']
BY DEF CallOf

LEMMA ExecuteAsks ==
  ASSUME NEW c \in Callers, IndInv, Execute(c)
  PROVE  Promise!Ask(c)
<1> USE MaxPollsAssumption DEF IndInv
<1>1. /\ caller[c].pc = "idle" /\ UNCHANGED <<cancelled, phase>>
      /\ since' = [since EXCEPT ![c] = IF lock THEN last - 1 ELSE last]
  BY DEF Execute
<1>2. /\ caller'[c].pc \in {"waiting", "running"} /\ caller'[c].outcome = "none"
      /\ \A d \in Callers : d # c => caller'[d] = caller[d]
      /\ lock' = TRUE /\ Over' = Over
  <2>1. CASE Joins /\ Goes(c, "waiting", last, "none") /\ UNCHANGED <<lock, inflight, future, last>>
    BY <2>1, GoesTo, SameOver DEF Joins, TypeOK
  <2>2. CASE /\ ~Joins /\ last < MaxPolls /\ last' = last + 1
             /\ future' = [future EXCEPT ![last + 1] = "pending"]
             /\ inflight' = last + 1 /\ lock' = TRUE
             /\ Goes(c, "running", last + 1, "none")
    <3>1. ~lock /\ last \in Nat /\ last + 1 \in 0..MaxPolls
      BY <2>2 DEF Joins, OnePoll, TypeOK, Running, CallersOK
    <3>2. \A n \in 1..last : future'[n] = future[n]
      BY <2>2, <3>1 DEF TypeOK, Polls
    <3>3. Over' = Over
      BY <2>2, <3>1, <3>2 DEF Over
    <3> QED
      BY <2>2, <3>1, <3>3, GoesTo
  <2> QED
    BY <2>1, <2>2 DEF Execute
<1>3. since'[c] = Len(Over) /\ \A d \in Callers : d # c => since'[d] = since[d]
  BY <1>1, OverIsSequence DEF TypeOK
<1>4. CallOf(c)' = [at |-> "asked", after |-> Len(Over), outcome |-> "none"]
  BY <1>2, <1>3 DEF CallOf
<1>5. [d \in Callers |-> CallOf(d)]' = [[d \in Callers |-> CallOf(d)] EXCEPT ![c] = CallOf(c)']
  BY <1>2, <1>3, CallOfOne
<1>6. [d \in Callers |-> CallOf(d)][c].at = "none"
  BY <1>1 DEF CallOf
<1> QED
  BY <1>1, <1>2, <1>4, <1>5, <1>6 DEF Promise!Ask

\* Whoever is answered had asked, and keeps the time of the call.
LEMMA AnsweredBy ==
  ASSUME NEW c \in Callers, TypeOK, caller[c].pc \in {"running", "waiting"},
         caller'[c].pc = "answered", NEW outcome, caller'[c].outcome = outcome,
         \A d \in Callers : d # c => caller'[d] = caller[d],
         since' = since
  PROVE  Promise!Answered(c, outcome)
<1>1. /\ CallOf(c) = [at |-> "asked", after |-> since[c], outcome |-> caller[c].outcome]
      /\ CallOf(c)' = [at |-> "answered", after |-> since[c], outcome |-> outcome]
  BY DEF CallOf
<1>2. [d \in Callers |-> CallOf(d)]' = [[d \in Callers |-> CallOf(d)] EXCEPT ![c] = CallOf(c)']
  BY CallOfOne
<1> DEFINE calls == [d \in Callers |-> CallOf(d)]
<1>3. calls[c].at = "asked" /\ calls[c].after = since[c]
  BY <1>1
<1>4. calls' = [calls EXCEPT ![c] = [at |-> "answered", after |-> calls[c].after,
                                    outcome |-> outcome]]
  <2> HIDE DEF calls
  <2>1. calls' = [calls EXCEPT ![c] = CallOf(c)']
    BY <1>2 DEF calls
  <2> QED
    BY <1>1, <1>3, <2>1
<1> QED
  BY <1>3, <1>4 DEF Promise!Answered

LEMMA CompleteEnds ==
  ASSUME NEW c \in Callers, IndInv, Complete(c)
  PROVE  Promise!End(c)
<1> USE MaxPollsAssumption DEF IndInv
<1>1. PICK outcome \in Outcomes :
        (outcome = "cancelled" => c \in cancelled) /\ EndPoll(c, outcome)
  BY DEF Complete
<1>2. caller[c].pc = "running" /\ UNCHANGED <<cancelled, phase, last, since>>
  BY DEF Complete
<1>3. lock /\ caller[c].poll = last /\ last \in Polls
  BY <1>2 DEF OnePoll, Running, CallersOK, TypeOK, Polls
<1>4. /\ future' = [future EXCEPT ![last] = outcome] /\ lock' = FALSE
      /\ Goes(c, "answered", last, outcome)
  BY <1>1, <1>3 DEF EndPoll
<1>5. /\ caller'[c].pc = "answered" /\ caller'[c].outcome = outcome
      /\ \A d \in Callers : d # c => caller'[d] = caller[d]
  BY <1>3, <1>4, GoesTo DEF Polls
<1>6. Promise!Answered(c, outcome)
  BY <1>2, <1>5, AnsweredBy
<1>7. Over' = Append(Over, outcome)
  <2>1. /\ Over \in Seq(Outcomes) /\ Len(Over) = last - 1
        /\ \A n \in 1..Len(Over) : Over[n] = future[n]
    BY <1>3, OverIsSequence
  <2>2. Over' = [n \in 1..last |-> future'[n]]
    BY <1>2, <1>4 DEF Over
  <2>3. future'[last] = outcome /\ \A n \in 1..(last - 1) : future'[n] = future[n]
    BY <1>3, <1>4 DEF TypeOK, Polls
  <2>4. Append(Over, outcome) \in Seq(Outcomes) /\ Len(Append(Over, outcome)) = last
    BY <1>3, <2>1 DEF Polls
  <2>5. \A n \in 1..last : Append(Over, outcome)[n] = future'[n]
    BY <1>3, <2>1, <2>3 DEF Polls
  <2>6. Append(Over, outcome) = [n \in 1..last |-> Append(Over, outcome)[n]]
    <3>1. DOMAIN Append(Over, outcome) = 1..last
      BY <2>4, LenProperties
    <3> QED
      BY <2>4, <3>1, LenProperties
  <2> QED
    BY <2>2, <2>5, <2>6
<1> QED
  BY <1>1, <1>2, <1>3, <1>4, <1>6, <1>7 DEF Promise!End

LEMMA ResumeShares ==
  ASSUME NEW c \in Callers, IndInv, Resume(c)
  PROVE  Promise!Share(c)
<1> USE MaxPollsAssumption DEF IndInv
<1> DEFINE n == caller[c].poll
<1>1. /\ caller[c].pc = "waiting" /\ n \in 1..last /\ n > since[c] /\ future[n] \in Outcomes
      /\ Goes(c, "answered", n, future[n])
      /\ UNCHANGED <<lock, inflight, future, cancelled, phase, last, since>>
  BY DEF Resume, CallersOK
<1>2. n \in Polls /\ n \in 0..MaxPolls /\ last \in Nat
  BY <1>1 DEF TypeOK, Polls
<1>3. n \in 1..Len(Over) /\ Over[n] = future[n]
  <2>1. lock => future[last] = "pending"
    BY DEF OnePoll, Running
  <2>2. lock => n # last
    BY <1>1, <2>1 DEF Outcomes
  <2>3. n \in 1..Len(Over)
    BY <1>1, <1>2, <2>2, OverIsSequence
  <2> QED
    BY <2>3, OverIsSequence
<1> HIDE DEF n
<1>4. /\ caller'[c].pc = "answered" /\ caller'[c].outcome = future[n]
      /\ \A d \in Callers : d # c => caller'[d] = caller[d]
  BY <1>1, <1>2, GoesTo
<1>5. Promise!Answered(c, Over[n])
  BY <1>1, <1>3, <1>4, AnsweredBy
<1>6. n > [d \in Callers |-> CallOf(d)][c].after
  BY <1>1 DEF CallOf
<1> QED
  BY <1>1, <1>3, <1>5, <1>6, SameOver DEF Promise!Share

LEMMA CancelWaiterGivesUp ==
  ASSUME NEW c \in Callers, IndInv, CancelWaiter(c)
  PROVE  Promise!GiveUp(c)
<1> USE MaxPollsAssumption DEF IndInv
<1>1. /\ caller[c].pc = "waiting" /\ c \in cancelled
      /\ Goes(c, "answered", caller[c].poll, "cancelled")
      /\ UNCHANGED <<lock, inflight, future, cancelled, phase, last, since>>
  BY DEF CancelWaiter
<1>2. caller[c].poll \in 0..MaxPolls
  BY DEF TypeOK, CallerStates
<1>3. /\ caller'[c].pc = "answered" /\ caller'[c].outcome = "cancelled"
      /\ \A d \in Callers : d # c => caller'[d] = caller[d]
  BY <1>1, <1>2, GoesTo DEF Outcomes
<1>4. Promise!Answered(c, "cancelled")
  BY <1>1, <1>3, AnsweredBy
<1> QED
  BY <1>1, <1>4, SameOver DEF Promise!GiveUp

LEMMA ProceedTakes ==
  ASSUME NEW c \in Callers, IndInv, Proceed(c)
  PROVE  Promise!Take(c)
<1> USE MaxPollsAssumption DEF IndInv
<1>1. /\ caller[c].pc = "answered" /\ since' = [since EXCEPT ![c] = 0]
      /\ UNCHANGED <<lock, inflight, future, cancelled, phase, last>>
  BY DEF Proceed
<1>2. /\ caller'[c].pc \in {"idle", "dead"}
      /\ \A d \in Callers : d # c => caller'[d] = caller[d]
  <2>1. CASE Goes(c, "dead", 0, "none")
    BY <2>1, GoesTo
  <2>2. CASE caller' = [caller EXCEPT ![c] = Idle]
    BY <2>2 DEF Idle, TypeOK
  <2> QED
    BY <2>1, <2>2 DEF Proceed
<1>3. [d \in Callers |-> CallOf(d)]' = [[d \in Callers |-> CallOf(d)] EXCEPT ![c] = CallOf(c)']
  BY <1>1, <1>2, CallOfOne DEF TypeOK
<1>4. CallOf(c)' = Promise!NoCall /\ CallOf(c).at = "answered"
  BY <1>1, <1>2 DEF CallOf, Promise!NoCall
<1> QED
  BY <1>1, <1>3, <1>4, SameOver DEF Promise!Take

\* A loop that ends between two polls has asked nothing.
LEMMA StopStutters ==
  ASSUME IndInv, SchedulerStops
  PROVE  UNCHANGED Promise!answerVars
<1> USE MaxPollsAssumption DEF IndInv
<1>1. Scheduler \in Callers
  BY DEF Callers
<1>2. /\ caller[Scheduler].pc = "idle" /\ caller'[Scheduler].pc = "dead"
      /\ \A d \in Callers : d # Scheduler => caller'[d] = caller[d]
      /\ UNCHANGED <<lock, inflight, future, cancelled, phase, last, since>>
  BY <1>1, GoesTo DEF SchedulerStops
<1>3. \A d \in Callers : CallOf(d)' = CallOf(d)
  BY <1>2 DEF CallOf
<1> QED
  BY <1>2, <1>3, SameOver DEF Promise!answerVars

\* The shutdown only tells callers to stop.
LEMMA ShutdownTells ==
  ASSUME IndInv, Shutdown
  PROVE  Promise!Tell
<1> USE DEF IndInv
<1>1. UNCHANGED <<lock, inflight, future, caller, last, since>>
  BY DEF Shutdown
<1>2. [d \in Callers |-> CallOf(d)]' = [d \in Callers |-> CallOf(d)] /\ Over' = Over
  BY <1>1, SameOver DEF CallOf
<1>3. cancelled \subseteq cancelled' /\ cancelled' \subseteq Callers
  BY DEF Shutdown, Stop, TypeOK, Callers
<1> QED
  BY <1>1, <1>2, <1>3 DEF Promise!Tell

\* Lock, Future and shield keep the promise of FreshAnswers: initial states map
\* to initial states, every step to a step or a stutter.
THEOREM KeepsPromise == Spec => ImplementsPromise
<1>1. Init => Promise!AnswerInit
  <2> SUFFICES ASSUME Init PROVE Promise!AnswerInit
    OBVIOUS
  <2>1. \A c \in Callers : CallOf(c) = Promise!NoCall
    BY DEF Init, Idle, CallOf, Promise!NoCall
  <2>2. Over = <<>>
    BY DEF Init, Over
  <2> QED
    BY <2>1, <2>2 DEF Init, Promise!AnswerInit
<1>2. ASSUME IndInv, [Next]_vars PROVE [Promise!AnswerNext]_(Promise!answerVars)
  <2>1. ASSUME NEW c \in Callers,
               Execute(c) \/ Complete(c) \/ Resume(c) \/ CancelWaiter(c) \/ Proceed(c)
        PROVE  Promise!AnswerNext
    BY <1>2, <2>1, ExecuteAsks, CompleteEnds, ResumeShares, CancelWaiterGivesUp, ProceedTakes
       DEF Promise!AnswerNext
  <2>2. CASE SchedulerStops
    BY <1>2, <2>2, StopStutters
  <2>3. CASE Shutdown
    BY <1>2, <2>3, ShutdownTells DEF Promise!AnswerNext
  <2>4. CASE UNCHANGED vars
    <3>1. UNCHANGED <<lock, inflight, future, caller, cancelled, last, since>>
      BY <2>4 DEF vars
    <3>2. [d \in Callers |-> CallOf(d)]' = [d \in Callers |-> CallOf(d)] /\ Over' = Over
      BY <3>1, SameOver DEF CallOf
    <3> QED
      BY <3>1, <3>2 DEF Promise!answerVars
  <2> QED
    BY <1>2, <2>1, <2>2, <2>3, <2>4 DEF Next
<1> QED
  BY <1>1, <1>2, Invariance, PTL DEF Spec, ImplementsPromise, Promise!AnswerSpec
=============================================================================
