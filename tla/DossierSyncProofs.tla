--------------------------- MODULE DossierSyncProofs ---------------------------
(***************************************************************************)
(* Proofs about DossierSync, for any set of records and statuses and any   *)
(* absence threshold of at least two.                                      *)
(***************************************************************************)
EXTENDS DossierSync, TLAPS

History == [streak : 0..MaxMissing, readFor : Statuses \cup {Absent}]

\* One row as the inductive invariant sees it: its shape, its counter and its
\* details against its history old, and what the baseline base allows.
RowOK(row, old, base) ==
  /\ row \in Rows
  /\ old \in History
  /\ ~row.known => row = NoRow
  /\ row.known => row.status # Absent /\ row.missing = old.streak
  /\ row.active => row.known /\ row.missing < MaxMissing
  /\ row.known /\ ~row.active => old.streak = MaxMissing /\ base
  /\ ~base => row.missing = 0
  /\ row.complete => row.known /\ old.readFor # Absent

RowsOK == \A r \in Records : RowOK(dossier[r], hist[r], account.baseline)

\* What the poll read about the baseline is still true when it reconciles:
\* only the poll itself sets it.
BaselineRead ==
  /\ poll.pc \in {"opening", "reading"} => poll.base = account.baseline
  /\ poll.pc = "enriching" /\ poll.status = "COMPLETE" => account.baseline

\* The detail loop owes a read to every dossier without details.
LoopOwes ==
  /\ \A r \in poll.todo : dossier[r].known
  /\ poll.pc = "enriching" /\ poll.status \in Usable =>
       \A r \in Records : dossier[r].active /\ ~dossier[r].complete =>
                            r \in poll.todo \cup poll.failed

\* The run row of a poll that is past its opening is there to be finished.
RunOpen == poll.pc \in {"reading", "enriching"} => openRuns >= 1

IndInv ==
  /\ TypeOK
  /\ RowsOK
  /\ BaselineRead
  /\ LoopOwes
  /\ RunOpen
  /\ SuccessMeansBaseline
  /\ NoDanglingRun
-----------------------------------------------------------------------------
LEMMA CountRange == 0 \in 0..MaxMissing
  BY MaxMissingAssumption

LEMMA InitInv == Init => IndInv
<1> SUFFICES ASSUME Init PROVE IndInv
  OBVIOUS
<1> USE MaxMissingAssumption, BoundsAssumption, AbsentAssumption
<1>1. NoPoll \in Polls
  BY DEF NoPoll, Polls, PollStatus
<1>2. account \in Accounts /\ ~account.baseline /\ ~account.succeeded
  BY DEF Init, Accounts, SessionStatus
<1>3. TypeOK
  BY <1>1, <1>2 DEF Init, TypeOK, Rows, NoRow
<1>4. RowsOK
  BY <1>2, CountRange DEF Init, RowsOK, RowOK, History, NoRow, Rows
<1>5. BaselineRead /\ LoopOwes /\ RunOpen /\ NoDanglingRun
  BY DEF Init, BaselineRead, LoopOwes, RunOpen, NoDanglingRun, NoPoll
<1> QED
  BY <1>2, <1>3, <1>4, <1>5 DEF IndInv, SuccessMeansBaseline
-----------------------------------------------------------------------------
(* The repository's writes to one row keep it a row and change only their  *)
(* own fields.                                                             *)

LEMMA CreateWrites ==
  ASSUME NEW status \in Statuses
  PROVE  LET new == CreateFromRow(status) IN
           /\ new \in Rows /\ new.known /\ new.active /\ new.missing = 0
           /\ new.status = status /\ ~new.complete
  BY CountRange DEF CreateFromRow, NoRow, Rows

LEMMA ReactivateWrites ==
  ASSUME NEW row \in Rows, NEW status \in Statuses
  PROVE  LET new == Reactivate(row, status) IN
           /\ new \in Rows /\ new.known = row.known /\ new.active
           /\ new.missing = 0 /\ new.status = status /\ ~new.complete
  BY CountRange DEF Reactivate, Rows

LEMMA TouchWrites ==
  ASSUME NEW row \in Rows, NEW status \in Statuses
  PROVE  LET new == Touch(row, status) IN
           /\ new \in Rows /\ new.known = row.known /\ new.active = row.active
           /\ new.missing = 0 /\ new.status = status /\ new.complete = row.complete
  BY CountRange DEF Touch, Rows

LEMMA CountAbsenceWrites ==
  ASSUME NEW row \in Rows, row.missing < MaxMissing, NEW gone \in BOOLEAN
  PROVE  LET new == CountAbsence(row, gone) IN
           /\ new \in Rows /\ new.known = row.known /\ new.active = ~gone
           /\ new.missing = row.missing + 1 /\ new.status = row.status
           /\ new.complete = row.complete
<1>1. row.missing + 1 \in 0..MaxMissing
  BY MaxMissingAssumption DEF Rows
<1> QED
  BY <1>1 DEF CountAbsence, Rows

\* The five ways a row can go through a reconciliation that found st for it
\* (Absent when the poll did not return it).
RowStep(row, new, status, st) ==
  \/ st # Absent /\ ~row.known /\ new = CreateFromRow(st)
  \/ st # Absent /\ row.known /\ ~row.active /\ new = Reactivate(row, st)
  \/ st # Absent /\ row.known /\ row.active /\ new = Touch(row, st)
  \/ st = Absent /\ status = "COMPLETE" /\ row.known /\ row.active
       /\ new = CountAbsence(row, row.missing + 1 >= MaxMissing)
  \/ st = Absent /\ ~(status = "COMPLETE" /\ row.known /\ row.active) /\ new = row

LEMMA RowCases ==
  ASSUME NEW status \in PollStatus, NEW view \in Views, NEW r \in Records
  PROVE  RowStep(dossier[r], Reconciled(r, status, view), status, view[r])
  BY DEF Reconciled, ToCreate, ToReactivate, ToTouch, Absentees, ToDeactivate,
         Listed, Views, RowStep

\* What the history records of the same row.
HistoryStep(row, old, next, status, st) ==
  /\ next.streak = IF st # Absent THEN 0
                   ELSE IF status = "COMPLETE" /\ old.streak < MaxMissing
                   THEN old.streak + 1 ELSE old.streak
  /\ next.readFor = IF st # Absent /\ ~row.active THEN Absent ELSE old.readFor

\* Every way keeps the row in order with its history.
LEMMA RowStaysOK ==
  ASSUME NEW row, NEW old, NEW new, NEW next, NEW base \in BOOLEAN,
         NEW status \in Usable, NEW st \in Statuses \cup {Absent},
         RowOK(row, old, base), next \in History,
         HistoryStep(row, old, next, status, st),
         RowStep(row, new, status, st)
  PROVE  RowOK(new, next, base \/ status = "COMPLETE")
<1> USE MaxMissingAssumption, AbsentAssumption
<1>0. /\ row \in Rows /\ old \in History
      /\ next.streak = IF st # Absent THEN 0
                       ELSE IF status = "COMPLETE" /\ old.streak < MaxMissing
                       THEN old.streak + 1 ELSE old.streak
      /\ next.readFor = IF st # Absent /\ ~row.active THEN Absent ELSE old.readFor
  BY DEF RowOK, HistoryStep
<1>1. CASE st # Absent /\ ~row.known /\ new = CreateFromRow(st)
  BY <1>0, <1>1, CreateWrites DEF RowOK, Rows, History
<1>2. CASE st # Absent /\ row.known /\ ~row.active /\ new = Reactivate(row, st)
  BY <1>0, <1>2, ReactivateWrites DEF RowOK, Rows, History
<1>3. CASE st # Absent /\ row.known /\ row.active /\ new = Touch(row, st)
  BY <1>0, <1>3, TouchWrites DEF RowOK, Rows, History
<1>4. CASE st = Absent /\ status = "COMPLETE" /\ row.known /\ row.active
             /\ new = CountAbsence(row, row.missing + 1 >= MaxMissing)
  <2>1. row.missing < MaxMissing /\ (row.missing + 1 >= MaxMissing) \in BOOLEAN
    BY <1>4 DEF RowOK
  <2>2. /\ new \in Rows /\ new.known = row.known
        /\ new.active = ~(row.missing + 1 >= MaxMissing)
        /\ new.missing = row.missing + 1 /\ new.status = row.status
        /\ new.complete = row.complete
    BY <1>0, <1>4, <2>1, CountAbsenceWrites
  <2>3. next.streak = row.missing + 1 /\ next.readFor = old.readFor
    BY <1>0, <1>4 DEF RowOK, Rows
  <2>4. ~new.active => next.streak = MaxMissing
    BY <1>0, <2>1, <2>2, <2>3 DEF Rows
  <2>5. new.active => new.missing < MaxMissing
    BY <1>0, <2>1, <2>2 DEF Rows
  <2> QED
    BY <1>0, <1>4, <2>2, <2>3, <2>4, <2>5 DEF RowOK
<1>5. CASE st = Absent /\ ~(status = "COMPLETE" /\ row.known /\ row.active) /\ new = row
  <2>1. row.known => next.streak = old.streak
    BY <1>0, <1>5 DEF RowOK
  <2>2. next.readFor = old.readFor
    BY <1>0, <1>5
  <2>3. ~(base \/ status = "COMPLETE") => ~base
    OBVIOUS
  <2> QED
    BY <1>0, <1>5, <2>1, <2>2, <2>3 DEF RowOK
<1> QED
  BY <1>1, <1>2, <1>3, <1>4, <1>5 DEF RowStep
-----------------------------------------------------------------------------
(* Every step preserves the invariant.                                     *)

LEMMA ReconcileInv ==
  ASSUME IndInv, NEW status \in Usable, NEW auth \in BOOLEAN, ReadUsable(status, auth)
  PROVE  IndInv'
<1>1. PICK view \in ReadViews(status) : Reconcile(status, auth, view)
  BY DEF ReadUsable
<1>2. view \in Views /\ status \in PollStatus /\ poll.pc = "reading"
  BY DEF ReadViews, ReadUsable, Usable, PollStatus
<1>3. TypeOK /\ RowsOK /\ account.baseline \in BOOLEAN /\ poll.base = account.baseline
  BY <1>2 DEF IndInv, TypeOK, Accounts, BaselineRead
<1>4. account'.baseline = (account.baseline \/ status = "COMPLETE")
      /\ account' \in Accounts /\ account'.succeeded = account.succeeded
  BY <1>1, <1>3 DEF Reconcile, IsBaselinePoll, TypeOK, Accounts
<1>5. ASSUME NEW r \in Records
      PROVE  RowOK(dossier'[r], hist'[r], account'.baseline)
  <2> DEFINE next == Observed(r, status, view)
             new == Reconciled(r, status, view)
  <2>1. /\ RowOK(dossier[r], hist[r], account.baseline)
        /\ view[r] \in Statuses \cup {Absent}
        /\ r \in Listed(view) <=> view[r] # Absent
        /\ dossier'[r] = new /\ hist'[r] = next
    BY <1>1, <1>2, <1>3 DEF RowsOK, Views, Listed, Reconcile
  <2>2. HistoryStep(dossier[r], hist[r], next, status, view[r])
    BY <2>1 DEF Observed, HistoryStep, ToCreate, ToReactivate, RowOK
  <2>3. next \in History
    <3>1. hist[r] \in History
      BY <2>1 DEF RowOK
    <3>2. \/ next.streak = 0
          \/ hist[r].streak < MaxMissing /\ next.streak = hist[r].streak + 1
          \/ next.streak = hist[r].streak
      BY <2>2 DEF HistoryStep
    <3>3. next.streak \in 0..MaxMissing
      BY <3>1, <3>2, CountRange, MaxMissingAssumption DEF History
    <3>4. next.readFor \in Statuses \cup {Absent}
      BY <2>2, <3>1 DEF History, HistoryStep
    <3>5. next = [streak |-> next.streak, readFor |-> next.readFor]
      BY DEF Observed
    <3> HIDE DEF next
    <3> QED
      BY <3>3, <3>4, <3>5 DEF History
  <2>4. RowStep(dossier[r], new, status, view[r])
    BY <1>2, RowCases
  <2> HIDE DEF new, next
  <2>5. RowOK(new, next, account.baseline \/ status = "COMPLETE")
    BY <1>3, <2>1, <2>2, <2>3, <2>4, RowStaysOK
  <2> QED
    BY <1>4, <2>1, <2>5
<1>6. RowsOK'
  BY <1>5 DEF RowsOK
<1>7. NeedingDetail(view) \subseteq Records
  BY <1>2 DEF NeedingDetail, Listed, ToCreate, ToReactivate, ToTouch
<1>8. poll' \in Polls /\ poll'.pc = "enriching" /\ poll'.status = status
      /\ poll'.todo = NeedingDetail(view) /\ poll'.failed = poll.failed
  <2>1. poll \in Polls /\ NoPoll.views \in [Records -> SUBSET (Statuses \cup {Absent})]
    BY <1>3 DEF TypeOK, NoPoll
  <2> HIDE DEF NoPoll
  <2> QED
    BY <1>1, <1>2, <1>7, <2>1 DEF Reconcile, Polls
<1>9. TypeOK'
  <2>1. dossier' \in [Records -> Rows] /\ hist' \in [Records -> History]
    BY <1>1, <1>5 DEF Reconcile, RowOK
  <2>2. notif' \in [Records -> Nat]
    BY <1>1, <1>3 DEF Reconcile, TypeOK
  <2> QED
    BY <1>3, <1>4, <1>8, <2>1, <2>2 DEF TypeOK, ReadUsable, History, env
<1>10. ASSUME NEW r \in Records
       PROVE  /\ r \in NeedingDetail(view) => dossier'[r].known
              /\ dossier'[r].active /\ ~dossier'[r].complete => r \in NeedingDetail(view)
  <2>1. /\ dossier'[r] = Reconciled(r, status, view)
        /\ RowOK(dossier[r], hist[r], account.baseline)
        /\ dossier[r] \in Rows
        /\ r \in Listed(view) <=> view[r] # Absent
        /\ view[r] # Absent => view[r] \in Statuses
    BY <1>1, <1>2, <1>3 DEF RowsOK, RowOK, Reconcile, Listed, Views
  <2>2. /\ r \in Listed(view) /\ ~dossier[r].known => r \in ToCreate(Listed(view), dossier)
        /\ r \in Listed(view) /\ dossier[r].known /\ ~dossier[r].active
             => r \in ToReactivate(Listed(view), dossier)
    BY DEF ToCreate, ToReactivate
  <2>3. r \in NeedingDetail(view) => dossier[r].active \/ r \in Listed(view)
    BY DEF NeedingDetail, ToCreate, ToReactivate, ToTouch
  <2>4. dossier[r].active => dossier[r].known /\ dossier[r].missing < MaxMissing
    BY <2>1 DEF RowOK
  <2>5. RowStep(dossier[r], dossier'[r], status, view[r])
    BY <1>2, <2>1, RowCases
  <2>6. CASE view[r] # Absent /\ ~dossier[r].known /\ dossier'[r] = CreateFromRow(view[r])
    BY <2>1, <2>2, <2>6, CreateWrites DEF NeedingDetail
  <2>7. CASE view[r] # Absent /\ dossier[r].known /\ ~dossier[r].active
               /\ dossier'[r] = Reactivate(dossier[r], view[r])
    BY <2>1, <2>2, <2>7, ReactivateWrites DEF NeedingDetail
  <2>8. CASE view[r] # Absent /\ dossier[r].known /\ dossier[r].active
               /\ dossier'[r] = Touch(dossier[r], view[r])
    BY <2>1, <2>8, TouchWrites DEF NeedingDetail
  <2>9. CASE view[r] = Absent /\ dossier[r].known /\ dossier[r].active
               /\ dossier'[r] = CountAbsence(dossier[r], dossier[r].missing + 1 >= MaxMissing)
    <3>1. (dossier[r].missing + 1 >= MaxMissing) \in BOOLEAN
      OBVIOUS
    <3>2. \A gone \in BOOLEAN :
            LET new == CountAbsence(dossier[r], gone)
            IN  new.known = dossier[r].known /\ new.complete = dossier[r].complete
      BY <2>1, <2>4, <2>9, CountAbsenceWrites
    <3>3. dossier'[r].known = dossier[r].known /\ dossier'[r].complete = dossier[r].complete
      BY <2>9, <3>1, <3>2
    <3> QED
      BY <2>9, <3>3 DEF NeedingDetail
  <2>10. CASE view[r] = Absent /\ dossier'[r] = dossier[r]
    BY <2>1, <2>3, <2>4, <2>10 DEF NeedingDetail
  <2> QED
    BY <2>5, <2>6, <2>7, <2>8, <2>9, <2>10 DEF RowStep
<1>11. LoopOwes'
  BY <1>7, <1>8, <1>10 DEF LoopOwes
<1>12. BaselineRead' /\ RunOpen' /\ SuccessMeansBaseline' /\ NoDanglingRun'
  BY <1>2, <1>4, <1>8 DEF BaselineRead, RunOpen, SuccessMeansBaseline, NoDanglingRun,
                          IndInv, ReadUsable, env
<1> QED
  BY <1>6, <1>9, <1>11, <1>12 DEF IndInv

\* Saving details, and for complete ones recording what they were read for.
Saved(row, q, c) == [row EXCEPT !.quote = q, !.complete = c]
SavedHistory(row, old, c) ==
  IF c THEN [old EXCEPT !.readFor = row.status] ELSE old

LEMMA SaveWrites ==
  ASSUME NEW row, NEW old, NEW base, RowOK(row, old, base), row.known,
         NEW q \in BOOLEAN, NEW c \in BOOLEAN
  PROVE  /\ RowOK(Saved(row, q, c), SavedHistory(row, old, c), base)
         /\ Saved(row, q, c).known = row.known
         /\ Saved(row, q, c).active = row.active
         /\ Saved(row, q, c).complete = c
<1> DEFINE new == Saved(row, q, c)
           next == SavedHistory(row, old, c)
<1>1. /\ new \in Rows /\ new.known = row.known /\ new.active = row.active
      /\ new.missing = row.missing /\ new.status = row.status /\ new.complete = c
  BY DEF RowOK, Rows, Saved
<1>2. row.status \in Statuses \cup {Absent} /\ row.status # Absent /\ old \in History
  BY DEF RowOK, Rows
<1>3. next \in History /\ next.streak = old.streak /\ (c => next.readFor # Absent)
  BY <1>2 DEF History, SavedHistory
<1> HIDE DEF new, next
<1>4. RowOK(new, next, base)
  BY <1>1, <1>3 DEF RowOK
<1> QED
  BY <1>1, <1>4 DEF new, next

LEMMA DetailInv ==
  ASSUME IndInv, NEW r \in Records, NEW quote \in BOOLEAN, NEW auth \in BOOLEAN,
         DetailRead(r, quote) \/ DetailUnreadable(r, auth)
  PROVE  IndInv'
<1>1. TypeOK /\ RowsOK /\ LoopOwes /\ r \in poll.todo /\ poll.pc = "enriching"
  BY DEF IndInv, DetailRead, DetailUnreadable
<1>2. /\ dossier[r] \in Rows /\ dossier[r].known /\ dossier[r].status # Absent
      /\ RowOK(dossier[r], hist[r], account.baseline)
      /\ poll \in Polls
  BY <1>1 DEF RowsOK, RowOK, LoopOwes, TypeOK
<1>3. PICK q \in BOOLEAN, c \in BOOLEAN :
        /\ dossier' = [dossier EXCEPT ![r] = Saved(dossier[r], q, c)]
        /\ hist' = [hist EXCEPT ![r] = SavedHistory(dossier[r], hist[r], c)]
        /\ ~c => r \in poll'.failed
        /\ poll'.todo = poll.todo \ {r} /\ poll.failed \subseteq poll'.failed
        /\ poll' \in Polls /\ poll'.pc = poll.pc /\ poll'.status = poll.status
  <2>1. CASE DetailRead(r, quote)
    <3> WITNESS quote \in BOOLEAN, TRUE \in BOOLEAN
    <3> QED
      BY <1>1, <1>2, <2>1 DEF DetailRead, SaveDetails, TypeOK, Polls, Saved, SavedHistory
  <2>2. CASE DetailUnreadable(r, auth)
    <3> WITNESS FALSE \in BOOLEAN, FALSE \in BOOLEAN
    <3> QED
      BY <1>1, <1>2, <2>2 DEF DetailUnreadable, SaveDetails, TypeOK, Polls, Saved, SavedHistory
  <2> QED
    BY <2>1, <2>2
<1>4. UNCHANGED <<queue, notif, account, openRuns, moves, faults>>
  BY DEF DetailRead, DetailUnreadable, env
<1>5. ASSUME NEW s \in Records
      PROVE  /\ RowOK(dossier'[s], hist'[s], account'.baseline)
             /\ dossier'[s].known = dossier[s].known
             /\ dossier'[s].active = dossier[s].active
             /\ s # r => dossier'[s] = dossier[s]
             /\ dossier'[r].complete \/ r \in poll'.failed
  <2>1. CASE s = r
    <3>1. dossier'[r] = Saved(dossier[r], q, c)
          /\ hist'[r] = SavedHistory(dossier[r], hist[r], c)
      BY <1>1, <1>3 DEF TypeOK
    <3> QED
      BY <1>2, <1>3, <1>4, <2>1, <3>1, SaveWrites
  <2>2. CASE s # r
    <3>1. dossier'[s] = dossier[s] /\ hist'[s] = hist[s]
      BY <1>1, <1>3, <2>2 DEF TypeOK
    <3>2. dossier'[r] = Saved(dossier[r], q, c)
      BY <1>1, <1>3 DEF TypeOK
    <3>3. dossier'[r].complete = c
      BY <1>2, <3>2, SaveWrites
    <3> QED
      BY <1>1, <1>3, <1>4, <2>2, <3>1, <3>3 DEF RowsOK
  <2> QED
    BY <2>1, <2>2
<1>6. RowsOK' /\ dossier' \in [Records -> Rows] /\ hist' \in [Records -> History]
  BY <1>1, <1>3, <1>5 DEF RowsOK, RowOK, TypeOK, History
<1>7. LoopOwes'
  BY <1>1, <1>2, <1>3, <1>5 DEF LoopOwes, Polls
<1>8. TypeOK'
  BY <1>1, <1>3, <1>4, <1>6 DEF TypeOK, History
<1> QED
  BY <1>1, <1>3, <1>4, <1>6, <1>7, <1>8
  DEF IndInv, BaselineRead, RunOpen, SuccessMeansBaseline, NoDanglingRun

\* Steps that leave the dossiers alone: what they must keep of the rest.
LEMMA QuietInv ==
  ASSUME IndInv,
         UNCHANGED <<dossier, notif, hist>>,
         queue' \in Views, poll' \in Polls, openRuns' \in Nat,
         moves' \in 0..MaxMoves, faults' \in 0..MaxFaults,
         account' \in Accounts, account'.baseline = account.baseline,
         BaselineRead', LoopOwes', RunOpen', SuccessMeansBaseline', NoDanglingRun'
  PROVE  IndInv'
<1>1. TypeOK' /\ RowsOK'
  BY DEF IndInv, TypeOK, RowsOK
<1> QED
  BY <1>1 DEF IndInv

LEMMA IdlePoll == NoPoll \in Polls /\ NoPoll.views \in [Records -> SUBSET (Statuses \cup {Absent})]
  BY DEF NoPoll, Polls, PollStatus

LEMMA StepInv == IndInv /\ [Next]_vars => IndInv'
<1> SUFFICES ASSUME IndInv, [Next]_vars PROVE IndInv'
  OBVIOUS
<1>0. /\ TypeOK /\ poll \in Polls /\ account \in Accounts /\ queue \in Views
      /\ openRuns \in Nat /\ moves \in 0..MaxMoves /\ faults \in 0..MaxFaults
      /\ BaselineRead /\ LoopOwes /\ RunOpen /\ SuccessMeansBaseline /\ NoDanglingRun
  BY DEF IndInv, TypeOK
<1> USE DEF BaselineRead, LoopOwes, RunOpen, SuccessMeansBaseline, NoDanglingRun, env
<1>1. ASSUME NEW saved \in BOOLEAN, Begin(saved) PROVE IndInv'
  <2>1. poll' \in Polls /\ poll'.todo = {} /\ poll'.pc \in {"idle", "opening"}
        /\ (poll'.pc = "opening" => poll'.base = account.baseline)
    BY <1>0, <1>1, IdlePoll DEF Begin, NoPoll, Polls, Accounts
  <2> QED
    BY <1>0, <1>1, <2>1, QuietInv DEF Begin
<1>2. CASE OpenLocked
  BY <1>0, <1>2, IdlePoll, QuietInv DEF OpenLocked, EndWithoutTrace, NoPoll
<1>3. CASE OpenFails
  <2>1. account' \in Accounts /\ account'.baseline = account.baseline
        /\ account'.succeeded = account.succeeded
    BY <1>0, <1>3 DEF OpenFails, RecordFailedPoll, PollFinished, SessionAfter, Usable,
                      Accounts, SessionStatus
  <2> QED
    BY <1>0, <1>3, <2>1, IdlePoll, QuietInv DEF OpenFails, RecordFailedPoll, NoPoll
<1>4. CASE Open
  <2>1. poll' \in Polls /\ poll'.todo = poll.todo /\ poll'.pc = "reading"
        /\ poll'.base = poll.base
    <3>1. [r \in Records |-> {queue[r]}] \in [Records -> SUBSET (Statuses \cup {Absent})]
      BY <1>0 DEF Views
    <3> QED
      BY <1>0, <1>4, <3>1 DEF Open, RunStarted, Polls
  <2> QED
    BY <1>0, <1>4, <2>1, QuietInv DEF Open, RunStarted
<1>5. ASSUME NEW status \in Usable, NEW auth \in BOOLEAN, ReadUsable(status, auth) PROVE IndInv'
  BY <1>5, ReconcileInv
<1>6. ASSUME NEW status \in PollStatus, NEW auth \in BOOLEAN, ReadUnusable(status, auth) PROVE IndInv'
  <2>1. poll' \in Polls /\ poll'.todo = {} /\ poll'.pc = "enriching"
        /\ poll'.status \notin Usable
    BY <1>0, <1>6, IdlePoll DEF ReadUnusable, GiveUp, Polls
  <2> QED
    BY <1>0, <1>6, <2>1, QuietInv DEF ReadUnusable, GiveUp, Usable
<1>7. ASSUME NEW r \in Records, NEW quote \in BOOLEAN, DetailRead(r, quote) PROVE IndInv'
  BY <1>7, DetailInv
<1>8. ASSUME NEW r \in Records, NEW auth \in BOOLEAN, DetailUnreadable(r, auth) PROVE IndInv'
  BY <1>8, DetailInv
<1>9. ASSUME NEW auth \in BOOLEAN, DetailAborts(auth) PROVE IndInv'
  <2>1. poll' \in Polls /\ poll'.todo = {} /\ poll'.pc = "enriching"
        /\ poll'.status = "FAILED"
    BY <1>0, <1>9 DEF DetailAborts, Polls, PollStatus
  <2> QED
    BY <1>0, <1>9, <2>1, QuietInv DEF DetailAborts, Usable
<1>10. ASSUME NEW clean \in BOOLEAN, Finish(clean) PROVE IndInv'
  <2>1. PICK status \in PollStatus : PollFinished(status) /\ status \in {poll.status, "FAILED"}
    BY <1>0, <1>10 DEF Finish, RunFinished, Polls, PollStatus
  <2>2. account' \in Accounts /\ account'.baseline = account.baseline
        /\ (account'.succeeded => account.succeeded \/ poll.status = "COMPLETE")
    BY <1>0, <2>1 DEF PollFinished, SessionAfter, Usable, PollStatus, Accounts, SessionStatus
  <2> QED
    BY <1>0, <1>10, <2>2, IdlePoll, QuietInv DEF Finish, RunFinished, NoPoll
<1>11. CASE Abandon
  BY <1>0, <1>11, IdlePoll, QuietInv, BoundsAssumption DEF Abandon, NoPoll
<1>12. ASSUME NEW r \in Records, NEW value \in Statuses \cup {Absent}, PortalMoves(r, value)
       PROVE  IndInv'
  <2>1. queue' \in Views /\ moves' \in 0..MaxMoves
    BY <1>0, <1>12, BoundsAssumption DEF PortalMoves, Views
  <2>2. poll' \in Polls /\ UNCHANGED <<poll.pc, poll.todo, poll.base, poll.status, poll.failed>>
    BY <1>0, <1>12 DEF PortalMoves, Polls
  <2> QED
    BY <1>0, <1>12, <2>1, <2>2, QuietInv DEF PortalMoves
<1>13. ASSUME NEW status \in SessionStatus \ {"UNKNOWN"}, SessionChecked(status)
       PROVE  IndInv'
  <2>1. account' \in Accounts /\ account'.baseline = account.baseline
        /\ account'.succeeded = account.succeeded
    BY <1>0, <1>13 DEF SessionChecked, Accounts
  <2> QED
    BY <1>0, <1>13, <2>1, QuietInv DEF SessionChecked
<1>14. CASE UNCHANGED vars
  BY <1>0, <1>14, QuietInv DEF vars
<1> QED
  BY <1>1, <1>2, <1>3, <1>4, <1>5, <1>6, <1>7, <1>8, <1>9, <1>10, <1>11, <1>12,
     <1>13, <1>14
  DEF Next, PollStep
-----------------------------------------------------------------------------
(* Theorems.                                                               *)

\* The inductive invariant holds of every behaviour.
THEOREM Invariance == Spec => []IndInv
  BY InitInv, StepInv, PTL DEF Spec

\* The tables and the poll's locals always have their types: in particular an
\* absence counter never passes MAX_MISSING_COMPLETE_POLLS.
THEOREM TypeCorrect == Spec => []TypeOK
<1>1. IndInv => TypeOK
  BY DEF IndInv
<1> QED
  BY <1>1, Invariance, PTL

\* No reappearance can fall into the silence of the baseline: reconcile()
\* with a stale create_notifications cannot meet an inactive dossier.
THEOREM BaselineBeforeInactive == Spec => []InactiveOnlyAfterBaseline
<1>1. IndInv => InactiveOnlyAfterBaseline
  BY DEF IndInv, RowsOK, RowOK, InactiveOnlyAfterBaseline
<1> QED
  BY <1>1, Invariance, PTL

\* missing_complete_polls is the number of COMPLETE polls that missed the
\* dossier since any usable poll, a PARTIAL one included, last listed it, and
\* the dossier is shown exactly as long as they are fewer than MaxMissing.
THEOREM AbsenceCount == Spec => []AbsenceCountIsTrue
<1>1. ASSUME IndInv, NEW r \in Records, dossier[r].known
      PROVE  /\ dossier[r].missing = hist[r].streak
             /\ dossier[r].active <=> hist[r].streak < MaxMissing
  <2>1. RowOK(dossier[r], hist[r], account.baseline) /\ dossier[r].active \in BOOLEAN
    BY <1>1 DEF IndInv, RowsOK, RowOK, Rows
  <2>2. ~(MaxMissing < MaxMissing)
    BY MaxMissingAssumption
  <2> QED
    BY <1>1, <2>1, <2>2 DEF RowOK
<1>2. IndInv => AbsenceCountIsTrue
  BY <1>1 DEF AbsenceCountIsTrue
<1> QED
  BY <1>2, Invariance, PTL

\* detail_complete never survives from before an absence.
THEOREM CompleteIsFresh == Spec => []CompleteMeansRead
<1>1. IndInv => CompleteMeansRead
  BY DEF IndInv, RowsOK, RowOK, CompleteMeansRead
<1> QED
  BY <1>1, Invariance, PTL

\* A detail loop that ran to its end has tried every dossier without details.
THEOREM DetailLoopIsComplete == Spec => []NoDetailForgotten
<1>1. IndInv => NoDetailForgotten
  BY DEF IndInv, LoopOwes, NoDetailForgotten
<1> QED
  BY <1>1, Invariance, PTL

\* A recorded success implies a stored baseline.
THEOREM SuccessIsStored == Spec => []SuccessMeansBaseline
<1>1. IndInv => SuccessMeansBaseline
  BY DEF IndInv
<1> QED
  BY <1>1, Invariance, PTL

\* An unfinished run row belongs to an abandoned or a running poll.
THEOREM PollRecords == Spec => []NoDanglingRun
<1>1. IndInv => NoDanglingRun
  BY DEF IndInv
<1> QED
  BY <1>1, Invariance, PTL

\* A reconciliation changes the dashboard the way DossierLifecycle's Observe
\* does: appearances, and retirements once the baseline is there.
LEMMA ReconcileEffect ==
  ASSUME IndInv, NEW status \in Usable, NEW auth \in BOOLEAN, NEW view \in ReadViews(status),
         poll.pc = "reading", Reconcile(status, auth, view), NEW r \in Records
  PROVE  LET row == dossier[r] new == dossier'[r] IN
    /\ r \in Listed(view) => new.known /\ new.active
    /\ r \notin Listed(view) => new.known = row.known /\ (new.active => row.active)
    /\ r \notin Listed(view) /\ row.active /\ ~new.active => account.baseline
    /\ row.active => row.known
    /\ notif'[r] = IF account.baseline /\ r \in Listed(view) /\ ~row.active
                   THEN notif[r] + 1 ELSE notif[r]
<1>1. /\ RowOK(dossier[r], hist[r], account.baseline)
      /\ dossier[r] \in Rows /\ view \in Views /\ status \in PollStatus
      /\ poll.base = account.baseline
      /\ account.baseline \in BOOLEAN
      /\ dossier'[r] = Reconciled(r, status, view)
      /\ r \in Listed(view) <=> view[r] # Absent
      /\ view[r] # Absent => view[r] \in Statuses
  BY DEF IndInv, TypeOK, Accounts, RowsOK, RowOK, BaselineRead, ReadViews, Usable,
         PollStatus, Reconcile, Listed, Views
<1>2. /\ dossier[r].active => dossier[r].known /\ dossier[r].missing < MaxMissing
      /\ ~account.baseline => dossier[r].missing = 0
  BY <1>1 DEF RowOK
<1>3. notif'[r] = IF account.baseline /\ r \in Listed(view) /\ ~dossier[r].active
                  THEN notif[r] + 1 ELSE notif[r]
  BY <1>1, <1>2 DEF Reconcile, ToNotify, ToCreate, ToReactivate
<1>4. RowStep(dossier[r], dossier'[r], status, view[r])
  BY <1>1, RowCases
<1>5. CASE view[r] # Absent /\ ~dossier[r].known /\ dossier'[r] = CreateFromRow(view[r])
  BY <1>1, <1>2, <1>3, <1>5, CreateWrites
<1>6. CASE view[r] # Absent /\ dossier[r].known /\ ~dossier[r].active
             /\ dossier'[r] = Reactivate(dossier[r], view[r])
  BY <1>1, <1>2, <1>3, <1>6, ReactivateWrites
<1>7. CASE view[r] # Absent /\ dossier[r].known /\ dossier[r].active
             /\ dossier'[r] = Touch(dossier[r], view[r])
  BY <1>1, <1>2, <1>3, <1>7, TouchWrites
<1>8. CASE view[r] = Absent /\ dossier[r].known /\ dossier[r].active
             /\ dossier'[r] = CountAbsence(dossier[r], dossier[r].missing + 1 >= MaxMissing)
  <2>1. \A gone \in BOOLEAN :
          LET new == CountAbsence(dossier[r], gone)
          IN  new.known = dossier[r].known /\ new.active = ~gone
    BY <1>1, <1>2, <1>8, CountAbsenceWrites
  <2>2. (dossier[r].missing + 1 >= MaxMissing) \in BOOLEAN
    OBVIOUS
  <2>3. dossier'[r].known = dossier[r].known
        /\ dossier'[r].active = ~(dossier[r].missing + 1 >= MaxMissing)
    BY <1>8, <2>1, <2>2
  <2>4. ~dossier'[r].active => dossier[r].missing + 1 >= MaxMissing
    BY <2>3
  <2>5. dossier[r].missing = 0 => ~(dossier[r].missing + 1 >= MaxMissing)
    BY MaxMissingAssumption
  <2> QED
    BY <1>1, <1>2, <1>3, <1>8, <2>3, <2>4, <2>5
<1>9. CASE view[r] = Absent /\ dossier'[r] = dossier[r]
  BY <1>1, <1>2, <1>3, <1>9
<1> QED
  BY <1>4, <1>5, <1>6, <1>7, <1>8, <1>9 DEF RowStep

\* Outside a reconciliation nobody appears, retires or is notified about, and
\* the baseline stays what it is.
LEMMA QuietSteps ==
  ASSUME IndInv, [Next]_vars
  PROVE  \/ \E status \in Usable, auth \in BOOLEAN : ReadUsable(status, auth)
         \/ /\ UNCHANGED notif /\ account'.baseline = account.baseline
            /\ \A r \in Records : /\ dossier'[r].active = dossier[r].active
                                  /\ dossier'[r].known = dossier[r].known
<1>1. /\ dossier \in [Records -> Rows] /\ account \in Accounts
  BY DEF IndInv, TypeOK
<1>2. ASSUME NEW r \in Records, NEW q \in BOOLEAN, NEW c \in BOOLEAN, SaveDetails(r, q, c)
      PROVE  \A s \in Records : /\ dossier'[s].active = dossier[s].active
                                /\ dossier'[s].known = dossier[s].known
  BY <1>1, <1>2 DEF SaveDetails, Rows
<1>3. CASE UNCHANGED <<dossier, notif, account>>
  BY <1>3
<1>4. CASE UNCHANGED <<dossier, notif>> /\ \E status \in PollStatus : PollFinished(status)
  BY <1>1, <1>4 DEF PollFinished, Accounts
<1>5. ASSUME NEW status \in SessionStatus, SessionChecked(status)
      PROVE  UNCHANGED <<dossier, notif>> /\ account'.baseline = account.baseline
  BY <1>1, <1>5 DEF SessionChecked, Accounts
<1>6. ASSUME NEW clean \in BOOLEAN, Finish(clean)
      PROVE  UNCHANGED <<dossier, notif>> /\ \E status \in PollStatus : PollFinished(status)
  BY <1>6 DEF IndInv, TypeOK, Polls, Finish, PollStatus
<1>7. OpenFails => UNCHANGED <<dossier, notif>> /\ \E status \in PollStatus : PollFinished(status)
  BY DEF OpenFails, RecordFailedPoll, PollStatus
<1>8. ASSUME NEW r \in Records, NEW quote \in BOOLEAN, NEW auth \in BOOLEAN,
             DetailRead(r, quote) \/ DetailUnreadable(r, auth)
      PROVE  /\ UNCHANGED notif /\ account'.baseline = account.baseline
             /\ \A s \in Records : /\ dossier'[s].active = dossier[s].active
                                   /\ dossier'[s].known = dossier[s].known
  BY <1>2, <1>8 DEF DetailRead, DetailUnreadable
<1>9. CASE \E saved \in BOOLEAN : Begin(saved)
  BY <1>3, <1>9 DEF Begin
<1>10. CASE OpenLocked \/ Open \/ Abandon \/ UNCHANGED vars
  BY <1>3, <1>10 DEF OpenLocked, EndWithoutTrace, Open, Abandon, vars
<1>11. CASE \E status \in PollStatus, auth \in BOOLEAN : ReadUnusable(status, auth)
  BY <1>3, <1>11 DEF ReadUnusable, GiveUp
<1>12. CASE \E auth \in BOOLEAN : DetailAborts(auth)
  BY <1>3, <1>12 DEF DetailAborts
<1>13. CASE \E r \in Records, value \in Statuses \cup {Absent} : PortalMoves(r, value)
  BY <1>3, <1>13 DEF PortalMoves
<1> QED
  BY <1>4, <1>5, <1>6, <1>7, <1>8, <1>9, <1>10, <1>11, <1>12, <1>13 DEF Next, PollStep

\* Each appearance after the baseline commits exactly one notification with
\* it, whatever else happens to the poll.
THEOREM AlertsAreExact == Spec => AlertPerAppearance
<1> DEFINE Exact == \A r \in Records :
             LET appears == dossier'[r].active /\ ~dossier[r].active
             IN  notif'[r] = notif[r] + IF appears /\ account.baseline THEN 1 ELSE 0
<1>1. ASSUME IndInv, [Next]_vars PROVE Exact
  <2>1. TypeOK /\ \A r \in Records : notif[r] \in Nat
    BY <1>1 DEF IndInv, TypeOK
  <2>2. CASE \E status \in Usable, auth \in BOOLEAN : ReadUsable(status, auth)
    <3>1. PICK status \in Usable, auth \in BOOLEAN :
            poll.pc = "reading" /\ \E view \in ReadViews(status) : Reconcile(status, auth, view)
      BY <2>2 DEF ReadUsable
    <3> PICK view \in ReadViews(status) : Reconcile(status, auth, view)
      BY <3>1
    <3>2. ASSUME NEW r \in Records
          PROVE  /\ notif'[r] = IF account.baseline /\ r \in Listed(view) /\ ~dossier[r].active
                                THEN notif[r] + 1 ELSE notif[r]
                 /\ r \in Listed(view) => dossier'[r].active
                 /\ r \notin Listed(view) => (dossier'[r].active => dossier[r].active)
      BY <1>1, <3>1, <3>2, ReconcileEffect
    <3> QED
      BY <2>1, <3>2
  <2>3. CASE UNCHANGED notif /\ \A r \in Records : dossier'[r].active = dossier[r].active
    BY <2>1, <2>3
  <2> QED
    BY <1>1, <2>2, <2>3, QuietSteps
<1>2. ASSUME IndInv, [Next]_vars PROVE [Exact]_vars
  BY <1>1, <1>2
<1> QED
  BY <1>2, Invariance, PTL DEF Spec, AlertPerAppearance

\* The tables implement DossierLifecycle: initial states map to initial
\* states, a reconciliation to one Observe step, every other step to a stutter.
THEOREM Refinement == Spec => ImplementsLifecycle
<1>1. Init => Lifecycle!LifeInit
  <2> SUFFICES ASSUME Init PROVE Lifecycle!LifeInit
    OBVIOUS
  <2>1. account.baseline = FALSE
    BY DEF Init
  <2>2. [r \in Records |-> LifeOf(dossier[r])] = [r \in Records |-> "unknown"]
    BY DEF Init, LifeOf, NoRow
  <2> QED
    BY <2>1, <2>2 DEF Init, Lifecycle!LifeInit
<1>2. ASSUME IndInv, [Next]_vars PROVE [Lifecycle!LifeNext]_(Lifecycle!lifeVars)
  <2> DEFINE life == [r \in Records |-> LifeOf(dossier[r])]
  <2>0. /\ TypeOK /\ account.baseline \in BOOLEAN
        /\ notif \in [Records -> Nat]
        /\ \A r \in Records : dossier[r].active => dossier[r].known
    BY <1>2 DEF IndInv, TypeOK, Accounts, RowsOK, RowOK
  <2>1. CASE \E status \in Usable, auth \in BOOLEAN : ReadUsable(status, auth)
    <3>1. PICK status \in Usable, auth \in BOOLEAN :
            poll.pc = "reading" /\ \E view \in ReadViews(status) : Reconcile(status, auth, view)
      BY <2>1 DEF ReadUsable
    <3> PICK view \in ReadViews(status) : Reconcile(status, auth, view)
      BY <3>1
    <3> DEFINE seen == Listed(view)
               gone == {r \in Records \ seen : dossier[r].active /\ ~dossier'[r].active}
    <3>2. ASSUME NEW r \in Records
          PROVE  LET row == dossier[r] new == dossier'[r] IN
            /\ r \in seen => new.known /\ new.active
            /\ r \notin seen => new.known = row.known /\ (new.active => row.active)
            /\ r \notin seen /\ row.active /\ ~new.active => account.baseline
            /\ row.active => row.known
            /\ notif'[r] = IF account.baseline /\ r \in seen /\ ~row.active
                           THEN notif[r] + 1 ELSE notif[r]
      BY <1>2, <3>1, <3>2, ReconcileEffect
    <3>3. seen \in SUBSET Records /\ gone \in SUBSET Records
      BY DEF Listed
    <3>4. gone \subseteq {r \in Records \ seen : life[r] = "active"}
      BY <2>0 DEF LifeOf
    <3>5. gone # {} => account.baseline
      BY <3>2
    <3>6. life' = [r \in Records |-> IF r \in seen THEN "active"
                                     ELSE IF r \in gone THEN "inactive" ELSE life[r]]
      BY <2>0, <3>2 DEF LifeOf
    <3>7. notif' = [r \in Records |->
                      IF account.baseline /\ r \in seen /\ life[r] # "active"
                      THEN notif[r] + 1 ELSE notif[r]]
      BY <2>0, <3>1, <3>2 DEF LifeOf, Reconcile
    <3>8. account'.baseline \in {account.baseline, TRUE}
      BY <2>0, <3>1 DEF Reconcile, TypeOK, Accounts
    <3> HIDE DEF seen, gone
    <3> QED
      BY <3>3, <3>4, <3>5, <3>6, <3>7, <3>8 DEF Lifecycle!LifeNext, Lifecycle!Observe
  <2>2. CASE /\ UNCHANGED notif /\ account'.baseline = account.baseline
             /\ \A r \in Records : /\ dossier'[r].active = dossier[r].active
                                   /\ dossier'[r].known = dossier[r].known
    BY <2>2 DEF LifeOf, Lifecycle!lifeVars
  <2> QED
    BY <1>2, <2>1, <2>2, QuietSteps
<1> QED
  BY <1>1, <1>2, Invariance, PTL DEF Spec, ImplementsLifecycle, Lifecycle!LifeSpec
-----------------------------------------------------------------------------
(* What a failing detail page may leave behind.                            *)

\* A quote date is lost to a page that was read, or to a recorded failure.
THEOREM LostDates == Spec => DatesLostAreOwed
<1> DEFINE Owed == \A r \in Records : dossier[r].quote /\ ~dossier'[r].quote =>
             IF dossier'[r].complete THEN hist'[r].readFor = dossier[r].status
             ELSE r \in poll'.failed
<1>1. ASSUME IndInv, [Next]_vars PROVE Owed
  <2>0. /\ dossier \in [Records -> Rows] /\ hist \in [Records -> History] /\ poll \in Polls
    BY <1>1 DEF IndInv, TypeOK, History
  <2>1. CASE UNCHANGED dossier
    BY <2>1
  <2>2. ASSUME NEW status \in Usable, NEW auth \in BOOLEAN, ReadUsable(status, auth) PROVE Owed
    <3> PICK view \in ReadViews(status) : Reconcile(status, auth, view)
      BY <2>2 DEF ReadUsable
    <3> SUFFICES ASSUME NEW r \in Records, dossier[r].quote PROVE dossier'[r].quote
      OBVIOUS
    <3>1. /\ dossier[r] \in Rows /\ view \in Views /\ status \in PollStatus
          /\ dossier'[r] = Reconciled(r, status, view)
      BY <2>0 DEF ReadViews, Usable, PollStatus, Reconcile
    <3>2. dossier[r].known
      BY <1>1 DEF IndInv, RowsOK, RowOK, NoRow
    <3>3. RowStep(dossier[r], dossier'[r], status, view[r])
      BY <3>1, RowCases
    <3> QED
      BY <3>1, <3>2, <3>3 DEF RowStep, Rows, Reactivate, Touch, CountAbsence
  <2>3. ASSUME NEW r \in Records, NEW quote \in BOOLEAN, DetailRead(r, quote) PROVE Owed
    BY <2>0, <2>3 DEF DetailRead, SaveDetails, Rows, History
  <2>4. ASSUME NEW r \in Records, NEW auth \in BOOLEAN, DetailUnreadable(r, auth) PROVE Owed
    BY <2>0, <2>4 DEF DetailUnreadable, SaveDetails, Rows, Polls
  <2> QED
    BY <1>1, <2>1, <2>2, <2>3, <2>4
    DEF Next, PollStep, Begin, OpenLocked, OpenFails, RecordFailedPoll, EndWithoutTrace,
        Open, ReadUnusable, GiveUp, DetailAborts, Finish, Abandon, PortalMoves,
        SessionChecked, vars
<1>2. ASSUME IndInv, [Next]_vars PROVE [Owed]_vars
  BY <1>1, <1>2
<1> QED
  BY Invariance, <1>2, PTL DEF Spec, DatesLostAreOwed

\* No step of a poll repeats: with n dossiers it takes at most n + 3 steps,
\* which is all of PollEnds but the fairness.
THEOREM PollIsBounded == Spec => PollAdvances
<1> DEFINE Advances == \/ Stages[poll'.pc] < Stages[poll.pc]
                       \/ /\ poll'.pc = poll.pc
                          /\ poll'.todo \subseteq poll.todo /\ poll'.todo # poll.todo
<1>1. ASSUME IndInv, PollStep PROVE Advances
  <2>1. poll \in Polls
    BY <1>1 DEF IndInv, TypeOK
  <2>2. /\ Stages["idle"] < Stages["enriching"] /\ Stages["enriching"] < Stages["reading"]
        /\ Stages["reading"] < Stages["opening"] /\ Stages["idle"] < Stages["opening"]
    BY DEF Stages
  <2>3. CASE OpenLocked \/ OpenFails \/ \E clean \in BOOLEAN : Finish(clean)
    <3>1. poll.pc \in {"opening", "enriching"} /\ poll'.pc = "idle"
      BY <2>3 DEF OpenLocked, OpenFails, EndWithoutTrace, RecordFailedPoll, Finish, NoPoll
    <3> QED
      BY <2>2, <3>1
  <2>4. CASE Open
    <3>1. poll.pc = "opening" /\ poll'.pc = "reading"
      BY <2>1, <2>4 DEF Open, Polls
    <3> QED
      BY <2>2, <3>1
  <2>5. CASE (\E status \in Usable, auth \in BOOLEAN : ReadUsable(status, auth))
             \/ (\E status \in PollStatus, auth \in BOOLEAN : ReadUnusable(status, auth))
    <3>1. poll.pc = "reading" /\ poll'.pc = "enriching"
      BY <2>1, <2>5 DEF ReadUsable, Reconcile, ReadUnusable, GiveUp, Polls
    <3> QED
      BY <2>2, <3>1
  <2>6. ASSUME NEW r \in Records, NEW quote \in BOOLEAN, NEW auth \in BOOLEAN,
               DetailRead(r, quote) \/ DetailUnreadable(r, auth)
        PROVE  Advances
    <3>1. r \in poll.todo /\ poll'.todo = poll.todo \ {r} /\ poll'.pc = poll.pc
      BY <2>1, <2>6 DEF DetailRead, DetailUnreadable, Polls
    <3> QED
      BY <3>1
  <2>7. ASSUME NEW auth \in BOOLEAN, DetailAborts(auth) PROVE Advances
    BY <2>1, <2>7 DEF DetailAborts, Polls
  <2> QED
    BY <1>1, <2>3, <2>4, <2>5, <2>6, <2>7 DEF PollStep
<1>2. ASSUME IndInv, [Next]_vars PROVE [PollStep => Advances]_vars
  BY <1>1, <1>2
<1> QED
  BY Invariance, <1>2, PTL DEF Spec, PollAdvances
=============================================================================
