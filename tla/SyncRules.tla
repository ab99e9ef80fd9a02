------------------------------ MODULE SyncRules ------------------------------
(***************************************************************************)
(* The reconciliation policy of domain/sync_rules.py: which dossiers one   *)
(* poll of the OmegaFlow queue creates, reactivates, refreshes, counts as  *)
(* absent or deactivates.  The policy is pure.  rows is the dossier table  *)
(* ([Records -> row], known |-> FALSE for a record that has no row), seen  *)
(* the set of record ids the poll returned.                                *)
(*                                                                         *)
(* A definition introduced by "Slip:" here and in the other modules is not *)
(* the code's: it is the next definition with a plausible mistake, kept to *)
(* show which property notices it.                                         *)
(***************************************************************************)
EXTENDS Naturals

CONSTANTS
  Records,      \* record ids of Knack's queue table (tr[id])
  MaxMissing    \* MAX_MISSING_COMPLETE_POLLS (2 in the code)

\* The baseline argument needs two absences: a dossier stored by a PARTIAL
\* poll is counted absent once by the COMPLETE poll that sets the baseline.
ASSUME MaxMissingAssumption == MaxMissing \in Nat /\ MaxMissing >= 2

PollStatus == {"COMPLETE", "PARTIAL", "AUTH_REQUIRED", "FAILED"}

\* AUTH_REQUIRED and FAILED polls return before any set is computed.
Usable == {"COMPLETE", "PARTIAL"}

ToCreate(seen, rows)     == {r \in seen : ~rows[r].known}
ToReactivate(seen, rows) == {r \in seen : rows[r].known /\ ~rows[r].active}
ToTouch(seen, rows)      == {r \in seen : rows[r].known /\ rows[r].active}

\* Keys of absence_increments; the new value is missing + 1.
Absentees(status, seen, rows) ==
  {r \in Records \ seen : status = "COMPLETE" /\ rows[r].known /\ rows[r].active}

ToDeactivate(status, seen, rows) ==
  {r \in Absentees(status, seen, rows) : rows[r].missing + 1 >= MaxMissing}

IsBaselinePoll(status, baseline) == status = "COMPLETE" /\ ~baseline

\* Slip: the baseline poll announces the whole queue.
ToNotifyAlways(baseline, seen, rows) ==
  ToCreate(seen, rows) \cup ToReactivate(seen, rows)

\* create_notifications: applied to created and reactivated dossiers alike.
ToNotify(baseline, seen, rows) ==
  IF baseline THEN ToCreate(seen, rows) \cup ToReactivate(seen, rows) ELSE {}
=============================================================================
