----------------------------- MODULE MCDashboard -----------------------------
(* An instance of DashboardList for TLC: two dossiers and two employees.    *)
EXTENDS DashboardList, TLC

CONSTANTS d1, d2, ann, bob

TwoRecords == {d1, d2}
TwoUsers == {ann, bob}
Symmetry == Permutations(TwoRecords) \cup Permutations(TwoUsers)
=============================================================================
