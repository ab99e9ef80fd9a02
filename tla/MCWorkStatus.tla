---------------------------- MODULE MCWorkStatus ----------------------------
(* Instances of WorkStatus for TLC.                                        *)
EXTENDS WorkStatus, FiniteSets, TLC

CONSTANTS e1, e2, e3, todo, done

ThreeEmployees == {e1, e2, e3}
TwoStatuses == {todo, done}
DeskSymmetry == Permutations(ThreeEmployees) \cup Permutations(TwoStatuses)
=============================================================================
