----------------------------- MODULE MCSyncQueue -----------------------------
(* Instances of SyncQueue for TLC.                                          *)
EXTENDS SyncQueue, TLC

CONSTANTS q1, q2

TwoRequests == {q1, q2}
=============================================================================
