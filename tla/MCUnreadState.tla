---------------------------- MODULE MCUnreadState ----------------------------
(* Instances of UnreadState for TLC.                                        *)
EXTENDS UnreadState, TLC

CONSTANTS alice, bob, t1, t2

TwoUsers == {alice, bob}
TwoTabs == {t1, t2}
OfficeSymmetry == Permutations(TwoUsers) \cup Permutations(TwoTabs)
=============================================================================
