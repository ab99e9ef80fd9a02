------------------------------ MODULE MCAccounts ------------------------------
(* An instance of Accounts for TLC: two accounts, a name spelt in two ways. *)
EXTENDS Accounts

CONSTANTS u1, u2, Ana, ana, bob, r1, r2, s1, s2

TwoIds == {u1, u2}
ThreeSpellings == {Ana, ana, bob}
Folded == [s \in ThreeSpellings |-> IF s = Ana THEN ana ELSE s]
TwoRequests == {r1, r2}
TwoSecrets == {s1, s2}
=============================================================================
