---------------------------- MODULE MCLoginWindow ----------------------------
(* An instance of LoginWindow for TLC: the first tab and another one.       *)
EXTENDS LoginWindow

CONSTANTS first, extra

TwoTabs == {first, extra}
=============================================================================
