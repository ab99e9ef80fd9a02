------------------------------ MODULE ProfileUse ------------------------------
(***************************************************************************)
(* What the profile lock is for: one browser under control at a time, of   *)
(* whichever process, and none at all after a browser of the application   *)
(* whose close was not confirmed, until the application's process is gone. *)
(* There is one exception: while the application is ending, a window may   *)
(* be left unclosed and the profile given back all the same.               *)
(***************************************************************************)
CONSTANTS
  Tasks,    \* users that live in the application's process
  Windows,  \* those among them an employee sits in front of
  Others    \* users with a process of their own

VARIABLES
  life,      \* the application's process: "off", "up" or "ending"
  using,     \* users with a browser under control
  unclosed,  \* a browser of the application may be running, its close unconfirmed
  kept       \* the profile is kept from everybody

profileVars == <<life, using, unclosed, kept>>

ProfileInit == life = "off" /\ using = {} /\ ~unclosed /\ ~kept

Begin ==
  /\ life = "off" /\ life' = "up"
  /\ UNCHANGED <<using, unclosed, kept>>

End ==
  /\ life = "up" /\ life' = "ending"
  /\ UNCHANGED <<using, unclosed, kept>>

Open(u) ==
  /\ using = {} /\ ~kept
  /\ u \in Tasks => life # "off"
  /\ using' = {u}
  /\ UNCHANGED <<life, unclosed, kept>>

Close(u) ==
  /\ u \in using /\ using' = using \ {u}
  /\ UNCHANGED <<life, unclosed, kept>>

Abandon(u) ==
  /\ u \in Tasks \cap using /\ using' = using \ {u}
  /\ unclosed' = TRUE
  /\ \/ kept' = TRUE
     \/ u \in Windows /\ life = "ending" /\ UNCHANGED kept
  /\ UNCHANGED life

Die ==
  /\ life # "off" /\ life' = "off"
  /\ using' = using \ Tasks
  /\ unclosed' = FALSE /\ kept' = FALSE

ProfileNext ==
  \/ Begin \/ End \/ Die
  \/ \E u \in Tasks \cup Others : Open(u) \/ Close(u) \/ Abandon(u)

ProfileSpec == ProfileInit /\ [][ProfileNext]_profileVars
=============================================================================
