-------------------------------- MODULE Inbox --------------------------------
(***************************************************************************)
(* What the notifications of a dossier promise the employees, without      *)
(* transactions, tabs or rejected writes: who joins inherits nothing       *)
(* unread, and opening the dossier reads from the oldest on, so that what  *)
(* is unread is always the latest.                                         *)
(***************************************************************************)
EXTENDS Naturals

CONSTANT Users

VARIABLES
  sent,   \* notifications so far: 1..sent
  staff,  \* users with an account
  read    \* [Users -> notifications read]

inboxVars == <<sent, staff, read>>

InboxInit == sent = 0 /\ staff = {} /\ read = [u \in Users |-> {}]

Send == sent' = sent + 1 /\ UNCHANGED <<staff, read>>

Join(u) ==
  /\ u \notin staff /\ staff' = staff \cup {u}
  /\ read' = [read EXCEPT ![u] = 1..sent]
  /\ UNCHANGED sent

\* A notification may come while the page is being made, and stay unread.
Open(u) ==
  /\ u \in staff
  /\ \E n \in 0..sent : read' = [read EXCEPT ![u] = @ \cup 1..n]
  /\ UNCHANGED <<sent, staff>>

InboxNext == Send \/ \E u \in Users : Join(u) \/ Open(u)

InboxSpec == InboxInit /\ [][InboxNext]_inboxVars
=============================================================================
