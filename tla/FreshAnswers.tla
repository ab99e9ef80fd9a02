----------------------------- MODULE FreshAnswers -----------------------------
(***************************************************************************)
(* What execute() promises its callers, without lock, Future or number of  *)
(* polls: polls follow one another, and whoever asks is answered with the  *)
(* outcome of a poll that was not over yet, or with his own cancellation.  *)
(***************************************************************************)
EXTENDS Naturals, Sequences

CONSTANTS Callers, Outcomes

VARIABLES
  running,  \* a poll is
  over,     \* outcomes of the polls that are over, in their order
  call,     \* [Callers -> [at, after, outcome]]; after: polls over when it was made
  told      \* callers told to stop

answerVars == <<running, over, call, told>>

NoCall == [at |-> "none", after |-> 0, outcome |-> "none"]

AnswerInit ==
  /\ running = FALSE /\ over = <<>> /\ told = {}
  /\ call = [c \in Callers |-> NoCall]

\* Asking gets a poll going, or finds one going.
Ask(c) ==
  /\ call[c].at = "none"
  /\ call' = [call EXCEPT ![c] = [at |-> "asked", after |-> Len(over), outcome |-> "none"]]
  /\ running' = TRUE
  /\ UNCHANGED <<over, told>>

Answered(c, outcome) ==
  /\ call[c].at = "asked"
  /\ call' = [call EXCEPT ![c] = [at |-> "answered", after |-> call[c].after,
                                  outcome |-> outcome]]

\* One of those who asked ran the poll, and answers for its cancellation.
End(c) == \E outcome \in Outcomes :
  /\ running /\ running' = FALSE
  /\ outcome = "cancelled" => c \in told
  /\ over' = Append(over, outcome)
  /\ Answered(c, outcome)
  /\ UNCHANGED told

\* The others share the outcome of a poll that ended after they asked.
Share(c) ==
  /\ \E n \in 1..Len(over) : n > call[c].after /\ Answered(c, over[n])
  /\ UNCHANGED <<running, over, told>>

GiveUp(c) ==
  /\ c \in told
  /\ Answered(c, "cancelled")
  /\ UNCHANGED <<running, over, told>>

Take(c) ==
  /\ call[c].at = "answered"
  /\ call' = [call EXCEPT ![c] = NoCall]
  /\ UNCHANGED <<running, over, told>>

Tell ==
  /\ \E more \in SUBSET Callers : told' = told \cup more
  /\ UNCHANGED <<running, over, call>>

AnswerNext ==
  \/ \E c \in Callers : Ask(c) \/ End(c) \/ Share(c) \/ GiveUp(c) \/ Take(c)
  \/ Tell

AnswerSpec == AnswerInit /\ [][AnswerNext]_answerVars
=============================================================================
