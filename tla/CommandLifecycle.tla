-------------------------- MODULE CommandLifecycle --------------------------
(***************************************************************************)
(* What the ISAPI command queue promises to administrators about every     *)
(* command: it is queued once, handed to the terminal at most once and     *)
(* before its deadline, and ends completed with one answer or expired at   *)
(* its deadline.  Neither ending is ever left.  One transaction may move   *)
(* several commands.                                                       *)
(***************************************************************************)
CONSTANTS
  Commands,  \* identities of commands
  Answers,   \* answers a terminal may return
  NoAnswer   \* the answer of a command that is not completed

VARIABLES
  state,     \* state[c]: where the command is in its life
  answer,    \* answer[c]: the answer retained for it
  overdue    \* commands whose deadline has passed

vars == <<state, answer, overdue>>

Init ==
  /\ state = [c \in Commands |-> "none"]
  /\ answer = [c \in Commands |-> NoAnswer]
  /\ overdue = {}

Stay(c) == state'[c] = state[c] /\ answer'[c] = answer[c]

Queue(c) ==
  state[c] = "none" /\ state'[c] = "queued" /\ answer'[c] = NoAnswer

Send(c) ==
  /\ state[c] = "queued" /\ c \notin overdue
  /\ state'[c] = "sent" /\ answer'[c] = NoAnswer

Complete(c) ==
  state[c] = "sent" /\ state'[c] = "completed" /\ answer'[c] \in Answers

Expire(c) ==
  /\ state[c] \in {"queued", "sent"} /\ c \in overdue
  /\ state'[c] = "expired" /\ answer'[c] = NoAnswer

Move(c) == Stay(c) \/ Queue(c) \/ Send(c) \/ Complete(c) \/ Expire(c)

\* A transaction moves any number of commands one step; deadlines only pass.
Next ==
  /\ \A c \in Commands : Move(c)
  /\ overdue \subseteq overdue'

Spec == Init /\ [][Next]_vars
=============================================================================
