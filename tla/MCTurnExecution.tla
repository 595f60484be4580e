--------------------------- MODULE MCTurnExecution ---------------------------
(* TurnExecution for TLC: turns a1 and a2 and the reset r share topic A,     *)
(* turn b has topic B of the same chat.                                      *)
EXTENDS TurnExecution

CONSTANTS a1, a2, r, b, A, B, C

MCKeyOf == [x \in Task |-> IF x = b THEN B ELSE A]
MCChatOf == [k \in Key |-> C]

(* Bounds: the tasks of one behaviour, which may all be under way at a time. *)
Arrived == {x \in Task : pc[x] # "new"}
OneTopicOrTwo == Arrived \subseteq {a1, a2, r} \/ Arrived \subseteq {a1, b}
TwoTasks == Arrived \subseteq {a1, a2} \/ Arrived \subseteq {a1, r}
=============================================================================
