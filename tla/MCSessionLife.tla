---------------------------- MODULE MCSessionLife ----------------------------
(* SessionLife for TLC: the messages are of topic A; topic B has its resets. *)
EXTENDS SessionLife

CONSTANTS A, B

MCKeyOf == [u \in Update |-> A]
=============================================================================
