---------------------------- MODULE MCProcessTree ----------------------------
(* Besides the lead and the caller, processes that are there from the start  *)
(* or forked while the tree is brought down.                                 *)
EXTENDS ProcessTree, TLC

Symmetry == Permutations(Process \ {Lead, Self})
=============================================================================
