-------------------------- MODULE MCAppServerBridge --------------------------
(* AppServerBridge for TLC: final answer f and commentary c of the bridge's  *)
(* turn, a tool call x of another turn of its thread, and a message y of a   *)
(* turn of the same number of another thread.                                *)
EXTENDS AppServerBridge, TLC

CONSTANTS f, c, x, y

MCThread == [i \in Item |-> IF i = y THEN "other" ELSE "mine"]
MCTurn == [i \in Item |-> IF i = x THEN "other" ELSE "mine"]
MCPhase == (f :> "final_answer") @@ (c :> "commentary")
             @@ (x :> "tool") @@ (y :> "final_answer")
=============================================================================
