------------------------------ MODULE RunMessage ------------------------------
(* run_message as a whole: the status reaction and the progress message are  *)
(* kept by the same callbacks, one call at a time, and cleared one after the *)
(* other in its finally.  TelegramDelivery and StageReaction have the parts; *)
(* this module has the order in which run_message goes through them.         *)
(*                                                                           *)
(* A definition that no other one uses is a fault the code could have had in *)
(* place of the definition after it (PROJECT.json, mutants).                 *)
EXTENDS TelegramDelivery, StageReaction

runVars == <<vars, reactionVars>>

RunInit == Init /\ ReactionInit

-----------------------------------------------------------------------------
(* A callback sets its reaction, and then renders.                           *)
ReactionStep == /\ pc = "idle"
                /\ Stage \/ Answered \/ Unanswered
                /\ UNCHANGED vars

ProgressStep == /\ \/ reacting = "turn" /\ ProgressEvent
                   \/ Rendering
                   \/ ~Clearing /\ Deleting
                /\ UNCHANGED reactionVars

(* handle_message returns or raises while no call is out, or a call of a     *)
(* callback raises or is cancelled; all of them lead into the finally.       *)
TurnOver == \/ TurnReturns /\ result' # "cancelled" /\ TurnEnds
            \/ TurnReturns /\ result' = "cancelled" /\ Cancelled
            \/ (CallbackRaises \/ CallbackCancelled) /\ TurnEnds

(* The progress is cleared and the answer sent; an error out of the clear()  *)
(* of the finally skips what comes after it.                                 *)
ClearProgress == \/ /\ ClearNext \/ ClearAgain \/ GiveUp \/ Cleared
                    /\ UNCHANGED reactionVars
                 \/ Clearing /\ Deleting /\ UNCHANGED reactionVars
                 \/ ClearRaises /\ IF pc' = "over" THEN ClearSkipped
                                   ELSE UNCHANGED reactionVars

SendAnswer == Sending /\ UNCHANGED reactionVars

(* tracker.clear() comes last, also when the answer could not be sent.       *)
ClearOnSuccess == /\ pc = "over"
                  /\ IF result \in {"answered", "silent"} THEN Clear ELSE ClearSkipped
                  /\ UNCHANGED vars
ClearReaction == /\ pc = "over"
                 /\ Clear
                 /\ UNCHANGED vars
ReactionCleared == (ClearAnswered \/ ClearLost) /\ UNCHANGED vars

Going == ReactionStep \/ ProgressStep \/ ClearProgress \/ SendAnswer
           \/ ClearReaction \/ ReactionCleared

RunOver == reacting = "over" /\ UNCHANGED runVars

RunNext == Going \/ TurnOver \/ (RemovedByOthers /\ UNCHANGED reactionVars) \/ RunOver

(* Every Telegram call returns or fails, and the turn ends, however often it *)
(* calls back before (TurnExecution has why).                                *)
RunSpec == RunInit /\ [][RunNext]_runVars /\ WF_runVars(Going) /\ SF_runVars(TurnOver)

-----------------------------------------------------------------------------
(* Properties.                                                               *)

(* The reaction is not taken away while progress or the answer is on its way,*)
(* and an error or a withheld answer does not leave it behind: only an error *)
(* of the last attempt to clear the progress does.                           *)
ReactionGoesLast ==
    /\ clearing # "none" => pc = "over"
    /\ clearing = "skipped" => known # {} /\ result = "raised"

(* The reaction follows the turn and leaves with it.                         *)
ReactionInOrder == ReactionTypeOK /\ ReactionLeaves /\ ReactionGoesLast

(* The dispatch of every message ends.                                       *)
RunEnds == <>(reacting = "over")
=============================================================================
