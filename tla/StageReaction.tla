------------------------------ MODULE StageReaction ------------------------------
(* ReactionTracker: the emoji on the message that a turn answers to.         *)
(*                                                                           *)
(* A definition that no other one uses is a fault the code could have had in *)
(* place of the definition after it (PROJECT.json, mutants).                 *)
CONSTANTS Emoji, Thinking, NoEmoji

ASSUME EmojiAssumption == Thinking \in Emoji /\ NoEmoji \notin Emoji

VARIABLES
    enabled,    \* scene.status_reaction
    reacting,   \* where the tracker is: a call, between calls, clearing
    current,    \* ReactionTracker._current
    calling,    \* the emoji of the call that is awaited
    reacted,    \* the reaction to be seen in the chat
    clearing    \* history: how the clearing went

reactionVars == <<enabled, reacting, current, calling, reacted, clearing>>

ReactionInit ==
    /\ enabled \in BOOLEAN
    /\ reacting = "start"
    /\ current = NoEmoji
    /\ calling = NoEmoji
    /\ reacted = NoEmoji
    /\ clearing = "none"

Unneeded(emoji) == emoji = current
Skip(emoji) == ~enabled \/ emoji = current

(* _apply notes the emoji before its call, so that it is cleared also when   *)
(* the answer to the call is lost.                                           *)
NotedLater(emoji) == current' = current
Noted(emoji) == current' = emoji

Apply(emoji, then) ==
    /\ IF Skip(emoji) THEN reacting' = then /\ UNCHANGED <<current, calling>>
                      ELSE reacting' = "call" /\ calling' = emoji /\ Noted(emoji)
    /\ UNCHANGED <<enabled, reacted>>

Stage == /\ \/ reacting = "start" /\ Apply(Thinking, "turn")
            \/ reacting = "turn" /\ \E emoji \in Emoji : Apply(emoji, "turn")
         /\ UNCHANGED clearing

(* A call that fails may have been carried out, and so may a cancelled one;  *)
(* the cancellation goes on to the finally of run_message.                   *)
Answered == /\ reacting = "call"
            /\ clearing = "none"
            /\ reacted' = calling
            /\ reacting' = "turn"
            /\ UNCHANGED <<enabled, current, calling, clearing>>
Interrupted(then) == /\ reacting = "call"
                     /\ clearing = "none"
                     /\ reacted' \in {reacted, calling}
                     /\ reacting' = then
                     /\ UNCHANGED <<enabled, current, calling, clearing>>
Unanswered == Interrupted("turn")
Cancelled == Interrupted("ending")

TurnEnds == /\ reacting = "turn"
            /\ reacting' = "ending"
            /\ UNCHANGED <<enabled, current, calling, reacted, clearing>>

(* The clearing of the progress, before it, may raise.                       *)
ClearSkipped == /\ reacting = "ending"
                /\ reacting' = "over"
                /\ clearing' = "skipped"
                /\ UNCHANGED <<enabled, current, calling, reacted>>

Clear == /\ reacting = "ending"
         /\ Apply(NoEmoji, "over")
         /\ clearing' = IF reacting' = "over" THEN "needless" ELSE "called"
ClearAnswered == /\ reacting = "call"
                 /\ clearing = "called"
                 /\ reacted' = NoEmoji
                 /\ reacting' = "over"
                 /\ UNCHANGED <<enabled, current, calling, clearing>>
ClearLost == /\ reacting = "call"
             /\ clearing = "called"
             /\ reacted' \in {reacted, NoEmoji}
             /\ reacting' = "over"
             /\ clearing' = "lost"
             /\ UNCHANGED <<enabled, current, calling>>

ReactionNext == \/ Stage \/ Answered \/ Unanswered \/ Cancelled \/ TurnEnds
                \/ ClearSkipped \/ Clear \/ ClearAnswered \/ ClearLost

ReactionSpec == ReactionInit /\ [][ReactionNext]_reactionVars

-----------------------------------------------------------------------------
(* Properties.                                                               *)

(* Type correctness; "scene.status_reaction controls only the reaction":     *)
(* without it there is none.                                                 *)
ReactionTypeOK ==
    /\ reacting \in {"start", "turn", "call", "ending", "over"}
    /\ {current, calling, reacted} \subseteq
          IF enabled THEN Emoji \union {NoEmoji} ELSE {NoEmoji}
    /\ clearing \in {"none", "skipped", "needless", "called", "lost"}

(* A turn leaves no reaction behind when the call that clears it was         *)
(* answered or found needless, whatever became of the calls before.          *)
ReactionLeaves ==
    reacting = "over" /\ clearing \in {"needless", "called"} => reacted = NoEmoji
=============================================================================
