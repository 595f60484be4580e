--------------------------- MODULE TelegramDelivery ---------------------------
(* One turn seen from its chat: run_message, the temporary progress message  *)
(* that TemporaryProgressEditor keeps while the turn runs, its removal and   *)
(* the final answer.                                                         *)
(*                                                                           *)
(* The callbacks of a turn run one after the other in the handler's task.    *)
(* An action is the code between two Telegram calls; a call may succeed, be  *)
(* refused (TelegramBadRequest), be put off (TelegramRetryAfter) or be lost  *)
(* (TelegramNetworkError, a server error), and a lost call may have taken    *)
(* effect.                                                                   *)
(*                                                                           *)
(* A definition that no other one uses is a fault the code could have had in *)
(* place of the definition after it (PROJECT.json, mutants).                 *)
EXTENDS Integers, Sequences, FiniteSets

CONSTANTS
    MaxEvents,      \* bound: progress callbacks in the turn
    Chunks,         \* messages the final answer is split into
    NoMsg           \* no active progress message

ASSUME BoundsAssumption ==
    MaxEvents \in Nat /\ Chunks \in Nat \ {0} /\ NoMsg \notin Nat

(* A callback creates at most one message: the callback's number is its id.  *)
Msg == 1 .. MaxEvents

VARIABLES
    pc,         \* the Telegram call run_message waits for
    result,     \* how handle_message ended
    events,     \* progress callbacks so far
    text,       \* the newest rendering: the number of the event that changed it
    visible,    \* progress messages to be seen in the chat
    shown,      \* the rendering each of them shows
    known,      \* TemporaryProgressEditor._known_ids
    active,     \* TemporaryProgressEditor._active
    rendered,   \* TemporaryProgressEditor._rendered_text (0 is None)
    target,     \* message that _delete is working on
    todo,       \* ids the current attempt of clear() has still to delete
    attempt,    \* attempts clear() has begun: two for each call
    chunk,      \* the chunk of the answer that _send_text_chunks is at
    sent        \* chunks of the answer to be seen in the chat

editorVars == <<known, active, rendered>>
chatVars == <<visible, shown>>
clearVars == <<todo, attempt>>
sendVars == <<chunk, sent>>
vars == <<pc, result, events, text, chatVars, editorVars, target, clearVars,
          sendVars>>

Init ==
    /\ pc = "idle"
    /\ result = "none"
    /\ events = 0
    /\ text = 0
    /\ visible = {}
    /\ shown = [m \in Msg |-> 0]
    /\ known = {}
    /\ active = NoMsg
    /\ rendered = 0
    /\ target = NoMsg
    /\ todo = {}
    /\ attempt = 0
    /\ chunk = 1
    /\ sent = << >>

(* A call that was refused or lost: without effect, or lost with its effect. *)
Lost(effect) == effect \/ UNCHANGED chatVars

-----------------------------------------------------------------------------
(* Rendering progress: append_*, _render, _edit_or_replace.                  *)

(* A callback with new text, or with text that renders the same.             *)
ProgressEvent ==
    /\ pc = "idle"
    /\ events < MaxEvents
    /\ events' = events + 1
    /\ text' \in {text, events + 1} \ {0}
    /\ pc' = IF active = NoMsg THEN "create"
             ELSE IF text' = rendered THEN "idle" ELSE "edit"
    /\ UNCHANGED <<result, chatVars, editorVars, target, clearVars, sendVars>>

Appears == /\ visible' = visible \union {events}
           /\ shown' = [shown EXCEPT ![events] = text]

Changes == /\ visible' = visible
           /\ shown' = IF active \in visible
                         THEN [shown EXCEPT ![active] = text]
                         ELSE shown

Vanishes == visible' = visible \ {target} /\ shown' = shown

Track == known' = known \union {events}

(* _create for the first message or for the replacement of a deleted one.    *)
Created ==
    /\ pc \in {"create", "recreate"}
    /\ Appears
    /\ Track
    /\ active' = events
    /\ rendered' = text
    /\ pc' = "idle"
    /\ UNCHANGED <<result, events, text, target, clearVars, sendVars>>

CreateRefused ==
    /\ pc \in {"create", "recreate"}
    /\ pc' = "idle"
    /\ UNCHANGED <<result, events, text, chatVars, editorVars, target,
                   clearVars, sendVars>>

Edited ==
    /\ pc \in {"edit", "edit_again"}
    /\ active \in visible
    /\ Changes
    /\ rendered' = text
    /\ pc' = "idle"
    /\ UNCHANGED <<result, events, text, known, active, target, clearVars, sendVars>>

(* Refused: delete the message and send a new one.  ("message is not         *)
(* modified" never comes: a text equal to the shown one is not sent, see     *)
(* RenderCacheTrue.)                                                         *)
Replace == pc' = "delete" /\ target' = active
EditRefused ==
    /\ pc \in {"edit", "edit_again"}
    /\ Replace
    /\ UNCHANGED <<result, events, text, chatVars, editorVars, clearVars, sendVars>>

(* Flood control: one more attempt, and after it the text is not marked.     *)
EditPutOffMarked ==
    /\ pc \in {"edit", "edit_again"}
    /\ pc' = IF pc = "edit" THEN "edit_again" ELSE "idle"
    /\ rendered' = text
    /\ UNCHANGED <<result, events, text, chatVars, known, active, target,
                   clearVars, sendVars>>
EditPutOff ==
    /\ pc \in {"edit", "edit_again"}
    /\ pc' = IF pc = "edit" THEN "edit_again" ELSE "idle"
    /\ UNCHANGED <<result, events, text, chatVars, editorVars, target,
                   clearVars, sendVars>>

-----------------------------------------------------------------------------
(* _delete, for a replacement and for clear().                               *)

DeletePutOff ==
    /\ pc = "delete"
    /\ pc' = "delete_again"
    /\ UNCHANGED <<result, events, text, chatVars, editorVars, target,
                   clearVars, sendVars>>

Clearing == attempt > 0

Forget == known' = known \ {target}

Deleted ==
    /\ pc \in {"delete", "delete_again"}
    /\ target \in visible
    /\ Vanishes
    /\ Forget
    /\ IF Clearing
         THEN pc' = "clear" /\ UNCHANGED <<active, rendered>>
         ELSE pc' = "recreate" /\ active' = NoMsg /\ rendered' = 0
    /\ UNCHANGED <<result, events, text, target, clearVars, sendVars>>

(* Refused, lost, or put off twice: the id stays known.                      *)
DeleteFailsIgnored ==
    /\ pc \in {"delete", "delete_again"}
    /\ Lost(Vanishes)
    /\ pc' = IF Clearing THEN "clear" ELSE "recreate"
    /\ UNCHANGED <<result, events, text, editorVars, target, clearVars, sendVars>>
DeleteFailsForgotten ==
    /\ pc \in {"delete", "delete_again"}
    /\ Lost(Vanishes)
    /\ Forget
    /\ pc' = IF Clearing THEN "clear" ELSE "idle"
    /\ UNCHANGED <<result, events, text, active, rendered, target, clearVars, sendVars>>
DeleteFails ==
    /\ pc \in {"delete", "delete_again"}
    /\ Lost(Vanishes)
    /\ pc' = IF Clearing THEN "clear" ELSE "idle"
    /\ UNCHANGED <<result, events, text, editorVars, target, clearVars, sendVars>>

(* Someone else removes a progress message from the chat.                    *)
RemovedByOthers ==
    /\ pc # "over"
    /\ \E m \in visible : visible' = visible \ {m}
    /\ UNCHANGED <<pc, result, events, text, shown, editorVars, target,
                   clearVars, sendVars>>

-----------------------------------------------------------------------------
(* The end of handle_message and the clearing of the progress.               *)

BeginClearForever == pc' = "clear" /\ attempt' = 1 /\ todo' = known
BeginClear == /\ pc' = "clear"
              /\ attempt' = attempt + 1
              /\ todo' = known

(* It returns a text or the empty text of an aborted turn, or it raises, or  *)
(* it is cancelled while a callback sets a reaction.                         *)
TurnReturns ==
    /\ pc = "idle"
    /\ result' \in {"answer", "silent", "raised", "cancelled"}
    /\ BeginClear
    /\ UNCHANGED <<events, text, chatVars, editorVars, target, sendVars>>

(* A call inside a callback raises, or the deadline cancels the callback     *)
(* while it waits for the call: the finally of run_message clears.           *)
InCallback == /\ ~Clearing
              /\ pc \in {"create", "recreate", "edit", "edit_again",
                         "delete", "delete_again"}

Effect == CASE pc \in {"create", "recreate"}     -> Appears
            [] pc \in {"edit", "edit_again"}     -> Changes
            [] pc \in {"delete", "delete_again"} -> Vanishes

CallbackRaises ==
    /\ InCallback
    /\ Lost(Effect)
    /\ result' = "raised"
    /\ BeginClear
    /\ UNCHANGED <<events, text, editorVars, target, sendVars>>

CallbackCancelled ==
    /\ InCallback
    /\ Lost(Effect)
    /\ result' = "cancelled"
    /\ BeginClear
    /\ UNCHANGED <<events, text, editorVars, target, sendVars>>

ClearNext ==
    /\ pc = "clear"
    /\ \E m \in todo : target' = m /\ todo' = todo \ {m}
    /\ pc' = "delete"
    /\ UNCHANGED <<result, events, text, chatVars, editorVars, attempt, sendVars>>

(* One attempt is over with ids left: clear() tries twice, and run_message   *)
(* calls it once more in its finally when it returned False.                 *)
MaxAttempts == IF result \in {"answer", "silent"} THEN 4 ELSE 2

ClearAgain ==
    /\ pc = "clear"
    /\ todo = {}
    /\ known # {}
    /\ attempt < MaxAttempts
    /\ BeginClear
    /\ UNCHANGED <<result, events, text, chatVars, editorVars, target, sendVars>>

GiveUp ==
    /\ pc = "clear"
    /\ todo = {}
    /\ known # {}
    /\ attempt = MaxAttempts
    /\ result' = IF result = "answer" THEN "withheld" ELSE result
    /\ pc' = "over"
    /\ UNCHANGED <<events, text, chatVars, editorVars, target, clearVars, sendVars>>

(* A deletion fails with an error _delete does not catch (a server error):   *)
(* out of the first clear(), the finally of run_message clears once more;    *)
(* out of that one, the error leaves.                                        *)
ClearRaises ==
    /\ Clearing
    /\ pc \in {"delete", "delete_again"}
    /\ Lost(Vanishes)
    /\ result' = "raised"
    /\ IF result \in {"answer", "silent"} /\ attempt <= 2
         THEN pc' = "clear" /\ attempt' = 1 /\ todo' = known
         ELSE pc' = "over" /\ UNCHANGED clearVars
    /\ UNCHANGED <<events, text, editorVars, target, sendVars>>

(* clear() returned True.  From its third attempt on, the RuntimeError of    *)
(* run_message is already on its way.                                        *)
Cleared ==
    /\ pc = "clear"
    /\ todo = {}
    /\ known = {}
    /\ active' = NoMsg
    /\ rendered' = 0
    /\ IF result = "answer" /\ attempt <= 2
         THEN pc' = "send" /\ UNCHANGED result
         ELSE /\ pc' = "over"
              /\ result' = IF result = "answer" THEN "withheld" ELSE result
    /\ UNCHANGED <<events, text, chatVars, known, target, clearVars, sendVars>>

-----------------------------------------------------------------------------
(* The answer: send_rich and _send_text_chunks.                              *)

SendChunk ==
    /\ pc \in {"send", "send_plain"}
    /\ sent' = Append(sent, chunk)
    /\ chunk' = chunk + 1
    /\ IF chunk = Chunks
         THEN pc' = "over" /\ result' = "answered"
         ELSE UNCHANGED <<pc, result>>
    /\ UNCHANGED <<events, text, chatVars, editorVars, target, clearVars>>

(* A chunk is refused as HTML: this one and the rest go out as plain text.   *)
SendRefusedResendsAll ==
    /\ pc = "send"
    /\ pc' = "send_plain"
    /\ chunk' = 1
    /\ UNCHANGED <<result, events, text, chatVars, editorVars, target,
                   clearVars, sent>>
SendRefused ==
    /\ pc = "send"
    /\ pc' = "send_plain"
    /\ UNCHANGED <<result, events, text, chatVars, editorVars, target,
                   clearVars, sendVars>>

(* The network fails under an HTML chunk: the rest is dropped silently.      *)
SendCutShort ==
    /\ pc = "send"
    /\ sent' \in {sent, Append(sent, chunk)}
    /\ pc' = "over"
    /\ result' = "cut"
    /\ UNCHANGED <<events, text, chatVars, editorVars, target, clearVars, chunk>>

(* Any other error, and any error of a plain chunk, leaves run_message.      *)
SendRaises ==
    /\ pc \in {"send", "send_plain"}
    /\ sent' \in {sent, Append(sent, chunk)}
    /\ pc' = "over"
    /\ result' = "raised"
    /\ UNCHANGED <<events, text, chatVars, editorVars, target, clearVars, chunk>>

-----------------------------------------------------------------------------
Rendering == \/ Created \/ CreateRefused
             \/ Edited \/ EditRefused \/ EditPutOff
Deleting == Deleted \/ DeletePutOff \/ DeleteFails
Ending == TurnReturns \/ CallbackRaises \/ CallbackCancelled
ClearStep == ClearNext \/ ClearAgain \/ GiveUp \/ ClearRaises
             \/ Cleared
Sending == SendChunk \/ SendRefused \/ SendCutShort \/ SendRaises

Dispatch == ProgressEvent \/ Rendering \/ Deleting \/ Ending \/ ClearStep \/ Sending

Done == pc = "over" /\ UNCHANGED vars

Next == Dispatch \/ RemovedByOthers \/ Done

(* Every Telegram call returns or fails, and the turn returns some time.     *)
Spec == Init /\ [][Next]_vars /\ WF_vars(Dispatch)

-----------------------------------------------------------------------------
(* Properties.                                                               *)

(* Type correctness.                                                         *)
TypeOK ==
    /\ pc \in {"idle", "create", "recreate", "edit", "edit_again", "delete",
               "delete_again", "clear", "send", "send_plain", "over"}
    /\ result \in {"none", "answer", "silent", "raised", "cancelled",
                   "withheld", "answered", "cut"}
    /\ events \in 0 .. MaxEvents
    /\ text \in 0 .. MaxEvents
    /\ visible \subseteq Msg
    /\ shown \in [Msg -> 0 .. MaxEvents]
    /\ known \subseteq Msg
    /\ active \in Msg \union {NoMsg}
    /\ rendered \in 0 .. MaxEvents
    /\ target \in Msg \union {NoMsg}
    /\ todo \subseteq Msg
    /\ attempt \in 0 .. 4
    /\ chunk \in 1 .. Chunks + 1
    /\ sent \in Seq(1 .. Chunks)

(* "temporary progress deletion succeeds before exactly one clean final      *)
(* answer is sent": when a part of the answer is in the chat, no progress    *)
(* message is, whatever was refused, put off or lost before.                 *)
AnswerReplacesProgress == sent # << >> => visible = {}

(* The chat never shows two progress messages of the turn: a message is only *)
(* replaced once its deletion is confirmed.                                  *)
OneProgressMessage == Cardinality(visible) <= 1

(* Between callbacks the text the editor believes to be shown is the one the *)
(* chat shows, so skipping an edit never leaves the chat behind.             *)
RenderCacheTrue ==
    pc = "idle" /\ active \in visible => shown[active] = rendered

(* The answer's chunks come in order, each at most once, and an answer taken *)
(* for delivered is complete, also across the fallback to plain text.        *)
AnswerInOrder ==
    /\ sent = [i \in 1 .. Len(sent) |-> i]
    /\ result = "answered" => Len(sent) = Chunks

-----------------------------------------------------------------------------
(* What the documentation promises and the code does not keep.               *)

(* "A transient deletion failure is retried and then temporary progress      *)
(* deletion succeeds": an answer is not withheld for progress that is gone.  *)
WithheldOnlyForProgress == result = "withheld" => visible # {}

(* "Timeout ... clear temporary progress": when every deletion the editor    *)
(* knew of succeeded, a timed out turn leaves no progress in the chat.       *)
TimeoutClearsProgress ==
    pc = "over" /\ result = "cancelled" /\ known = {} => visible = {}
=============================================================================
