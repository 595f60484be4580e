--------------------------- MODULE RunMessageProofs ---------------------------
(* The delivery of an answer, the reaction of its stages and run_message,    *)
(* which drives both, for every number of callbacks, every length of the     *)
(* answer and every set of emoji.  RunMessage implements TelegramDelivery    *)
(* and StageReaction and inherits what is proved of them here.  At the end,  *)
(* the files that come with an answer, and the lengths and the text of its   *)
(* messages.                                                                 *)
EXTENDS RunMessage, AnswerDelivery, FiniteSetTheorems, SequenceTheorems, WellFoundedInduction, TLAPS

-----------------------------------------------------------------------------
(* TelegramDelivery.                                                         *)

(* What pc says of the phase of the turn: its callbacks run until it returns *)
(* (attempt 0), and an answer is sent after the clearing of the progress.    *)
Phases ==
    /\ pc \in {"idle", "create", "recreate", "edit", "edit_again"} => attempt = 0
    /\ pc \in {"clear", "send", "send_plain", "over"} => attempt > 0
    /\ attempt = 0 <=> result = "none"
    /\ pc \in {"create", "recreate"} => events \in Msg /\ active = NoMsg
    /\ pc \in {"edit", "edit_again"} => events \in Msg /\ active \in Msg
    /\ pc \in {"delete", "delete_again"} =>
         target \in Msg /\ (attempt = 0 => target = active /\ events \in Msg)
    /\ pc \in {"send", "send_plain"} => result = "answer" /\ chunk \in 1 .. Chunks
    /\ pc \notin {"send", "send_plain", "over"} => chunk = 1
    /\ result \in {"answered", "withheld", "cut"} => pc = "over"

(* While the callbacks run, at most the active message is visible; one whose *)
(* creation was cut off may be visible untracked, but then no answer comes.  *)
OneVisible ==
    /\ attempt = 0 => visible \subseteq {active}
    /\ \E m \in Msg \union {NoMsg} : visible \subseteq {m}

Tracked ==
    /\ result \notin {"raised", "cancelled"} => visible \subseteq known
    /\ pc \in {"send", "send_plain"} => visible = {}
    /\ sent # << >> => visible = {}

(* The editor's cache is true while a callback works on the message, too.    *)
CacheTrue == attempt = 0 /\ active \in visible => shown[active] = rendered

(* The next chunk is the first that is not sent.                             *)
InOrder ==
    /\ pc \notin {"send", "send_plain", "over"} => sent = << >>
    /\ pc \in {"send", "send_plain"} => Len(sent) = chunk - 1
    /\ sent = [i \in 1 .. Len(sent) |-> i]
    /\ result = "answered" => Len(sent) = Chunks

IInv == TypeOK /\ Phases /\ OneVisible /\ Tracked /\ CacheTrue /\ InOrder

-----------------------------------------------------------------------------
(* The initial states satisfy the invariant.                                 *)
LEMMA InitIInv == Init => IInv
<1> SUFFICES ASSUME Init PROVE IInv
  OBVIOUS
<1> USE BoundsAssumption DEF Init, Msg
<1>1. TypeOK
  BY DEF TypeOK
<1>2. Phases
  BY DEF Phases
<1>3. OneVisible
  BY DEF OneVisible
<1>4. Tracked /\ CacheTrue
  BY DEF Tracked, CacheTrue
<1>5. InOrder
  BY DEF InOrder
<1>6. QED
  BY <1>1, <1>2, <1>3, <1>4, <1>5 DEF IInv

(* A call of a callback that is cut off: what the chat may show.              *)
LEMMA CutOff ==
  ASSUME TypeOK, Phases, InCallback, Lost(Effect)
  PROVE  /\ attempt = 0
         /\ visible' \subseteq Msg
         /\ shown' \in [Msg -> 0 .. MaxEvents]
         /\ \/ visible' \subseteq visible
            \/ active = NoMsg /\ events \in Msg /\ visible' = visible \union {events}
<1> USE BoundsAssumption DEF chatVars, Msg
<1>1. attempt = 0
  BY DEF InCallback, Clearing, TypeOK
<1>2. CASE UNCHANGED chatVars
  BY <1>1, <1>2 DEF TypeOK
<1>3. CASE pc \in {"create", "recreate"} /\ Effect
  <2>1. Appears
    BY <1>3 DEF Effect
  <2>2. QED
    BY <1>1, <1>3, <2>1 DEF Appears, TypeOK, Phases
<1>4. CASE pc \in {"edit", "edit_again"} /\ Effect
  <2>1. Changes
    BY <1>4 DEF Effect
  <2>2. QED
    BY <1>1, <1>4, <2>1 DEF Changes, TypeOK, Phases
<1>5. CASE pc \in {"delete", "delete_again"} /\ Effect
  <2>1. Vanishes
    BY <1>5 DEF Effect
  <2>2. QED
    BY <1>1, <2>1 DEF Vanishes, TypeOK
<1>6. QED
  BY <1>2, <1>3, <1>4, <1>5 DEF Lost, InCallback

(* The first chunks of an answer and the next one are its first chunks.      *)
LEMMA Appended ==
  ASSUME NEW s \in Seq(1 .. Chunks), NEW c \in 1 .. Chunks, Len(s) = c - 1,
         s = [i \in 1 .. Len(s) |-> i]
  PROVE  /\ Append(s, c) \in Seq(1 .. Chunks)
         /\ Append(s, c) # << >>
         /\ Len(Append(s, c)) = c
         /\ Append(s, c) = [i \in 1 .. Len(Append(s, c)) |-> i]
<1> USE BoundsAssumption
<1>1. Append(s, c) \in Seq(1 .. Chunks) /\ Len(Append(s, c)) = c
  OBVIOUS
<1>2. ASSUME NEW i \in 1 .. c PROVE Append(s, c)[i] = i
  <2>1. CASE i = c
    BY <2>1
  <2>2. CASE i < c
    BY <2>2
  <2>3. QED
    BY <2>1, <2>2
<1>3. Append(s, c) = [i \in 1 .. c |-> Append(s, c)[i]]
  <2>1. Append(s, c) \in [1 .. c -> 1 .. Chunks]
    BY <1>1, LenProperties
  <2>2. QED
    BY <2>1
<1>4. QED
  BY <1>1, <1>2, <1>3

(* Type correctness is inductive with the phases.                            *)
LEMMA TypeStep ==
  ASSUME TypeOK, Phases, InOrder, [Next]_vars
  PROVE  TypeOK'
<1> USE BoundsAssumption DEF editorVars, chatVars, clearVars, sendVars, Msg
<1>1. CASE ProgressEvent
  BY <1>1 DEF ProgressEvent, TypeOK, Phases
<1>2. CASE Created
  BY <1>2 DEF Created, Appears, Track, TypeOK, Phases
<1>3. CASE CreateRefused
  BY <1>3 DEF CreateRefused, TypeOK, Phases
<1>4. CASE Edited
  BY <1>4 DEF Edited, Changes, TypeOK, Phases
<1>5. CASE EditRefused
  <2>1. /\ pc' = "delete" /\ target' = active /\ active \in Msg
        /\ UNCHANGED <<result, events, text, chatVars, editorVars, clearVars, sendVars>>
    BY <1>5 DEF EditRefused, Replace, Phases
  <2>2. QED
    BY <2>1 DEF TypeOK
<1>6. CASE EditPutOff
  BY <1>6 DEF EditPutOff, TypeOK, Phases
<1>7. CASE Deleted
  BY <1>7, SMTT(60) DEF Deleted, Vanishes, Forget, Clearing, TypeOK, Phases
<1>8. CASE DeletePutOff
  BY <1>8 DEF DeletePutOff, TypeOK, Phases
<1>9. CASE DeleteFails
  BY <1>9 DEF DeleteFails, Lost, Vanishes, Clearing, TypeOK, Phases
<1>10. CASE TurnReturns
  BY <1>10 DEF TurnReturns, BeginClear, TypeOK, Phases
<1>11. CASE CallbackRaises
  <2>1. attempt = 0 /\ visible' \subseteq Msg /\ shown' \in [Msg -> 0 .. MaxEvents]
    BY <1>11, CutOff DEF CallbackRaises
  <2>2. QED
    BY <1>11, <2>1 DEF CallbackRaises, BeginClear, TypeOK
<1>12. CASE CallbackCancelled
  <2>1. attempt = 0 /\ visible' \subseteq Msg /\ shown' \in [Msg -> 0 .. MaxEvents]
    BY <1>12, CutOff DEF CallbackCancelled
  <2>2. QED
    BY <1>12, <2>1 DEF CallbackCancelled, BeginClear, TypeOK
<1>13. CASE ClearNext
  BY <1>13 DEF ClearNext, TypeOK, Phases
<1>14. CASE ClearAgain
  BY <1>14 DEF ClearAgain, BeginClear, MaxAttempts, TypeOK, Phases
<1>15. CASE GiveUp
  BY <1>15 DEF GiveUp, MaxAttempts, TypeOK, Phases
<1>16. CASE ClearRaises
  <2>1. visible' \subseteq Msg /\ shown' \in [Msg -> 0 .. MaxEvents]
    BY <1>16 DEF ClearRaises, Lost, Vanishes, TypeOK
  <2>2. pc' \in {"clear", "over"} /\ result' = "raised"
    BY <1>16 DEF ClearRaises
  <2>3. \/ todo' = known /\ attempt' = 1
        \/ todo' = todo /\ attempt' = attempt
    BY <1>16 DEF ClearRaises
  <2>4. todo' \subseteq Msg /\ attempt' \in 0 .. 4
    <3>1. known \subseteq Msg /\ todo \subseteq Msg /\ attempt \in 0 .. 4
      BY DEF TypeOK
    <3>2. CASE todo' = known /\ attempt' = 1
      BY <3>1, <3>2
    <3>3. CASE todo' = todo /\ attempt' = attempt
      BY <3>1, <3>3
    <3>4. QED
      BY <2>3, <3>2, <3>3
  <2>5. UNCHANGED <<events, text, known, active, rendered, target, chunk, sent>>
    BY <1>16 DEF ClearRaises
  <2>6. QED
    BY <2>1, <2>2, <2>4, <2>5 DEF TypeOK
<1>17. CASE Cleared
  BY <1>17 DEF Cleared, TypeOK, Phases
<1>18. CASE SendChunk
  <2>1. sent' \in Seq(1 .. Chunks)
    BY <1>18, Appended DEF SendChunk, TypeOK, Phases, InOrder
  <2>2. chunk' \in 1 .. Chunks + 1
    BY <1>18 DEF SendChunk, Phases
  <2>3. pc' \in {"send", "send_plain", "over"} /\ result' \in {"answer", "answered"}
    BY <1>18 DEF SendChunk, Phases
  <2>4. QED
    BY <1>18, <2>1, <2>2, <2>3 DEF SendChunk, TypeOK
<1>19. CASE SendRefused
  BY <1>19 DEF SendRefused, TypeOK, Phases
<1>20. CASE SendCutShort
  <2>1. sent' \in Seq(1 .. Chunks)
    <3>1. /\ sent \in Seq(1 .. Chunks) /\ chunk \in 1 .. Chunks
          /\ Len(sent) = chunk - 1 /\ sent = [i \in 1 .. Len(sent) |-> i]
      BY <1>20 DEF SendCutShort, TypeOK, Phases, InOrder
    <3>2. sent' \in {sent, Append(sent, chunk)}
      BY <1>20 DEF SendCutShort
    <3>3. QED
      BY <3>1, <3>2, Appended
  <2>2. /\ pc' = "over" /\ result' = "cut"
        /\ UNCHANGED <<events, text, chatVars, editorVars, target, clearVars, chunk>>
    BY <1>20 DEF SendCutShort
  <2>3. QED
    BY <2>1, <2>2 DEF TypeOK, chatVars, editorVars, clearVars
<1>21. CASE SendRaises
  <2>1. sent' \in Seq(1 .. Chunks)
    BY <1>21, Appended DEF SendRaises, TypeOK, Phases, InOrder
  <2>2. QED
    BY <1>21, <2>1 DEF SendRaises, TypeOK
<1>22. CASE RemovedByOthers
  BY <1>22 DEF RemovedByOthers, TypeOK, Phases
<1>23. CASE UNCHANGED vars
  BY <1>23 DEF vars, TypeOK, Phases
<1>24. QED
  BY <1>1, <1>2, <1>3, <1>4, <1>5, <1>6, <1>7, <1>8, <1>9, <1>10, <1>11, <1>12, <1>13, <1>14, <1>15, <1>16, <1>17, <1>18, <1>19, <1>20, <1>21, <1>22, <1>23 DEF Next, Dispatch, Rendering, Deleting,
     Ending, ClearStep, Sending, Done

(* So are the phases.                                                        *)
LEMMA PhaseStep ==
  ASSUME TypeOK, Phases, [Next]_vars
  PROVE  Phases'
<1> USE BoundsAssumption DEF editorVars, chatVars, clearVars, sendVars, Msg
<1>1. CASE ProgressEvent
  BY <1>1 DEF ProgressEvent, TypeOK, Phases
<1>2. CASE Created
  BY <1>2 DEF Created, Appears, Track, TypeOK, Phases
<1>3. CASE CreateRefused
  BY <1>3 DEF CreateRefused, TypeOK, Phases
<1>4. CASE Edited
  BY <1>4 DEF Edited, Changes, TypeOK, Phases
<1>5. CASE EditRefused
  BY <1>5 DEF EditRefused, Replace, TypeOK, Phases
<1>6. CASE EditPutOff
  BY <1>6 DEF EditPutOff, TypeOK, Phases
<1>7. CASE Deleted
  BY <1>7 DEF Deleted, Vanishes, Forget, Clearing, TypeOK, Phases
<1>8. CASE DeletePutOff
  BY <1>8 DEF DeletePutOff, TypeOK, Phases
<1>9. CASE DeleteFails
  BY <1>9 DEF DeleteFails, Lost, Vanishes, Clearing, TypeOK, Phases
<1>10. CASE TurnReturns
  BY <1>10 DEF TurnReturns, BeginClear, TypeOK, Phases
<1>11. CASE CallbackRaises
  BY <1>11 DEF CallbackRaises, InCallback, Clearing, Lost, Effect, Appears, Changes, Vanishes, BeginClear, TypeOK, Phases
<1>12. CASE CallbackCancelled
  BY <1>12 DEF CallbackCancelled, InCallback, Clearing, Lost, Effect, Appears, Changes, Vanishes, BeginClear, TypeOK, Phases
<1>13. CASE ClearNext
  BY <1>13 DEF ClearNext, TypeOK, Phases
<1>14. CASE ClearAgain
  BY <1>14 DEF ClearAgain, BeginClear, MaxAttempts, TypeOK, Phases
<1>15. CASE GiveUp
  BY <1>15 DEF GiveUp, MaxAttempts, TypeOK, Phases
<1>16. CASE ClearRaises
  BY <1>16 DEF ClearRaises, Clearing, Lost, Vanishes, TypeOK, Phases
<1>17. CASE Cleared
  BY <1>17 DEF Cleared, TypeOK, Phases
<1>18. CASE SendChunk
  BY <1>18 DEF SendChunk, TypeOK, Phases
<1>19. CASE SendRefused
  BY <1>19 DEF SendRefused, TypeOK, Phases
<1>20. CASE SendCutShort
  BY <1>20 DEF SendCutShort, TypeOK, Phases
<1>21. CASE SendRaises
  BY <1>21 DEF SendRaises, TypeOK, Phases
<1>22. CASE RemovedByOthers
  BY <1>22 DEF RemovedByOthers, TypeOK, Phases
<1>23. CASE UNCHANGED vars
  BY <1>23 DEF vars, TypeOK, Phases
<1>24. QED
  BY <1>1, <1>2, <1>3, <1>4, <1>5, <1>6, <1>7, <1>8, <1>9, <1>10, <1>11, <1>12, <1>13, <1>14, <1>15, <1>16, <1>17, <1>18, <1>19, <1>20, <1>21, <1>22, <1>23 DEF Next, Dispatch, Rendering, Deleting,
     Ending, ClearStep, Sending, Done

(* A step leaves at most one message to be seen.                             *)
LEMMA VisibleStep ==
  ASSUME TypeOK, Phases, OneVisible, [Next]_vars
  PROVE  OneVisible'
<1> USE BoundsAssumption DEF editorVars, chatVars, clearVars, sendVars, Msg
<1>1. CASE ProgressEvent
  BY <1>1 DEF ProgressEvent, TypeOK, Phases, OneVisible
<1>2. CASE Created
  BY <1>2 DEF Created, Appears, Track, TypeOK, Phases, OneVisible
<1>3. CASE CreateRefused
  BY <1>3 DEF CreateRefused, TypeOK, Phases, OneVisible
<1>4. CASE Edited
  BY <1>4 DEF Edited, Changes, TypeOK, Phases, OneVisible
<1>5. CASE EditRefused
  BY <1>5 DEF EditRefused, Replace, TypeOK, Phases, OneVisible
<1>6. CASE EditPutOff
  BY <1>6 DEF EditPutOff, TypeOK, Phases, OneVisible
<1>7. CASE Deleted
  BY <1>7 DEF Deleted, Vanishes, Forget, Clearing, TypeOK, Phases, OneVisible
<1>8. CASE DeletePutOff
  BY <1>8 DEF DeletePutOff, TypeOK, Phases, OneVisible
<1>9. CASE DeleteFails
  BY <1>9 DEF DeleteFails, Lost, Vanishes, Clearing, TypeOK, Phases, OneVisible
<1>10. CASE TurnReturns
  BY <1>10 DEF TurnReturns, BeginClear, TypeOK, Phases, OneVisible
<1>11. CASE CallbackRaises
  <2>1. PICK m \in Msg \union {NoMsg} : visible \subseteq {m}
    BY DEF OneVisible
  <2>2. CASE visible' \subseteq visible
    <3>1. attempt' = 1
      BY <1>11, CutOff DEF CallbackRaises, BeginClear
    <3>2. QED
      BY <2>1, <2>2, <3>1 DEF OneVisible
  <2>3. CASE active = NoMsg /\ events \in Msg /\ visible' = visible \union {events}
    <3>1. visible = {}
      BY <1>11, <2>3, CutOff DEF CallbackRaises, OneVisible, TypeOK
    <3>2. visible' \subseteq {events} /\ events \in Msg
      BY <2>3, <3>1
    <3>3. attempt' = 1
      BY <1>11, CutOff DEF CallbackRaises, BeginClear
    <3>4. QED
      BY <3>2, <3>3 DEF OneVisible
  <2>4. QED
    BY <1>11, <2>2, <2>3, CutOff DEF CallbackRaises
<1>12. CASE CallbackCancelled
  <2>1. PICK m \in Msg \union {NoMsg} : visible \subseteq {m}
    BY DEF OneVisible
  <2>2. CASE visible' \subseteq visible
    <3>1. attempt' = 1
      BY <1>12, CutOff DEF CallbackCancelled, BeginClear
    <3>2. QED
      BY <2>1, <2>2, <3>1 DEF OneVisible
  <2>3. CASE active = NoMsg /\ events \in Msg /\ visible' = visible \union {events}
    <3>1. visible = {}
      BY <1>12, <2>3, CutOff DEF CallbackCancelled, OneVisible, TypeOK
    <3>2. visible' \subseteq {events} /\ events \in Msg
      BY <2>3, <3>1
    <3>3. attempt' = 1
      BY <1>12, CutOff DEF CallbackCancelled, BeginClear
    <3>4. QED
      BY <3>2, <3>3 DEF OneVisible
  <2>4. QED
    BY <1>12, <2>2, <2>3, CutOff DEF CallbackCancelled
<1>13. CASE ClearNext
  BY <1>13 DEF ClearNext, TypeOK, Phases, OneVisible
<1>14. CASE ClearAgain
  BY <1>14 DEF ClearAgain, BeginClear, MaxAttempts, TypeOK, Phases, OneVisible
<1>15. CASE GiveUp
  BY <1>15 DEF GiveUp, MaxAttempts, TypeOK, Phases, OneVisible
<1>16. CASE ClearRaises
  <2>1. visible' \subseteq visible
    BY <1>16 DEF ClearRaises, Lost, Vanishes
  <2>2. attempt' > 0
    BY <1>16 DEF ClearRaises, Clearing
  <2>3. QED
    BY <2>1, <2>2 DEF OneVisible
<1>17. CASE Cleared
  BY <1>17 DEF Cleared, TypeOK, Phases, OneVisible
<1>18. CASE SendChunk
  BY <1>18 DEF SendChunk, TypeOK, Phases, OneVisible
<1>19. CASE SendRefused
  BY <1>19 DEF SendRefused, TypeOK, Phases, OneVisible
<1>20. CASE SendCutShort
  BY <1>20 DEF SendCutShort, TypeOK, Phases, OneVisible
<1>21. CASE SendRaises
  BY <1>21 DEF SendRaises, TypeOK, Phases, OneVisible
<1>22. CASE RemovedByOthers
  BY <1>22 DEF RemovedByOthers, TypeOK, Phases, OneVisible
<1>23. CASE UNCHANGED vars
  BY <1>23 DEF vars, TypeOK, Phases, OneVisible
<1>24. QED
  BY <1>1, <1>2, <1>3, <1>4, <1>5, <1>6, <1>7, <1>8, <1>9, <1>10, <1>11, <1>12, <1>13, <1>14, <1>15, <1>16, <1>17, <1>18, <1>19, <1>20, <1>21, <1>22, <1>23 DEF Next, Dispatch, Rendering, Deleting,
     Ending, ClearStep, Sending, Done

(* Untracked messages are only left by turns without an answer.              *)
LEMMA TrackedStep ==
  ASSUME TypeOK, Phases, OneVisible, Tracked, InOrder, [Next]_vars
  PROVE  Tracked'
<1> USE BoundsAssumption DEF editorVars, chatVars, clearVars, sendVars, Msg
<1>1. CASE ProgressEvent
  BY <1>1 DEF ProgressEvent, TypeOK, Phases, OneVisible, Tracked, InOrder
<1>2. CASE Created
  BY <1>2 DEF Created, Appears, Track, TypeOK, Phases, OneVisible, Tracked, InOrder
<1>3. CASE CreateRefused
  BY <1>3 DEF CreateRefused, TypeOK, Phases, OneVisible, Tracked, InOrder
<1>4. CASE Edited
  BY <1>4 DEF Edited, Changes, TypeOK, Phases, OneVisible, Tracked, InOrder
<1>5. CASE EditRefused
  BY <1>5 DEF EditRefused, Replace, TypeOK, Phases, OneVisible, Tracked, InOrder
<1>6. CASE EditPutOff
  BY <1>6 DEF EditPutOff, TypeOK, Phases, OneVisible, Tracked, InOrder
<1>7. CASE Deleted
  BY <1>7 DEF Deleted, Vanishes, Forget, Clearing, TypeOK, Phases, OneVisible, Tracked, InOrder
<1>8. CASE DeletePutOff
  BY <1>8 DEF DeletePutOff, TypeOK, Phases, OneVisible, Tracked, InOrder
<1>9. CASE DeleteFails
  BY <1>9 DEF DeleteFails, Lost, Vanishes, Clearing, TypeOK, Phases, OneVisible, Tracked, InOrder
<1>10. CASE TurnReturns
  BY <1>10 DEF TurnReturns, BeginClear, TypeOK, Phases, OneVisible, Tracked, InOrder
<1>11. CASE CallbackRaises
  BY <1>11 DEF CallbackRaises, InCallback, Clearing, Lost, Effect, Appears, Changes, Vanishes, BeginClear, TypeOK, Phases, OneVisible, Tracked, InOrder
<1>12. CASE CallbackCancelled
  BY <1>12 DEF CallbackCancelled, InCallback, Clearing, Lost, Effect, Appears, Changes, Vanishes, BeginClear, TypeOK, Phases, OneVisible, Tracked, InOrder
<1>13. CASE ClearNext
  BY <1>13 DEF ClearNext, TypeOK, Phases, OneVisible, Tracked, InOrder
<1>14. CASE ClearAgain
  BY <1>14 DEF ClearAgain, BeginClear, MaxAttempts, TypeOK, Phases, OneVisible, Tracked, InOrder
<1>15. CASE GiveUp
  BY <1>15 DEF GiveUp, MaxAttempts, TypeOK, Phases, OneVisible, Tracked, InOrder
<1>16. CASE ClearRaises
  BY <1>16 DEF ClearRaises, Clearing, Lost, Vanishes, TypeOK, Phases, OneVisible, Tracked, InOrder
<1>17. CASE Cleared
  BY <1>17 DEF Cleared, TypeOK, Phases, OneVisible, Tracked, InOrder
<1>18. CASE SendChunk
  BY <1>18 DEF SendChunk, TypeOK, Phases, OneVisible, Tracked, InOrder
<1>19. CASE SendRefused
  BY <1>19 DEF SendRefused, TypeOK, Phases, OneVisible, Tracked, InOrder
<1>20. CASE SendCutShort
  BY <1>20 DEF SendCutShort, TypeOK, Phases, OneVisible, Tracked, InOrder
<1>21. CASE SendRaises
  BY <1>21 DEF SendRaises, TypeOK, Phases, OneVisible, Tracked, InOrder
<1>22. CASE RemovedByOthers
  BY <1>22 DEF RemovedByOthers, TypeOK, Phases, OneVisible, Tracked, InOrder
<1>23. CASE UNCHANGED vars
  BY <1>23 DEF vars, TypeOK, Phases, OneVisible, Tracked, InOrder
<1>24. QED
  BY <1>1, <1>2, <1>3, <1>4, <1>5, <1>6, <1>7, <1>8, <1>9, <1>10, <1>11, <1>12, <1>13, <1>14, <1>15, <1>16, <1>17, <1>18, <1>19, <1>20, <1>21, <1>22, <1>23 DEF Next, Dispatch, Rendering, Deleting,
     Ending, ClearStep, Sending, Done

(* The cache stays true.                                                     *)
LEMMA CacheStep ==
  ASSUME TypeOK, Phases, OneVisible, CacheTrue, [Next]_vars
  PROVE  CacheTrue'
<1> USE BoundsAssumption DEF editorVars, chatVars, clearVars, sendVars, Msg
<1>1. CASE ProgressEvent
  BY <1>1 DEF ProgressEvent, TypeOK, Phases, OneVisible, CacheTrue
<1>2. CASE Created
  BY <1>2 DEF Created, Appears, Track, TypeOK, Phases, OneVisible, CacheTrue
<1>3. CASE CreateRefused
  BY <1>3 DEF CreateRefused, TypeOK, Phases, OneVisible, CacheTrue
<1>4. CASE Edited
  BY <1>4 DEF Edited, Changes, TypeOK, Phases, OneVisible, CacheTrue
<1>5. CASE EditRefused
  BY <1>5 DEF EditRefused, Replace, TypeOK, Phases, OneVisible, CacheTrue
<1>6. CASE EditPutOff
  BY <1>6 DEF EditPutOff, TypeOK, Phases, OneVisible, CacheTrue
<1>7. CASE Deleted
  BY <1>7 DEF Deleted, Vanishes, Forget, Clearing, TypeOK, Phases, OneVisible, CacheTrue
<1>8. CASE DeletePutOff
  BY <1>8 DEF DeletePutOff, TypeOK, Phases, OneVisible, CacheTrue
<1>9. CASE DeleteFails
  BY <1>9 DEF DeleteFails, Lost, Vanishes, Clearing, TypeOK, Phases, OneVisible, CacheTrue
<1>10. CASE TurnReturns
  BY <1>10 DEF TurnReturns, BeginClear, TypeOK, Phases, OneVisible, CacheTrue
<1>11. CASE CallbackRaises
  BY <1>11 DEF CallbackRaises, InCallback, Clearing, Lost, Effect, Appears, Changes, Vanishes, BeginClear, TypeOK, Phases, OneVisible, CacheTrue
<1>12. CASE CallbackCancelled
  BY <1>12 DEF CallbackCancelled, InCallback, Clearing, Lost, Effect, Appears, Changes, Vanishes, BeginClear, TypeOK, Phases, OneVisible, CacheTrue
<1>13. CASE ClearNext
  BY <1>13 DEF ClearNext, TypeOK, Phases, OneVisible, CacheTrue
<1>14. CASE ClearAgain
  BY <1>14 DEF ClearAgain, BeginClear, MaxAttempts, TypeOK, Phases, OneVisible, CacheTrue
<1>15. CASE GiveUp
  BY <1>15 DEF GiveUp, MaxAttempts, TypeOK, Phases, OneVisible, CacheTrue
<1>16. CASE ClearRaises
  BY <1>16 DEF ClearRaises, Clearing, Lost, Vanishes, TypeOK, Phases, OneVisible, CacheTrue
<1>17. CASE Cleared
  BY <1>17 DEF Cleared, TypeOK, Phases, OneVisible, CacheTrue
<1>18. CASE SendChunk
  BY <1>18 DEF SendChunk, TypeOK, Phases, OneVisible, CacheTrue
<1>19. CASE SendRefused
  BY <1>19 DEF SendRefused, TypeOK, Phases, OneVisible, CacheTrue
<1>20. CASE SendCutShort
  BY <1>20 DEF SendCutShort, TypeOK, Phases, OneVisible, CacheTrue
<1>21. CASE SendRaises
  BY <1>21 DEF SendRaises, TypeOK, Phases, OneVisible, CacheTrue
<1>22. CASE RemovedByOthers
  BY <1>22 DEF RemovedByOthers, TypeOK, Phases, OneVisible, CacheTrue
<1>23. CASE UNCHANGED vars
  BY <1>23 DEF vars, TypeOK, Phases, OneVisible, CacheTrue
<1>24. QED
  BY <1>1, <1>2, <1>3, <1>4, <1>5, <1>6, <1>7, <1>8, <1>9, <1>10, <1>11, <1>12, <1>13, <1>14, <1>15, <1>16, <1>17, <1>18, <1>19, <1>20, <1>21, <1>22, <1>23 DEF Next, Dispatch, Rendering, Deleting,
     Ending, ClearStep, Sending, Done

(* The chunks stay in order.                                                 *)
LEMMA OrderStep ==
  ASSUME TypeOK, Phases, InOrder, [Next]_vars
  PROVE  InOrder'
<1> USE BoundsAssumption DEF editorVars, chatVars, clearVars, sendVars, Msg
<1>1. CASE ProgressEvent
  BY <1>1 DEF ProgressEvent, TypeOK, Phases, InOrder
<1>2. CASE Created
  BY <1>2 DEF Created, Appears, Track, TypeOK, Phases, InOrder
<1>3. CASE CreateRefused
  BY <1>3 DEF CreateRefused, TypeOK, Phases, InOrder
<1>4. CASE Edited
  BY <1>4 DEF Edited, Changes, TypeOK, Phases, InOrder
<1>5. CASE EditRefused
  BY <1>5 DEF EditRefused, Replace, TypeOK, Phases, InOrder
<1>6. CASE EditPutOff
  BY <1>6 DEF EditPutOff, TypeOK, Phases, InOrder
<1>7. CASE Deleted
  BY <1>7 DEF Deleted, Vanishes, Forget, Clearing, TypeOK, Phases, InOrder
<1>8. CASE DeletePutOff
  BY <1>8 DEF DeletePutOff, TypeOK, Phases, InOrder
<1>9. CASE DeleteFails
  BY <1>9 DEF DeleteFails, Lost, Vanishes, Clearing, TypeOK, Phases, InOrder
<1>10. CASE TurnReturns
  BY <1>10 DEF TurnReturns, BeginClear, TypeOK, Phases, InOrder
<1>11. CASE CallbackRaises
  BY <1>11 DEF CallbackRaises, InCallback, Clearing, Lost, Effect, Appears, Changes, Vanishes, BeginClear, TypeOK, Phases, InOrder
<1>12. CASE CallbackCancelled
  BY <1>12 DEF CallbackCancelled, InCallback, Clearing, Lost, Effect, Appears, Changes, Vanishes, BeginClear, TypeOK, Phases, InOrder
<1>13. CASE ClearNext
  BY <1>13 DEF ClearNext, TypeOK, Phases, InOrder
<1>14. CASE ClearAgain
  BY <1>14 DEF ClearAgain, BeginClear, MaxAttempts, TypeOK, Phases, InOrder
<1>15. CASE GiveUp
  BY <1>15 DEF GiveUp, MaxAttempts, TypeOK, Phases, InOrder
<1>16. CASE ClearRaises
  BY <1>16 DEF ClearRaises, Clearing, Lost, Vanishes, TypeOK, Phases, InOrder
<1>17. CASE Cleared
  BY <1>17 DEF Cleared, TypeOK, Phases, InOrder
<1>18. CASE SendChunk
  <2>1. Append(sent, chunk) = [i \in 1 .. Len(Append(sent, chunk)) |-> i]
        /\ Len(Append(sent, chunk)) = chunk /\ chunk \in 1 .. Chunks
    BY <1>18, Appended DEF SendChunk, TypeOK, Phases, InOrder
  <2>2. sent' = [i \in 1 .. Len(sent') |-> i] /\ Len(sent') = chunk' - 1
    BY <1>18, <2>1 DEF SendChunk
  <2>3. pc' \in {"send", "send_plain", "over"}
    BY <1>18 DEF SendChunk
  <2>4. result' = "answered" => chunk = Chunks
    BY <1>18 DEF SendChunk, Phases
  <2>5. QED
    BY <1>18, <2>1, <2>2, <2>3, <2>4 DEF SendChunk, InOrder
<1>19. CASE SendRefused
  BY <1>19 DEF SendRefused, TypeOK, Phases, InOrder
<1>20. CASE SendCutShort
  <2>1. Append(sent, chunk) = [i \in 1 .. Len(Append(sent, chunk)) |-> i]
    BY <1>20, Appended DEF SendCutShort, TypeOK, Phases, InOrder
  <2>2. sent' = [i \in 1 .. Len(sent') |-> i]
    BY <1>20, <2>1 DEF SendCutShort, InOrder
  <2>3. QED
    BY <1>20, <2>2 DEF SendCutShort, InOrder
<1>21. CASE SendRaises
  <2>1. Append(sent, chunk) = [i \in 1 .. Len(Append(sent, chunk)) |-> i]
    BY <1>21, Appended DEF SendRaises, TypeOK, Phases, InOrder
  <2>2. sent' = [i \in 1 .. Len(sent') |-> i]
    BY <1>21, <2>1 DEF SendRaises, InOrder
  <2>3. QED
    BY <1>21, <2>2 DEF SendRaises, InOrder
<1>22. CASE RemovedByOthers
  BY <1>22 DEF RemovedByOthers, TypeOK, Phases, InOrder
<1>23. CASE UNCHANGED vars
  BY <1>23 DEF vars, TypeOK, Phases, InOrder
<1>24. QED
  BY <1>1, <1>2, <1>3, <1>4, <1>5, <1>6, <1>7, <1>8, <1>9, <1>10, <1>11, <1>12, <1>13, <1>14, <1>15, <1>16, <1>17, <1>18, <1>19, <1>20, <1>21, <1>22, <1>23 DEF Next, Dispatch, Rendering, Deleting,
     Ending, ClearStep, Sending, Done

(* The invariant is inductive, and holds in every reachable state.           *)
LEMMA StepIInv == IInv /\ [Next]_vars => IInv'
<1> SUFFICES ASSUME IInv, [Next]_vars PROVE IInv'
  OBVIOUS
<1> USE DEF IInv
<1>1. TypeOK'
  BY TypeStep
<1>2. Phases'
  BY PhaseStep
<1>3. OneVisible'
  BY VisibleStep
<1>4. Tracked'
  BY TrackedStep
<1>5. CacheTrue'
  BY CacheStep
<1>6. InOrder'
  BY OrderStep
<1>7. QED
  BY <1>1, <1>2, <1>3, <1>4, <1>5, <1>6

(* The invariant holds of a delivery.                                       *)
THEOREM Invariance == Spec => []IInv
  BY InitIInv, StepIInv, PTL DEF Spec

(* Type correctness.                                                         *)
THEOREM TypeCorrect == Spec => []TypeOK
<1>1. IInv => TypeOK
  BY DEF IInv
<1>2. QED
  BY <1>1, Invariance, PTL

(* When a part of the answer is in the chat, no progress message is.         *)
THEOREM ProgressGone == Spec => []AnswerReplacesProgress
<1>1. IInv => AnswerReplacesProgress
  BY DEF IInv, Tracked, AnswerReplacesProgress
<1>2. QED
  BY <1>1, Invariance, PTL

(* The chat never shows two progress messages of a turn.                     *)
THEOREM OneAtATime == Spec => []OneProgressMessage
<1>1. IInv => OneProgressMessage
  <2> SUFFICES ASSUME IInv PROVE Cardinality(visible) <= 1
    BY DEF OneProgressMessage
  <2>1. PICK m : visible \subseteq {m}
    BY DEF IInv, OneVisible
  <2>2. IsFiniteSet({m}) /\ Cardinality({m}) = 1
    BY FS_Singleton
  <2>3. QED
    BY <2>1, <2>2, FS_Subset
<1>2. QED
  BY <1>1, Invariance, PTL

(* Skipping an edit never leaves the chat behind.                            *)
THEOREM CacheTruthful == Spec => []RenderCacheTrue
<1>1. IInv => RenderCacheTrue
  BY DEF IInv, Phases, CacheTrue, RenderCacheTrue
<1>2. QED
  BY <1>1, Invariance, PTL

(* The chunks of an answer come in order, and one taken for delivered is     *)
(* complete.                                                                 *)
THEOREM ChunksInOrder == Spec => []AnswerInOrder
<1>1. IInv => AnswerInOrder
  BY DEF IInv, InOrder, AnswerInOrder
<1>2. QED
  BY <1>1, Invariance, PTL

-----------------------------------------------------------------------------
(* StageReaction.                                                            *)

(* Until the clearing, a reaction that may be shown is noted; the clearing   *)
(* is over when it was found needless, and no stage follows it.              *)
NotedFirst ==
    /\ clearing = "none" /\ current = NoEmoji => reacted = NoEmoji
    /\ reacting = "call" /\ clearing = "none" => current # NoEmoji
    /\ reacting = "call" => clearing \in {"none", "called"}
    /\ clearing # "none" => reacting \in {"call", "over"}
    /\ reacting = "over" => clearing # "none"
    /\ clearing = "needless" => reacted = NoEmoji

ReactionInv == ReactionTypeOK /\ NotedFirst /\ ReactionLeaves

-----------------------------------------------------------------------------
(* The initial state satisfies the invariant.                                *)
LEMMA InitReactionInv == ReactionInit => ReactionInv
  BY EmojiAssumption DEF ReactionInit, ReactionInv, ReactionTypeOK, NotedFirst, ReactionLeaves

(* A call that is skipped changes nothing; one that is made is noted.        *)
LEMMA ApplyNotes ==
  ASSUME NEW emoji, NEW then, Apply(emoji, then)
  PROVE  /\ reacted' = reacted /\ enabled' = enabled
         /\ \/ reacting' = then /\ current' = current /\ calling' = calling
               /\ (~enabled \/ emoji = current)
            \/ reacting' = "call" /\ calling' = emoji /\ current' = emoji
               /\ enabled /\ emoji # current
  BY DEF Apply, Skip, Noted

(* The invariant is inductive.                                               *)
LEMMA StepReactionInv == ReactionInv /\ [ReactionNext]_reactionVars => ReactionInv'
<1> SUFFICES ASSUME ReactionInv, [ReactionNext]_reactionVars PROVE ReactionInv'
  OBVIOUS
<1> USE EmojiAssumption DEF ReactionInv, ReactionTypeOK, NotedFirst, ReactionLeaves
<1>1. CASE Stage
  <2>1. CASE reacting = "start" /\ Apply(Thinking, "turn")
    <3>1. clearing' = clearing
      BY <1>1 DEF Stage
    <3>2. QED
      BY <2>1, <3>1, ApplyNotes
  <2>2. ASSUME reacting = "turn", NEW emoji \in Emoji, Apply(emoji, "turn") PROVE ReactionInv'
    <3>1. clearing' = clearing
      BY <1>1 DEF Stage
    <3>2. QED
      BY <2>2, <3>1, ApplyNotes
  <2>3. QED
    BY <1>1, <2>1, <2>2 DEF Stage
<1>2. CASE Answered
  BY <1>2 DEF Answered
<1>3. CASE Unanswered
  BY <1>3 DEF Unanswered, Interrupted
<1>10. CASE Cancelled
  BY <1>10 DEF Cancelled, Interrupted
<1>4. CASE TurnEnds
  BY <1>4 DEF TurnEnds
<1>5. CASE ClearSkipped
  BY <1>5 DEF ClearSkipped
<1>6. CASE Clear
  <2>1. reacting = "ending" /\ Apply(NoEmoji, "over")
        /\ clearing' = IF reacting' = "over" THEN "needless" ELSE "called"
    BY <1>6 DEF Clear
  <2>2. clearing = "none"
    BY <2>1
  <2>3. QED
    BY <2>1, <2>2, ApplyNotes
<1>7. CASE ClearAnswered
  BY <1>7 DEF ClearAnswered
<1>8. CASE ClearLost
  BY <1>8 DEF ClearLost
<1>9. CASE UNCHANGED reactionVars
  BY <1>9 DEF reactionVars
<1>11. QED
  BY <1>1, <1>2, <1>3, <1>10, <1>4, <1>5, <1>6, <1>7, <1>8, <1>9 DEF ReactionNext

-----------------------------------------------------------------------------
(* Type correctness, and no reaction of a bot that has them switched off.    *)
THEOREM ReactionTyped == ReactionSpec => []ReactionTypeOK
<1>1. ReactionInv => ReactionTypeOK
  BY DEF ReactionInv
<1>2. QED
  BY InitReactionInv, StepReactionInv, <1>1, PTL DEF ReactionSpec

(* An answered clearing leaves no reaction, whichever calls failed before.   *)
THEOREM NoneStays == ReactionSpec => []ReactionLeaves
<1>1. ReactionInv => ReactionLeaves
  BY DEF ReactionInv
<1>2. QED
  BY InitReactionInv, StepReactionInv, <1>1, PTL DEF ReactionSpec

-----------------------------------------------------------------------------
(* RunMessage.                                                               *)

(* A message that is being deleted, or waits to be, is known.                *)
KnownTargets ==
    /\ attempt = 0 /\ active # NoMsg => active \in known
    /\ attempt = 0 => todo = {}
    /\ todo \subseteq known
    /\ pc \in {"delete", "delete_again"} => target \in known \ todo

RunInv == IInv /\ ReactionInv /\ KnownTargets /\ ReactionGoesLast

-----------------------------------------------------------------------------
(* Whatever run_message does is a step of its delivery, or leaves it alone.  *)
LEMMA DeliveryStep ==
  ASSUME [RunNext]_runVars
  PROVE  [Next]_vars
<1>1. CASE Going
  BY <1>1 DEF Going, ReactionStep, ProgressStep, ClearProgress, SendAnswer, ClearReaction,
       ReactionCleared, Next, Dispatch, Deleting, ClearStep
<1>2. CASE TurnOver
  BY <1>2 DEF TurnOver, Next, Dispatch, Ending
<1>3. CASE RemovedByOthers
  BY <1>3 DEF Next
<1>4. CASE UNCHANGED runVars
  BY <1>4 DEF runVars
<1>5. QED
  BY <1>1, <1>2, <1>3, <1>4 DEF RunNext, RunOver

(* And a step of its reaction, or leaves that alone.                         *)
LEMMA TrackerStep ==
  ASSUME [RunNext]_runVars
  PROVE  [ReactionNext]_reactionVars
<1>1. CASE Going
  BY <1>1 DEF Going, ReactionStep, ProgressStep, ClearProgress, SendAnswer, ClearReaction,
       ReactionCleared, ReactionNext
<1>2. CASE TurnOver
  BY <1>2 DEF TurnOver, ReactionNext
<1>3. CASE RemovedByOthers /\ UNCHANGED reactionVars
  BY <1>3
<1>4. CASE UNCHANGED runVars
  BY <1>4 DEF runVars
<1>5. QED
  BY <1>1, <1>2, <1>3, <1>4 DEF RunNext, RunOver

(* Once the dispatch is over, its delivery stays as it is.                   *)
LEMMA OverStays ==
  ASSUME pc = "over", [Next]_vars
  PROVE  pc' = "over" /\ result' = result /\ known' = known
<1>1. ~Dispatch
  BY DEF Dispatch, ProgressEvent, Rendering, Created, CreateRefused, Edited, EditRefused,
       EditPutOff, Deleting, Deleted, DeletePutOff, DeleteFails, Ending, TurnReturns,
       CallbackRaises, CallbackCancelled, InCallback, ClearStep, ClearNext, ClearAgain,
       GiveUp, ClearRaises, Cleared, Sending, SendChunk, SendRefused, SendCutShort, SendRaises
<1>2. UNCHANGED vars
  BY <1>1 DEF Next, RemovedByOthers, Done
<1>3. QED
  BY <1>2 DEF vars, editorVars

(* What is deleted stays known until the deletion is confirmed.              *)
LEMMA TargetsStep ==
  ASSUME TypeOK, Phases, KnownTargets, [Next]_vars
  PROVE  KnownTargets'
<1> USE BoundsAssumption DEF KnownTargets, TypeOK, Msg, editorVars, chatVars, clearVars, sendVars
<1>1. CASE ProgressEvent
  BY <1>1 DEF ProgressEvent, Phases
<1>2. CASE Rendering
  <2>1. CASE Created
    BY <2>1 DEF Created, Track, Appears, Phases
  <2>2. CASE CreateRefused
    BY <2>2 DEF CreateRefused
  <2>3. CASE Edited
    BY <2>3 DEF Edited
  <2>4. CASE EditRefused
    BY <2>4 DEF EditRefused, Replace, Phases
  <2>5. CASE EditPutOff
    BY <2>5 DEF EditPutOff
  <2>6. QED
    BY <1>2, <2>1, <2>2, <2>3, <2>4, <2>5 DEF Rendering
<1>3. CASE Deleting
  <2>1. CASE Deleted
    BY <2>1 DEF Deleted, Forget, Clearing
  <2>2. CASE DeletePutOff
    BY <2>2 DEF DeletePutOff
  <2>3. CASE DeleteFails
    BY <2>3 DEF DeleteFails
  <2>4. QED
    BY <1>3, <2>1, <2>2, <2>3 DEF Deleting
<1>4. CASE Ending
  <2>1. pc' = "clear" /\ attempt' = attempt + 1 /\ todo' = known /\ UNCHANGED editorVars
    BY <1>4 DEF Ending, TurnReturns, CallbackRaises, CallbackCancelled, BeginClear
  <2>2. QED
    BY <2>1
<1>5. CASE ClearStep
  <2>1. CASE ClearNext
    BY <2>1 DEF ClearNext
  <2>2. CASE ClearAgain
    BY <2>2 DEF ClearAgain, BeginClear
  <2>3. CASE GiveUp
    BY <2>3 DEF GiveUp
  <2>4. CASE ClearRaises
    <3>1. known' = known /\ attempt # 0
      BY <2>4 DEF ClearRaises, Clearing
    <3>2. \/ pc' = "clear" /\ attempt' = 1 /\ todo' = known
          \/ pc' = "over" /\ attempt' = attempt /\ todo' = todo
      BY <2>4 DEF ClearRaises
    <3>3. CASE pc' = "clear" /\ attempt' = 1 /\ todo' = known
      BY <3>1, <3>3
    <3>4. CASE pc' = "over" /\ attempt' = attempt /\ todo' = todo
      BY <3>1, <3>4
    <3>5. QED
      BY <3>2, <3>3, <3>4
  <2>5. CASE Cleared
    BY <2>5 DEF Cleared
  <2>6. QED
    BY <1>5, <2>1, <2>2, <2>3, <2>4, <2>5 DEF ClearStep
<1>6. CASE Sending
  BY <1>6 DEF Sending, SendChunk, SendRefused, SendCutShort, SendRaises
<1>7. CASE RemovedByOthers
  BY <1>7 DEF RemovedByOthers
<1>8. CASE UNCHANGED vars
  BY <1>8 DEF vars
<1>9. QED
  BY <1>1, <1>2, <1>3, <1>4, <1>5, <1>6, <1>7, <1>8 DEF Next, Dispatch, Done

(* The clearing of the reaction begins when the delivery is over; it is      *)
(* skipped when the deletion of a message, which stays known, raised.        *)
LEMMA GoesLastStep ==
  ASSUME RunInv, [RunNext]_runVars
  PROVE  ReactionGoesLast'
<1> USE DEF ReactionGoesLast, reactionVars
<1>1. [Next]_vars
  BY DeliveryStep
<1>2. clearing \in {"none", "skipped", "needless", "called", "lost"}
  BY DEF RunInv, ReactionInv, ReactionTypeOK
<1>3. CASE clearing # "none"
  <2>1. pc' = "over" /\ result' = result /\ known' = known
    BY <1>1, <1>3, OverStays DEF RunInv
  <2>2. clearing = "skipped" \/ clearing' # "skipped"
    BY <1>3, TrackerStep DEF ReactionNext, Stage, Apply, Answered, Unanswered, Cancelled,
         Interrupted, TurnEnds, ClearSkipped, Clear, ClearAnswered, ClearLost, RunInv,
         ReactionInv, NotedFirst
  <2>3. QED
    BY <2>1, <2>2 DEF RunInv
<1>4. CASE clearing = "none" /\ clearing' # "none"
  <2>1. CASE ReactionStep
    BY <2>1, <1>4 DEF ReactionStep, Stage, Answered, Unanswered, Interrupted
  <2>2. CASE TurnOver
    BY <2>2, <1>4 DEF TurnOver, TurnEnds, Cancelled, Interrupted
  <2>3. CASE ClearProgress
    <3>1. ClearRaises /\ pc' = "over" /\ ClearSkipped
      BY <2>3, <1>4 DEF ClearProgress
    <3>2. result' = "raised" /\ known' = known /\ target \in known
      BY <3>1 DEF ClearRaises, editorVars, RunInv, KnownTargets
    <3>3. QED
      BY <3>1, <3>2
  <2>4. CASE ClearReaction
    BY <2>4, <1>4 DEF ClearReaction, Clear, vars
  <2>5. CASE ReactionCleared
    BY <2>5, <1>4 DEF ReactionCleared, ClearAnswered, ClearLost
  <2>6. CASE UNCHANGED reactionVars
    BY <2>6, <1>4
  <2>7. QED
    BY <2>1, <2>2, <2>3, <2>4, <2>5, <2>6 DEF RunNext, Going, ProgressStep, SendAnswer, RunOver, runVars
<1>5. CASE clearing' = "none"
  BY <1>5
<1>6. QED
  BY <1>3, <1>4, <1>5

-----------------------------------------------------------------------------
(* The invariants of the parts hold of the whole.                            *)
THEOREM RunInvariance == RunSpec => []RunInv
<1>1. RunInit => RunInv
  BY InitIInv, InitReactionInv
  DEF RunInit, RunInv, KnownTargets, ReactionGoesLast, Init, ReactionInit
<1>2. RunInv /\ [RunNext]_runVars => RunInv'
  <2> SUFFICES ASSUME RunInv, [RunNext]_runVars PROVE RunInv'
    OBVIOUS
  <2>1. IInv'
    BY DeliveryStep, StepIInv DEF RunInv
  <2>2. ReactionInv'
    BY TrackerStep, StepReactionInv DEF RunInv
  <2>3. KnownTargets'
    BY DeliveryStep, TargetsStep DEF RunInv, IInv
  <2>4. QED
    BY <2>1, <2>2, <2>3, GoesLastStep DEF RunInv
<1>3. QED
  BY <1>1, <1>2, PTL DEF RunSpec

(* run_message delivers as TelegramDelivery does, and keeps its reaction as  *)
(* StageReaction does.                                                       *)
THEOREM RunImplementsParts ==
  RunSpec => Init /\ [][Next]_vars /\ ReactionSpec
<1>1. RunInit => Init /\ ReactionInit
  BY DEF RunInit
<1>2. [RunNext]_runVars => [Next]_vars /\ [ReactionNext]_reactionVars
  BY DeliveryStep, TrackerStep
<1>3. QED
  BY <1>1, <1>2, PTL DEF RunSpec, ReactionSpec

(* The reaction is cleared last, and only left behind by an error of the     *)
(* last attempt to clear the progress.                                       *)
THEOREM GoesLast == RunSpec => []ReactionGoesLast
<1>1. RunInv => ReactionGoesLast
  BY DEF RunInv
<1>2. QED
  BY <1>1, RunInvariance, PTL

(* The reaction follows the turn and leaves with it.                         *)
THEOREM ReactionKept == RunSpec => []ReactionInOrder
<1>1. RunInv => ReactionInOrder
  BY DEF RunInv, ReactionInv, ReactionInOrder
<1>2. QED
  BY <1>1, RunInvariance, PTL

-----------------------------------------------------------------------------
(* AnswerDelivery, its files: for every set of answers and every text.       *)

(* A tag dealt with is shown or told, not both, unless the network lost    *)
(* it; the tag whose turn it is is neither.                                  *)
Dealt(i) == i \notin unanswered => ((i \in Range(uploads)) # (i \in told))

FilesTyped ==
    /\ answer \in Answers
    /\ at \in {"html", "plain", "file", "again", "notice", "returned", "raised"}
    /\ next \in 1 .. Len(answer.files) + 1
    /\ uploads \in Seq(DOMAIN answer.files)
    /\ told \subseteq DOMAIN answer.files /\ unanswered \subseteq DOMAIN answer.files

InTurn ==
    /\ at \in {"again", "notice"} => next <= Len(answer.files)
    /\ at = "again" => answer.files[next] = "media"
    /\ at = "returned" => next = Len(answer.files) + 1

UploadsPast ==
    /\ \A i \in DOMAIN uploads : uploads[i] < next \/ (uploads[i] = next /\ at = "raised")
    /\ \A i \in DOMAIN uploads : answer.files[uploads[i]] \in {"media", "document"}
    /\ FilesOnce

AllDone == at # "raised" =>
    /\ \A i \in told : i < next
    /\ \A i \in 1 .. next - 1 : Dealt(i)

FilesInv == FilesTyped /\ InTurn /\ UploadsPast /\ AllDone

(* What an upload may leave: nothing new, or the tag as the last of them.    *)
LEMMA UploadAppends ==
  ASSUME FilesTyped, InTurn, UploadsPast, Uploading, at # "raised",
         uploads' \in {uploads, Append(uploads, next)}
  PROVE  /\ next \in DOMAIN answer.files /\ answer.files[next] \in {"media", "document"}
         /\ uploads' \in Seq(DOMAIN answer.files)
         /\ \A i \in DOMAIN uploads' : uploads'[i] <= next /\ answer.files[uploads'[i]] \in {"media", "document"}
         /\ \A i, j \in DOMAIN uploads' : i < j => uploads'[i] < uploads'[j]
         /\ Range(uploads') \subseteq Range(uploads) \union {next}
         /\ Range(uploads) \subseteq Range(uploads')
         /\ uploads' = Append(uploads, next) => next \in Range(uploads')
<1> USE AnswersAssumption
<1>1. next \in DOMAIN answer.files /\ answer.files[next] \in {"media", "document"}
  BY DEF FilesTyped, InTurn, Uploading, Pending, Kind
<1>2. CASE uploads' = uploads
  <2>1. \A i \in DOMAIN uploads : uploads[i] \in Nat /\ next \in Nat
    BY DEF FilesTyped
  <2>2. uploads # Append(uploads, next)
    BY DEF FilesTyped
  <2>3. QED
    BY <1>1, <1>2, <2>1, <2>2 DEF FilesTyped, UploadsPast, FilesOnce
<1>3. CASE uploads' = Append(uploads, next)
  <2>1. /\ Len(uploads') = Len(uploads) + 1 /\ uploads'[Len(uploads) + 1] = next
        /\ \A i \in DOMAIN uploads : uploads'[i] = uploads[i]
        /\ DOMAIN uploads' = DOMAIN uploads \union {Len(uploads) + 1}
        /\ \A i \in DOMAIN uploads : i < Len(uploads) + 1
    BY <1>1, <1>3 DEF FilesTyped
  <2>2. /\ next \in Nat
        /\ \A i \in DOMAIN uploads : uploads[i] \in Nat /\ uploads[i] < next
    <3>1. next \in Nat /\ \A i \in DOMAIN uploads : uploads[i] \in Nat
      BY DEF FilesTyped
    <3>2. \A i \in DOMAIN uploads : uploads[i] < next
      BY DEF UploadsPast
    <3>3. QED
      BY <3>1, <3>2
  <2>3. uploads' \in Seq(DOMAIN answer.files)
    BY <1>1, <1>3 DEF FilesTyped
  <2>4. \A i \in DOMAIN uploads' : uploads'[i] <= next /\ answer.files[uploads'[i]] \in {"media", "document"}
    BY <1>1, <2>1, <2>2 DEF UploadsPast
  <2>5. \A i, j \in DOMAIN uploads' : i < j => uploads'[i] < uploads'[j]
    BY <2>1, <2>2 DEF UploadsPast, FilesOnce, FilesTyped
  <2>6. Range(uploads') = Range(uploads) \union {next}
    BY <2>1 DEF Range
  <2>7. QED
    BY <1>1, <2>3, <2>4, <2>5, <2>6
<1>4. QED
  BY <1>2, <1>3

(* The text and its chunks do not touch the files.                           *)
LEMMA TextKeepsFiles ==
  ASSUME FilesInv, Text
  PROVE  FilesInv'
<1>1. /\ at \in {"html", "plain"} /\ at' \in {"html", "plain", "file", "raised"}
      /\ UNCHANGED <<answer, next, uploads, told, unanswered>>
  BY DEF Text, ChunkSent, ChunkRefused, ChunkCut, ChunkRaises, fileVars
<1>2. QED
  BY <1>1 DEF FilesInv, FilesTyped, InTurn, UploadsPast, FilesOnce, AllDone, Dealt, Range

(* An upload, whatever becomes of it.                                        *)
LEMMA UploadStep ==
  ASSUME FilesInv, Uploaded \/ UploadLost \/ UploadRaises
  PROVE  FilesInv'
<1> USE AnswersAssumption DEF FilesInv
<1>1. /\ Uploading /\ at # "raised"
      /\ uploads' \in {uploads, Append(uploads, next)}
      /\ UNCHANGED <<answer, told>>
  BY DEF Uploaded, UploadLost, UploadRaises, FileAppears, FileMayAppear, Uploading, Pending
<1>2. /\ next \in DOMAIN answer.files /\ answer.files[next] \in {"media", "document"}
      /\ uploads' \in Seq(DOMAIN answer.files)
      /\ \A i \in DOMAIN uploads' : uploads'[i] <= next /\ answer.files[uploads'[i]] \in {"media", "document"}
      /\ \A i, j \in DOMAIN uploads' : i < j => uploads'[i] < uploads'[j]
      /\ Range(uploads') \subseteq Range(uploads) \union {next}
      /\ Range(uploads) \subseteq Range(uploads')
      /\ uploads' = Append(uploads, next) => next \in Range(uploads')
  BY <1>1, UploadAppends
<1>3. CASE Uploaded \/ UploadLost
  <2>1. /\ at' = "file" /\ next' = next + 1
        /\ unanswered' \in {unanswered, unanswered \union {next}}
        /\ next \in unanswered' \/ next \in Range(uploads')
    BY <1>2, <1>3 DEF Uploaded, UploadLost, NextFile, FileAppears
  <2>2. FilesTyped'
    BY <1>1, <1>2, <2>1, SMTT(60) DEF FilesTyped
  <2>3. InTurn'
    BY <2>1 DEF InTurn
  <2>4. UploadsPast'
    BY <1>1, <1>2, <2>1, <2>2, SMTT(60) DEF UploadsPast, FilesOnce, FilesTyped
  <2>5. AllDone'
    <3>1. \A i \in told' : i < next'
      BY <1>1, <2>1 DEF AllDone, FilesTyped
    <3>2. ASSUME NEW i \in 1 .. next' - 1 PROVE Dealt(i)'
      <4>1. CASE i = next
        <5>1. i \notin told
          BY <1>1, <4>1 DEF AllDone, FilesTyped
        <5>2. QED
          BY <1>1, <2>1, <4>1, <5>1 DEF Dealt
      <4>2. CASE i # next
        <5>1. i \in 1 .. next - 1
          BY <2>1, <4>2 DEF FilesTyped
        <5>2. Dealt(i)
          BY <1>1, <5>1 DEF AllDone
        <5>3. i \in Range(uploads) <=> i \in Range(uploads')
          BY <1>2, <4>2
        <5>4. QED
          BY <1>1, <2>1, <5>2, <5>3 DEF Dealt
      <4>3. QED
        BY <4>1, <4>2
    <3>3. QED
      BY <3>1, <3>2 DEF AllDone
  <2>6. QED
    BY <2>2, <2>3, <2>4, <2>5
<1>4. CASE UploadRaises
  <2>1. at' = "raised" /\ UNCHANGED <<next, unanswered>>
    BY <1>4 DEF UploadRaises
  <2>2. FilesTyped'
    BY <1>1, <1>2, <2>1 DEF FilesTyped
  <2>3. InTurn' /\ AllDone'
    BY <2>1 DEF InTurn, AllDone
  <2>4. UploadsPast'
    BY <1>1, <1>2, <2>1, <2>2 DEF UploadsPast, FilesOnce, FilesTyped
  <2>5. QED
    BY <2>2, <2>3, <2>4
<1>5. QED
  BY <1>3, <1>4

(* The steps of a file that leave no upload.                                 *)
LEMMA NoUploadStep ==
  ASSUME FilesInv, Return \/ NotSent \/ Refused \/ Unreadable
  PROVE  FilesInv'
<1> USE AnswersAssumption DEF FilesInv
<1>1. /\ at \in {"file", "again"} /\ UNCHANGED <<answer, fileVars>>
      /\ \/ at' = "returned" /\ next > Len(answer.files)
         \/ at' = "notice" /\ next <= Len(answer.files)
         \/ at' = "again" /\ next <= Len(answer.files) /\ answer.files[next] = "media"
  <2>1. CASE Return
    BY <2>1 DEF Return, fileVars
  <2>2. CASE NotSent
    BY <2>2 DEF NotSent, Pending
  <2>3. CASE Refused \/ Unreadable
    BY <2>3 DEF Refused, Unreadable, Uploading, Pending, Kind, InTurn
  <2>4. QED
    BY <2>1, <2>2, <2>3
<1>2. FilesTyped' /\ InTurn'
  BY <1>1 DEF FilesTyped, InTurn, fileVars
<1>3. UploadsPast' /\ AllDone'
  BY <1>1 DEF UploadsPast, FilesOnce, AllDone, Dealt, Range, fileVars
<1>4. QED
  BY <1>2, <1>3

(* A notice tells of a tag that is not shown.                                *)
LEMMA NoticeStep ==
  ASSUME FilesInv, NoticeSent \/ NoticeRaises
  PROVE  FilesInv'
<1> USE AnswersAssumption DEF FilesInv
<1>1. /\ at = "notice" /\ next \in DOMAIN answer.files
      /\ told' \in {told, told \union {next}}
      /\ UNCHANGED <<answer, uploads, unanswered>>
  BY DEF NoticeSent, NoticeRaises, InTurn, FilesTyped
<1>2. CASE NoticeSent
  <2>1. at' = "file" /\ next' = next + 1 /\ told' = told \union {next}
    BY <1>2 DEF NoticeSent, NextFile
  <2>2. FilesTyped' /\ InTurn'
    BY <1>1, <2>1 DEF FilesTyped, InTurn
  <2>3. UploadsPast'
    BY <1>1, <2>1 DEF UploadsPast, FilesOnce, FilesTyped
  <2>4. next \notin Range(uploads)
    BY <1>1 DEF UploadsPast, FilesTyped, Range
  <2>5. AllDone'
    <3>1. \A i \in told' : i < next'
      BY <1>1, <2>1 DEF AllDone, FilesTyped
    <3>2. ASSUME NEW i \in 1 .. next' - 1 PROVE Dealt(i)'
      <4>1. CASE i = next
        BY <1>1, <2>1, <2>4, <4>1 DEF Dealt, Range
      <4>2. CASE i # next
        <5>1. i \in 1 .. next - 1
          BY <2>1, <4>2 DEF FilesTyped
        <5>2. Dealt(i)
          BY <1>1, <5>1 DEF AllDone
        <5>3. QED
          BY <1>1, <2>1, <4>2, <5>2 DEF Dealt, Range
      <4>3. QED
        BY <4>1, <4>2
    <3>3. QED
      BY <3>1, <3>2 DEF AllDone
  <2>6. QED
    BY <2>2, <2>3, <2>5
<1>3. CASE NoticeRaises
  <2>1. at' = "raised" /\ UNCHANGED next
    BY <1>3 DEF NoticeRaises
  <2>2. QED
    BY <1>1, <2>1 DEF FilesTyped, InTurn, UploadsPast, FilesOnce, AllDone
<1>4. QED
  BY <1>2, <1>3

THEOREM FilesInvariant == RichSpec => []FilesInv
<1> USE AnswersAssumption
<1>1. ASSUME RichInit PROVE FilesInv
  <2>1. FilesTyped /\ InTurn /\ uploads = << >> /\ told = {} /\ next = 1
    BY <1>1 DEF RichInit, FilesTyped, InTurn, Start
  <2>2. QED
    BY <2>1 DEF FilesInv, UploadsPast, FilesOnce, AllDone
<1>2. ASSUME FilesInv, [RichNext]_richVars PROVE FilesInv'
  <2>1. CASE UNCHANGED richVars
    BY <1>2, <2>1 DEF richVars, textVars, fileVars, FilesInv, FilesTyped, InTurn, UploadsPast, FilesOnce,
       AllDone, Dealt, Range
  <2>2. CASE RichNext
    BY <1>2, <2>2, TextKeepsFiles, UploadStep, NoUploadStep, NoticeStep DEF RichNext, File
  <2>3. QED
    BY <1>2, <2>1, <2>2
<1>3. QED
  BY <1>1, <1>2, PTL DEF RichSpec

(* When send_rich returns, every tag of the answer was shown as a file once, *)
(* in order, or told, never both, and shown only when it may be; what the    *)
(* network lost excepted: for any answers, whatever is refused, unreadable   *)
(* or lost.                                                                  *)
THEOREM FilesReachTheChat == RichSpec => []FilesShownOrTold
<1>1. ASSUME FilesInv PROVE FilesShownOrTold
  <2>1. FilesOnce /\ \A i \in Range(uploads) : answer.files[i] \in {"media", "document"}
    BY <1>1 DEF FilesInv, UploadsPast, Range
  <2>2. ASSUME at = "returned", NEW i \in DOMAIN answer.files \ unanswered
        PROVE  (i \in Range(uploads)) # (i \in told)
    <3>1. i \in 1 .. next - 1
      BY <1>1, <2>2, AnswersAssumption DEF FilesInv, FilesTyped, InTurn
    <3>2. Dealt(i)
      BY <1>1, <2>2, <3>1 DEF FilesInv, AllDone
    <3>3. QED
      BY <2>2, <3>2 DEF Dealt
  <2>3. QED
    BY <2>1, <2>2 DEF FilesShownOrTold, FilesAccounted
<1>2. QED
  BY <1>1, FilesInvariant, PTL

-----------------------------------------------------------------------------
(* What the folds of AnswerDelivery come to is proved by induction over the  *)
(* places of a sequence; the sets of naturals it holds for are closed under  *)
(* the successor.                                                            *)

LEMMA Induction ==
  ASSUME NEW S, 0 \in S, \A n \in Nat : n \in S => n + 1 \in S
  PROVE  \A n \in Nat : n \in S
<1> DEFINE R == OpToRel(<, Nat)
           T == {n \in Nat : n \notin S}
<1> SUFFICES ASSUME T # {} PROVE FALSE
  OBVIOUS
<1>1. R = {ss \in Nat \X Nat : ss[1] < ss[2]}
  BY DEF OpToRel
<1>2. IsWellFoundedOn(R, Nat)
  BY NatLessThanWellFounded
<1> HIDE DEF R
<1>3. PICK x \in T : \A y \in T : ~(<<y, x>> \in R)
  <2>1. T \subseteq Nat
    OBVIOUS
  <2> HIDE DEF T
  <2>2. QED
    BY <1>2, <2>1, WFMin
<1>4. x # 0 /\ x \in Nat
  OBVIOUS
<1>5. x - 1 \in Nat /\ x - 1 < x /\ (x - 1) + 1 = x
  BY <1>4
<1>6. x - 1 \in T
  BY <1>5
<1>7. <<x - 1, x>> \in R
  BY <1>1, <1>4, <1>5
<1>8. QED
  BY <1>3, <1>6, <1>7

LEMMA LastIsMax ==
  ASSUME NEW k \in Nat, NEW S \in SUBSET (1 .. k + 1), k + 1 \in S
  PROVE  Max(S) = k + 1
<1>1. \A x \in S : x \in Int /\ x <= k + 1
  OBVIOUS
<1>2. \A x \in S : (\A y \in S : x >= y) => x = k + 1
  BY <1>1
<1>3. \A y \in S : k + 1 >= y
  BY <1>1
<1>4. QED
  BY <1>2, <1>3 DEF Max

LEMMA UpTo ==
  ASSUME NEW k \in Nat
  PROVE  /\ 1 .. k + 1 = (1 .. k) \union {k + 1} /\ k + 1 \notin 1 .. k
         /\ \A S \in SUBSET (1 .. k + 1) : k + 1 \notin S => S \in SUBSET (1 .. k)
         /\ \A S \in SUBSET (1 .. k + 1) : S \ {k + 1} \in SUBSET (1 .. k)
         /\ (1 .. k + 1) \ {k + 1} = 1 .. k /\ 1 .. 0 = {} /\ 1 .. k + 1 # {}
<1>1. 1 .. k + 1 = (1 .. k) \union {k + 1} /\ k + 1 \notin 1 .. k
  OBVIOUS
<1>2. 1 .. 0 = {}
  OBVIOUS
<1>3. QED
  BY <1>1, <1>2, Zenon

(* The fold of _accumulate_parts, step by step.                              *)
LEMMA PutSteps ==
  ASSUME NEW P, NEW parts \in Seq(P), NEW sizes, NEW gap
  PROVE  \E h : /\ h[0] = Empty
                /\ \A i \in 1 .. Len(parts) : h[i] = Put(h[i - 1], parts[i], sizes[i], gap)
                /\ PutAll(parts, sizes, gap) = h[Len(parts)]
<1> DEFINE n == Len(parts)
           seq == [i \in DOMAIN parts |-> i]
           Of(acc, i) == Put(acc, parts[i], sizes[i], gap)
           Step(g, S) == IF S = {} THEN Empty ELSE Of(g[S \ {Max(S)}], seq[Max(S)])
           Rec(g, k) == g = [S \in SUBSET (1 .. k) |-> Step(g, S)]
           Fold(g) == g = [S \in SUBSET DOMAIN seq |-> Step(g, S)]
<1>1. n \in Nat /\ DOMAIN parts = 1 .. n
  OBVIOUS
<1>2. DOMAIN seq = 1 .. n /\ \A i \in 1 .. n : seq[i] = i
  BY <1>1
<1>3. PutAll(parts, sizes, gap) = (CHOOSE g : Fold(g))[DOMAIN seq]
  BY DEF PutAll, FoldLeftDomain, FoldLeft, MapThenFoldSet
<1> HIDE DEF n, seq, Of
<1>4. \A g, S : S # {} => Step(g, S) = Of(g[S \ {Max(S)}], seq[Max(S)])
  OBVIOUS
<1>5. \A g : Step(g, {}) = Empty
  OBVIOUS
<1>6. \A g, e, S : g[S \ {Max(S)}] = e[S \ {Max(S)}] => Step(g, S) = Step(e, S)
  OBVIOUS
<1> HIDE DEF Step
<1>7. \A k \in Nat : \E g : Rec(g, k)
  <2> DEFINE K == {k \in Nat : \E g : Rec(g, k)}
  <2>1. 0 \in K
    <3> DEFINE g == [S \in SUBSET (1 .. 0) |-> Empty]
    <3>1. \A S \in SUBSET (1 .. 0) : Step(g, S) = Empty
      <4>1. \A S \in SUBSET (1 .. 0) : S = {}
        BY UpTo
      <4> HIDE DEF g
      <4>2. QED
        BY <1>5, <4>1
    <3>2. Rec(g, 0)
      BY <3>1
    <3>3. QED
      BY <3>2
  <2>2. ASSUME NEW k \in Nat, k \in K
        PROVE  k + 1 \in K
    <3>1. PICK g : Rec(g, k)
      BY <2>2
    <3> DEFINE e == [S \in SUBSET (1 .. k + 1) |->
                       IF k + 1 \in S THEN Of(g[S \ {k + 1}], seq[k + 1]) ELSE g[S]]
    <3>2. \A S \in SUBSET (1 .. k) : e[S] = g[S]
      <4>1. \A S \in SUBSET (1 .. k) : S \in SUBSET (1 .. k + 1) /\ k + 1 \notin S
        BY UpTo
      <4>2. QED
        BY <4>1
    <3>3. \A S \in SUBSET (1 .. k) : e[S] = Step(e, S)
      <4>1. TAKE S \in SUBSET (1 .. k)
      <4>2. S \ {Max(S)} \in SUBSET (1 .. k)
        OBVIOUS
      <4>3. e[S \ {Max(S)}] = g[S \ {Max(S)}]
        BY <3>2, <4>2
      <4> HIDE DEF e
      <4>4. g[S] = Step(g, S)
        BY <3>1
      <4>5. QED
        BY <1>6, <3>2, <4>3, <4>4
    <3>4. \A S \in SUBSET (1 .. k + 1) : k + 1 \in S => e[S] = Step(e, S)
      <4>1. SUFFICES ASSUME NEW S \in SUBSET (1 .. k + 1), k + 1 \in S
                     PROVE  e[S] = Step(e, S)
        BY Zenon
      <4>2. Max(S) = k + 1 /\ S \ {k + 1} \in SUBSET (1 .. k) /\ S # {}
        BY <4>1, LastIsMax, UpTo
      <4>3. e[S] = Of(g[S \ {k + 1}], seq[k + 1])
        BY <4>1
      <4> HIDE DEF e
      <4>4. e[S \ {k + 1}] = g[S \ {k + 1}]
        BY <3>2, <4>2
      <4>5. QED
        BY <1>4, <4>2, <4>3, <4>4, Zenon
    <3>5. \A S \in SUBSET (1 .. k + 1) : e[S] = Step(e, S)
      <4>1. \A S \in SUBSET (1 .. k + 1) : k + 1 \in S \/ S \in SUBSET (1 .. k)
        BY UpTo
      <4> HIDE DEF e
      <4>2. QED
        BY <3>3, <3>4, <4>1
    <3>6. Rec(e, k + 1)
      <4>1. e = [S \in SUBSET (1 .. k + 1) |-> e[S]]
        OBVIOUS
      <4> HIDE DEF e
      <4>2. QED
        BY <3>5, <4>1
    <3>7. \E f : Rec(f, k + 1)
      <4> HIDE DEF e, Rec
      <4>1. QED
        BY <3>6
    <3>8. QED
      BY <3>7
  <2>3. QED
    <3> HIDE DEF K
    <3>1. \A k \in Nat : k \in K
      BY <2>1, <2>2, Induction
    <3>2. QED
      BY <3>1 DEF K
<1>8. PICK g : Rec(g, n) /\ PutAll(parts, sizes, gap) = g[1 .. n]
  <2>1. \E g : Fold(g)
    <3>1. PICK g : Rec(g, n)
      BY <1>1, <1>7 DEF n
    <3>2. Fold(g)
      BY <1>2, <3>1
    <3>3. QED
      BY <3>2
  <2>2. Fold(CHOOSE g : Fold(g))
    <3> HIDE DEF Fold
    <3>1. QED
      BY <2>1
  <2>3. QED
    BY <1>2, <1>3, <2>2
<1> DEFINE h == [i \in 0 .. n |-> g[1 .. i]]
<1>9. h[0] = Empty
  <2>1. h[0] = g[{}] /\ {} \in SUBSET (1 .. n)
    BY <1>1, UpTo
  <2> HIDE DEF h
  <2>2. g[{}] = Step(g, {})
    BY <1>8, <2>1
  <2>3. QED
    BY <1>5, <2>1, <2>2
<1>10. ASSUME NEW i \in 1 .. n
       PROVE  h[i] = Put(h[i - 1], parts[i], sizes[i], gap)
  <2>1. i - 1 \in Nat /\ (i - 1) + 1 = i /\ i \in 0 .. n /\ i - 1 \in 0 .. n
    BY <1>1
  <2>2. h[i] = g[1 .. i] /\ h[i - 1] = g[1 .. i - 1]
    BY <2>1
  <2> HIDE DEF h
  <2>3. 1 .. i \in SUBSET (1 .. n) /\ i \in 1 .. i
    BY <1>1
  <2>4. Max(1 .. i) = i
    BY <2>1, <2>3, LastIsMax
  <2>5. (1 .. i) \ {i} = 1 .. i - 1 /\ 1 .. i # {}
    BY <2>1, UpTo
  <2>6. g[1 .. i] = Step(g, 1 .. i)
    BY <1>8, <2>3
  <2>7. g[1 .. i] = Of(g[1 .. i - 1], seq[i])
    BY <1>4, <2>4, <2>5, <2>6, Zenon
  <2>8. seq[i] = i
    BY <1>2
  <2>9. QED
    BY <2>2, <2>7, <2>8 DEF Of
<1>11. PutAll(parts, sizes, gap) = h[n]
  BY <1>1, <1>8
<1>12. QED
  <2> HIDE DEF h
  <2>1. QED
    BY <1>9, <1>10, <1>11 DEF n

(* FlattenSeq, step by step.                                                 *)
LEMMA FlattenSteps ==
  ASSUME NEW S, NEW ss \in Seq(Seq(S)), ss # << >>
  PROVE  \E g : /\ g[1] = ss[1]
                /\ \A i \in 2 .. Len(ss) : g[i] = g[i - 1] \o ss[i]
                /\ FlattenSeq(ss) = g[Len(ss)]
<1> DEFINE n == Len(ss)
           Step(g, i) == IF i = 1 THEN ss[i] ELSE g[i - 1] \o ss[i]
           Rec(g, k) == g = [i \in 1 .. k |-> Step(g, i)]
<1>1. n \in Nat /\ n # 0
  OBVIOUS
<1>2. FlattenSeq(ss) = (CHOOSE g : Rec(g, n))[n]
  BY <1>1 DEF FlattenSeq
<1> HIDE DEF n
<1>3. \A k \in Nat : \E g : Rec(g, k)
  <2> DEFINE K == {k \in Nat : \E g : Rec(g, k)}
  <2>1. 0 \in K
    <3>1. Rec([i \in 1 .. 0 |-> 0], 0)
      OBVIOUS
    <3>2. QED
      BY <3>1
  <2>2. ASSUME NEW k \in Nat, k \in K
        PROVE  k + 1 \in K
    <3>1. PICK g : Rec(g, k)
      BY <2>2
    <3> DEFINE e == [i \in 1 .. k + 1 |-> IF i = k + 1 THEN Step(g, k + 1) ELSE g[i]]
    <3>2. \A i \in 1 .. k : e[i] = g[i]
      OBVIOUS
    <3>3. \A i \in 1 .. k + 1 : e[i] = Step(g, i)
      <4> HIDE DEF Step
      <4>1. \A i \in 1 .. k : g[i] = Step(g, i)
        BY <3>1
      <4>2. e[k + 1] = Step(g, k + 1)
        OBVIOUS
      <4> HIDE DEF e
      <4>3. \A i \in 1 .. k + 1 : i \in 1 .. k \/ i = k + 1
        OBVIOUS
      <4>4. QED
        BY <3>2, <4>1, <4>2, <4>3, Zenon
    <3>4. \A i \in 1 .. k + 1 : Step(g, i) = Step(e, i)
      <4>1. TAKE i \in 1 .. k + 1
      <4>2. i = 1 \/ i - 1 \in 1 .. k
        OBVIOUS
      <4> HIDE DEF e
      <4>3. QED
        BY <3>2, <4>2
    <3>5. Rec(e, k + 1)
      <4>1. e = [i \in 1 .. k + 1 |-> e[i]]
        OBVIOUS
      <4>2. \A i \in 1 .. k + 1 : e[i] = Step(e, i)
        BY <3>3, <3>4, Zenon
      <4> HIDE DEF e, Step
      <4>3. QED
        BY <4>1, <4>2
    <3>6. QED
      <4> HIDE DEF e, Rec
      <4>1. QED
        BY <3>5
  <2>3. QED
    <3> HIDE DEF K
    <3>1. \A k \in Nat : k \in K
      BY <2>1, <2>2, Induction
    <3>2. QED
      BY <3>1 DEF K
<1>4. PICK g : Rec(g, n) /\ FlattenSeq(ss) = g[n]
  <2> HIDE DEF Rec
  <2>1. \E g : Rec(g, n)
    BY <1>1, <1>3
  <2>2. QED
    BY <1>2, <2>1
<1>5. g[1] = ss[1]
  BY <1>1, <1>4
<1>6. \A i \in 2 .. n : g[i] = g[i - 1] \o ss[i]
  <2>1. \A i \in 2 .. n : i \in 1 .. n /\ i # 1
    OBVIOUS
  <2>2. \A i \in 2 .. n : Step(g, i) = g[i - 1] \o ss[i]
    BY <2>1, Zenon
  <2> HIDE DEF Step
  <2>3. \A i \in 1 .. n : g[i] = Step(g, i)
    BY <1>4
  <2>4. QED
    BY <2>1, <2>2, <2>3, Zenon
<1>7. QED
  BY <1>4, <1>5, <1>6 DEF n

LEMMA FlattenEmpty ==
  FlattenSeq(<< >>) = << >>
BY DEF FlattenSeq

LEMMA FlattenType ==
  ASSUME NEW S, NEW ss \in Seq(Seq(S))
  PROVE  FlattenSeq(ss) \in Seq(S)
<1>1. CASE ss = << >>
  <2>1. << >> \in Seq(S)
    OBVIOUS
  <2>2. QED
    BY <1>1, <2>1, FlattenEmpty, Zenon
<1>2. CASE ss # << >>
  <2>1. PICK g : /\ g[1] = ss[1]
                 /\ \A i \in 2 .. Len(ss) : g[i] = g[i - 1] \o ss[i]
                 /\ FlattenSeq(ss) = g[Len(ss)]
    BY <1>2, FlattenSteps
  <2> DEFINE K == {k \in Nat : k + 1 \in 1 .. Len(ss) => g[k + 1] \in Seq(S)}
  <2>2. 0 \in K
    BY <1>2, <2>1
  <2>3. \A k \in Nat : k \in K => k + 1 \in K
    <3>1. SUFFICES ASSUME NEW k \in Nat, k \in K, (k + 1) + 1 \in 1 .. Len(ss)
                   PROVE  g[(k + 1) + 1] \in Seq(S)
      OBVIOUS
    <3>2. g[k + 1] \in Seq(S) /\ (k + 1) + 1 \in 2 .. Len(ss) /\ ((k + 1) + 1) - 1 = k + 1
      BY <3>1
    <3>3. ss[(k + 1) + 1] \in Seq(S)
      BY <3>1
    <3>4. g[(k + 1) + 1] = g[k + 1] \o ss[(k + 1) + 1]
      <4>1. g[(k + 1) + 1] = g[((k + 1) + 1) - 1] \o ss[(k + 1) + 1]
        BY <2>1, <3>2, Zenon
      <4>2. QED
        BY <3>2, <4>1, Zenon
    <3>5. g[k + 1] \o ss[(k + 1) + 1] \in Seq(S)
      BY <3>2, <3>3
    <3>6. QED
      BY <3>4, <3>5, Zenon
  <2>4. Len(ss) - 1 \in K
    <3> HIDE DEF K
    <3>1. \A k \in Nat : k \in K
      BY <2>2, <2>3, Induction
    <3>2. Len(ss) - 1 \in Nat
      BY <1>2
    <3>3. QED
      BY <3>1, <3>2
  <2>5. QED
    BY <1>2, <2>1, <2>4
<1>3. QED
  BY <1>1, <1>2

LEMMA FlattenAppend ==
  ASSUME NEW S, NEW ss \in Seq(Seq(S)), NEW s \in Seq(S)
  PROVE  FlattenSeq(Append(ss, s)) = FlattenSeq(ss) \o s
<1> DEFINE both == Append(ss, s)
           n == Len(ss)
<1>0. /\ both \in Seq(Seq(S)) /\ both # << >> /\ Len(both) = n + 1 /\ n \in Nat
      /\ both[n + 1] = s /\ \A i \in 1 .. n : both[i] = ss[i]
  <2>1. /\ both \in Seq(Seq(S)) /\ Len(both) = n + 1 /\ n \in Nat
        /\ both[n + 1] = s
    BY AppendProperties
  <2>2. \A i \in 1 .. n : both[i] = ss[i]
    BY AppendProperties
  <2>3. both # << >>
    BY AppendProperties
  <2>4. QED
    BY <2>1, <2>2, <2>3
<1>1. PICK b : /\ b[1] = both[1]
               /\ \A i \in 2 .. n + 1 : b[i] = b[i - 1] \o both[i]
               /\ FlattenSeq(both) = b[n + 1]
  <2> HIDE DEF both, n
  <2>1. QED
    BY <1>0, FlattenSteps
<1>2. CASE ss = << >>
  <2>1. n = 0 /\ both[1] = s /\ FlattenSeq(both) = both[1]
    BY <1>0, <1>1, <1>2
  <2>2. << >> \o s = s
    OBVIOUS
  <2>3. QED
    BY <1>2, <2>1, <2>2, FlattenEmpty, Zenon
<1>3. CASE ss # << >>
  <2>1. PICK g : /\ g[1] = ss[1]
                 /\ \A i \in 2 .. n : g[i] = g[i - 1] \o ss[i]
                 /\ FlattenSeq(ss) = g[n]
    BY <1>3, FlattenSteps
  <2>2. n \in Nat /\ n >= 1
    BY <1>3
  <2> HIDE DEF both, n
  <2> DEFINE K == {k \in Nat : k + 1 \in 1 .. n => g[k + 1] = b[k + 1]}
  <2>3. 0 \in K
    BY <1>0, <1>1, <2>1, <2>2
  <2>4. \A k \in Nat : k \in K => k + 1 \in K
    <3>1. SUFFICES ASSUME NEW k \in Nat, k \in K, (k + 1) + 1 \in 1 .. n
                   PROVE  g[(k + 1) + 1] = b[(k + 1) + 1]
      OBVIOUS
    <3>2. /\ (k + 1) + 1 \in 2 .. n /\ (k + 1) + 1 \in 2 .. n + 1 /\ (k + 1) + 1 \in 1 .. n
          /\ ((k + 1) + 1) - 1 = k + 1 /\ k + 1 \in 1 .. n
      BY <2>2, <3>1
    <3>3. g[k + 1] = b[k + 1]
      BY <3>1, <3>2
    <3> HIDE DEF K
    <3>4. g[(k + 1) + 1] = g[k + 1] \o ss[(k + 1) + 1]
      <4>1. g[(k + 1) + 1] = g[((k + 1) + 1) - 1] \o ss[(k + 1) + 1]
        BY <2>1, <3>2, Zenon
      <4>2. QED
        BY <3>2, <4>1, Zenon
    <3>5. b[(k + 1) + 1] = b[k + 1] \o both[(k + 1) + 1]
      <4>1. b[(k + 1) + 1] = b[((k + 1) + 1) - 1] \o both[(k + 1) + 1]
        BY <1>1, <3>2, Zenon
      <4>2. QED
        BY <3>2, <4>1, Zenon
    <3>6. both[(k + 1) + 1] = ss[(k + 1) + 1]
      BY <1>0, <3>2, Zenon
    <3>7. QED
      BY <3>3, <3>4, <3>5, <3>6, Zenon
  <2>5. n - 1 \in K
    <3> HIDE DEF K
    <3>1. \A k \in Nat : k \in K
      BY <2>3, <2>4, Induction
    <3>2. n - 1 \in Nat
      BY <2>2
    <3>3. QED
      BY <3>1, <3>2
  <2>6. g[n] = b[n]
    BY <2>2, <2>5
  <2>7. b[n + 1] = b[n] \o both[n + 1]
    <3>1. n + 1 \in 2 .. n + 1 /\ (n + 1) - 1 = n
      BY <2>2
    <3>2. b[n + 1] = b[(n + 1) - 1] \o both[n + 1]
      BY <1>1, <3>1, Zenon
    <3>3. QED
      BY <3>1, <3>2, Zenon
  <2>8. QED
    BY <1>0, <1>1, <2>1, <2>6, <2>7 DEF both
<1>4. QED
  BY <1>2, <1>3

LEMMA FlattenConcat ==
  ASSUME NEW S, NEW rs \in Seq(Seq(S)), NEW ss \in Seq(Seq(S))
  PROVE  FlattenSeq(rs \o ss) = FlattenSeq(rs) \o FlattenSeq(ss)
<1> DEFINE Fits(ts) == FlattenSeq(rs \o ts) = FlattenSeq(rs) \o FlattenSeq(ts)
           K == {k \in Nat : \A ts \in Seq(Seq(S)) : Len(ts) = k => Fits(ts)}
<1>0. FlattenSeq(rs) \in Seq(S)
  BY FlattenType
<1>1. 0 \in K
  <2>1. Fits(<< >>)
    <3>1. rs \o << >> = rs /\ FlattenSeq(rs) \o << >> = FlattenSeq(rs)
      BY <1>0
    <3>2. QED
      BY <3>1, FlattenEmpty, Zenon
  <2>2. \A ts \in Seq(Seq(S)) : Len(ts) = 0 => ts = << >>
    OBVIOUS
  <2> HIDE DEF Fits
  <2>3. QED
    BY <2>1, <2>2
<1>2. \A k \in Nat : k \in K => k + 1 \in K
  <2>1. SUFFICES ASSUME NEW k \in Nat, k \in K, NEW ts \in Seq(Seq(S)), Len(ts) = k + 1
                 PROVE  Fits(ts)
    <3> HIDE DEF Fits
    <3>1. \A k \in Nat : (\A ts \in Seq(Seq(S)) : Len(ts) = k + 1 => Fits(ts)) => k + 1 \in K
      OBVIOUS
    <3> HIDE DEF K
    <3>2. QED
      BY <3>1, Zenon
  <2>2. PICK us \in Seq(Seq(S)), u \in Seq(S) : ts = Append(us, u) /\ Len(us) = k
    <3>1. ts # << >>
      BY <2>1
    <3>2. PICK us \in Seq(Seq(S)), u \in Seq(S) : ts = Append(us, u)
      BY <3>1, SequenceEmptyOrAppend
    <3>3. Len(us) = k
      BY <2>1, <3>2
    <3>4. QED
      BY <3>2, <3>3
  <2>3. Fits(us)
    <3> HIDE DEF Fits
    <3>1. QED
      BY <2>1, <2>2
  <2>4. rs \o ts = Append(rs \o us, u) /\ rs \o us \in Seq(Seq(S))
    <3>1. rs \o us \in Seq(Seq(S))
      OBVIOUS
    <3>2. rs \o Append(us, u) = Append(rs \o us, u)
      OBVIOUS
    <3>3. QED
      BY <2>2, <3>1, <3>2, Zenon
  <2>5. FlattenSeq(rs \o ts) = FlattenSeq(rs \o us) \o u
    BY <2>2, <2>4, FlattenAppend
  <2>6. FlattenSeq(ts) = FlattenSeq(us) \o u /\ FlattenSeq(us) \in Seq(S)
    BY <2>2, FlattenAppend, FlattenType
  <2>7. \A x, y \in Seq(S) : (x \o y) \o u = x \o (y \o u)
    BY <2>2, SMTT(60)
  <2>8. QED
    BY <1>0, <2>3, <2>5, <2>6, <2>7, Zenon
<1>3. Len(ss) \in K
  <2> HIDE DEF K
  <2>1. \A k \in Nat : k \in K
    BY <1>1, <1>2, Induction
  <2>2. QED
    BY <2>1
<1>4. QED
  <2> HIDE DEF Fits
  <2>1. Fits(ss)
    BY <1>3
  <2>2. QED
    BY <2>1 DEF Fits

(* How long a paragraph gets with one more line, a text with one more        *)
(* paragraph.                                                                *)
LEMMA LongerPara ==
  ASSUME NEW S, NEW para \in Seq(Seq(S)), NEW line \in Seq(S)
  PROVE  /\ ParaLen(para) \in Int
         /\ ParaLen(Append(para, line)) = ParaLen(para) + 1 + Len(line)
         /\ ParaLen(<<line>>) = Len(line)
<1>1. ASSUME NEW p \in Seq(Seq(S))
      PROVE  /\ ParaLen(p) \in Int
             /\ ParaLen(Append(p, line)) = ParaLen(p) + 1 + Len(line)
  <2>1. FlattenSeq(p) \in Seq(S) /\ FlattenSeq(Append(p, line)) = FlattenSeq(p) \o line
    BY FlattenType, FlattenAppend
  <2>2. Len(FlattenSeq(p) \o line) = Len(FlattenSeq(p)) + Len(line)
        /\ Len(Append(p, line)) = Len(p) + 1
        /\ Len(FlattenSeq(p)) \in Nat /\ Len(p) \in Nat /\ Len(line) \in Nat
    BY <2>1
  <2>3. QED
    BY <2>1, <2>2 DEF ParaLen
<1>2. ParaLen(<< >>) = -1
  BY FlattenEmpty DEF ParaLen
<1>3. Append(<< >>, line) = <<line>> /\ << >> \in Seq(Seq(S)) /\ Len(line) \in Nat
  OBVIOUS
<1>4. ParaLen(<<line>>) = -1 + 1 + Len(line)
  BY <1>1, <1>2, <1>3, Zenon
<1>5. QED
  BY <1>1, <1>3, <1>4

LEMMA LongerText ==
  ASSUME NEW S, NEW words \in Seq(Seq(Seq(S))), NEW para \in Seq(Seq(S))
  PROVE  /\ TextLen(words) \in Int
         /\ TextLen(Append(words, para)) = TextLen(words) + 2 + ParaLen(para)
         /\ TextLen(<<para>>) = ParaLen(para)
<1>0. /\ FlattenSeq(para) \in Seq(S) /\ Len(FlattenSeq(para)) \in Nat
      /\ Len(para) \in Nat /\ ParaLen(para) = Len(FlattenSeq(para)) + Len(para) - 1
  BY FlattenType DEF ParaLen
<1>1. ASSUME NEW t \in Seq(Seq(Seq(S)))
      PROVE  /\ TextLen(t) \in Int
             /\ TextLen(Append(t, para)) = TextLen(t) + 2 + ParaLen(para)
  <2> DEFINE lines == FlattenSeq(t)
  <2>1. lines \in Seq(Seq(S)) /\ FlattenSeq(Append(t, para)) = lines \o para
    BY FlattenType, FlattenAppend
  <2> HIDE DEF lines
  <2>2. FlattenSeq(lines) \in Seq(S)
        /\ FlattenSeq(lines \o para) = FlattenSeq(lines) \o FlattenSeq(para)
    BY <2>1, FlattenType, FlattenConcat
  <2>3. /\ Len(FlattenSeq(lines) \o FlattenSeq(para))
             = Len(FlattenSeq(lines)) + Len(FlattenSeq(para))
        /\ Len(lines \o para) = Len(lines) + Len(para)
        /\ Len(Append(t, para)) = Len(t) + 1
        /\ Len(FlattenSeq(lines)) \in Nat /\ Len(lines) \in Nat /\ Len(t) \in Nat
    BY <1>0, <2>1, <2>2
  <2>4. TextLen(t) = Len(FlattenSeq(lines)) + Len(lines) + Len(t) - 2
    BY DEF TextLen, Chars, lines
  <2>5. TextLen(Append(t, para)) = Len(FlattenSeq(lines) \o FlattenSeq(para))
                                     + Len(lines \o para) + Len(Append(t, para)) - 2
    BY <2>1, <2>2, Zenon DEF TextLen, Chars
  <2>6. QED
    BY <1>0, <2>3, <2>4, <2>5
<1>2. TextLen(<< >>) = -2
  <2>1. Chars(<< >>) = << >>
    BY FlattenEmpty, Zenon DEF Chars
  <2>2. QED
    BY <2>1, FlattenEmpty DEF TextLen
<1>3. Append(<< >>, para) = <<para>> /\ << >> \in Seq(Seq(Seq(S)))
  OBVIOUS
<1>4. TextLen(<<para>>) = -2 + 2 + ParaLen(para)
  BY <1>1, <1>2, <1>3, Zenon
<1>5. QED
  BY <1>0, <1>1, <1>4

(* The chunks that _accumulate_parts makes fit, by any measure M of what a   *)
(* sequence of parts comes to when they are joined.                          *)
LEMMA AccumulateFits ==
  ASSUME NEW P, NEW parts \in Seq(P), NEW sizes, NEW gap \in Int, NEW M,
         \A i \in DOMAIN parts : sizes[i] \in Int /\ M[<<parts[i]>>] = sizes[i],
         \A c \in Seq(P) : \A i \in DOMAIN parts :
           M[Append(c, parts[i])] = M[c] + gap + sizes[i]
  PROVE  /\ Accumulate(parts, sizes, gap).chunks \in Seq({c \in Seq(P) : M[c] <= Limit})
         /\ Accumulate(parts, sizes, gap).oversized \in Seq(P)
<1> DEFINE Fit == {c \in Seq(P) : M[c] <= Limit}
           Good(acc) == /\ acc.chunks \in Seq(Fit)
                        /\ acc.oversized \in Seq(P)
                        /\ acc.current \in Seq(P)
                        /\ acc.length \in Int
                        /\ acc.length <= Limit
                        /\ acc.length > 0 => M[acc.current] = acc.length
<1>0. Limit \in Nat \ {0}
  BY AnswersAssumption
<1>1. ASSUME NEW acc, Good(acc)
      PROVE  Closed(acc) \in Seq(Fit)
  <2>1. CASE acc.length > 0
    <3>1. acc.current \in Fit
      BY <1>0, <1>1, <2>1
    <3> HIDE DEF Fit
    <3>2. QED
      BY <1>1, <2>1, <3>1 DEF Closed
  <2>2. CASE ~(acc.length > 0)
    <3> HIDE DEF Fit
    <3>1. QED
      BY <1>1, <2>2 DEF Closed
  <2>3. QED
    BY <2>1, <2>2
<1>2. ASSUME NEW acc, Good(acc), NEW i \in DOMAIN parts
      PROVE  Good(Put(acc, parts[i], sizes[i], gap))
  <2> DEFINE part == parts[i]
             size == sizes[i]
             candidate == Joined(acc.length, size, gap)
             new == Put(acc, parts[i], sizes[i], gap)
  <2>0. /\ part \in P /\ size \in Int /\ M[<<part>>] = size
        /\ \A c \in Seq(P) : M[Append(c, part)] = M[c] + gap + size
        /\ <<part>> \in Seq(P)
    OBVIOUS
  <2>1. Closed(acc) \in Seq(Fit)
    BY <1>1, <1>2
  <2> SUFFICES Good(new)
    OBVIOUS
  <2> HIDE DEF part, size, Fit, candidate, new
  <2>2. CASE candidate <= Limit /\ acc.length > 0
    <3>1. new = [chunks |-> acc.chunks, length |-> candidate, oversized |-> acc.oversized,
                 current |-> Append(acc.current, part)]
      BY <2>2, Zenon DEF Put, part, size, candidate, new
    <3>2. candidate = acc.length + gap + size
      BY <2>2 DEF Joined, candidate
    <3>3. M[Append(acc.current, part)] = candidate /\ candidate \in Int
          /\ Append(acc.current, part) \in Seq(P)
      BY <1>2, <2>0, <2>2, <3>2
    <3>4. /\ new.chunks = acc.chunks /\ new.length = candidate
          /\ new.oversized = acc.oversized /\ new.current = Append(acc.current, part)
      BY <3>1
    <3>5. QED
      BY <1>2, <2>2, <3>3, <3>4
  <2>3. CASE candidate <= Limit /\ ~(acc.length > 0)
    <3>1. new = [chunks |-> acc.chunks, length |-> candidate, oversized |-> acc.oversized,
                 current |-> <<part>>]
      BY <2>3, Zenon DEF Put, part, size, candidate, new
    <3>2. candidate = size
      BY <2>3, Zenon DEF Joined, candidate
    <3>3. /\ new.chunks = acc.chunks /\ new.length = size
          /\ new.oversized = acc.oversized /\ new.current = <<part>>
      BY <3>1, <3>2
    <3>4. QED
      BY <1>2, <2>0, <2>3, <3>2, <3>3
  <2>4. CASE ~(candidate <= Limit) /\ size <= Limit
    <3>1. new = [chunks |-> Closed(acc), length |-> size, oversized |-> acc.oversized,
                 current |-> <<part>>]
      BY <2>4, Zenon DEF Put, part, size, candidate, new
    <3>2. /\ new.chunks = Closed(acc) /\ new.length = size
          /\ new.oversized = acc.oversized /\ new.current = <<part>>
      BY <3>1
    <3>3. QED
      BY <1>2, <2>0, <2>1, <2>4, <3>2
  <2>5. CASE ~(candidate <= Limit) /\ ~(size <= Limit)
    <3>1. new = [chunks |-> Closed(acc), current |-> << >>, length |-> 0,
                 oversized |-> Append(acc.oversized, part)]
      BY <2>5, Zenon DEF Put, SetAside, part, size, candidate, new
    <3>2. /\ new.chunks = Closed(acc) /\ new.length = 0
          /\ new.oversized = Append(acc.oversized, part) /\ new.current = << >>
      BY <3>1
    <3>3. Append(acc.oversized, part) \in Seq(P) /\ << >> \in Seq(P)
      BY <1>2, <2>0
    <3>4. QED
      BY <1>0, <1>2, <2>0, <2>1, <3>2, <3>3
  <2>6. QED
    BY <2>2, <2>3, <2>4, <2>5
<1>3. Good(Empty)
  BY <1>0 DEF Empty
<1>4. PICK h : /\ h[0] = Empty
               /\ \A i \in 1 .. Len(parts) : h[i] = Put(h[i - 1], parts[i], sizes[i], gap)
               /\ PutAll(parts, sizes, gap) = h[Len(parts)]
  BY PutSteps
<1> HIDE DEF Good, Fit
<1>5. Good(PutAll(parts, sizes, gap))
  <2> DEFINE K == {k \in Nat : k \in 0 .. Len(parts) => Good(h[k])}
  <2>1. 0 \in K
    BY <1>3, <1>4
  <2>2. \A k \in Nat : k \in K => k + 1 \in K
    <3>1. SUFFICES ASSUME NEW k \in Nat, k \in K, k + 1 \in 0 .. Len(parts)
                   PROVE  Good(h[k + 1])
      OBVIOUS
    <3>2. k \in 0 .. Len(parts) /\ k + 1 \in 1 .. Len(parts) /\ (k + 1) - 1 = k
          /\ k + 1 \in DOMAIN parts
      BY <3>1
    <3>3. Good(h[k])
      BY <3>1, <3>2
    <3>4. h[k + 1] = Put(h[k], parts[k + 1], sizes[k + 1], gap)
      BY <1>4, <3>2, Zenon
    <3>5. QED
      BY <1>2, <3>2, <3>3, <3>4, Zenon
  <2> HIDE DEF K
  <2>3. \A k \in Nat : k \in K
    BY <2>1, <2>2, Induction
  <2>4. Len(parts) \in 0 .. Len(parts) /\ Len(parts) \in Nat
    OBVIOUS
  <2>5. QED
    BY <1>4, <2>3, <2>4 DEF K
<1>6. QED
  <2> DEFINE all == PutAll(parts, sizes, gap)
  <2>1. Closed(all) \in Seq(Fit)
    BY <1>1, <1>5
  <2>2. all.oversized \in Seq(P)
    BY <1>5 DEF Good
  <2>3. /\ Accumulate(parts, sizes, gap).chunks = Closed(all)
        /\ Accumulate(parts, sizes, gap).oversized = all.oversized
    BY DEF Accumulate
  <2>4. QED
    BY <2>1, <2>2, <2>3, Zenon DEF Fit

(* split_html_message makes chunks that fit.                                 *)
FittingTexts == {t \in Texts : TextLen(t) <= Limit}

LEMMA HardSplitFits ==
  ASSUME NEW line \in Seq(Place)
  PROVE  HardSplit(line) \in Seq(FittingTexts)
<1> DEFINE n == Len(line)
           count == (n + Limit - 1) \div Limit
           hi(i) == IF Limit * i < n THEN Limit * i ELSE n
           lo(i) == Limit * (i - 1) + 1
           piece(i) == SubSeq(line, lo(i), hi(i))
<1>1. Limit \in Nat /\ Limit > 0 /\ n \in Nat
  BY AnswersAssumption
<1>2. count \in Int
  BY <1>1
<1>3. ASSUME NEW i \in 1 .. count
      PROVE  <<<<piece(i)>>>> \in FittingTexts
  <2>1. i \in Nat /\ i >= 1
    BY <1>2
  <2>2. PICK a \in Nat : a = Limit * (i - 1)
    <3>1. i - 1 \in Nat
      BY <2>1
    <3>2. Limit * (i - 1) \in Nat
      BY <1>1, <3>1
    <3>3. QED
      BY <3>2
  <2>3. Limit * i = a + Limit
    BY <1>1, <2>1, <2>2
  <2>4. hi(i) = (IF a + Limit < n THEN a + Limit ELSE n) /\ lo(i) = a + 1
    BY <2>2, <2>3, Zenon
  <2> HIDE DEF lo, hi, n
  <2>5. lo(i) \in Int /\ lo(i) >= 1 /\ hi(i) \in Int /\ hi(i) <= n /\ hi(i) - lo(i) + 1 <= Limit
    BY <1>1, <2>4
  <2>6. piece(i) \in Seq(Place) /\ Len(piece(i)) <= Limit
    <3>1. \A k \in lo(i) .. hi(i) : line[k] \in Place
      <4>1. \A k \in lo(i) .. hi(i) : k \in 1 .. n
        BY <1>1, <2>5
      <4>2. \A j \in 1 .. n : line[j] \in Place
        BY DEF n
      <4>3. QED
        BY <4>1, <4>2, Zenon
    <3>2. /\ piece(i) \in Seq(Place)
          /\ Len(piece(i)) = IF lo(i) <= hi(i) THEN hi(i) - lo(i) + 1 ELSE 0
      BY <2>5, <3>1, SubSeqProperties
    <3> HIDE DEF piece
    <3>3. QED
      BY <1>1, <2>5, <3>2
  <2> HIDE DEF piece
  <2>7. <<piece(i)>> \in Seq(Seq(Place)) /\ <<<<piece(i)>>>> \in Texts
    BY <2>6 DEF Texts
  <2>8. TextLen(<<<<piece(i)>>>>) = Len(piece(i))
    <3> DEFINE p == <<piece(i)>>
    <3>1. TextLen(<<p>>) = ParaLen(p)
      <4>1. << >> \in Seq(Seq(Seq(Place)))
        OBVIOUS
      <4>2. p \in Seq(Seq(Place))
        BY <2>7
      <4> HIDE DEF p
      <4>3. QED
        BY <4>1, <4>2, LongerText
    <3>2. ParaLen(p) = Len(piece(i))
      <4>1. << >> \in Seq(Seq(Place))
        OBVIOUS
      <4>2. QED
        BY <2>6, <4>1, LongerPara
    <3>3. QED
      BY <3>1, <3>2
  <2>9. QED
    BY <2>6, <2>7, <2>8 DEF FittingTexts
<1>4. HardSplit(line) = [i \in 1 .. count |-> <<<<piece(i)>>>>]
  BY DEF HardSplit
<1>5. PICK m \in Nat : 1 .. m = 1 .. count
  <2> HIDE DEF count
  <2>1. CASE count >= 0
    BY <1>2, <2>1
  <2>2. CASE ~(count >= 0)
    <3>1. 1 .. 0 = 1 .. count
      BY <1>2, <2>2
    <3>2. QED
      BY <3>1
  <2>3. QED
    BY <2>1, <2>2
<1>6. QED
  <2> HIDE DEF count, piece
  <2>1. HardSplit(line) = [i \in 1 .. m |-> <<<<piece(i)>>>>]
    BY <1>4, <1>5
  <2>2. \A i \in 1 .. m : <<<<piece(i)>>>> \in FittingTexts
    BY <1>3, <1>5
  <2>3. QED
    BY <2>1, <2>2

LEMMA SplitParagraphFits ==
  ASSUME NEW para \in Seq(Seq(Place))
  PROVE  SplitParagraph(para) \in Seq(FittingTexts)
<1> DEFINE M == [c \in Seq(Seq(Place)) |-> ParaLen(c)]
           sizes == LineLens(para)
           byLine == Accumulate(para, sizes, 1)
           short == [i \in DOMAIN byLine.chunks |-> <<byLine.chunks[i]>>]
           long == [i \in DOMAIN byLine.oversized |-> HardSplit(byLine.oversized[i])]
<1>1. \A i \in DOMAIN para : sizes[i] = Len(para[i]) /\ sizes[i] \in Int /\ para[i] \in Seq(Place)
  BY DEF LineLens
<1> HIDE DEF sizes
<1>2. \A i \in DOMAIN para : M[<<para[i]>>] = sizes[i]
  <2>1. \A i \in DOMAIN para : ParaLen(<<para[i]>>) = sizes[i]
    <3>1. << >> \in Seq(Seq(Place))
      OBVIOUS
    <3>2. QED
      BY <1>1, <3>1, LongerPara
  <2>2. \A i \in DOMAIN para : <<para[i]>> \in Seq(Seq(Place))
    BY <1>1
  <2>3. \A c \in Seq(Seq(Place)) : M[c] = ParaLen(c)
    OBVIOUS
  <2>4. QED
    BY <2>1, <2>2, <2>3, Zenon
<1>3. \A c \in Seq(Seq(Place)) : \A i \in DOMAIN para :
         M[Append(c, para[i])] = M[c] + 1 + sizes[i]
  <2>1. \A c \in Seq(Seq(Place)) : \A i \in DOMAIN para :
           ParaLen(Append(c, para[i])) = ParaLen(c) + 1 + sizes[i]
    <3>1. TAKE c \in Seq(Seq(Place))
    <3>2. TAKE i \in DOMAIN para
    <3>3. para[i] \in Seq(Place) /\ sizes[i] = Len(para[i])
      BY <1>1
    <3>4. ParaLen(Append(c, para[i])) = ParaLen(c) + 1 + Len(para[i])
      BY <3>3, LongerPara
    <3>5. QED
      BY <3>3, <3>4, Zenon
  <2>2. \A c \in Seq(Seq(Place)) : \A i \in DOMAIN para : Append(c, para[i]) \in Seq(Seq(Place))
    BY <1>1
  <2>3. \A c \in Seq(Seq(Place)) : M[c] = ParaLen(c)
    OBVIOUS
  <2>4. QED
    BY <2>1, <2>2, <2>3, Zenon
<1>4. /\ byLine.chunks \in Seq({c \in Seq(Seq(Place)) : M[c] <= Limit})
      /\ byLine.oversized \in Seq(Seq(Place))
  <2> HIDE DEF M
  <2>1. PICK gap \in Int : gap = 1
    OBVIOUS
  <2>2. \A i \in DOMAIN para : sizes[i] \in Int /\ M[<<para[i]>>] = sizes[i]
    BY <1>1, <1>2
  <2>3. \A c \in Seq(Seq(Place)) : \A i \in DOMAIN para :
           M[Append(c, para[i])] = M[c] + gap + sizes[i]
    BY <1>3, <2>1
  <2> HIDE DEF byLine
  <2>4. /\ Accumulate(para, sizes, gap).chunks \in Seq({c \in Seq(Seq(Place)) : M[c] <= Limit})
        /\ Accumulate(para, sizes, gap).oversized \in Seq(Seq(Place))
    BY <2>2, <2>3, AccumulateFits, ZenonT(60)
  <2>5. QED
    BY <2>1, <2>4 DEF byLine
<1> HIDE DEF byLine
<1>5. \A c \in Seq(Seq(Place)) : M[c] <= Limit => <<c>> \in FittingTexts
  <2>1. SUFFICES ASSUME NEW c \in Seq(Seq(Place)), M[c] <= Limit
                 PROVE  <<c>> \in FittingTexts
    OBVIOUS
  <2>2. << >> \in Seq(Seq(Seq(Place))) /\ <<c>> \in Texts
    BY DEF Texts
  <2>3. TextLen(<<c>>) = ParaLen(c) /\ ParaLen(c) <= Limit
    BY <2>1, <2>2, LongerText
  <2>4. QED
    BY <2>2, <2>3 DEF FittingTexts
<1> HIDE DEF M
<1>6. short \in Seq(FittingTexts)
  <2>1. \A i \in DOMAIN byLine.chunks : <<byLine.chunks[i]>> \in FittingTexts
    <3>1. \A i \in DOMAIN byLine.chunks :
             byLine.chunks[i] \in {c \in Seq(Seq(Place)) : M[c] <= Limit}
      BY <1>4
    <3>2. QED
      BY <1>5, <3>1
  <2>2. DOMAIN byLine.chunks = 1 .. Len(byLine.chunks) /\ Len(byLine.chunks) \in Nat
    BY <1>4
  <2>3. QED
    BY <2>1, <2>2
<1>7. FlattenSeq(long) \in Seq(FittingTexts)
  <2>1. \A i \in DOMAIN byLine.oversized : HardSplit(byLine.oversized[i]) \in Seq(FittingTexts)
    BY <1>4, HardSplitFits
  <2>2. DOMAIN byLine.oversized = 1 .. Len(byLine.oversized) /\ Len(byLine.oversized) \in Nat
    BY <1>4
  <2>3. long \in Seq(Seq(FittingTexts))
    BY <2>1, <2>2
  <2> HIDE DEF long
  <2>4. QED
    BY <2>3, FlattenType
<1>8. SplitParagraph(para) = short \o FlattenSeq(long)
  BY DEF SplitParagraph, byLine, sizes
<1>9. QED
  <2> HIDE DEF short, long
  <2>1. QED
    BY <1>6, <1>7, <1>8

LEMMA SplitFits ==
  ASSUME NEW words \in Texts
  PROVE  Split(words) \in Seq(FittingTexts)
<1> DEFINE M == [c \in Texts |-> TextLen(c)]
           sizes == ParaLens(words)
           byParagraph == Accumulate(words, sizes, 2)
           long == [i \in DOMAIN byParagraph.oversized |-> SplitParagraph(byParagraph.oversized[i])]
<1>1. \A i \in DOMAIN words : /\ sizes[i] = ParaLen(words[i]) /\ sizes[i] \in Int
                             /\ words[i] \in Seq(Seq(Place))
  <2>1. \A i \in DOMAIN words : words[i] \in Seq(Seq(Place))
    BY DEF Texts
  <2>2. \A i \in DOMAIN words : ParaLen(words[i]) \in Int
    <3>1. << >> \in Seq(Place)
      OBVIOUS
    <3>2. QED
      BY <2>1, <3>1, LongerPara, Zenon
  <2>3. QED
    BY <2>1, <2>2 DEF ParaLens
<1> HIDE DEF sizes
<1>2. \A i \in DOMAIN words : M[<<words[i]>>] = sizes[i]
  <2>1. \A i \in DOMAIN words : TextLen(<<words[i]>>) = sizes[i] /\ <<words[i]>> \in Texts
    <3>1. << >> \in Seq(Seq(Seq(Place)))
      OBVIOUS
    <3>2. QED
      BY <1>1, <3>1, LongerText DEF Texts
  <2>2. QED
    BY <2>1
<1>3. \A c \in Texts : \A i \in DOMAIN words :
         M[Append(c, words[i])] = M[c] + 2 + sizes[i]
  <2>1. \A c \in Texts : \A i \in DOMAIN words :
           TextLen(Append(c, words[i])) = TextLen(c) + 2 + sizes[i]
    <3> TAKE c \in Texts
    <3>1. TAKE i \in DOMAIN words
    <3>2. words[i] \in Seq(Seq(Place)) /\ sizes[i] = ParaLen(words[i]) /\ c \in Seq(Seq(Seq(Place)))
      BY <1>1 DEF Texts
    <3>3. TextLen(Append(c, words[i])) = TextLen(c) + 2 + ParaLen(words[i])
      BY <3>2, LongerText
    <3>4. QED
      BY <3>2, <3>3, Zenon
  <2>2. \A c \in Texts : \A i \in DOMAIN words : Append(c, words[i]) \in Texts
    BY <1>1 DEF Texts
  <2>3. QED
    BY <2>1, <2>2
<1>4. /\ byParagraph.chunks \in Seq({c \in Texts : M[c] <= Limit})
      /\ byParagraph.oversized \in Seq(Seq(Seq(Place)))
  <2> HIDE DEF M
  <2>1. 2 \in Int
    OBVIOUS
  <2>2. QED
    <3> DEFINE P == Seq(Seq(Place))
    <3>1. Texts = Seq(P)
      BY DEF Texts
    <3>2. words \in Seq(P)
      BY <3>1
    <3>3. \A i \in DOMAIN words : sizes[i] \in Int /\ M[<<words[i]>>] = sizes[i]
      BY <1>1, <1>2
    <3>4. PICK gap \in Int : gap = 2
      BY <2>1
    <3>5. \A c \in Seq(P) : \A i \in DOMAIN words : M[Append(c, words[i])] = M[c] + gap + sizes[i]
      BY <1>3, <3>1, <3>4
    <3> HIDE DEF P, byParagraph
    <3>6. /\ Accumulate(words, sizes, gap).chunks \in Seq({c \in Seq(P) : M[c] <= Limit})
          /\ Accumulate(words, sizes, gap).oversized \in Seq(P)
      BY <3>2, <3>3, <3>5, AccumulateFits, ZenonT(60)
    <3>7. QED
      BY <3>1, <3>4, <3>6 DEF P, byParagraph
<1> HIDE DEF byParagraph
<1>5. byParagraph.chunks \in Seq(FittingTexts)
  <2>1. {c \in Texts : M[c] <= Limit} = FittingTexts
    BY DEF FittingTexts
  <2>2. QED
    BY <1>4, <2>1
<1>6. FlattenSeq(long) \in Seq(FittingTexts)
  <2>1. \A i \in DOMAIN byParagraph.oversized :
           SplitParagraph(byParagraph.oversized[i]) \in Seq(FittingTexts)
    BY <1>4, SplitParagraphFits
  <2>2. DOMAIN byParagraph.oversized = 1 .. Len(byParagraph.oversized)
        /\ Len(byParagraph.oversized) \in Nat
    BY <1>4
  <2>3. long \in Seq(Seq(FittingTexts))
    BY <2>1, <2>2
  <2> HIDE DEF long
  <2>4. QED
    BY <2>3, FlattenType
<1>7. CASE TextLen(words) <= Limit
  <2>1. Split(words) = <<words>> /\ words \in FittingTexts
    BY <1>7 DEF Split, FittingTexts
  <2>2. QED
    BY <2>1
<1>8. CASE ~(TextLen(words) <= Limit)
  <2>1. Split(words) = byParagraph.chunks \o FlattenSeq(long)
    BY <1>8 DEF Split, byParagraph, sizes
  <2> HIDE DEF long
  <2>2. QED
    BY <1>5, <1>6, <2>1
<1>9. QED
  BY <1>7, <1>8

-----------------------------------------------------------------------------
(* The order in which a text is read, and how a split keeps its characters.  *)

LEMMA SeqInduction ==
  ASSUME NEW S, NEW T, << >> \in T,
         \A s \in Seq(S), e \in S : s \in T => Append(s, e) \in T
  PROVE  Seq(S) \subseteq T
<1> DEFINE K == {k \in Nat : \A s \in Seq(S) : Len(s) = k => s \in T}
<1>1. 0 \in K
  <2>1. \A s \in Seq(S) : Len(s) = 0 => s = << >>
    OBVIOUS
  <2>2. QED
    BY <2>1
<1>2. \A k \in Nat : k \in K => k + 1 \in K
  <2>1. SUFFICES ASSUME NEW k \in Nat, k \in K, NEW s \in Seq(S), Len(s) = k + 1
                 PROVE  s \in T
    OBVIOUS
  <2>2. s # << >>
    BY <2>1
  <2>3. PICK r \in Seq(S), e \in S : s = Append(r, e)
    BY <2>2, SequenceEmptyOrAppend
  <2>4. Len(r) = k
    BY <2>1, <2>3
  <2>5. r \in T
    BY <2>1, <2>4
  <2>6. QED
    BY <2>3, <2>5
<1> HIDE DEF K
<1>3. \A k \in Nat : k \in K
  BY <1>1, <1>2, Induction
<1>4. QED
  BY <1>3 DEF K

LEMMA FlattenOne ==
  ASSUME NEW S, NEW s \in Seq(S)
  PROVE  FlattenSeq(<<s>>) = s
<1>1. << >> \in Seq(Seq(S)) /\ << >> \o s = s
  OBVIOUS
<1>2. FlattenSeq(Append(<< >>, s)) = FlattenSeq(<< >>) \o s
  BY <1>1, FlattenAppend
<1>3. Append(<< >>, s) = <<s>>
  OBVIOUS
<1>4. QED
  BY <1>1, <1>2, <1>3, FlattenEmpty, Zenon

Mapped(ss, F) == [i \in DOMAIN ss |-> F[ss[i]]]

LEMMA MappedSteps ==
  ASSUME NEW A, NEW B, NEW F, \A a \in A : F[a] \in B
  PROVE  /\ Mapped(<< >>, F) = << >>
         /\ \A ss \in Seq(A) : /\ Mapped(ss, F) \in Seq(B)
                               /\ Len(Mapped(ss, F)) = Len(ss)
                               /\ \A i \in 1 .. Len(ss) : Mapped(ss, F)[i] = F[ss[i]]
         /\ \A ss \in Seq(A), a \in A : Mapped(Append(ss, a), F) = Append(Mapped(ss, F), F[a])
<1>1. Mapped(<< >>, F) = << >>
  BY DEF Mapped
<1>2. ASSUME NEW ss \in Seq(A)
      PROVE  /\ Mapped(ss, F) \in Seq(B) /\ Len(Mapped(ss, F)) = Len(ss)
             /\ \A i \in 1 .. Len(ss) : Mapped(ss, F)[i] = F[ss[i]]
  <2>1. DOMAIN ss = 1 .. Len(ss) /\ Len(ss) \in Nat
    OBVIOUS
  <2>2. \A i \in 1 .. Len(ss) : F[ss[i]] \in B
    OBVIOUS
  <2>3. Mapped(ss, F) = [i \in 1 .. Len(ss) |-> F[ss[i]]]
    BY <2>1 DEF Mapped
  <2>4. QED
    BY <2>1, <2>2, <2>3
<1>3. ASSUME NEW ss \in Seq(A), NEW a \in A
      PROVE  Mapped(Append(ss, a), F) = Append(Mapped(ss, F), F[a])
  <2> DEFINE l == Mapped(Append(ss, a), F)
             r == Append(Mapped(ss, F), F[a])
  <2>1. /\ Append(ss, a) \in Seq(A) /\ Len(Append(ss, a)) = Len(ss) + 1 /\ Len(ss) \in Nat
        /\ Append(ss, a)[Len(ss) + 1] = a
        /\ \A i \in 1 .. Len(ss) : Append(ss, a)[i] = ss[i]
    BY AppendProperties
  <2>2. /\ l \in Seq(B) /\ Len(l) = Len(ss) + 1
        /\ \A i \in 1 .. Len(ss) + 1 : l[i] = F[Append(ss, a)[i]]
    BY <1>2, <2>1
  <2>3. Mapped(ss, F) \in Seq(B) /\ F[a] \in B /\ Len(Mapped(ss, F)) = Len(ss)
        /\ \A i \in 1 .. Len(ss) : Mapped(ss, F)[i] = F[ss[i]]
    BY <1>2
  <2>4. /\ r \in Seq(B) /\ Len(r) = Len(ss) + 1 /\ r[Len(ss) + 1] = F[a]
        /\ \A i \in 1 .. Len(ss) : r[i] = F[ss[i]]
    BY <2>3, AppendProperties
  <2> HIDE DEF l, r
  <2>5. \A i \in 1 .. Len(ss) + 1 : i \in 1 .. Len(ss) \/ i = Len(ss) + 1
    BY <2>1
  <2>6. \A i \in 1 .. Len(ss) + 1 : l[i] = r[i]
    BY <2>1, <2>2, <2>4, <2>5, ZenonT(60)
  <2>7. l = r
    BY <2>2, <2>4, <2>6, SeqEqual
  <2>8. QED
    BY <2>7 DEF l, r
<1>4. QED
  BY <1>1, <1>2, <1>3

LEMMA MappedType ==
  ASSUME NEW A, NEW B, NEW F, \A a \in A : F[a] \in B, NEW ss \in Seq(A)
  PROVE  Mapped(ss, F) \in Seq(B)
<1>1. \A s \in Seq(A) : Mapped(s, F) \in Seq(B)
  BY MappedSteps
<1>2. QED
  BY <1>1

LEMMA MappedIs ==
  ASSUME NEW A, NEW F, NEW ss \in Seq(A)
  PROVE  /\ Len(Mapped(ss, F)) = Len(ss)
         /\ \A i \in 1 .. Len(ss) : Mapped(ss, F)[i] = F[ss[i]]
<1>1. DOMAIN ss = 1 .. Len(ss) /\ Len(ss) \in Nat
  OBVIOUS
<1>2. Mapped(ss, F) = [i \in 1 .. Len(ss) |-> F[ss[i]]]
  BY <1>1 DEF Mapped
<1>3. QED
  BY <1>1, <1>2

(* What is joined first and mapped, is mapped first and joined, if F keeps   *)
(* concatenation.                                                            *)
LEMMA FlattenMapped ==
  ASSUME NEW A, NEW B, NEW F,
         \A s \in Seq(A) : F[s] \in Seq(B),
         F[<< >>] = << >>,
         \A s, t \in Seq(A) : F[s \o t] = F[s] \o F[t]
  PROVE  \A ss \in Seq(Seq(A)) : F[FlattenSeq(ss)] = FlattenSeq(Mapped(ss, F))
<1> DEFINE T == {ss \in Seq(Seq(A)) : F[FlattenSeq(ss)] = FlattenSeq(Mapped(ss, F))}
<1>1. /\ Mapped(<< >>, F) = << >>
      /\ \A ss \in Seq(Seq(A)) : Mapped(ss, F) \in Seq(Seq(B))
      /\ \A ss \in Seq(Seq(A)), a \in Seq(A) : Mapped(Append(ss, a), F) = Append(Mapped(ss, F), F[a])
  <2> DEFINE P == Seq(A)
             Q == Seq(B)
  <2>1. \A a \in P : F[a] \in Q
    OBVIOUS
  <2> HIDE DEF P, Q
  <2>2. /\ Mapped(<< >>, F) = << >>
        /\ \A ss \in Seq(P) : Mapped(ss, F) \in Seq(Q)
        /\ \A ss \in Seq(P), a \in P : Mapped(Append(ss, a), F) = Append(Mapped(ss, F), F[a])
    BY <2>1, MappedSteps
  <2>3. QED
    BY <2>2 DEF P, Q
<1>2. << >> \in T
  <2>1. F[FlattenSeq(<< >>)] = FlattenSeq(Mapped(<< >>, F))
    BY <1>1, FlattenEmpty, Zenon
  <2>2. << >> \in Seq(Seq(A))
    OBVIOUS
  <2>3. QED
    BY <2>1, <2>2, Zenon
<1>3. ASSUME NEW ss \in Seq(Seq(A)), NEW a \in Seq(A), ss \in T
      PROVE  Append(ss, a) \in T
  <2>1. F[FlattenSeq(ss)] = FlattenSeq(Mapped(ss, F))
    BY <1>3
  <2>2. FlattenSeq(Append(ss, a)) = FlattenSeq(ss) \o a /\ FlattenSeq(ss) \in Seq(A)
    BY FlattenAppend, FlattenType
  <2>3. F[FlattenSeq(ss) \o a] = F[FlattenSeq(ss)] \o F[a]
    BY <2>2
  <2>4. FlattenSeq(Append(Mapped(ss, F), F[a])) = FlattenSeq(Mapped(ss, F)) \o F[a]
    BY <1>1, FlattenAppend
  <2>5. Mapped(Append(ss, a), F) = Append(Mapped(ss, F), F[a])
    BY <1>1
  <2>6. F[FlattenSeq(Append(ss, a))] = FlattenSeq(Mapped(Append(ss, a), F))
    BY <2>1, <2>2, <2>3, <2>4, <2>5, Zenon
  <2>7. Append(ss, a) \in Seq(Seq(A))
    OBVIOUS
  <2>8. QED
    BY <2>6, <2>7
<1> HIDE DEF T
<1>4. Seq(Seq(A)) \subseteq T
  BY <1>2, <1>3, SeqInduction
<1>5. QED
  BY <1>4 DEF T

(* Every member of s stands in the relation R to those after it.             *)
Sorted(s, R) == \A j \in DOMAIN s : \A i \in 1 .. j - 1 : <<s[i], s[j]>> \in R

LEMMA SortedEmpty ==
  ASSUME NEW R
  PROVE  Sorted(<< >>, R) /\ Range(<< >>) = {}
<1>1. DOMAIN << >> = {}
  OBVIOUS
<1>2. QED
  BY <1>1 DEF Sorted, Range

LEMMA SortedSingle ==
  ASSUME NEW R, NEW S, NEW e \in S
  PROVE  <<e>> \in Seq(S) /\ Sorted(<<e>>, R) /\ Range(<<e>>) = {e}
<1>1. <<e>> \in Seq(S) /\ DOMAIN <<e>> = {1} /\ <<e>>[1] = e
  OBVIOUS
<1>2. 1 .. 1 - 1 = {}
  OBVIOUS
<1>3. Sorted(<<e>>, R)
  BY <1>1, <1>2 DEF Sorted
<1>4. Range(<<e>>) = {e}
  BY <1>1 DEF Range
<1>5. QED
  BY <1>1, <1>3, <1>4

LEMMA RangeConcat ==
  ASSUME NEW S, NEW s \in Seq(S), NEW t \in Seq(S)
  PROVE  /\ Range(s \o t) = Range(s) \union Range(t)
         /\ Range(s) \subseteq S
<1>1. /\ Len(s \o t) = Len(s) + Len(t) /\ Len(s) \in Nat /\ Len(t) \in Nat
      /\ DOMAIN (s \o t) = 1 .. Len(s) + Len(t) /\ DOMAIN s = 1 .. Len(s) /\ DOMAIN t = 1 .. Len(t)
  OBVIOUS
<1>2. \A i \in 1 .. Len(s) : i \in 1 .. Len(s) + Len(t) /\ (s \o t)[i] = s[i]
  OBVIOUS
<1>3. \A i \in 1 .. Len(t) : i + Len(s) \in 1 .. Len(s) + Len(t) /\ (s \o t)[i + Len(s)] = t[i]
  OBVIOUS
<1>4. \A i \in 1 .. Len(s) + Len(t) :
         i \in 1 .. Len(s) \/ (i - Len(s) \in 1 .. Len(t) /\ (s \o t)[i] = t[i - Len(s)])
  OBVIOUS
<1>5. Range(s) \union Range(t) \subseteq Range(s \o t)
  BY <1>1, <1>2, <1>3 DEF Range
<1>6. Range(s \o t) \subseteq Range(s) \union Range(t)
  BY <1>1, <1>2, <1>4 DEF Range
<1>7. Range(s) \subseteq S
  BY DEF Range
<1>8. QED
  BY <1>5, <1>6, <1>7

LEMMA SortedConcat ==
  ASSUME NEW R, NEW S, NEW s \in Seq(S), NEW t \in Seq(S)
  PROVE  Sorted(s \o t, R) <=> Sorted(s, R) /\ Sorted(t, R) /\ Range(s) \X Range(t) \subseteq R
<1> DEFINE st == s \o t
           m == Len(s)
           n == Len(t)
<1>1. /\ m \in Nat /\ n \in Nat
      /\ DOMAIN st = 1 .. m + n /\ DOMAIN s = 1 .. m /\ DOMAIN t = 1 .. n
      /\ \A i \in 1 .. m : st[i] = s[i]
      /\ \A i \in 1 .. n : st[i + m] = t[i]
  OBVIOUS
<1> HIDE DEF st, m, n
<1>2. ASSUME Sorted(st, R)
      PROVE  Sorted(s, R) /\ Sorted(t, R) /\ Range(s) \X Range(t) \subseteq R
  <2>1. Sorted(s, R)
    <3>1. SUFFICES ASSUME NEW j \in 1 .. m, NEW i \in 1 .. j - 1
                   PROVE  <<s[i], s[j]>> \in R
      BY <1>1 DEF Sorted
    <3>2. j \in 1 .. m + n /\ i \in 1 .. m
      BY <1>1
    <3>3. <<st[i], st[j]>> \in R
      BY <1>1, <1>2, <3>2 DEF Sorted
    <3>4. QED
      BY <1>1, <3>2, <3>3
  <2>2. Sorted(t, R)
    <3>1. SUFFICES ASSUME NEW j \in 1 .. n, NEW i \in 1 .. j - 1
                   PROVE  <<t[i], t[j]>> \in R
      BY <1>1 DEF Sorted
    <3>2. j + m \in 1 .. m + n /\ i \in 1 .. n /\ i + m \in 1 .. (j + m) - 1
      BY <1>1
    <3>3. <<st[i + m], st[j + m]>> \in R
      BY <1>1, <1>2, <3>2 DEF Sorted
    <3>4. QED
      BY <1>1, <3>2, <3>3
  <2>3. Range(s) \X Range(t) \subseteq R
    <3>1. SUFFICES ASSUME NEW i \in 1 .. m, NEW j \in 1 .. n
                   PROVE  <<s[i], t[j]>> \in R
      BY <1>1 DEF Range
    <3>2. j + m \in 1 .. m + n /\ i \in 1 .. (j + m) - 1
      BY <1>1
    <3>3. <<st[i], st[j + m]>> \in R
      BY <1>1, <1>2, <3>2 DEF Sorted
    <3>4. QED
      BY <1>1, <3>3
  <2>4. QED
    BY <2>1, <2>2, <2>3
<1>3. ASSUME Sorted(s, R), Sorted(t, R), Range(s) \X Range(t) \subseteq R
      PROVE  Sorted(st, R)
  <2>1. SUFFICES ASSUME NEW j \in 1 .. m + n, NEW i \in 1 .. j - 1
                 PROVE  <<st[i], st[j]>> \in R
    BY <1>1 DEF Sorted
  <2>2. CASE j \in 1 .. m
    <3>1. i \in 1 .. m
      BY <1>1, <2>2
    <3>2. <<s[i], s[j]>> \in R
      BY <1>1, <1>3, <2>2 DEF Sorted
    <3>3. QED
      BY <1>1, <2>2, <3>1, <3>2
  <2>3. CASE j \notin 1 .. m /\ i \in 1 .. m
    <3>1. j - m \in 1 .. n /\ (j - m) + m = j
      BY <1>1, <2>3
    <3>2. st[j] = t[j - m] /\ st[i] = s[i]
      BY <1>1, <2>3, <3>1
    <3>3. s[i] \in Range(s) /\ t[j - m] \in Range(t)
      BY <1>1, <2>3, <3>1 DEF Range
    <3>4. QED
      BY <1>3, <3>2, <3>3
  <2>4. CASE j \notin 1 .. m /\ i \notin 1 .. m
    <3>1. /\ j - m \in 1 .. n /\ (j - m) + m = j
          /\ i - m \in 1 .. (j - m) - 1 /\ i - m \in 1 .. n /\ (i - m) + m = i
      BY <1>1, <2>4
    <3>2. st[j] = t[j - m] /\ st[i] = t[i - m]
      BY <1>1, <3>1
    <3>3. <<t[i - m], t[j - m]>> \in R
      BY <1>1, <1>3, <3>1 DEF Sorted
    <3>4. QED
      BY <3>2, <3>3
  <2>5. QED
    BY <2>2, <2>3, <2>4
<1>4. QED
  BY <1>2, <1>3 DEF st

Pieces(ss, R) ==
    /\ \A i \in DOMAIN ss : Sorted(ss[i], R)
    /\ \A j \in DOMAIN ss : \A i \in 1 .. j - 1 : Range(ss[i]) \X Range(ss[j]) \subseteq R

LEMMA PiecesAppend ==
  ASSUME NEW R, NEW S, NEW ss \in Seq(Seq(S)), NEW s \in Seq(S)
  PROVE  Pieces(Append(ss, s), R) <=>
           /\ Pieces(ss, R) /\ Sorted(s, R)
           /\ \A i \in DOMAIN ss : Range(ss[i]) \X Range(s) \subseteq R
<1> DEFINE n == Len(ss)
           all == Append(ss, s)
<1>1. /\ n \in Nat /\ DOMAIN ss = 1 .. n /\ DOMAIN all = 1 .. n + 1
      /\ all[n + 1] = s /\ \A i \in 1 .. n : all[i] = ss[i]
  <2>1. all \in Seq(Seq(S)) /\ Len(all) = n + 1 /\ all[n + 1] = s /\ \A i \in 1 .. n : all[i] = ss[i]
    BY AppendProperties
  <2> HIDE DEF all
  <2>2. QED
    BY <2>1
<1> HIDE DEF n, all
<1>2. ASSUME Pieces(all, R)
      PROVE  /\ Pieces(ss, R) /\ Sorted(s, R)
             /\ \A i \in DOMAIN ss : Range(ss[i]) \X Range(s) \subseteq R
  <2>1. n + 1 \in 1 .. n + 1 /\ (n + 1) - 1 = n /\ \A i \in 1 .. n : i \in 1 .. n + 1
    BY <1>1
  <2>2. Sorted(s, R) /\ \A i \in 1 .. n : Sorted(ss[i], R)
    BY <1>1, <1>2, <2>1, Zenon DEF Pieces
  <2>3. \A i \in 1 .. n : Range(ss[i]) \X Range(s) \subseteq R
    BY <1>1, <1>2, <2>1, Zenon DEF Pieces
  <2>4. ASSUME NEW j \in 1 .. n, NEW i \in 1 .. j - 1
        PROVE  Range(ss[i]) \X Range(ss[j]) \subseteq R
    <3>1. i \in 1 .. n /\ j \in 1 .. n + 1
      BY <1>1
    <3>2. QED
      BY <1>1, <1>2, <3>1, Zenon DEF Pieces
  <2>5. QED
    BY <1>1, <2>2, <2>3, <2>4, Zenon DEF Pieces
<1>3. ASSUME Pieces(ss, R), Sorted(s, R), \A i \in DOMAIN ss : Range(ss[i]) \X Range(s) \subseteq R
      PROVE  Pieces(all, R)
  <2>1. \A i \in 1 .. n + 1 : i = n + 1 \/ i \in 1 .. n
    BY <1>1
  <2>2. \A i \in 1 .. n + 1 : Sorted(all[i], R)
    BY <1>1, <1>3, <2>1, Zenon DEF Pieces
  <2>3. ASSUME NEW j \in 1 .. n + 1, NEW i \in 1 .. j - 1
        PROVE  Range(all[i]) \X Range(all[j]) \subseteq R
    <3>1. i \in 1 .. n
      BY <1>1
    <3>2. QED
      BY <1>1, <1>3, <2>1, <3>1, Zenon DEF Pieces
  <2>4. QED
    BY <1>1, <2>2, <2>3, Zenon DEF Pieces
<1>4. QED
  BY <1>2, <1>3 DEF all

Among(ss) == UNION {Range(ss[i]) : i \in DOMAIN ss}

LEMMA SortedFlatten ==
  ASSUME NEW R, NEW S, NEW ss \in Seq(Seq(S))
  PROVE  /\ Range(FlattenSeq(ss)) = Among(ss)
         /\ Sorted(FlattenSeq(ss), R) <=> Pieces(ss, R)
<1> DEFINE Holds(ts) == /\ Range(FlattenSeq(ts)) = Among(ts)
                        /\ Sorted(FlattenSeq(ts), R) <=> Pieces(ts, R)
           T == {ts \in Seq(Seq(S)) : Holds(ts)}
<1>1. << >> \in T
  <2>1. DOMAIN << >> = {} /\ << >> \in Seq(Seq(S))
    OBVIOUS
  <2>2. Pieces(<< >>, R) /\ Among(<< >>) = {}
    BY <2>1 DEF Pieces, Among
  <2>3. Holds(<< >>)
    BY <2>2, FlattenEmpty, SortedEmpty
  <2> HIDE DEF Holds
  <2>4. QED
    BY <2>1, <2>3
<1>2. ASSUME NEW ts \in Seq(Seq(S)), NEW e \in Seq(S), ts \in T
      PROVE  Append(ts, e) \in T
  <2> DEFINE all == Append(ts, e)
             n == Len(ts)
  <2>1. Holds(ts)
    BY <1>2
  <2>2. PICK f \in Seq(S) : f = FlattenSeq(ts) /\ FlattenSeq(all) = f \o e
    BY FlattenAppend, FlattenType
  <2>3. Range(FlattenSeq(all)) = Range(f) \union Range(e)
    BY <2>2, RangeConcat
  <2>4. /\ n \in Nat /\ DOMAIN ts = 1 .. n /\ DOMAIN all = 1 .. n + 1
        /\ all[n + 1] = e /\ \A i \in 1 .. n : all[i] = ts[i]
    <3>1. all \in Seq(Seq(S)) /\ Len(all) = n + 1 /\ all[n + 1] = e /\ \A i \in 1 .. n : all[i] = ts[i]
      BY AppendProperties
    <3> HIDE DEF all
    <3>2. QED
      BY <3>1
  <2> HIDE DEF all, n
  <2>5. Among(all) = Among(ts) \union Range(e)
    <3>1. 1 .. n + 1 = (1 .. n) \union {n + 1}
      BY <2>4
    <3>2. QED
      BY <2>4, <3>1 DEF Among
  <2>6. Sorted(FlattenSeq(all), R) <=> Sorted(f, R) /\ Sorted(e, R) /\ Range(f) \X Range(e) \subseteq R
    <3>1. Sorted(f \o e, R) <=> Sorted(f, R) /\ Sorted(e, R) /\ Range(f) \X Range(e) \subseteq R
      BY SortedConcat
    <3>2. QED
      BY <2>2, <3>1, Zenon
  <2>7. Range(f) \X Range(e) \subseteq R <=> \A i \in DOMAIN ts : Range(ts[i]) \X Range(e) \subseteq R
    BY <2>1, <2>2 DEF Among
  <2>8. Pieces(all, R) <=>
          /\ Pieces(ts, R) /\ Sorted(e, R)
          /\ \A i \in DOMAIN ts : Range(ts[i]) \X Range(e) \subseteq R
    BY PiecesAppend DEF all
  <2>9. Holds(all)
    BY <2>1, <2>2, <2>3, <2>5, <2>6, <2>7, <2>8, Zenon
  <2>10. all \in Seq(Seq(S))
    BY DEF all
  <2> HIDE DEF Holds
  <2>11. QED
    BY <2>9, <2>10 DEF all
<1>3. Seq(Seq(S)) \subseteq T
  <2> DEFINE P == Seq(S)
  <2>1. \A ts \in Seq(P), e \in P : ts \in T => Append(ts, e) \in T
    BY <1>2
  <2> HIDE DEF T, P
  <2>2. Seq(P) \subseteq T
    BY <1>1, <2>1, SeqInduction
  <2>3. QED
    BY <2>2 DEF P
<1> HIDE DEF Holds
<1>4. Holds(ss)
  BY <1>3
<1>5. QED
  BY <1>4 DEF Holds

(* The characters of texts read one after another.                           *)
ReadAll(texts) == Chars(FlattenSeq(texts))

JoinedLines == [para \in Seq(Seq(Place)) |-> FlattenSeq(para)]
TextChars == [t \in Texts |-> Chars(t)]
TextsRead == [ts \in Seq(Texts) |-> ReadAll(ts)]

LEMMA CharsKeepConcat ==
  /\ Chars(<< >>) = << >>
  /\ \A t \in Texts : Chars(t) \in Seq(Place)
  /\ \A t, u \in Texts : Chars(t \o u) = Chars(t) \o Chars(u)
<1>1. Chars(<< >>) = << >>
  BY FlattenEmpty, Zenon DEF Chars
<1>2. ASSUME NEW t \in Texts
      PROVE  FlattenSeq(t) \in Seq(Seq(Place)) /\ Chars(t) \in Seq(Place)
  <2>1. FlattenSeq(t) \in Seq(Seq(Place))
    BY FlattenType DEF Texts
  <2>2. FlattenSeq(FlattenSeq(t)) \in Seq(Place)
    BY <2>1, FlattenType
  <2>3. QED
    BY <2>1, <2>2 DEF Chars
<1>3. ASSUME NEW t \in Texts, NEW u \in Texts
      PROVE  Chars(t \o u) = Chars(t) \o Chars(u)
  <2>1. FlattenSeq(t \o u) = FlattenSeq(t) \o FlattenSeq(u)
    <3>1. t \in Seq(Seq(Seq(Place))) /\ u \in Seq(Seq(Seq(Place)))
      BY DEF Texts
    <3>2. QED
      BY <3>1, FlattenConcat
  <2>2. PICK l \in Seq(Seq(Place)), m \in Seq(Seq(Place)) : l = FlattenSeq(t) /\ m = FlattenSeq(u)
    BY <1>2
  <2>3. FlattenSeq(l \o m) = FlattenSeq(l) \o FlattenSeq(m)
    BY FlattenConcat
  <2>4. QED
    BY <2>1, <2>2, <2>3, Zenon DEF Chars
<1>4. QED
  BY <1>1, <1>2, <1>3

LEMMA CharsByPara ==
  \A t \in Texts : /\ Chars(t) = FlattenSeq(Mapped(t, JoinedLines))
                   /\ Mapped(t, JoinedLines) \in Seq(Seq(Place))
                   /\ Len(Mapped(t, JoinedLines)) = Len(t)
                   /\ \A p \in 1 .. Len(t) : Mapped(t, JoinedLines)[p] = FlattenSeq(t[p])
<1> DEFINE P == Seq(Place)
<1>1. \A para \in Seq(P) : JoinedLines[para] = FlattenSeq(para) /\ JoinedLines[para] \in P
  <2>1. \A para \in Seq(Seq(Place)) : FlattenSeq(para) \in Seq(Place)
    BY FlattenType
  <2>2. QED
    BY <2>1 DEF JoinedLines
<1>2. JoinedLines[<< >>] = << >>
  <2>1. << >> \in Seq(P)
    OBVIOUS
  <2>2. QED
    BY <1>1, <2>1, FlattenEmpty, Zenon
<1>3. \A l, m \in Seq(P) : JoinedLines[l \o m] = JoinedLines[l] \o JoinedLines[m]
  <2>1. TAKE l, m \in Seq(P)
  <2>2. FlattenSeq(l \o m) = FlattenSeq(l) \o FlattenSeq(m)
    BY FlattenConcat
  <2>3. l \o m \in Seq(P)
    OBVIOUS
  <2> HIDE DEF P
  <2>4. QED
    BY <1>1, <2>2, <2>3, Zenon
<1>4. Texts = Seq(Seq(P))
  BY DEF Texts
<1>5. ASSUME NEW t \in Texts
      PROVE  JoinedLines[FlattenSeq(t)] = FlattenSeq(Mapped(t, JoinedLines))
  <2>1. \A para \in Seq(P) : JoinedLines[para] \in Seq(Place)
    BY <1>1
  <2>2. t \in Seq(Seq(P))
    BY <1>4
  <2> HIDE DEF P
  <2>3. \A ss \in Seq(Seq(P)) : JoinedLines[FlattenSeq(ss)] = FlattenSeq(Mapped(ss, JoinedLines))
    BY <1>2, <1>3, <2>1, FlattenMapped
  <2>4. QED
    BY <2>2, <2>3
<1>6. ASSUME NEW t \in Texts
      PROVE  FlattenSeq(t) \in Seq(P)
  BY <1>4, FlattenType
<1>7. ASSUME NEW t \in Texts
      PROVE  Chars(t) = FlattenSeq(Mapped(t, JoinedLines))
  BY <1>1, <1>5, <1>6 DEF Chars
<1>8. ASSUME NEW t \in Texts
      PROVE  /\ Mapped(t, JoinedLines) \in Seq(P)
             /\ Len(Mapped(t, JoinedLines)) = Len(t)
             /\ \A p \in 1 .. Len(t) : Mapped(t, JoinedLines)[p] = FlattenSeq(t[p])
  <2> DEFINE Q == Seq(P)
  <2>1. \A para \in Q : JoinedLines[para] \in P
    BY <1>1
  <2>2. t \in Seq(Q)
    BY <1>4
  <2>3. \A p \in 1 .. Len(t) : t[p] \in Q
    BY <2>2
  <2> HIDE DEF P, Q
  <2>4. /\ Mapped(t, JoinedLines) \in Seq(P)
        /\ Len(Mapped(t, JoinedLines)) = Len(t)
        /\ \A p \in 1 .. Len(t) : Mapped(t, JoinedLines)[p] = JoinedLines[t[p]]
    <3>1. Mapped(t, JoinedLines) \in Seq(P)
      BY <2>2, <2>1, MappedType
    <3>2. /\ Len(Mapped(t, JoinedLines)) = Len(t)
          /\ \A p \in 1 .. Len(t) : Mapped(t, JoinedLines)[p] = JoinedLines[t[p]]
      BY <2>2, MappedIs
    <3>3. QED
      BY <3>1, <3>2
  <2>5. QED
    BY <1>1, <2>3, <2>4 DEF Q
<1>9. QED
  BY <1>7, <1>8

LEMMA ReadByText ==
  \A ts \in Seq(Texts) : /\ ReadAll(ts) = FlattenSeq(Mapped(ts, TextChars))
                         /\ Mapped(ts, TextChars) \in Seq(Seq(Place))
                         /\ Len(Mapped(ts, TextChars)) = Len(ts)
                         /\ \A i \in 1 .. Len(ts) : Mapped(ts, TextChars)[i] = Chars(ts[i])
<1> DEFINE P == Seq(Seq(Place))
<1>1. Texts = Seq(P)
  BY DEF Texts
<1>2. \A t \in Texts : TextChars[t] = Chars(t) /\ TextChars[t] \in Seq(Place)
  BY CharsKeepConcat DEF TextChars
<1>3. TextChars[<< >>] = << >>
  <2>1. << >> \in Texts
    BY <1>1
  <2>2. QED
    BY <1>2, <2>1, CharsKeepConcat, Zenon
<1>4. \A t, u \in Texts : TextChars[t \o u] = TextChars[t] \o TextChars[u]
  <2>1. TAKE t, u \in Texts
  <2>2. t \o u \in Texts
    BY <1>1
  <2>3. QED
    BY <1>2, <2>2, CharsKeepConcat, Zenon
<1> HIDE DEF P
<1>5. \A ts \in Seq(Texts) : TextChars[FlattenSeq(ts)] = FlattenSeq(Mapped(ts, TextChars))
  <2>1. \A ts \in Seq(Seq(P)) : TextChars[FlattenSeq(ts)] = FlattenSeq(Mapped(ts, TextChars))
    <3>1. \A t \in Seq(P) : TextChars[t] \in Seq(Place)
      BY <1>1, <1>2
    <3>2. \A t, u \in Seq(P) : TextChars[t \o u] = TextChars[t] \o TextChars[u]
      BY <1>1, <1>4
    <3>3. QED
      BY <1>3, <3>1, <3>2, FlattenMapped
  <2>2. QED
    BY <1>1, <2>1
<1>6. \A ts \in Seq(Texts) : FlattenSeq(ts) \in Texts
  BY <1>1, FlattenType
<1>7. ASSUME NEW ts \in Seq(Texts)
      PROVE  /\ Mapped(ts, TextChars) \in Seq(Seq(Place))
             /\ Len(Mapped(ts, TextChars)) = Len(ts)
             /\ \A i \in 1 .. Len(ts) : Mapped(ts, TextChars)[i] = Chars(ts[i])
  <2> DEFINE Q == Seq(Place)
  <2>1. \A t \in Texts : TextChars[t] \in Q
    BY <1>2
  <2>2. \A i \in 1 .. Len(ts) : ts[i] \in Texts
    OBVIOUS
  <2> HIDE DEF Q
  <2>3. /\ Mapped(ts, TextChars) \in Seq(Q)
        /\ Len(Mapped(ts, TextChars)) = Len(ts)
        /\ \A i \in 1 .. Len(ts) : Mapped(ts, TextChars)[i] = TextChars[ts[i]]
    <3>1. Mapped(ts, TextChars) \in Seq(Q)
      BY <2>1, MappedType
    <3>2. /\ Len(Mapped(ts, TextChars)) = Len(ts)
          /\ \A i \in 1 .. Len(ts) : Mapped(ts, TextChars)[i] = TextChars[ts[i]]
      BY MappedIs
    <3>3. QED
      BY <3>1, <3>2
  <2>4. QED
    BY <1>2, <2>2, <2>3 DEF Q
<1>8. QED
  BY <1>2, <1>5, <1>6, <1>7 DEF ReadAll

LEMMA ReadKeepsConcat ==
  /\ ReadAll(<< >>) = << >>
  /\ \A ts \in Seq(Texts) : FlattenSeq(ts) \in Texts /\ ReadAll(ts) \in Seq(Place)
  /\ \A ts, us \in Seq(Texts) : ReadAll(ts \o us) = ReadAll(ts) \o ReadAll(us)
<1> DEFINE P == Seq(Seq(Place))
<1>1. Texts = Seq(P)
  BY DEF Texts
<1>2. ReadAll(<< >>) = << >>
  BY FlattenEmpty, CharsKeepConcat, Zenon DEF ReadAll
<1>3. \A ts \in Seq(Texts) : FlattenSeq(ts) \in Texts
  BY <1>1, FlattenType
<1>4. ASSUME NEW ts \in Seq(Texts), NEW us \in Seq(Texts)
      PROVE  ReadAll(ts \o us) = ReadAll(ts) \o ReadAll(us)
  <2>1. FlattenSeq(ts \o us) = FlattenSeq(ts) \o FlattenSeq(us)
    <3>1. ts \in Seq(Seq(P)) /\ us \in Seq(Seq(P))
      BY <1>1
    <3> HIDE DEF P
    <3>2. QED
      BY <3>1, FlattenConcat
  <2>2. QED
    BY <1>3, <2>1, CharsKeepConcat, Zenon DEF ReadAll
<1>5. QED
  BY <1>2, <1>3, <1>4, CharsKeepConcat DEF ReadAll

LEMMA ReadFlatten ==
  ASSUME NEW tss \in Seq(Seq(Texts))
  PROVE  /\ ReadAll(FlattenSeq(tss)) = FlattenSeq(Mapped(tss, TextsRead))
         /\ Mapped(tss, TextsRead) \in Seq(Seq(Place))
         /\ Len(Mapped(tss, TextsRead)) = Len(tss)
         /\ \A i \in 1 .. Len(tss) : Mapped(tss, TextsRead)[i] = ReadAll(tss[i])
<1>1. \A ts \in Seq(Texts) : TextsRead[ts] = ReadAll(ts) /\ TextsRead[ts] \in Seq(Place)
  BY ReadKeepsConcat DEF TextsRead
<1>2. TextsRead[<< >>] = << >>
  <2>1. << >> \in Seq(Texts)
    OBVIOUS
  <2>2. QED
    BY <1>1, <2>1, ReadKeepsConcat, Zenon
<1>3. \A ts, us \in Seq(Texts) : TextsRead[ts \o us] = TextsRead[ts] \o TextsRead[us]
  <2>1. TAKE ts, us \in Seq(Texts)
  <2>2. ts \o us \in Seq(Texts)
    OBVIOUS
  <2>3. QED
    BY <1>1, <2>2, ReadKeepsConcat, Zenon
<1>4. TextsRead[FlattenSeq(tss)] = FlattenSeq(Mapped(tss, TextsRead))
  <2>1. \A ts \in Seq(Texts) : TextsRead[ts] \in Seq(Place)
    BY <1>1
  <2>2. \A ss \in Seq(Seq(Texts)) : TextsRead[FlattenSeq(ss)] = FlattenSeq(Mapped(ss, TextsRead))
    BY <1>2, <1>3, <2>1, FlattenMapped
  <2>3. QED
    BY <2>2
<1>5. FlattenSeq(tss) \in Seq(Texts)
  BY FlattenType
<1>6. /\ Mapped(tss, TextsRead) \in Seq(Seq(Place))
      /\ Len(Mapped(tss, TextsRead)) = Len(tss)
      /\ \A i \in 1 .. Len(tss) : Mapped(tss, TextsRead)[i] = ReadAll(tss[i])
  <2> DEFINE Q == Seq(Place)
             T == Seq(Texts)
  <2>1. \A ts \in T : TextsRead[ts] \in Q
    BY <1>1
  <2>2. \A i \in 1 .. Len(tss) : tss[i] \in T
    OBVIOUS
  <2>3. tss \in Seq(T)
    OBVIOUS
  <2> HIDE DEF Q, T
  <2>4. /\ Mapped(tss, TextsRead) \in Seq(Q)
        /\ Len(Mapped(tss, TextsRead)) = Len(tss)
        /\ \A i \in 1 .. Len(tss) : Mapped(tss, TextsRead)[i] = TextsRead[tss[i]]
    <3>1. Mapped(tss, TextsRead) \in Seq(Q)
      BY <2>3, <2>1, MappedType
    <3>2. /\ Len(Mapped(tss, TextsRead)) = Len(tss)
          /\ \A i \in 1 .. Len(tss) : Mapped(tss, TextsRead)[i] = TextsRead[tss[i]]
      BY <2>3, MappedIs
    <3>3. QED
      BY <3>1, <3>2
  <2>5. QED
    BY <1>1, <2>2, <2>4 DEF Q, T
<1>7. QED
  BY <1>1, <1>4, <1>5, <1>6

(* The parts among the first n that may be in a chunk, and those set aside.  *)
Fitting(parts, sizes, n) == {parts[i] : i \in {j \in 1 .. n : sizes[j] <= Limit}}
Larger(parts, sizes, n) == {parts[i] : i \in {j \in 1 .. n : sizes[j] > Limit}}

Accumulated(some, P, RR, Vain, parts, sizes) ==
    /\ some.chunks \in Seq(Seq(P)) /\ some.oversized \in Seq(P)
    /\ Sorted(FlattenSeq(some.chunks), RR) /\ Sorted(some.oversized, RR)
    /\ Range(FlattenSeq(some.chunks)) \subseteq Fitting(parts, sizes, Len(parts))
    /\ Fitting(parts, sizes, Len(parts)) \subseteq Range(FlattenSeq(some.chunks)) \union Vain
    /\ Range(some.oversized) = Larger(parts, sizes, Len(parts))

(* Accumulate keeps the order of the parts among those it joins and among    *)
(* those it sets aside, and drops none that is not blank.                    *)
LEMMA AccumulateSorted ==
  ASSUME NEW P, NEW RR, NEW Vain, NEW parts \in Seq(P), NEW sizes, NEW gap \in Nat,
         Sorted(parts, RR),
         \A i \in DOMAIN parts : sizes[i] \in Int /\ gap + sizes[i] >= 0,
         \A i \in DOMAIN parts : sizes[i] <= 0 => parts[i] \in Vain
  PROVE  Accumulated(Accumulate(parts, sizes, gap), P, RR, Vain, parts, sizes)
<1> DEFINE Fitted(n) == Fitting(parts, sizes, n)
           Others(n) == Larger(parts, sizes, n)
           Kept(s, n) == /\ s \in Seq(P) /\ Sorted(s, RR)
                         /\ Range(s) \subseteq Fitted(n)
                         /\ Fitted(n) \subseteq Range(s) \union Vain
           Aside(s, n) == s \in Seq(P) /\ Sorted(s, RR) /\ Range(s) = Others(n)
           Good(acc, n) == /\ acc.chunks \in Seq(Seq(P))
                           /\ acc.current \in Seq(P)
                           /\ acc.length \in Int
                           /\ Kept(FlattenSeq(acc.chunks) \o acc.current, n)
                           /\ ~(acc.length > 0) => Range(acc.current) \subseteq Vain
                           /\ Aside(acc.oversized, n)
<1>0. Limit \in Nat \ {0} /\ Len(parts) \in Nat /\ DOMAIN parts = 1 .. Len(parts)
  BY AnswersAssumption
<1>1. ASSUME NEW n \in Nat, n + 1 \in 1 .. Len(parts)
      PROVE  /\ sizes[n + 1] <= Limit => /\ Fitted(n + 1) = Fitted(n) \union {parts[n + 1]}
                                         /\ Others(n + 1) = Others(n)
             /\ ~(sizes[n + 1] <= Limit) => /\ Fitted(n + 1) = Fitted(n)
                                            /\ Others(n + 1) = Others(n) \union {parts[n + 1]}
  <2>1. /\ \A i : i \in 1 .. n + 1 <=> i \in 1 .. n \/ i = n + 1
        /\ \A i \in 1 .. n + 1 : sizes[i] \in Int
    BY <1>0, <1>1
  <2>2. \A i \in 1 .. n + 1 : sizes[i] > Limit <=> ~(sizes[i] <= Limit)
    BY <1>0, <2>1
  <2>3. CASE sizes[n + 1] <= Limit
    <3>1. {j \in 1 .. n + 1 : sizes[j] <= Limit} = {j \in 1 .. n : sizes[j] <= Limit} \union {n + 1}
      BY <2>1, <2>3
    <3>2. {j \in 1 .. n + 1 : sizes[j] > Limit} = {j \in 1 .. n : sizes[j] > Limit}
      BY <2>1, <2>2, <2>3
    <3>3. QED
      BY <2>3, <3>1, <3>2 DEF Fitting, Larger
  <2>4. CASE ~(sizes[n + 1] <= Limit)
    <3>1. {j \in 1 .. n + 1 : sizes[j] > Limit} = {j \in 1 .. n : sizes[j] > Limit} \union {n + 1}
      BY <2>1, <2>2, <2>4
    <3>2. {j \in 1 .. n + 1 : sizes[j] <= Limit} = {j \in 1 .. n : sizes[j] <= Limit}
      BY <2>1, <2>4
    <3>3. QED
      BY <2>4, <3>1, <3>2 DEF Fitting, Larger
  <2>5. QED
    BY <2>3, <2>4
<1>2. ASSUME NEW n \in Nat, n + 1 \in 1 .. Len(parts), NEW s \in Seq(P), Sorted(s, RR),
             Range(s) \subseteq {parts[i] : i \in 1 .. n}
      PROVE  s \o <<parts[n + 1]>> \in Seq(P) /\ Sorted(s \o <<parts[n + 1]>>, RR)
             /\ Range(s \o <<parts[n + 1]>>) = Range(s) \union {parts[n + 1]}
  <2>1. PICK e \in P : e = parts[n + 1]
    BY <1>0, <1>2
  <2>2. <<e>> \in Seq(P) /\ Sorted(<<e>>, RR) /\ Range(<<e>>) = {e}
    BY SortedSingle
  <2>3. \A i \in 1 .. n : <<parts[i], e>> \in RR
    <3>1. n = (n + 1) - 1
      BY <1>2
    <3>2. QED
      BY <1>0, <1>2, <2>1, <3>1, Zenon DEF Sorted
  <2>4. Range(s) \X Range(<<e>>) \subseteq RR
    BY <1>2, <2>2, <2>3
  <2> DEFINE t == <<e>>
  <2>5. t \in Seq(P) /\ Sorted(t, RR) /\ Range(t) = {e} /\ Range(s) \X Range(t) \subseteq RR
    BY <2>2, <2>4
  <2>6. t = <<parts[n + 1]>>
    BY <2>1
  <2> HIDE DEF t
  <2>7. s \o t \in Seq(P) /\ Range(s \o t) = Range(s) \union Range(t)
    BY <2>5, RangeConcat
  <2>8. Sorted(s \o t, RR) <=> Sorted(s, RR) /\ Sorted(t, RR) /\ Range(s) \X Range(t) \subseteq RR
    BY <2>5, SortedConcat
  <2>9. Sorted(s \o t, RR)
    BY <1>2, <2>5, <2>8, Zenon
  <2>10. Range(s \o t) = Range(s) \union {parts[n + 1]}
    BY <2>1, <2>5, <2>7, Zenon
  <2>11. QED
    BY <2>6, <2>7, <2>9, <2>10, Zenon
<1>3. \A n \in Nat : /\ Fitted(n) \subseteq {parts[i] : i \in 1 .. n}
                     /\ Others(n) \subseteq {parts[i] : i \in 1 .. n}
  BY DEF Fitting, Larger
<1> HIDE DEF Fitted, Others
<1>4. ASSUME NEW n \in Nat, n + 1 \in 1 .. Len(parts), NEW s, Kept(s, n)
      PROVE  /\ sizes[n + 1] <= Limit => Kept(s \o <<parts[n + 1]>>, n + 1)
             /\ ~(sizes[n + 1] <= Limit) => Kept(s, n + 1)
  <2>1. s \in Seq(P) /\ Sorted(s, RR) /\ Range(s) \subseteq {parts[i] : i \in 1 .. n}
    BY <1>3, <1>4
  <2>2. s \o <<parts[n + 1]>> \in Seq(P) /\ Sorted(s \o <<parts[n + 1]>>, RR)
        /\ Range(s \o <<parts[n + 1]>>) = Range(s) \union {parts[n + 1]}
    BY <1>2, <1>4, <2>1
  <2>3. CASE sizes[n + 1] <= Limit
    <3>1. Fitted(n + 1) = Fitted(n) \union {parts[n + 1]}
      BY <1>1, <1>4, <2>3
    <3>2. QED
      BY <1>4, <2>2, <2>3, <3>1
  <2>4. CASE ~(sizes[n + 1] <= Limit)
    <3>1. Fitted(n + 1) = Fitted(n)
      BY <1>1, <1>4, <2>4
    <3>2. QED
      BY <1>4, <2>4, <3>1, Zenon
  <2>5. QED
    BY <2>3, <2>4
<1>5. ASSUME NEW n \in Nat, n + 1 \in 1 .. Len(parts), NEW s, Aside(s, n)
      PROVE  /\ sizes[n + 1] <= Limit => Aside(s, n + 1)
             /\ ~(sizes[n + 1] <= Limit) => Aside(Append(s, parts[n + 1]), n + 1)
  <2>1. s \in Seq(P) /\ Sorted(s, RR) /\ Range(s) \subseteq {parts[i] : i \in 1 .. n}
    BY <1>3, <1>5
  <2>2. s \o <<parts[n + 1]>> \in Seq(P) /\ Sorted(s \o <<parts[n + 1]>>, RR)
        /\ Range(s \o <<parts[n + 1]>>) = Range(s) \union {parts[n + 1]}
    BY <1>2, <1>5, <2>1
  <2>3. CASE sizes[n + 1] <= Limit
    <3>1. Others(n + 1) = Others(n)
      BY <1>1, <1>5, <2>3
    <3>2. QED
      BY <1>5, <2>3, <3>1, Zenon
  <2>4. CASE ~(sizes[n + 1] <= Limit)
    <3>1. Others(n + 1) = Others(n) \union {parts[n + 1]}
      BY <1>1, <1>5, <2>4
    <3>2. Append(s, parts[n + 1]) = s \o <<parts[n + 1]>>
      BY <1>0, <1>5, <2>1
    <3>3. Range(s \o <<parts[n + 1]>>) = Others(n + 1)
      BY <1>5, <2>2, <3>1, Zenon
    <3>4. QED
      BY <2>2, <2>4, <3>2, <3>3, Zenon
  <2>5. QED
    BY <2>3, <2>4
<1>6. ASSUME NEW acc, NEW n \in Nat, Good(acc, n)
      PROVE  Closed(acc) \in Seq(Seq(P)) /\ Kept(FlattenSeq(Closed(acc)), n)
             /\ FlattenSeq(Closed(acc)) = IF acc.length > 0 THEN FlattenSeq(acc.chunks) \o acc.current
                                                            ELSE FlattenSeq(acc.chunks)
  <2>0. acc.chunks \in Seq(Seq(P)) /\ acc.current \in Seq(P) /\ Kept(FlattenSeq(acc.chunks) \o acc.current, n)
    BY <1>6
  <2>1. CASE acc.length > 0
    <3>1. Closed(acc) = Append(acc.chunks, acc.current)
      BY <2>1, Zenon DEF Closed
    <3>2. FlattenSeq(Append(acc.chunks, acc.current)) = FlattenSeq(acc.chunks) \o acc.current
      BY <2>0, FlattenAppend
    <3>3. Append(acc.chunks, acc.current) \in Seq(Seq(P))
      BY <2>0
    <3> HIDE DEF Kept
    <3>4. QED
      BY <2>0, <2>1, <3>1, <3>2, <3>3, Zenon
  <2>2. CASE ~(acc.length > 0)
    <3>1. Closed(acc) = acc.chunks /\ Range(acc.current) \subseteq Vain
      BY <1>6, <2>2, Zenon DEF Closed
    <3>2. PICK x \in Seq(P) : x = FlattenSeq(acc.chunks)
      BY <2>0, FlattenType
    <3>3. PICK y \in Seq(P) : y = acc.current
      BY <2>0
    <3>4. Kept(x \o y, n)
      BY <2>0, <3>2, <3>3, Zenon
    <3>5. Sorted(x \o y, RR) <=> Sorted(x, RR) /\ Sorted(y, RR) /\ Range(x) \X Range(y) \subseteq RR
      BY SortedConcat
    <3>6. Sorted(x, RR)
      BY <3>4, <3>5, Zenon
    <3>7. Range(x \o y) = Range(x) \union Range(y)
      BY RangeConcat
    <3>8. Kept(x, n)
      BY <3>1, <3>3, <3>4, <3>6, <3>7
    <3> HIDE DEF Kept
    <3>9. QED
      BY <2>0, <2>2, <3>1, <3>2, <3>8, Zenon
  <2>3. QED
    BY <2>1, <2>2
<1>7. ASSUME NEW acc, NEW n \in Nat, n + 1 \in 1 .. Len(parts), Good(acc, n)
      PROVE  Good(Put(acc, parts[n + 1], sizes[n + 1], gap), n + 1)
  <2> DEFINE part == parts[n + 1]
             size == sizes[n + 1]
             candidate == Joined(acc.length, size, gap)
             new == Put(acc, parts[n + 1], sizes[n + 1], gap)
             closed == FlattenSeq(Closed(acc))
  <2>0. /\ part \in P /\ size \in Int /\ gap + size >= 0 /\ (size <= 0 => part \in Vain)
        /\ <<part>> \in Seq(P) /\ Range(<<part>>) = {part}
        /\ acc.length \in Int /\ acc.chunks \in Seq(Seq(P)) /\ acc.current \in Seq(P)
    <3>1. part \in P /\ size \in Int /\ gap + size >= 0 /\ (size <= 0 => part \in Vain)
      BY <1>0, <1>7, SMTT(60)
    <3> HIDE DEF part
    <3>2. <<part>> \in Seq(P) /\ Range(<<part>>) = {part}
      BY <3>1, SortedSingle
    <3>3. QED
      BY <1>7, <3>1, <3>2
  <2>1. /\ Closed(acc) \in Seq(Seq(P)) /\ Kept(closed, n)
        /\ closed = IF acc.length > 0 THEN FlattenSeq(acc.chunks) \o acc.current
                                      ELSE FlattenSeq(acc.chunks)
    BY <1>6, <1>7
  <2>2. /\ size <= Limit => Kept(closed \o <<part>>, n + 1) /\ Aside(acc.oversized, n + 1)
        /\ ~(size <= Limit) => Kept(closed, n + 1) /\ Aside(Append(acc.oversized, part), n + 1)
    <3>1. Aside(acc.oversized, n)
      BY <1>7
    <3> HIDE DEF Kept, Aside, closed
    <3>2. QED
      BY <1>4, <1>5, <1>7, <2>1, <3>1
  <2>3. closed \in Seq(P)
    BY <2>1
  <2> SUFFICES Good(new, n + 1)
    OBVIOUS
  <2> HIDE DEF part, size, candidate, new, Kept, Aside, closed
  <2>4. CASE candidate <= Limit /\ acc.length > 0
    <3>1. new = [chunks |-> acc.chunks, length |-> candidate, oversized |-> acc.oversized,
                 current |-> Append(acc.current, part)]
      BY <2>4, Zenon DEF Put, part, size, candidate, new
    <3>2. candidate = acc.length + gap + size
      BY <2>4 DEF Joined, candidate
    <3>3. size <= Limit /\ candidate \in Int /\ candidate > 0
      BY <1>0, <2>0, <2>4, <3>2
    <3>4. /\ new.chunks = acc.chunks /\ new.length = candidate
          /\ new.oversized = acc.oversized /\ new.current = Append(acc.current, part)
      BY <3>1
    <3>5. FlattenSeq(acc.chunks) \o Append(acc.current, part) = closed \o <<part>>
      <4>1. PICK x \in Seq(P) : x = FlattenSeq(acc.chunks)
        BY <2>0, FlattenType
      <4>2. PICK y \in Seq(P) : y = acc.current
        BY <2>0
      <4>3. x \o Append(y, part) = (x \o y) \o <<part>>
        BY <2>0, SMTT(60)
      <4>4. QED
        BY <2>1, <2>4, <4>1, <4>2, <4>3, Zenon
    <3>6. Append(acc.current, part) \in Seq(P)
      BY <2>0
    <3>7. QED
      BY <2>0, <2>2, <3>3, <3>4, <3>5, <3>6
  <2>5. CASE candidate <= Limit /\ ~(acc.length > 0)
    <3>1. new = [chunks |-> acc.chunks, length |-> candidate, oversized |-> acc.oversized,
                 current |-> <<part>>]
      BY <2>5, Zenon DEF Put, part, size, candidate, new
    <3>2. candidate = size
      BY <2>5, Zenon DEF Joined, candidate
    <3>3. /\ new.chunks = acc.chunks /\ new.length = size
          /\ new.oversized = acc.oversized /\ new.current = <<part>>
      BY <3>1, <3>2
    <3>4. FlattenSeq(acc.chunks) = closed
      BY <2>1, <2>5, Zenon
    <3>5. Kept(FlattenSeq(new.chunks) \o new.current, n + 1)
      BY <2>2, <2>5, <3>2, <3>3, <3>4, Zenon
    <3>6. Aside(new.oversized, n + 1)
      BY <2>2, <2>5, <3>2, <3>3, Zenon
    <3>7. ~(size > 0) => Range(new.current) \subseteq Vain
      <4>1. ~(size > 0) => size <= 0
        BY <2>0
      <4>2. QED
        BY <2>0, <3>3, <4>1, Zenon
    <3>8. QED
      BY <2>0, <3>3, <3>5, <3>6, <3>7, Zenon
  <2>6. CASE ~(candidate <= Limit) /\ size <= Limit
    <3>1. new = [chunks |-> Closed(acc), length |-> size, oversized |-> acc.oversized,
                 current |-> <<part>>]
      BY <2>6, Zenon DEF Put, part, size, candidate, new
    <3>2. /\ new.chunks = Closed(acc) /\ new.length = size
          /\ new.oversized = acc.oversized /\ new.current = <<part>>
      BY <3>1
    <3>3. Kept(FlattenSeq(new.chunks) \o new.current, n + 1)
      BY <2>2, <2>6, <3>2, Zenon DEF closed
    <3>4. Aside(new.oversized, n + 1)
      BY <2>2, <2>6, <3>2, Zenon
    <3>5. ~(size > 0) => Range(new.current) \subseteq Vain
      <4>1. ~(size > 0) => size <= 0
        BY <2>0
      <4>2. QED
        BY <2>0, <3>2, <4>1, Zenon
    <3>6. QED
      BY <2>0, <2>1, <3>2, <3>3, <3>4, <3>5, Zenon
  <2>7. CASE ~(candidate <= Limit) /\ ~(size <= Limit)
    <3>1. new = [chunks |-> Closed(acc), current |-> << >>, length |-> 0,
                 oversized |-> Append(acc.oversized, part)]
      BY <2>7, Zenon DEF Put, SetAside, part, size, candidate, new
    <3>2. /\ new.chunks = Closed(acc) /\ new.length = 0
          /\ new.oversized = Append(acc.oversized, part) /\ new.current = << >>
      BY <3>1
    <3>3. closed \o << >> = closed /\ << >> \in Seq(P) /\ 0 \in Int
      BY <2>3
    <3>4. Kept(FlattenSeq(new.chunks) \o new.current, n + 1)
      BY <2>2, <2>7, <3>2, <3>3, Zenon DEF closed
    <3>5. Range(new.current) \subseteq Vain
      BY <3>2, SortedEmpty
    <3>6. Aside(new.oversized, n + 1)
      BY <2>2, <2>7, <3>2, Zenon
    <3>7. QED
      BY <2>1, <3>2, <3>3, <3>4, <3>5, <3>6, Zenon
  <2>8. QED
    BY <2>4, <2>5, <2>6, <2>7
<1>8. Good(Empty, 0)
  <2>1. /\ Empty.chunks = << >> /\ Empty.current = << >> /\ Empty.length = 0
        /\ Empty.oversized = << >>
    BY DEF Empty
  <2>2. << >> \in Seq(Seq(P)) /\ << >> \in Seq(P) /\ << >> \o << >> = << >> /\ 0 \in Int
    OBVIOUS
  <2>3. Fitted(0) = {} /\ Others(0) = {}
    <3>1. 1 .. 0 = {}
      OBVIOUS
    <3>2. QED
      BY <3>1 DEF Fitted, Others, Fitting, Larger
  <2>4. Kept(<< >>, 0) /\ Aside(<< >>, 0)
    BY <2>2, <2>3, SortedEmpty
  <2>5. Kept(FlattenSeq(Empty.chunks) \o Empty.current, 0)
    <3> HIDE DEF Kept
    <3>1. QED
      BY <2>1, <2>2, <2>4, FlattenEmpty, Zenon
  <2>6. Range(Empty.current) \subseteq Vain
    BY <2>1, SortedEmpty
  <2> HIDE DEF Kept, Aside
  <2>7. QED
    BY <2>1, <2>2, <2>4, <2>5, <2>6, Zenon
<1>9. PICK h : /\ h[0] = Empty
               /\ \A i \in 1 .. Len(parts) : h[i] = Put(h[i - 1], parts[i], sizes[i], gap)
               /\ PutAll(parts, sizes, gap) = h[Len(parts)]
  BY PutSteps
<1>10. Good(PutAll(parts, sizes, gap), Len(parts))
  <2> HIDE DEF Good, Kept, Aside
  <2> DEFINE K == {k \in Nat : k \in 0 .. Len(parts) => Good(h[k], k)}
  <2>1. 0 \in K
    BY <1>8, <1>9
  <2>2. \A k \in Nat : k \in K => k + 1 \in K
    <3>1. SUFFICES ASSUME NEW k \in Nat, k \in K, k + 1 \in 0 .. Len(parts)
                   PROVE  Good(h[k + 1], k + 1)
      OBVIOUS
    <3>2. k \in 0 .. Len(parts) /\ k + 1 \in 1 .. Len(parts) /\ (k + 1) - 1 = k
      BY <1>0, <3>1
    <3>3. Good(h[k], k)
      BY <3>1, <3>2
    <3>4. h[k + 1] = Put(h[k], parts[k + 1], sizes[k + 1], gap)
      BY <1>9, <3>2, Zenon
    <3>5. QED
      BY <1>7, <3>2, <3>3, <3>4, Zenon
  <2> HIDE DEF K
  <2>3. \A k \in Nat : k \in K
    BY <2>1, <2>2, Induction
  <2>4. Len(parts) \in 0 .. Len(parts) /\ Len(parts) \in Nat
    BY <1>0
  <2>5. QED
    BY <1>9, <2>3, <2>4 DEF K
<1>11. QED
  <2> DEFINE all == PutAll(parts, sizes, gap)
             some == Accumulate(parts, sizes, gap)
  <2>1. Closed(all) \in Seq(Seq(P)) /\ Kept(FlattenSeq(Closed(all)), Len(parts))
    BY <1>0, <1>6, <1>10
  <2>2. Aside(all.oversized, Len(parts))
    BY <1>10
  <2>3. some.chunks = Closed(all) /\ some.oversized = all.oversized
    BY DEF Accumulate
  <2> HIDE DEF all, some
  <2>4. QED
    BY <2>1, <2>2, <2>3, Zenon DEF some, Fitted, Others, Accumulated

(* A sequence cut at some places, and the pieces joined.                     *)
LEMMA CutAndJoined ==
  ASSUME NEW S, NEW s \in Seq(S), NEW m \in Nat, NEW cut \in [0 .. m -> 0 .. Len(s)],
         cut[0] = 0, cut[m] = Len(s), \A i \in 1 .. m : cut[i - 1] <= cut[i]
  PROVE  FlattenSeq([i \in 1 .. m |-> SubSeq(s, cut[i - 1] + 1, cut[i])]) = s
<1> DEFINE piece(i) == SubSeq(s, cut[i - 1] + 1, cut[i])
           pieces(k) == [i \in 1 .. k |-> piece(i)]
           K == {k \in Nat : k \in 0 .. m => FlattenSeq(pieces(k)) = SubSeq(s, 1, cut[k])}
<1>1. ASSUME NEW i \in 1 .. m
      PROVE  piece(i) \in Seq(S)
  <2>1. cut[i - 1] \in 0 .. Len(s) /\ cut[i] \in 0 .. Len(s)
    <3>1. i - 1 \in 0 .. m /\ i \in 0 .. m
      OBVIOUS
    <3>2. QED
      BY <3>1
  <2>2. PICK a \in 0 .. Len(s), b \in 0 .. Len(s) : a = cut[i - 1] /\ b = cut[i]
    BY <2>1
  <2>3. \A j \in a + 1 .. b : s[j] \in S
    OBVIOUS
  <2>4. SubSeq(s, a + 1, b) \in Seq(S)
    BY <2>3, SubSeqProperties
  <2>5. QED
    BY <2>2, <2>4, Zenon
<1> HIDE DEF piece
<1>2. 0 \in K
  <2>1. pieces(0) = << >>
    OBVIOUS
  <2>2. SubSeq(s, 1, 0) = << >>
    BY SubSeqEmpty
  <2>3. FlattenSeq(pieces(0)) = SubSeq(s, 1, cut[0])
    BY <2>1, <2>2, FlattenEmpty, Zenon
  <2>4. QED
    BY <2>3
<1>3. ASSUME NEW k \in Nat, k \in K
      PROVE  k + 1 \in K
  <2>1. SUFFICES ASSUME k + 1 \in 0 .. m
                 PROVE  FlattenSeq(pieces(k + 1)) = SubSeq(s, 1, cut[k + 1])
    OBVIOUS
  <2>2. k \in 0 .. m /\ k + 1 \in 1 .. m /\ (k + 1) - 1 = k
    BY <2>1
  <2>3. FlattenSeq(pieces(k)) = SubSeq(s, 1, cut[k])
    BY <1>3, <2>2
  <2>4. PICK e \in Seq(S) : e = piece(k + 1)
    BY <1>1, <2>2
  <2>5. pieces(k) \in Seq(Seq(S)) /\ pieces(k + 1) = Append(pieces(k), e)
    <3>1. \A i \in 1 .. k : piece(i) \in Seq(S)
      BY <1>1, <2>2
    <3>2. pieces(k) \in Seq(Seq(S)) /\ Len(pieces(k)) = k /\ \A i \in 1 .. k : pieces(k)[i] = piece(i)
      BY <3>1
    <3>3. \A i \in 1 .. k + 1 : piece(i) \in Seq(S)
      BY <1>1, <2>2
    <3>4. pieces(k + 1) \in Seq(Seq(S)) /\ Len(pieces(k + 1)) = k + 1
          /\ \A i \in 1 .. k + 1 : pieces(k + 1)[i] = piece(i)
      BY <3>3
    <3> HIDE DEF pieces
    <3>5. /\ Append(pieces(k), e) \in Seq(Seq(S)) /\ Len(Append(pieces(k), e)) = k + 1
          /\ \A i \in 1 .. k : Append(pieces(k), e)[i] = pieces(k)[i]
          /\ Append(pieces(k), e)[k + 1] = e
      <4>1. PICK w \in Seq(Seq(S)) : w = pieces(k) /\ Len(w) = k
        BY <3>2
      <4>2. /\ Append(w, e) \in Seq(Seq(S)) /\ Len(Append(w, e)) = k + 1
            /\ \A i \in 1 .. k : Append(w, e)[i] = w[i]
            /\ Append(w, e)[k + 1] = e
        BY <4>1, AppendProperties
      <4>3. QED
        BY <4>1, <4>2, Zenon
    <3>6. \A i \in 1 .. k + 1 : i \in 1 .. k \/ i = k + 1
      OBVIOUS
    <3>7. \A i \in 1 .. k + 1 : pieces(k + 1)[i] = Append(pieces(k), e)[i]
      <4>1. ASSUME NEW i \in 1 .. k PROVE pieces(k + 1)[i] = Append(pieces(k), e)[i]
        <5>1. i \in 1 .. k + 1
          BY <2>3
        <5>2. QED
          BY <3>2, <3>4, <3>5, <5>1, ZenonT(60)
      <4>2. pieces(k + 1)[k + 1] = Append(pieces(k), e)[k + 1]
        <5>1. k + 1 \in 1 .. k + 1
          BY <2>3
        <5>2. QED
          BY <2>4, <3>4, <3>5, <5>1, ZenonT(60)
      <4>3. QED
        BY <3>6, <4>1, <4>2, Zenon
    <3>8. QED
      BY <3>2, <3>4, <3>5, <3>7, SeqEqual
  <2>6. FlattenSeq(pieces(k + 1)) = FlattenSeq(pieces(k)) \o e
    <3>1. PICK p \in Seq(Seq(S)) : p = pieces(k)
      BY <2>5
    <3>2. FlattenSeq(Append(p, e)) = FlattenSeq(p) \o e
      BY FlattenAppend
    <3>3. QED
      BY <2>5, <3>1, <3>2, Zenon
  <2>7. PICK a \in 0 .. Len(s), b \in 0 .. Len(s) : a = cut[k] /\ b = cut[k + 1] /\ a <= b
    BY <2>2
  <2>8. SubSeq(s, 1, a) \o SubSeq(s, a + 1, b) = SubSeq(s, 1, b)
    <3>1. 1 \in 1 .. Len(s) + 1 /\ a \in 1 - 1 .. Len(s) /\ b \in a .. Len(s)
      BY <2>7
    <3>2. QED
      BY <3>1, ConcatAdjacentSubSeq
  <2>9. e = SubSeq(s, a + 1, b)
    BY <2>2, <2>4, <2>7, Zenon DEF piece
  <2>10. QED
    BY <2>3, <2>6, <2>7, <2>8, <2>9, Zenon
<1> HIDE DEF K
<1>4. \A k \in Nat : k \in K
  BY <1>2, <1>3, Induction
<1>5. FlattenSeq(pieces(m)) = SubSeq(s, 1, cut[m])
  <2>1. m \in K /\ m \in 0 .. m
    BY <1>4
  <2> HIDE DEF pieces
  <2>2. QED
    BY <2>1 DEF K
<1>6. SubSeq(s, 1, Len(s)) = s
  BY SubSeqFull
<1>7. QED
  BY <1>5, <1>6, Zenon DEF piece

(* The places at which a line that is too long is cut.                       *)
LEMMA HardSplitCuts ==
  ASSUME NEW line \in Seq(Place)
  PROVE  \E m \in Nat : \E cuts \in [0 .. m -> 0 .. Len(line)] :
           /\ cuts[0] = 0 /\ cuts[m] = Len(line)
           /\ \A i \in 1 .. m : cuts[i - 1] <= cuts[i]
           /\ HardSplit(line) = [i \in 1 .. m |-> <<<<SubSeq(line, cuts[i - 1] + 1, cuts[i])>>>>]
<1> DEFINE n == Len(line)
           count == (n + Limit - 1) \div Limit
           hi(i) == IF Limit * i < n THEN Limit * i ELSE n
           piece(i) == SubSeq(line, Limit * (i - 1) + 1, hi(i))
           cut == [i \in 0 .. count |-> hi(i)]
<1>1. Limit \in Nat /\ Limit > 0 /\ n \in Nat
  BY AnswersAssumption
<1>2. /\ count \in Nat
      /\ Limit * count <= n + Limit - 1
      /\ n <= Limit * count
  <2>1. PICK a \in Nat : a = n + Limit - 1
    BY <1>1
  <2>2. a \div Limit \in Nat /\ Limit * (a \div Limit) <= a
    BY <1>1
  <2>3. a = Limit * (a \div Limit) + (a % Limit) /\ a % Limit \in 0 .. Limit - 1
    BY <1>1
  <2>4. PICK q \in Nat : q = a \div Limit
    BY <2>2
  <2>5. PICK x \in Nat : x = Limit * q
    BY <1>1
  <2>6. x <= a /\ n <= x
    BY <1>1, <2>1, <2>2, <2>3, <2>4, <2>5
  <2>7. QED
    BY <2>1, <2>2, <2>4, <2>5, <2>6
<1>3. ASSUME NEW i \in 0 .. count
      PROVE  Limit * i \in Nat /\ Limit * i <= Limit * count
  <2>1. \A x \in Nat : Limit * x \in Nat
    BY <1>1
  <2>2. count - i \in Nat /\ Limit * (count - i) = Limit * count - Limit * i
    BY <1>1, <1>2
  <2>3. Limit * (count - i) \in Nat /\ Limit * count \in Nat /\ Limit * i \in Nat
    BY <1>2, <2>1, <2>2
  <2>4. QED
    BY <2>2, <2>3
<1>4. ASSUME NEW i \in 1 .. count
      PROVE  Limit * (i - 1) \in Nat /\ Limit * i = Limit * (i - 1) + Limit /\ Limit * (i - 1) < n
  <2>1. i \in 0 .. count /\ i - 1 \in 0 .. count
    BY <1>2
  <2>2. Limit * (i - 1) \in Nat /\ Limit * i \in Nat /\ Limit * i <= Limit * count
    BY <1>3, <2>1
  <2>3. Limit * i = Limit * (i - 1) + Limit
    BY <1>1, <2>1
  <2>4. QED
    BY <1>1, <1>2, <2>2, <2>3
<1>5. cut \in [0 .. count -> 0 .. n]
  <2>1. \A i \in 0 .. count : hi(i) \in 0 .. n
    BY <1>1, <1>3
  <2> HIDE DEF hi, count, n
  <2>2. QED
    BY <2>1
<1>6. cut[0] = 0 /\ cut[count] = n
  <2>1. hi(0) = 0
    BY <1>1
  <2>2. hi(count) = n
    BY <1>1, <1>2
  <2>3. 0 \in 0 .. count /\ count \in 0 .. count
    BY <1>2
  <2> HIDE DEF hi, count, n
  <2>4. QED
    BY <2>1, <2>2, <2>3
<1>7. ASSUME NEW i \in 1 .. count
      PROVE  cut[i - 1] <= cut[i] /\ piece(i) = SubSeq(line, cut[i - 1] + 1, cut[i])
  <2>1. i \in 0 .. count /\ i - 1 \in 0 .. count
    BY <1>2
  <2>2. cut[i] = hi(i) /\ cut[i - 1] = hi(i - 1)
    BY <2>1
  <2>3. hi(i - 1) = Limit * (i - 1)
    BY <1>4
  <2>4. hi(i - 1) <= hi(i)
    BY <1>1, <1>4, <2>3
  <2> HIDE DEF hi, cut
  <2>5. QED
    BY <2>2, <2>3, <2>4
<1>8. HardSplit(line) = [i \in 1 .. count |-> <<<<SubSeq(line, cut[i - 1] + 1, cut[i])>>>>]
  <2>1. HardSplit(line) = [i \in 1 .. count |-> <<<<piece(i)>>>>]
    BY DEF HardSplit
  <2> HIDE DEF count, piece, cut
  <2>2. [i \in 1 .. count |-> <<<<piece(i)>>>>] =
          [i \in 1 .. count |-> <<<<SubSeq(line, cut[i - 1] + 1, cut[i])>>>>]
    BY <1>7
  <2>3. QED
    BY <2>1, <2>2, Zenon
<1>9. count \in Nat
  BY <1>2
<1> HIDE DEF count, piece, cut
<1>10. QED
  BY <1>5, <1>6, <1>7, <1>8, <1>9 DEF n

(* A line that is too long is cut, and read on.                              *)
LEMMA HardSplitReads ==
  ASSUME NEW line \in Seq(Place)
  PROVE  HardSplit(line) \in Seq(Texts) /\ ReadAll(HardSplit(line)) = line
<1>1. PICK count \in Nat : \E cuts \in [0 .. count -> 0 .. Len(line)] :
         /\ cuts[0] = 0 /\ cuts[count] = Len(line)
         /\ \A i \in 1 .. count : cuts[i - 1] <= cuts[i]
         /\ HardSplit(line) = [i \in 1 .. count |-> <<<<SubSeq(line, cuts[i - 1] + 1, cuts[i])>>>>]
  BY HardSplitCuts
<1>2. PICK cut \in [0 .. count -> 0 .. Len(line)] :
         /\ cut[0] = 0 /\ cut[count] = Len(line)
         /\ \A i \in 1 .. count : cut[i - 1] <= cut[i]
         /\ HardSplit(line) = [i \in 1 .. count |-> <<<<SubSeq(line, cut[i - 1] + 1, cut[i])>>>>]
  BY <1>1
<1> DEFINE piece(i) == SubSeq(line, cut[i - 1] + 1, cut[i])
           pieces == [i \in 1 .. count |-> piece(i)]
           ts == HardSplit(line)
<1>8. ts = [i \in 1 .. count |-> <<<<piece(i)>>>>]
  BY <1>2
<1>9. FlattenSeq(pieces) = line
  BY <1>2, CutAndJoined
<1> HIDE DEF ts
<1>10. ASSUME NEW i \in 1 .. count
       PROVE  piece(i) \in Seq(Place)
  <2>1. i \in 0 .. count /\ i - 1 \in 0 .. count
    OBVIOUS
  <2>2. PICK a \in 0 .. Len(line), b \in 0 .. Len(line) : a = cut[i - 1] /\ b = cut[i]
    BY <2>1
  <2>3. \A j \in a + 1 .. b : line[j] \in Place
    OBVIOUS
  <2>4. SubSeq(line, a + 1, b) \in Seq(Place)
    BY <2>3, SubSeqProperties
  <2>5. QED
    BY <2>2, <2>4, Zenon
<1> HIDE DEF piece
<1>11. ASSUME NEW e \in Seq(Place)
       PROVE  <<<<e>>>> \in Texts /\ Chars(<<<<e>>>>) = e
  <2>1. << >> \in Seq(Seq(Place)) /\ <<e>> \in Seq(Seq(Place)) /\ <<<<e>>>> \in Texts
        /\ << >> \in Seq(Seq(Seq(Place)))
    BY DEF Texts
  <2>2. FlattenSeq(<<e>>) = e
    BY FlattenOne
  <2> DEFINE p == <<e>>
  <2>3. FlattenSeq(<<p>>) = p
    <3>1. p \in Seq(Seq(Place))
      BY <2>1
    <3> HIDE DEF p
    <3>2. QED
      BY <3>1, FlattenOne
  <2>4. QED
    BY <2>1, <2>2, <2>3, Zenon DEF Chars
<1>12. ts \in Seq(Texts) /\ Len(ts) = count /\ \A i \in 1 .. count : Chars(ts[i]) = piece(i)
  <2>1. \A i \in 1 .. count : <<<<piece(i)>>>> \in Texts /\ Chars(<<<<piece(i)>>>>) = piece(i)
    BY <1>10, <1>11
  <2>2. ts \in Seq(Texts) /\ Len(ts) = count /\ \A i \in 1 .. count : ts[i] = <<<<piece(i)>>>>
    <3> DEFINE own(i) == <<<<piece(i)>>>>
    <3>1. ts = [i \in 1 .. count |-> own(i)] /\ \A i \in 1 .. count : own(i) \in Texts
      BY <1>8, <2>1
    <3> HIDE DEF own
    <3>2. ts \in Seq(Texts) /\ Len(ts) = count /\ \A i \in 1 .. count : ts[i] = own(i)
      BY <3>1
    <3>3. QED
      BY <3>2, Zenon DEF own
  <2>3. QED
    BY <2>1, <2>2, Zenon
<1>13. Mapped(ts, TextChars) = pieces
  <2> DEFINE read == Mapped(ts, TextChars)
  <2>1. /\ read \in Seq(Seq(Place)) /\ Len(read) = count
        /\ \A i \in 1 .. count : read[i] = piece(i)
    BY <1>12, ReadByText
  <2>2. pieces \in Seq(Seq(Place)) /\ Len(pieces) = count /\ \A i \in 1 .. count : pieces[i] = piece(i)
    BY <1>10
  <2> HIDE DEF read, pieces
  <2>3. \A i \in 1 .. count : read[i] = pieces[i]
    BY <2>1, <2>2, Zenon
  <2>4. read = pieces
    BY <2>1, <2>2, <2>3, SeqEqual
  <2>5. QED
    BY <2>4 DEF read
<1>14. ReadAll(ts) = FlattenSeq(Mapped(ts, TextChars))
  BY <1>12, ReadByText
<1>15. QED
  BY <1>9, <1>12, <1>13, <1>14, Zenon DEF ts

(* The order among parts, each of which stands for the characters K gives it.*)
Ahead(P, K, R) == {pq \in P \X P : Range(K[pq[1]]) \X Range(K[pq[2]]) \subseteq R}
Content(s, K) == UNION {Range(K[p]) : p \in Range(s)}

LEMMA MappedOrder ==
  ASSUME NEW P, NEW K, NEW R, \A p \in P : K[p] \in Seq(Place), NEW s \in Seq(P),
         Sorted(FlattenSeq(Mapped(s, K)), R)
  PROVE  Sorted(s, Ahead(P, K, R)) /\ \A p \in Range(s) : Sorted(K[p], R)
<1> DEFINE m == Mapped(s, K)
           n == Len(s)
<1>1. m \in Seq(Seq(Place))
  <2> DEFINE Q == Seq(Place)
  <2>1. \A p \in P : K[p] \in Q
    OBVIOUS
  <2> HIDE DEF Q, m
  <2>2. m \in Seq(Q)
    BY <2>1, MappedType DEF m
  <2>3. QED
    BY <2>2 DEF Q
<1>2. n \in Nat /\ DOMAIN s = 1 .. n /\ DOMAIN m = 1 .. n /\ \A i \in 1 .. n : m[i] = K[s[i]]
  <2>1. Len(m) = n /\ \A i \in 1 .. n : m[i] = K[s[i]]
    BY MappedIs
  <2> HIDE DEF m
  <2>2. DOMAIN m = 1 .. Len(m)
    BY <1>1
  <2>3. QED
    BY <2>1, <2>2
<1> HIDE DEF m, n
<1>3. Pieces(m, R)
  <2>1. Sorted(FlattenSeq(m), R) <=> Pieces(m, R)
    BY <1>1, SortedFlatten
  <2>2. QED
    BY <2>1 DEF m
<1>4. \A i \in 1 .. n : s[i] \in P /\ Sorted(K[s[i]], R)
  <2>1. \A i \in 1 .. n : Sorted(m[i], R)
    BY <1>2, <1>3, Zenon DEF Pieces
  <2>2. QED
    BY <1>2, <2>1
<1>5. ASSUME NEW j \in 1 .. n, NEW i \in 1 .. j - 1
      PROVE  <<s[i], s[j]>> \in Ahead(P, K, R)
  <2>1. i \in 1 .. n
    BY <1>2
  <2>2. Range(m[i]) \X Range(m[j]) \subseteq R
    BY <1>2, <1>3, Zenon DEF Pieces
  <2>3. PICK p \in P, q \in P : p = s[i] /\ q = s[j]
    BY <1>4, <2>1
  <2>4. Range(K[p]) \X Range(K[q]) \subseteq R
    BY <1>2, <2>1, <2>2, <2>3, Zenon
  <2>5. <<p, q>> \in Ahead(P, K, R)
    BY <2>4 DEF Ahead
  <2>6. QED
    BY <2>3, <2>5
<1>6. Sorted(s, Ahead(P, K, R))
  BY <1>2, <1>5 DEF Sorted
<1>7. \A p \in Range(s) : Sorted(K[p], R)
  BY <1>2, <1>4 DEF Range
<1>8. QED
  BY <1>6, <1>7

LEMMA MappedSorted ==
  ASSUME NEW P, NEW K, NEW G, NEW R, \A p \in P : G[p] \in Seq(Place), NEW s \in Seq(P),
         Sorted(s, Ahead(P, K, R)),
         \A p \in Range(s) : Sorted(G[p], R) /\ Range(G[p]) = Range(K[p])
  PROVE  /\ FlattenSeq(Mapped(s, G)) \in Seq(Place)
         /\ Sorted(FlattenSeq(Mapped(s, G)), R)
         /\ Range(FlattenSeq(Mapped(s, G))) = Content(s, K)
<1> DEFINE m == Mapped(s, G)
           n == Len(s)
<1>1. m \in Seq(Seq(Place))
  <2> DEFINE Q == Seq(Place)
  <2>1. \A p \in P : G[p] \in Q
    OBVIOUS
  <2> HIDE DEF Q, m
  <2>2. m \in Seq(Q)
    BY <2>1, MappedType DEF m
  <2>3. QED
    BY <2>2 DEF Q
<1>2. n \in Nat /\ DOMAIN s = 1 .. n /\ DOMAIN m = 1 .. n /\ \A i \in 1 .. n : m[i] = G[s[i]]
  <2>1. Len(m) = n /\ \A i \in 1 .. n : m[i] = G[s[i]]
    BY MappedIs
  <2> HIDE DEF m
  <2>2. DOMAIN m = 1 .. Len(m)
    BY <1>1
  <2>3. QED
    BY <2>1, <2>2
<1> HIDE DEF m, n
<1>3. \A i \in 1 .. n : Sorted(m[i], R) /\ Range(m[i]) = Range(K[s[i]])
  <2>1. \A i \in 1 .. n : s[i] \in Range(s)
    BY <1>2 DEF Range
  <2>2. QED
    BY <1>2, <2>1, Zenon
<1>4. ASSUME NEW j \in 1 .. n, NEW i \in 1 .. j - 1
      PROVE  Range(m[i]) \X Range(m[j]) \subseteq R
  <2>1. i \in 1 .. n
    BY <1>2
  <2>2. <<s[i], s[j]>> \in Ahead(P, K, R)
    BY <1>2, Zenon DEF Sorted
  <2>3. Range(K[s[i]]) \X Range(K[s[j]]) \subseteq R
    BY <2>2 DEF Ahead
  <2>4. QED
    BY <1>3, <2>1, <2>3, Zenon
<1>5. Pieces(m, R)
  BY <1>2, <1>3, <1>4 DEF Pieces
<1>6. Among(m) = Content(s, K)
  <2>1. Range(s) = {s[i] : i \in 1 .. n}
    BY <1>2 DEF Range
  <2>2. Among(m) = UNION {Range(m[i]) : i \in 1 .. n}
    BY <1>2 DEF Among
  <2>3. \A x : x \in Among(m) <=> \E i \in 1 .. n : x \in Range(m[i])
    BY <2>2
  <2>4. \A x : x \in Content(s, K) <=> \E i \in 1 .. n : x \in Range(K[s[i]])
    BY <2>1 DEF Content
  <2>5. \A x : x \in Among(m) <=> x \in Content(s, K)
    BY <1>3, <2>3, <2>4, Zenon
  <2>6. QED
    BY <2>5
<1>7. /\ Range(FlattenSeq(m)) = Among(m)
      /\ Sorted(FlattenSeq(m), R) <=> Pieces(m, R)
  BY <1>1, SortedFlatten
<1>8. FlattenSeq(m) \in Seq(Place)
  BY <1>1, FlattenType
<1>9. QED
  BY <1>5, <1>6, <1>7, <1>8, Zenon DEF m

(* Of parts in order, those that fit, joined, and the others, read in some   *)
(* way G after them, have the same characters in order.                      *)
Rearrangement(some, P, K, G, R, parts, sizes) ==
    LET small == FlattenSeq(Mapped(FlattenSeq(some.chunks), K))
        large == FlattenSeq(Mapped(some.oversized, G))
    IN /\ some.chunks \in Seq(Seq(P)) /\ some.oversized \in Seq(P)
       /\ Range(some.oversized) = Larger(parts, sizes, Len(parts))
       /\ small \in Seq(Place) /\ large \in Seq(Place)
       /\ Sorted(small \o large, R)
       /\ Range(small \o large) = Range(FlattenSeq(Mapped(parts, K)))

LEMMA Rearranged ==
  ASSUME NEW P, NEW K, NEW G, NEW R, NEW parts \in Seq(P), NEW sizes, NEW gap \in Nat,
         \A p \in P : K[p] \in Seq(Place),
         \A p \in P : G[p] \in Seq(Place),
         Sorted(FlattenSeq(Mapped(parts, K)), R),
         \A i \in DOMAIN parts : sizes[i] \in Int /\ gap + sizes[i] >= 0,
         \A i \in DOMAIN parts : sizes[i] <= 0 => K[parts[i]] = << >>,
         \A i, j \in DOMAIN parts : sizes[i] <= Limit /\ sizes[j] > Limit =>
            Range(K[parts[i]]) \X Range(K[parts[j]]) \subseteq R,
         \A i \in DOMAIN parts : sizes[i] > Limit =>
            Sorted(G[parts[i]], R) /\ Range(G[parts[i]]) = Range(K[parts[i]])
  PROVE  Rearrangement(Accumulate(parts, sizes, gap), P, K, G, R, parts, sizes)
<1> DEFINE some == Accumulate(parts, sizes, gap)
           n == Len(parts)
           RR == Ahead(P, K, R)
           Vain == {p \in P : K[p] = << >>}
           fit == FlattenSeq(some.chunks)
           over == some.oversized
           small == FlattenSeq(Mapped(fit, K))
           large == FlattenSeq(Mapped(over, G))
           F == Fitting(parts, sizes, n)
           L == Larger(parts, sizes, n)
<1>0. Limit \in Nat \ {0} /\ n \in Nat /\ DOMAIN parts = 1 .. n /\ \A i \in 1 .. n : parts[i] \in P
  BY AnswersAssumption
<1>1. Sorted(parts, RR) /\ \A p \in Range(parts) : Sorted(K[p], R)
  BY MappedOrder
<1>2. \A i \in DOMAIN parts : sizes[i] <= 0 => parts[i] \in Vain
  BY <1>0
<1> HIDE DEF RR, Vain, fit, over, small, large, F, L, n, some
<1>3. /\ some.chunks \in Seq(Seq(P)) /\ over \in Seq(P)
      /\ Sorted(fit, RR) /\ Sorted(over, RR)
      /\ Range(fit) \subseteq F /\ F \subseteq Range(fit) \union Vain /\ Range(over) = L
  <2>1. Accumulated(Accumulate(parts, sizes, gap), P, RR, Vain, parts, sizes)
    BY <1>1, <1>2, AccumulateSorted
  <2>2. QED
    BY <2>1, Zenon DEF Accumulated, some, over, fit, F, L, n
<1>4. fit \in Seq(P)
  BY <1>3, FlattenType DEF fit
<1>5. /\ F \subseteq Range(parts) /\ L \subseteq Range(parts) /\ F \union L = Range(parts)
      /\ \A p \in F : \A q \in L : Range(K[p]) \X Range(K[q]) \subseteq R
      /\ \A q \in L : Sorted(G[q], R) /\ Range(G[q]) = Range(K[q])
  <2>1. \A i \in 1 .. n : sizes[i] <= Limit \/ sizes[i] > Limit
    BY <1>0
  <2>2. F = {parts[i] : i \in {j \in 1 .. n : sizes[j] <= Limit}}
        /\ L = {parts[i] : i \in {j \in 1 .. n : sizes[j] > Limit}}
    BY DEF F, L, Fitting, Larger
  <2>3. Range(parts) = {parts[i] : i \in 1 .. n}
    BY <1>0 DEF Range
  <2>4. F \subseteq Range(parts) /\ L \subseteq Range(parts) /\ F \union L = Range(parts)
    BY <2>1, <2>2, <2>3
  <2>5. \A p \in F : \A q \in L : Range(K[p]) \X Range(K[q]) \subseteq R
    <3>1. SUFFICES ASSUME NEW p \in F, NEW q \in L
                   PROVE  Range(K[p]) \X Range(K[q]) \subseteq R
      OBVIOUS
    <3>2. PICK i \in 1 .. n, j \in 1 .. n : p = parts[i] /\ sizes[i] <= Limit /\ q = parts[j] /\ sizes[j] > Limit
      BY <2>2
    <3>3. QED
      BY <1>0, <3>2, Zenon
  <2>6. \A q \in L : Sorted(G[q], R) /\ Range(G[q]) = Range(K[q])
    BY <1>0, <2>2
  <2>7. QED
    BY <2>4, <2>5, <2>6
<1>6. small \in Seq(Place) /\ Sorted(small, R) /\ Range(small) = Content(fit, K)
  <2>1. \A p \in Range(fit) : Sorted(K[p], R) /\ Range(K[p]) = Range(K[p])
    BY <1>1, <1>3, <1>5
  <2>2. QED
    <3>1. \A p \in P : K[p] \in Seq(Place)
      OBVIOUS
    <3>2. Sorted(fit, Ahead(P, K, R))
      BY <1>3 DEF RR
    <3>3. QED
      BY <1>4, <2>1, <3>1, <3>2, MappedSorted DEF small
<1>7. large \in Seq(Place) /\ Sorted(large, R) /\ Range(large) = Content(over, K)
  <2>1. \A q \in Range(over) : Sorted(G[q], R) /\ Range(G[q]) = Range(K[q])
    BY <1>3, <1>5
  <2>2. QED
    <3>1. \A p \in P : G[p] \in Seq(Place)
      OBVIOUS
    <3>2. Sorted(over, Ahead(P, K, R))
      BY <1>3 DEF RR
    <3>3. over \in Seq(P)
      BY <1>3
    <3>4. QED
      BY <2>1, <3>1, <3>2, <3>3, MappedSorted DEF large
<1>8. Range(FlattenSeq(Mapped(parts, K))) = Content(parts, K)
  <2>1. \A p \in Range(parts) : Sorted(K[p], R) /\ Range(K[p]) = Range(K[p])
    BY <1>1
  <2>2. QED
    BY <1>1, <2>1, MappedSorted DEF RR
<1>9. Range(small) \X Range(large) \subseteq R
  BY <1>3, <1>5, <1>6, <1>7 DEF Content
<1>10. Range(small) \union Range(large) = Content(parts, K)
  <2>1. \A p \in Vain : Range(K[p]) = {}
    BY SortedEmpty, Zenon DEF Vain
  <2>2. Content(fit, K) \subseteq Content(parts, K) /\ Content(over, K) \subseteq Content(parts, K)
    BY <1>3, <1>5 DEF Content
  <2>3. ASSUME NEW p \in Range(parts), NEW c \in Range(K[p])
        PROVE  c \in Content(fit, K) \/ c \in Content(over, K)
    <3>1. p \in Range(fit) \/ p \in Range(over)
      BY <1>3, <1>5, <2>1, <2>3
    <3>2. QED
      BY <3>1 DEF Content
  <2>4. \A c \in Content(parts, K) : c \in Content(fit, K) \/ c \in Content(over, K)
    BY <2>3, Zenon DEF Content
  <2>5. QED
    BY <1>6, <1>7, <2>2, <2>4
<1>11. Sorted(small \o large, R)
  <2>1. Sorted(small \o large, R) <=>
          Sorted(small, R) /\ Sorted(large, R) /\ Range(small) \X Range(large) \subseteq R
    BY <1>6, <1>7, SortedConcat
  <2>2. QED
    BY <1>6, <1>7, <1>9, <2>1, Zenon
<1>12. Range(small \o large) = Range(small) \union Range(large)
  BY <1>6, <1>7, RangeConcat
<1>13. QED
  BY <1>3, <1>6, <1>7, <1>8, <1>10, <1>11, <1>12, Zenon DEF Rearrangement, small, large, fit, over, some, L, n

LEMMA FlattenSingles ==
  ASSUME NEW S, NEW ss \in Seq(S)
  PROVE  /\ [i \in DOMAIN ss |-> <<ss[i]>>] \in Seq(Seq(S))
         /\ FlattenSeq([i \in DOMAIN ss |-> <<ss[i]>>]) = ss
<1> DEFINE own(ts) == [i \in DOMAIN ts |-> <<ts[i]>>]
           T == {ts \in Seq(S) : FlattenSeq(own(ts)) = ts}
<1>1. ASSUME NEW ts \in Seq(S)
      PROVE  own(ts) \in Seq(Seq(S)) /\ Len(own(ts)) = Len(ts) /\ \A i \in 1 .. Len(ts) : own(ts)[i] = <<ts[i]>>
  <2> DEFINE only(i) == <<ts[i]>>
  <2>1. \A i \in 1 .. Len(ts) : only(i) \in Seq(S)
    <3>1. \A i \in 1 .. Len(ts) : ts[i] \in S
      OBVIOUS
    <3>2. QED
      BY <3>1
  <2>2. DOMAIN ts = 1 .. Len(ts) /\ Len(ts) \in Nat
    OBVIOUS
  <2>3. own(ts) = [i \in 1 .. Len(ts) |-> only(i)]
    BY <2>2
  <2> HIDE DEF own, only
  <2>4. own(ts) \in Seq(Seq(S)) /\ Len(own(ts)) = Len(ts) /\ \A i \in 1 .. Len(ts) : own(ts)[i] = only(i)
    BY <2>1, <2>2, <2>3
  <2>5. QED
    BY <2>4 DEF only
<1>2. << >> \in T
  <2>1. own(<< >>) = << >> /\ << >> \in Seq(S)
    OBVIOUS
  <2> HIDE DEF own
  <2>2. FlattenSeq(own(<< >>)) = << >>
    BY <2>1, FlattenEmpty, Zenon
  <2>3. QED
    BY <2>1, <2>2
<1> HIDE DEF own
<1>3. ASSUME NEW ts \in Seq(S), NEW e \in S, ts \in T
      PROVE  Append(ts, e) \in T
  <2> DEFINE all == Append(ts, e)
             n == Len(ts)
  <2>1. n \in Nat /\ all \in Seq(S) /\ Len(all) = n + 1 /\ all[n + 1] = e /\ \A i \in 1 .. n : all[i] = ts[i]
    BY AppendProperties
  <2> DEFINE x == own(ts)
             y == own(all)
             z == Append(x, <<e>>)
  <2>2. <<e>> \in Seq(S)
    OBVIOUS
  <2>3. x \in Seq(Seq(S)) /\ Len(x) = n /\ \A i \in 1 .. n : x[i] = <<ts[i]>>
    BY <1>1
  <2> HIDE DEF all, x
  <2>4. y \in Seq(Seq(S)) /\ Len(y) = n + 1 /\ \A i \in 1 .. n + 1 : y[i] = <<all[i]>>
    BY <1>1, <2>1
  <2> HIDE DEF n, y
  <2>5. z \in Seq(Seq(S)) /\ Len(z) = n + 1 /\ z[n + 1] = <<e>> /\ \A i \in 1 .. n : z[i] = x[i]
    <3>1. PICK u \in Seq(S) : u = <<e>>
      BY <2>2
    <3>2. Append(x, u) \in Seq(Seq(S)) /\ Len(Append(x, u)) = n + 1 /\ Append(x, u)[n + 1] = u
          /\ \A i \in 1 .. n : Append(x, u)[i] = x[i]
      BY <2>1, <2>3, AppendProperties
    <3>3. QED
      BY <3>1, <3>2, Zenon
  <2> HIDE DEF z
  <2>6. \A i \in 1 .. n + 1 : i \in 1 .. n \/ i = n + 1
    BY <2>1
  <2>7. \A i \in 1 .. n + 1 : y[i] = z[i]
    <3>1. ASSUME NEW i \in 1 .. n PROVE y[i] = z[i]
      <4>1. i \in 1 .. n + 1
        BY <2>1
      <4>2. QED
        BY <2>1, <2>3, <2>4, <2>5, <4>1, ZenonT(60)
    <3>2. y[n + 1] = z[n + 1]
      <4>1. n + 1 \in 1 .. n + 1
        BY <2>1
      <4>2. QED
        BY <2>1, <2>3, <2>4, <2>5, <4>1, ZenonT(60)
    <3>3. QED
      BY <2>6, <3>1, <3>2, Zenon
  <2>8. y = z
    BY <2>4, <2>5, <2>7, SeqEqual
  <2>9. FlattenSeq(z) = FlattenSeq(x) \o <<e>>
    BY <2>2, <2>3, FlattenAppend DEF z
  <2>10. FlattenSeq(x) = ts
    BY <1>3 DEF x
  <2>11. ts \o <<e>> = all
    BY DEF all
  <2>12. FlattenSeq(own(all)) = all
    BY <2>8, <2>9, <2>10, <2>11, Zenon DEF y
  <2>13. QED
    BY <2>1, <2>12 DEF all
<1> HIDE DEF T
<1>4. Seq(S) \subseteq T
  BY <1>2, <1>3, SeqInduction
<1>5. FlattenSeq(own(ss)) = ss
  BY <1>4 DEF T
<1>6. QED
  BY <1>1, <1>5 DEF own

Whole == [l \in Seq(Place) |-> l]

LEMMA MappedWhole ==
  ASSUME NEW s \in Seq(Seq(Place))
  PROVE  Mapped(s, Whole) = s
<1> DEFINE P == Seq(Place)
           m == Mapped(s, Whole)
<1>1. \A l \in P : Whole[l] = l
  BY DEF Whole
<1> HIDE DEF P
<1>2. s \in Seq(P)
  BY DEF P
<1>3. Len(m) = Len(s) /\ \A i \in 1 .. Len(s) : m[i] = Whole[s[i]]
  BY <1>2, MappedIs
<1>4. \A i \in 1 .. Len(s) : s[i] \in P
  BY <1>2
<1>5. m \in Seq(P)
  <2>1. \A l \in P : Whole[l] \in P
    BY <1>1
  <2>2. QED
    BY <1>2, <2>1, MappedType
<1> HIDE DEF m
<1>6. \A i \in 1 .. Len(s) : m[i] = s[i]
  BY <1>1, <1>3, <1>4, Zenon
<1>7. QED
  BY <1>2, <1>3, <1>5, <1>6, SeqEqual DEF m

(* A paragraph that is too long: its characters arrive, in order but for the *)
(* lines that are too long themselves.                                       *)
LEMMA SplitParagraphSorted ==
  ASSUME NEW R, NEW para \in Seq(Seq(Place)), Sorted(FlattenSeq(para), R),
         \A i, j \in DOMAIN para : Len(para[i]) <= Limit /\ Len(para[j]) > Limit =>
            Range(para[i]) \X Range(para[j]) \subseteq R
  PROVE  /\ SplitParagraph(para) \in Seq(Texts)
         /\ Sorted(ReadAll(SplitParagraph(para)), R)
         /\ Range(ReadAll(SplitParagraph(para))) = Range(FlattenSeq(para))
<1> DEFINE P == Seq(Place)
           sizes == LineLens(para)
           byLine == Accumulate(para, sizes, 1)
           short == [i \in DOMAIN byLine.chunks |-> <<byLine.chunks[i]>>]
           long == [i \in DOMAIN byLine.oversized |-> HardSplit(byLine.oversized[i])]
<1>1. \A i \in DOMAIN para : sizes[i] = Len(para[i]) /\ sizes[i] \in Nat /\ para[i] \in P
  BY DEF LineLens
<1>2. Rearrangement(byLine, P, Whole, Whole, R, para, sizes)
  <2>1. para \in Seq(P) /\ \A l \in P : Whole[l] = l /\ Whole[l] \in Seq(Place)
    BY DEF Whole
  <2>2. Mapped(para, Whole) = para
    BY MappedWhole
  <2>3. Sorted(FlattenSeq(Mapped(para, Whole)), R)
    BY <2>2
  <2>4. \A p \in Range(para) : Sorted(Whole[p], R)
    <3>1. \A l \in P : Whole[l] \in Seq(Place)
      BY <2>1
    <3> HIDE DEF P
    <3>2. Sorted(para, Ahead(P, Whole, R)) /\ \A p \in Range(para) : Sorted(Whole[p], R)
      BY <2>1, <2>3, <3>1, MappedOrder
    <3>3. QED
      BY <3>2
  <2> HIDE DEF P, sizes
  <2>5. \A i \in DOMAIN para : /\ sizes[i] \in Int /\ 1 + sizes[i] >= 0
                               /\ sizes[i] <= 0 => Whole[para[i]] = << >>
    <3>1. \A i \in DOMAIN para : sizes[i] <= 0 => para[i] = << >>
      BY <1>1 DEF P
    <3>2. QED
      BY <1>1, <2>1, <3>1
  <2>6. \A i, j \in DOMAIN para : sizes[i] <= Limit /\ sizes[j] > Limit =>
           Range(Whole[para[i]]) \X Range(Whole[para[j]]) \subseteq R
    <3>1. SUFFICES ASSUME NEW i \in DOMAIN para, NEW j \in DOMAIN para, sizes[i] <= Limit, sizes[j] > Limit
                   PROVE  Range(Whole[para[i]]) \X Range(Whole[para[j]]) \subseteq R
      BY Zenon
    <3>2. Whole[para[i]] = para[i] /\ Whole[para[j]] = para[j] /\ sizes[i] = Len(para[i]) /\ sizes[j] = Len(para[j])
      BY <1>1, <2>1
    <3>3. QED
      BY <3>1, <3>2, ZenonT(60)
  <2>7. \A i \in DOMAIN para : Sorted(Whole[para[i]], R)
    BY <2>4 DEF Range
  <2>8. PICK gap \in Nat : gap = 1
    OBVIOUS
  <2>9. Rearrangement(Accumulate(para, sizes, gap), P, Whole, Whole, R, para, sizes)
    <3>1. \A i \in DOMAIN para : sizes[i] \in Int /\ gap + sizes[i] >= 0
      BY <2>5, <2>8
    <3>2. \A i \in DOMAIN para : sizes[i] <= 0 => Whole[para[i]] = << >>
      BY <2>5
    <3>3. \A i \in DOMAIN para : sizes[i] > Limit =>
             Sorted(Whole[para[i]], R) /\ Range(Whole[para[i]]) = Range(Whole[para[i]])
      BY <2>7
    <3>4. \A l \in P : Whole[l] \in Seq(Place)
      BY <2>1
    <3>5. QED
      BY <2>1, <2>3, <2>6, <3>1, <3>2, <3>3, <3>4, Rearranged
  <2>10. QED
    BY <2>8, <2>9 DEF byLine
<1> DEFINE fit == FlattenSeq(byLine.chunks)
           over == byLine.oversized
<1> HIDE DEF byLine, P
<1>3. /\ byLine.chunks \in Seq(Seq(P)) /\ over \in Seq(P)
      /\ Sorted(FlattenSeq(Mapped(fit, Whole)) \o FlattenSeq(Mapped(over, Whole)), R)
      /\ Range(FlattenSeq(Mapped(fit, Whole)) \o FlattenSeq(Mapped(over, Whole))) =
           Range(FlattenSeq(Mapped(para, Whole)))
  BY <1>2, Zenon DEF Rearrangement
<1>4. /\ fit \in Seq(P) /\ Mapped(fit, Whole) = fit /\ Mapped(over, Whole) = over
      /\ Mapped(para, Whole) = para
  <2>1. fit \in Seq(P)
    BY <1>3, FlattenType
  <2> HIDE DEF fit, over
  <2>2. QED
    BY <1>3, <2>1, MappedWhole DEF P
<1>5. short \in Seq(Texts) /\ FlattenSeq(short) = byLine.chunks /\ ReadAll(short) = FlattenSeq(fit)
  <2> DEFINE Q == Seq(P)
  <2>1. Texts = Seq(Q) /\ byLine.chunks \in Seq(Q)
    BY <1>3 DEF Texts, P
  <2> HIDE DEF Q
  <2>2. short \in Seq(Seq(Q)) /\ FlattenSeq(short) = byLine.chunks
    BY <2>1, FlattenSingles
  <2>3. QED
    BY <2>1, <2>2, Zenon DEF ReadAll, Chars
<1>6. /\ long \in Seq(Seq(Texts)) /\ FlattenSeq(long) \in Seq(Texts)
      /\ ReadAll(FlattenSeq(long)) = FlattenSeq(over)
  <2> DEFINE cut(i) == HardSplit(over[i])
             m == Mapped(long, TextsRead)
  <2>1. over \in Seq(Seq(Place)) /\ DOMAIN over = 1 .. Len(over) /\ Len(over) \in Nat
    BY <1>3 DEF P
  <2>2. \A i \in 1 .. Len(over) : cut(i) \in Seq(Texts) /\ ReadAll(cut(i)) = over[i]
    BY <2>1, HardSplitReads
  <2>3. long = [i \in 1 .. Len(over) |-> cut(i)]
    BY <2>1
  <2> HIDE DEF over, cut, long
  <2>4. long \in Seq(Seq(Texts)) /\ Len(long) = Len(over) /\ \A i \in 1 .. Len(over) : long[i] = cut(i)
    BY <2>1, <2>2, <2>3
  <2>5. /\ ReadAll(FlattenSeq(long)) = FlattenSeq(m)
        /\ m \in Seq(Seq(Place))
        /\ Len(m) = Len(over)
        /\ \A i \in 1 .. Len(over) : m[i] = ReadAll(long[i])
    BY <2>4, ReadFlatten
  <2> HIDE DEF m
  <2>6. \A i \in 1 .. Len(over) : m[i] = over[i]
    BY <2>2, <2>4, <2>5, Zenon
  <2>7. m = over
    BY <2>1, <2>5, <2>6, SeqEqual
  <2>8. FlattenSeq(long) \in Seq(Texts)
    BY <2>4, FlattenType
  <2>9. QED
    BY <2>4, <2>5, <2>7, <2>8, Zenon
<1>7. SplitParagraph(para) = short \o FlattenSeq(long)
  BY DEF SplitParagraph, byLine, sizes
<1>8. ReadAll(SplitParagraph(para)) = FlattenSeq(fit) \o FlattenSeq(over)
  <2> HIDE DEF short, long, fit, over
  <2>1. ReadAll(short \o FlattenSeq(long)) = ReadAll(short) \o ReadAll(FlattenSeq(long))
    BY <1>5, <1>6, ReadKeepsConcat
  <2>2. QED
    BY <1>5, <1>6, <1>7, <2>1, Zenon
<1>9. SplitParagraph(para) \in Seq(Texts)
  <2> HIDE DEF short, long
  <2>1. QED
    BY <1>5, <1>6, <1>7
<1>10. QED
  BY <1>3, <1>4, <1>8, <1>9, Zenon

SplitRead == [para \in Seq(Seq(Place)) |-> ReadAll(SplitParagraph(para))]

(* R holds of the characters of a paragraph that fits and of one that does   *)
(* not, and so for the lines of a paragraph that does not fit.               *)
LargerLater(words, R) ==
    /\ \A p, q \in DOMAIN words : ParaLen(words[p]) <= Limit /\ ParaLen(words[q]) > Limit =>
          Range(FlattenSeq(words[p])) \X Range(FlattenSeq(words[q])) \subseteq R
    /\ \A p \in DOMAIN words : ParaLen(words[p]) > Limit =>
          \A i, j \in DOMAIN words[p] : Len(words[p][i]) <= Limit /\ Len(words[p][j]) > Limit =>
             Range(words[p][i]) \X Range(words[p][j]) \subseteq R

LEMMA ParagraphLength ==
  ASSUME NEW para \in Seq(Seq(Place))
  PROVE  /\ FlattenSeq(para) \in Seq(Place)
         /\ ParaLen(para) \in Int /\ 1 + ParaLen(para) >= 0
         /\ ParaLen(para) <= 0 => FlattenSeq(para) = << >>
<1>1. FlattenSeq(para) \in Seq(Place)
  BY FlattenType
<1>2. PICK f \in Seq(Place) : f = FlattenSeq(para)
  BY <1>1
<1>3. ParaLen(para) = Len(f) + Len(para) - 1 /\ Len(f) \in Nat /\ Len(para) \in Nat
  BY <1>2 DEF ParaLen
<1>4. Len(para) = 0 => f = << >>
  <2>1. Len(para) = 0 => para = << >>
    OBVIOUS
  <2>2. QED
    BY <1>2, <2>1, FlattenEmpty, Zenon
<1>5. Len(f) = 0 => f = << >>
  OBVIOUS
<1>6. ParaLen(para) <= 0 => Len(para) = 0 \/ Len(f) = 0
  BY <1>3
<1>7. QED
  BY <1>2, <1>3, <1>4, <1>5, <1>6

(* The characters of a text arrive, in order but for what is too long.       *)
LEMMA SplitSorted ==
  ASSUME NEW R, NEW words \in Texts, Sorted(Chars(words), R), LargerLater(words, R)
  PROVE  /\ Split(words) \in Seq(Texts)
         /\ Sorted(ReadAll(Split(words)), R)
         /\ Range(ReadAll(Split(words))) = Range(Chars(words))
<1> DEFINE P == Seq(Seq(Place))
           sizes == ParaLens(words)
           some == Accumulate(words, sizes, 2)
           long == [i \in DOMAIN some.oversized |-> SplitParagraph(some.oversized[i])]
           fit == FlattenSeq(some.chunks)
           over == some.oversized
<1>1. words \in Seq(P) /\ DOMAIN words = 1 .. Len(words) /\ Len(words) \in Nat
      /\ \A p \in DOMAIN words : sizes[p] = ParaLen(words[p]) /\ words[p] \in P
  BY DEF Texts, ParaLens
<1>2. \A para \in P : /\ JoinedLines[para] = FlattenSeq(para) /\ JoinedLines[para] \in Seq(Place)
                      /\ SplitRead[para] = ReadAll(SplitParagraph(para)) /\ SplitRead[para] \in Seq(Place)
                      /\ SplitParagraph(para) \in Seq(Texts)
  <2>1. TAKE para \in P
  <2>2. FlattenSeq(para) \in Seq(Place)
    BY FlattenType
  <2>3. SplitParagraph(para) \in Seq(Texts)
    <3>1. SplitParagraph(para) \in Seq(FittingTexts)
      BY SplitParagraphFits
    <3>2. QED
      BY <3>1 DEF FittingTexts
  <2>4. ReadAll(SplitParagraph(para)) \in Seq(Place)
    BY <2>3, ReadKeepsConcat
  <2>5. QED
    BY <2>2, <2>3, <2>4 DEF JoinedLines, SplitRead
<1>3. FlattenSeq(Mapped(words, JoinedLines)) = Chars(words)
  BY CharsByPara
<1> HIDE DEF P, sizes
<1>4. Rearrangement(some, P, JoinedLines, SplitRead, R, words, sizes)
  <2>1. Sorted(FlattenSeq(Mapped(words, JoinedLines)), R)
    BY <1>3
  <2>2. \A para \in P : JoinedLines[para] \in Seq(Place)
    BY <1>2
  <2>3. \A para \in P : SplitRead[para] \in Seq(Place)
    BY <1>2
  <2>4. \A p \in Range(words) : Sorted(JoinedLines[p], R)
    <3>1. Sorted(words, Ahead(P, JoinedLines, R)) /\ \A p \in Range(words) : Sorted(JoinedLines[p], R)
      BY <1>1, <2>1, <2>2, MappedOrder
    <3>2. QED
      BY <3>1
  <2>5. \A p \in DOMAIN words : /\ sizes[p] \in Int /\ 2 + sizes[p] >= 0
                                /\ sizes[p] <= 0 => JoinedLines[words[p]] = << >>
    <3>1. TAKE p \in DOMAIN words
    <3>2. words[p] \in Seq(Seq(Place))
      BY <1>1 DEF P
    <3>3. /\ ParaLen(words[p]) \in Int /\ 1 + ParaLen(words[p]) >= 0
          /\ ParaLen(words[p]) <= 0 => FlattenSeq(words[p]) = << >>
      BY <3>2, ParagraphLength
    <3>4. sizes[p] = ParaLen(words[p]) /\ JoinedLines[words[p]] = FlattenSeq(words[p])
      BY <1>1, <1>2
    <3>5. QED
      BY <3>3, <3>4
  <2>6. \A p, q \in DOMAIN words : sizes[p] <= Limit /\ sizes[q] > Limit =>
           Range(JoinedLines[words[p]]) \X Range(JoinedLines[words[q]]) \subseteq R
    <3>1. SUFFICES ASSUME NEW p \in DOMAIN words, NEW q \in DOMAIN words, sizes[p] <= Limit, sizes[q] > Limit
                   PROVE  Range(JoinedLines[words[p]]) \X Range(JoinedLines[words[q]]) \subseteq R
      BY Zenon
    <3>2. /\ JoinedLines[words[p]] = FlattenSeq(words[p]) /\ JoinedLines[words[q]] = FlattenSeq(words[q])
          /\ sizes[p] = ParaLen(words[p]) /\ sizes[q] = ParaLen(words[q])
      BY <1>1, <1>2
    <3>3. QED
      BY <3>1, <3>2, ZenonT(60) DEF LargerLater
  <2>7. \A p \in DOMAIN words : sizes[p] > Limit =>
           Sorted(SplitRead[words[p]], R) /\ Range(SplitRead[words[p]]) = Range(JoinedLines[words[p]])
    <3>1. SUFFICES ASSUME NEW p \in DOMAIN words, sizes[p] > Limit
                   PROVE  Sorted(SplitRead[words[p]], R) /\ Range(SplitRead[words[p]]) = Range(JoinedLines[words[p]])
      BY Zenon
    <3>2. PICK para \in Seq(Seq(Place)) : para = words[p]
      BY <1>1 DEF P
    <3>3. /\ SplitRead[words[p]] = ReadAll(SplitParagraph(para)) /\ JoinedLines[words[p]] = FlattenSeq(para)
          /\ sizes[p] = ParaLen(words[p])
      BY <1>1, <1>2, <3>2 DEF P
    <3>4. Sorted(FlattenSeq(para), R)
      <4>1. words[p] \in Range(words)
        BY DEF Range
      <4>2. QED
        BY <2>4, <3>3, <4>1, Zenon
    <3>5. \A i, j \in DOMAIN para : Len(para[i]) <= Limit /\ Len(para[j]) > Limit =>
             Range(para[i]) \X Range(para[j]) \subseteq R
      <4>1. ParaLen(words[p]) > Limit
        BY <3>1, <3>3, Zenon
      <4>2. \A i, j \in DOMAIN words[p] : Len(words[p][i]) <= Limit /\ Len(words[p][j]) > Limit =>
               Range(words[p][i]) \X Range(words[p][j]) \subseteq R
        BY <4>1, Zenon DEF LargerLater
      <4>3. QED
        BY <3>2, <4>2, Zenon
    <3>6. /\ Sorted(ReadAll(SplitParagraph(para)), R)
          /\ Range(ReadAll(SplitParagraph(para))) = Range(FlattenSeq(para))
      BY <3>4, <3>5, SplitParagraphSorted
    <3>7. QED
      BY <3>3, <3>6, Zenon
  <2>8. PICK gap \in Nat : gap = 2
    OBVIOUS
  <2>9. Rearrangement(Accumulate(words, sizes, gap), P, JoinedLines, SplitRead, R, words, sizes)
    <3>1. \A i \in DOMAIN words : sizes[i] \in Int /\ gap + sizes[i] >= 0
      BY <2>5, <2>8
    <3>2. \A i \in DOMAIN words : sizes[i] <= 0 => JoinedLines[words[i]] = << >>
      BY <2>5
    <3>3. words \in Seq(P)
      BY <1>1
    <3>4. QED
      BY <2>1, <2>2, <2>3, <2>6, <2>7, <3>1, <3>2, <3>3, Rearranged
  <2>10. QED
    BY <2>8, <2>9
<1> HIDE DEF some
<1>5. /\ some.chunks \in Seq(Seq(P)) /\ over \in Seq(P)
      /\ Sorted(FlattenSeq(Mapped(fit, JoinedLines)) \o FlattenSeq(Mapped(over, SplitRead)), R)
      /\ Range(FlattenSeq(Mapped(fit, JoinedLines)) \o FlattenSeq(Mapped(over, SplitRead))) = Range(Chars(words))
  BY <1>3, <1>4, Zenon DEF Rearrangement
<1>6. some.chunks \in Seq(Texts) /\ ReadAll(some.chunks) = FlattenSeq(Mapped(fit, JoinedLines))
  <2>1. Texts = Seq(P)
    BY DEF Texts, P
  <2>2. fit \in Texts
    BY <1>5, <2>1, FlattenType
  <2> HIDE DEF fit
  <2>3. Chars(fit) = FlattenSeq(Mapped(fit, JoinedLines))
    BY <2>2, CharsByPara
  <2>4. QED
    BY <1>5, <2>1, <2>3 DEF ReadAll, fit
<1>7. /\ long \in Seq(Seq(Texts)) /\ FlattenSeq(long) \in Seq(Texts)
      /\ ReadAll(FlattenSeq(long)) = FlattenSeq(Mapped(over, SplitRead))
  <2> DEFINE part(i) == SplitParagraph(over[i])
             m == Mapped(long, TextsRead)
             r == Mapped(over, SplitRead)
  <2>1. over \in Seq(P) /\ DOMAIN over = 1 .. Len(over) /\ Len(over) \in Nat
    BY <1>5
  <2>2. \A i \in 1 .. Len(over) : part(i) \in Seq(Texts) /\ SplitRead[over[i]] = ReadAll(part(i))
    BY <1>2, <2>1
  <2>3. long = [i \in 1 .. Len(over) |-> part(i)]
    BY <2>1
  <2> HIDE DEF over, part, long
  <2>4. long \in Seq(Seq(Texts)) /\ Len(long) = Len(over) /\ \A i \in 1 .. Len(over) : long[i] = part(i)
    BY <2>1, <2>2, <2>3
  <2>5. /\ ReadAll(FlattenSeq(long)) = FlattenSeq(m)
        /\ m \in Seq(Seq(Place))
        /\ Len(m) = Len(over)
        /\ \A i \in 1 .. Len(over) : m[i] = ReadAll(long[i])
    BY <2>4, ReadFlatten
  <2>6. r \in Seq(Seq(Place))
    <3> DEFINE Q == Seq(Place)
    <3>1. \A para \in P : SplitRead[para] \in Q
      BY <1>2
    <3> HIDE DEF Q, r
    <3>2. r \in Seq(Q)
      BY <2>1, <3>1, MappedType DEF r
    <3>3. QED
      BY <3>2 DEF Q
  <2>7. Len(r) = Len(over) /\ \A i \in 1 .. Len(over) : r[i] = SplitRead[over[i]]
    BY <2>1, MappedIs
  <2> HIDE DEF m, r
  <2>8. \A i \in 1 .. Len(over) : m[i] = r[i]
    BY <2>2, <2>4, <2>5, <2>7, Zenon
  <2>9. m = r
    BY <2>5, <2>6, <2>7, <2>8, SeqEqual
  <2>10. FlattenSeq(long) \in Seq(Texts)
    BY <2>4, FlattenType
  <2>11. QED
    BY <2>4, <2>5, <2>9, <2>10, Zenon DEF r
<1> HIDE DEF long, fit, over
<1>8. CASE TextLen(words) <= Limit
  <2>1. Split(words) = <<words>>
    BY <1>8, Zenon DEF Split
  <2>2. <<words>> \in Seq(Texts)
    OBVIOUS
  <2>3. ReadAll(<<words>>) = Chars(words)
    <3>1. FlattenSeq(<<words>>) = words
      BY FlattenOne DEF Texts
    <3>2. QED
      BY <3>1, Zenon DEF ReadAll
  <2>4. QED
    BY <2>1, <2>2, <2>3, Zenon
<1>9. CASE ~(TextLen(words) <= Limit)
  <2>1. Split(words) = some.chunks \o FlattenSeq(long)
    BY <1>9, Zenon DEF Split, some, sizes, long
  <2>2. ReadAll(some.chunks \o FlattenSeq(long)) = ReadAll(some.chunks) \o ReadAll(FlattenSeq(long))
    BY <1>6, <1>7, ReadKeepsConcat
  <2>3. some.chunks \o FlattenSeq(long) \in Seq(Texts)
    BY <1>6, <1>7
  <2>4. QED
    BY <1>5, <1>6, <1>7, <2>1, <2>2, <2>3, Zenon
<1>10. QED
  BY <1>8, <1>9

(* What is left of the characters when marks are removed.                    *)
Keep(M) == [c \in Place |-> IF c[3] \in M THEN << >> ELSE <<c>>]
StrippedLine(M) == [line \in Seq(Place) |-> Stripped(line, M)]
StrippedPara(M) == [para \in Seq(Seq(Place)) |-> Mapped(para, StrippedLine(M))]
Without(S, M) == {c \in S : c[3] \notin M}

LEMMA MappedConcat ==
  ASSUME NEW A, NEW F, NEW s \in Seq(A), NEW t \in Seq(A)
  PROVE  Mapped(s \o t, F) = Mapped(s, F) \o Mapped(t, F)
<1> DEFINE B == {F[a] : a \in A}
           u == s \o t
           x == Mapped(s, F)
           y == Mapped(t, F)
           z == Mapped(u, F)
           v == x \o y
           m == Len(s)
           n == Len(t)
<1>1. \A a \in A : F[a] \in B
  OBVIOUS
<1>2. /\ u \in Seq(A) /\ Len(u) = m + n /\ m \in Nat /\ n \in Nat
      /\ \A i \in 1 .. m : u[i] = s[i]
      /\ \A i \in 1 .. m + n : i \notin 1 .. m => i - m \in 1 .. n /\ u[i] = t[i - m]
  OBVIOUS
<1> HIDE DEF B, u
<1>3. x \in Seq(B) /\ y \in Seq(B) /\ z \in Seq(B)
  BY <1>1, <1>2, MappedType
<1>4. /\ Len(x) = m /\ \A i \in 1 .. m : x[i] = F[s[i]]
      /\ Len(y) = n /\ \A i \in 1 .. n : y[i] = F[t[i]]
      /\ Len(z) = Len(u) /\ \A i \in 1 .. Len(u) : z[i] = F[u[i]]
  <2>1. u \in Seq(A)
    BY <1>2
  <2>2. Len(x) = m /\ \A i \in 1 .. m : x[i] = F[s[i]]
    BY MappedIs
  <2>3. Len(y) = n /\ \A i \in 1 .. n : y[i] = F[t[i]]
    BY MappedIs
  <2>4. Len(z) = Len(u) /\ \A i \in 1 .. Len(u) : z[i] = F[u[i]]
    BY <2>1, MappedIs
  <2>5. QED
    BY <2>2, <2>3, <2>4
<1> HIDE DEF x, y, z
<1>5. /\ v \in Seq(B) /\ Len(v) = Len(x) + Len(y)
      /\ \A i \in 1 .. Len(x) : v[i] = x[i]
      /\ \A i \in 1 .. Len(x) + Len(y) : i \notin 1 .. Len(x) =>
            i - Len(x) \in 1 .. Len(y) /\ v[i] = y[i - Len(x)]
  BY <1>3
<1> HIDE DEF m, n, v
<1>6. ASSUME NEW i \in 1 .. m + n
      PROVE  z[i] = v[i]
  <2>1. z[i] = F[u[i]]
    BY <1>2, <1>4
  <2>2. CASE i \in 1 .. m
    <3>1. u[i] = s[i] /\ v[i] = x[i] /\ x[i] = F[s[i]]
      BY <1>2, <1>4, <1>5, <2>2
    <3>2. QED
      BY <2>1, <3>1
  <2>3. CASE i \notin 1 .. m
    <3>1. u[i] = t[i - m] /\ i - m \in 1 .. n
      BY <1>2, <2>3, Zenon
    <3>2. y[i - m] = F[t[i - m]]
      BY <1>4, <3>1, Zenon
    <3>3. Len(x) = m /\ Len(y) = n
      BY <1>4, Zenon
    <3>4. v[i] = y[i - m]
      BY <1>5, <2>3, <3>3, Zenon
    <3>5. QED
      BY <2>1, <3>1, <3>2, <3>4, Zenon
  <2>4. QED
    BY <2>2, <2>3
<1>7. z = v
  <2>1. Len(z) = m + n /\ Len(v) = m + n
    BY <1>2, <1>4, <1>5, Zenon
  <2>2. QED
    BY <1>3, <1>5, <1>6, <2>1, SeqEqual
<1>8. QED
  BY <1>7 DEF u, v, x, y, z

LEMMA KeepOne ==
  ASSUME NEW M, NEW c \in Place, NEW R
  PROVE  Keep(M)[c] \in Seq(Place) /\ Sorted(Keep(M)[c], R) /\ Range(Keep(M)[c]) = Without({c}, M) /\ Len(Keep(M)[c]) <= 1
<1> DEFINE P == Place
<1>1. CASE c[3] \notin M
  <2>1. Keep(M)[c] = <<c>> /\ Without({c}, M) = {c}
    BY <1>1 DEF Keep, Without
  <2> HIDE DEF P
  <2>2. c \in P /\ <<c>> \in Seq(P) /\ Len(<<c>>) = 1
    BY DEF P
  <2>3. Sorted(<<c>>, R) /\ Range(<<c>>) = {c}
    BY <2>2, SortedSingle
  <2>4. QED
    BY <2>1, <2>2, <2>3 DEF P
<1>2. CASE c[3] \in M
  <2>1. Keep(M)[c] = << >> /\ Without({c}, M) = {} /\ << >> \in Seq(Place) /\ Len(<< >>) = 0
    BY <1>2 DEF Keep, Without
  <2>2. Sorted(<< >>, R) /\ Range(<< >>) = {} /\ Len(<< >>) <= 1
    BY <2>1, SortedEmpty
  <2>3. QED
    BY <2>1, <2>2, Zenon
<1>3. QED
  BY <1>1, <1>2

LEMMA StrippedSteps ==
  ASSUME NEW M
  PROVE  /\ Stripped(<< >>, M) = << >>
         /\ \A s \in Seq(Place) : Stripped(s, M) = FlattenSeq(Mapped(s, Keep(M))) /\ Stripped(s, M) \in Seq(Place)
         /\ \A s, t \in Seq(Place) : Stripped(s \o t, M) = Stripped(s, M) \o Stripped(t, M)
<1>1. \A c \in Place : Keep(M)[c] \in Seq(Place)
  BY KeepOne
<1>2. ASSUME NEW s \in Seq(Place)
      PROVE  Stripped(s, M) = FlattenSeq(Mapped(s, Keep(M))) /\ Stripped(s, M) \in Seq(Place)
             /\ Mapped(s, Keep(M)) \in Seq(Seq(Place))
  <2>1. \A k \in DOMAIN s : s[k] \in Place
    OBVIOUS
  <2>2. \A c \in Place : Keep(M)[c] = IF c[3] \in M THEN << >> ELSE <<c>>
    BY DEF Keep
  <2>3. [k \in DOMAIN s |-> IF s[k][3] \in M THEN << >> ELSE <<s[k]>>] = [k \in DOMAIN s |-> Keep(M)[s[k]]]
    BY <2>1, <2>2
  <2>4. Stripped(s, M) = FlattenSeq(Mapped(s, Keep(M)))
    BY <2>3, Zenon DEF Stripped, Mapped
  <2> DEFINE P == Place
             Q == Seq(Place)
  <2>5. \A c \in P : Keep(M)[c] \in Q
    BY <1>1
  <2>6. s \in Seq(P)
    OBVIOUS
  <2> HIDE DEF P, Q
  <2>7. Mapped(s, Keep(M)) \in Seq(Q)
    BY <2>5, <2>6, MappedType
  <2>8. Mapped(s, Keep(M)) \in Seq(Seq(Place))
    BY <2>7 DEF Q
  <2>9. QED
    BY <2>4, <2>8, FlattenType
<1>3. Stripped(<< >>, M) = << >>
  <2>1. << >> \in Seq(Place) /\ Mapped(<< >>, Keep(M)) = << >>
    BY DEF Mapped
  <2>2. QED
    BY <1>2, <2>1, FlattenEmpty, Zenon
<1>4. ASSUME NEW s \in Seq(Place), NEW t \in Seq(Place)
      PROVE  Stripped(s \o t, M) = Stripped(s, M) \o Stripped(t, M)
  <2>1. s \o t \in Seq(Place)
    OBVIOUS
  <2>2. Mapped(s \o t, Keep(M)) = Mapped(s, Keep(M)) \o Mapped(t, Keep(M))
    BY MappedConcat
  <2>3. PICK x \in Seq(Seq(Place)), y \in Seq(Seq(Place)) : x = Mapped(s, Keep(M)) /\ y = Mapped(t, Keep(M))
    BY <1>2
  <2>4. FlattenSeq(x \o y) = FlattenSeq(x) \o FlattenSeq(y)
    BY FlattenConcat
  <2>5. QED
    BY <1>2, <2>1, <2>2, <2>3, <2>4, Zenon
<1>5. QED
  BY <1>2, <1>3, <1>4

LEMMA StrippedKeeps ==
  ASSUME NEW M, NEW R, NEW s \in Seq(Place)
  PROVE  /\ Sorted(s, R) => Sorted(Stripped(s, M), R)
         /\ Range(Stripped(s, M)) = Without(Range(s), M)
<1> DEFINE P == Place
           All == P \X P
<1>1. \A c \in P : Keep(M)[c] \in Seq(Place) /\ Range(Keep(M)[c]) = Without({c}, M)
  BY KeepOne
<1>2. \A p \in Range(s) : p \in P
  BY DEF Range
<1>3. Content(s, Keep(M)) = Without(Range(s), M)
  <2>1. \A p \in Range(s) : Range(Keep(M)[p]) = Without({p}, M)
    BY <1>1, <1>2
  <2>2. QED
    BY <2>1 DEF Content, Without
<1>4. s \in Seq(P) /\ DOMAIN s = 1 .. Len(s) /\ Len(s) \in Nat /\ \A i \in DOMAIN s : s[i] \in P
  OBVIOUS
<1>5. Stripped(s, M) = FlattenSeq(Mapped(s, Keep(M)))
  BY StrippedSteps
<1> HIDE DEF P
<1>6. ASSUME NEW Q, Sorted(s, Q)
      PROVE  Sorted(Stripped(s, M), Q) /\ Range(Stripped(s, M)) = Without(Range(s), M)
  <2>1. Sorted(s, Ahead(P, Keep(M), Q))
    <3>1. SUFFICES ASSUME NEW j \in DOMAIN s, NEW i \in 1 .. j - 1
                   PROVE  <<s[i], s[j]>> \in Ahead(P, Keep(M), Q)
      BY DEF Sorted
    <3>2. i \in DOMAIN s
      BY <1>4
    <3>3. PICK c \in P, d \in P : c = s[i] /\ d = s[j]
      BY <1>4, <3>2
    <3>4. <<c, d>> \in Q
      BY <1>6, <3>3 DEF Sorted
    <3>5. Range(Keep(M)[c]) \subseteq {c} /\ Range(Keep(M)[d]) \subseteq {d}
      BY <1>1 DEF Without
    <3>6. Range(Keep(M)[c]) \X Range(Keep(M)[d]) \subseteq Q
      BY <3>4, <3>5
    <3>7. <<c, d>> \in Ahead(P, Keep(M), Q)
      BY <3>6 DEF Ahead
    <3>8. QED
      BY <3>3, <3>7
  <2>2. \A p \in Range(s) : Sorted(Keep(M)[p], Q) /\ Range(Keep(M)[p]) = Range(Keep(M)[p])
    BY <1>2, KeepOne DEF P
  <2>3. \A c \in P : Keep(M)[c] \in Seq(Place)
    BY <1>1
  <2>4. /\ Sorted(FlattenSeq(Mapped(s, Keep(M))), Q)
        /\ Range(FlattenSeq(Mapped(s, Keep(M)))) = Content(s, Keep(M))
    BY <1>4, <2>1, <2>2, <2>3, MappedSorted
  <2>5. QED
    BY <1>3, <1>5, <2>4, Zenon
<1>7. Range(Stripped(s, M)) = Without(Range(s), M)
  <2>1. Sorted(s, All)
    <3>1. \A j \in DOMAIN s : \A i \in 1 .. j - 1 : i \in DOMAIN s
      BY <1>4
    <3>2. QED
      BY <1>4, <3>1 DEF Sorted
  <2>2. QED
    BY <1>6, <2>1
<1>8. QED
  BY <1>6, <1>7

LEMMA StrippedShorter ==
  ASSUME NEW M, NEW s \in Seq(Place)
  PROVE  Len(Stripped(s, M)) <= Len(s)
<1> DEFINE T == {t \in Seq(Place) : Len(Stripped(t, M)) <= Len(t)}
           P == Place
<1>1. << >> \in T
  <2>1. << >> \in Seq(Place) /\ Len(<< >>) <= Len(<< >>)
    OBVIOUS
  <2>2. QED
    BY <2>1, StrippedSteps
<1>2. ASSUME NEW t \in Seq(P), NEW c \in P, t \in T
      PROVE  Append(t, c) \in T
  <2>1. t \in Seq(Place) /\ c \in Place /\ <<c>> \in Seq(P)
    <3> HIDE DEF P
    <3>1. <<c>> \in Seq(P)
      OBVIOUS
    <3>2. QED
      BY <3>1 DEF P
  <2>2. Append(t, c) = t \o <<c>> /\ Append(t, c) \in Seq(Place) /\ Len(Append(t, c)) = Len(t) + 1
    <3> HIDE DEF P, T
    <3>1. Append(t, c) = t \o <<c>> /\ Append(t, c) \in Seq(P) /\ Len(Append(t, c)) = Len(t) + 1
      OBVIOUS
    <3>2. QED
      BY <3>1 DEF P
  <2>3. PICK k \in Seq(Place) : k = Keep(M)[c] /\ Len(k) <= 1
    BY <2>1, KeepOne
  <2>4. Stripped(<<c>>, M) = k
    <3>1. Mapped(<<c>>, Keep(M)) = <<Keep(M)[c]>>
      <4>1. DOMAIN <<c>> = {1} /\ <<c>>[1] = c
        OBVIOUS
      <4>2. Mapped(<<c>>, Keep(M)) = [i \in {1} |-> Keep(M)[c]]
        BY <4>1 DEF Mapped
      <4>3. [i \in {1} |-> Keep(M)[c]] = <<Keep(M)[c]>>
        OBVIOUS
      <4>4. QED
        BY <4>2, <4>3
    <3>2. FlattenSeq(<<k>>) = k
      BY FlattenOne
    <3>3. <<c>> \in Seq(Place)
      BY <2>1 DEF P
    <3>4. Stripped(<<c>>, M) = FlattenSeq(Mapped(<<c>>, Keep(M)))
      BY <3>3, StrippedSteps
    <3>5. QED
      BY <2>3, <3>1, <3>2, <3>4, Zenon
  <2>5. PICK u \in Seq(Place) : u = Stripped(t, M) /\ Len(u) <= Len(t)
    BY <1>2, StrippedSteps
  <2>6. Stripped(t \o <<c>>, M) = Stripped(t, M) \o Stripped(<<c>>, M)
    BY <2>1, StrippedSteps DEF P
  <2>7. Len(u \o k) <= Len(t) + 1
    BY <2>3, <2>5
  <2>8. Stripped(Append(t, c), M) = u \o k
    BY <2>2, <2>4, <2>5, <2>6, Zenon
  <2>9. QED
    BY <2>2, <2>7, <2>8
<1> HIDE DEF T, P
<1>3. \A t \in Seq(P), c \in P : t \in T => Append(t, c) \in T
  BY <1>2
<1>4. Seq(P) \subseteq T
  BY <1>1, <1>3, SeqInduction
<1>5. QED
  BY <1>4 DEF T, P

-----------------------------------------------------------------------------
(* The plain text: the chunks are joined again and lose their markup.        *)

(* The plain text reads as what is left of the characters.                   *)
LEMMA UntaggedReads ==
  ASSUME NEW words \in Texts
  PROVE  /\ Untagged(words) \in Texts
         /\ Chars(Untagged(words)) = PlainLine(Chars(words))
         /\ Len(Untagged(words)) = Len(words)
         /\ \A p \in 1 .. Len(words) :
              /\ FlattenSeq(Untagged(words)[p]) = PlainLine(FlattenSeq(words[p]))
              /\ Len(Untagged(words)[p]) = Len(words[p])
<1> DEFINE Lines == StrippedLine(Marks \ {Torn})
           Paras == StrippedPara(Marks \ {Torn})
           L == Seq(Place)
           P == Seq(L)
<1>0. /\ PlainLine(<< >>) = << >>
      /\ \A s \in Seq(Place) : PlainLine(s) \in Seq(Place)
      /\ \A s, t \in Seq(Place) : PlainLine(s \o t) = PlainLine(s) \o PlainLine(t)
  <2>1. PICK M : M = Marks \ {Torn}
    OBVIOUS
  <2>2. \A s : PlainLine(s) = Stripped(s, M)
    BY <2>1 DEF PlainLine
  <2>3. /\ Stripped(<< >>, M) = << >>
        /\ \A s \in Seq(Place) : Stripped(s, M) \in Seq(Place)
        /\ \A s, t \in Seq(Place) : Stripped(s \o t, M) = Stripped(s, M) \o Stripped(t, M)
    BY StrippedSteps
  <2>4. QED
    BY <2>2, <2>3, Zenon
<1>1. /\ \A l \in L : Lines[l] = PlainLine(l) /\ Lines[l] \in L
      /\ Lines[<< >>] = << >>
      /\ \A l, m \in L : Lines[l \o m] = Lines[l] \o Lines[m]
  <2>1. \A l \in L : Lines[l] = PlainLine(l) /\ Lines[l] \in L
    BY <1>0 DEF StrippedLine, PlainLine
  <2>2. << >> \in L /\ \A l, m \in L : l \o m \in L
    OBVIOUS
  <2>3. Lines[<< >>] = << >>
    BY <1>0, <2>1, <2>2, Zenon
  <2>4. ASSUME NEW l \in L, NEW m \in L
        PROVE  Lines[l \o m] = Lines[l] \o Lines[m]
    <3>1. PlainLine(l \o m) = PlainLine(l) \o PlainLine(m)
      BY <1>0
    <3>2. QED
      BY <2>1, <2>2, <3>1, Zenon
  <2>5. QED
    BY <2>1, <2>3, <2>4
<1>2. \A para \in P : FlattenSeq(para) \in L /\ Lines[FlattenSeq(para)] = FlattenSeq(Mapped(para, Lines))
  <2>1. \A para \in P : FlattenSeq(para) \in L
    BY FlattenType
  <2>2. \A ss \in Seq(Seq(Place)) : Lines[FlattenSeq(ss)] = FlattenSeq(Mapped(ss, Lines))
    BY <1>1, FlattenMapped
  <2>3. QED
    BY <2>1, <2>2
<1>3. words \in Seq(P) /\ Texts = Seq(P)
  BY DEF Texts
<1>4. \A para \in P : Len(para) \in Nat /\ DOMAIN para = 1 .. Len(para) /\ \A l \in DOMAIN para : para[l] \in L
  OBVIOUS
<1>5. \A para \in P : Paras[para] = Mapped(para, Lines)
  BY DEF StrippedPara
<1>6. << >> \in P /\ \A a, b \in P : a \o b \in P
  OBVIOUS
<1> HIDE DEF Lines, Paras, L, P
<1>7. \A para \in P : Paras[para] \in P /\ Len(Paras[para]) = Len(para)
  <2>1. TAKE para \in P
  <2>2. para \in Seq(L)
    BY DEF P
  <2>3. Mapped(para, Lines) \in Seq(L)
    BY <1>1, <2>2, MappedType
  <2>4. Len(Mapped(para, Lines)) = Len(para)
    BY <2>2, MappedIs
  <2>5. QED
    BY <1>5, <2>3, <2>4 DEF P
<1>8. /\ Paras[<< >>] = << >>
      /\ \A a, b \in P : Paras[a \o b] = Paras[a] \o Paras[b]
  <2>1. Mapped(<< >>, Lines) = << >>
    BY DEF Mapped
  <2>2. ASSUME NEW a \in P, NEW b \in P
        PROVE  Paras[a \o b] = Paras[a] \o Paras[b]
    <3>1. a \in Seq(L) /\ b \in Seq(L)
      BY DEF P
    <3>2. Mapped(a \o b, Lines) = Mapped(a, Lines) \o Mapped(b, Lines)
      BY <3>1, MappedConcat
    <3>3. QED
      BY <1>5, <1>6, <3>2, Zenon
  <2>3. QED
    BY <1>5, <1>6, <2>1, <2>2, Zenon
<1>9. Untagged(words) = Mapped(words, Paras)
  <2>1. \A p \in DOMAIN words : words[p] \in P
    BY <1>3
  <2>2. \A p \in DOMAIN words :
           [l \in DOMAIN words[p] |-> PlainLine(words[p][l])] = Paras[words[p]]
    <3>1. TAKE p \in DOMAIN words
    <3>2. \A l \in DOMAIN words[p] : PlainLine(words[p][l]) = Lines[words[p][l]]
      BY <1>1, <1>4, <2>1, Zenon
    <3>3. [l \in DOMAIN words[p] |-> PlainLine(words[p][l])] = [l \in DOMAIN words[p] |-> Lines[words[p][l]]]
      BY <3>2
    <3>4. QED
      BY <1>5, <2>1, <3>3, Zenon DEF Mapped
  <2>3. QED
    BY <2>2 DEF Untagged, Mapped
<1>10. Mapped(words, Paras) \in Seq(P)
  <2>1. \A para \in P : Paras[para] \in P
    BY <1>7
  <2>2. QED
    BY <1>3, <2>1, MappedType
<1>11. /\ Len(Mapped(words, Paras)) = Len(words)
       /\ \A p \in 1 .. Len(words) : Mapped(words, Paras)[p] = Paras[words[p]]
  BY <1>3, MappedIs
<1>12. Chars(Untagged(words)) = PlainLine(Chars(words))
  <2>1. \A para \in Seq(L) : Paras[para] \in Seq(L)
    BY <1>7 DEF P
  <2>2. \A a, b \in Seq(L) : Paras[a \o b] = Paras[a] \o Paras[b]
    BY <1>8 DEF P
  <2>3. \A ss \in Seq(Seq(L)) : Paras[FlattenSeq(ss)] = FlattenSeq(Mapped(ss, Paras))
    BY <1>8, <2>1, <2>2, FlattenMapped
  <2>4. Paras[FlattenSeq(words)] = FlattenSeq(Mapped(words, Paras))
    BY <1>3, <2>3 DEF P
  <2>5. FlattenSeq(words) \in P
    <3>1. words \in Seq(Seq(L))
      BY <1>3 DEF P
    <3>2. QED
      BY <3>1, FlattenType DEF P
  <2>6. FlattenSeq(Mapped(FlattenSeq(words), Lines)) = Lines[FlattenSeq(FlattenSeq(words))]
    BY <1>2, <2>5, Zenon
  <2>7. Lines[FlattenSeq(FlattenSeq(words))] = PlainLine(FlattenSeq(FlattenSeq(words)))
    BY <1>1, <1>2, <2>5, Zenon
  <2>8. QED
    BY <1>5, <1>9, <2>4, <2>5, <2>6, <2>7, Zenon DEF Chars
<1>13. ASSUME NEW p \in 1 .. Len(words)
       PROVE  /\ FlattenSeq(Untagged(words)[p]) = PlainLine(FlattenSeq(words[p]))
              /\ Len(Untagged(words)[p]) = Len(words[p])
  <2>1. words[p] \in P
    BY <1>3
  <2>2. Untagged(words)[p] = Paras[words[p]]
    BY <1>9, <1>11, Zenon
  <2>3. FlattenSeq(Paras[words[p]]) = PlainLine(FlattenSeq(words[p]))
    BY <1>1, <1>2, <1>5, <2>1, Zenon
  <2>4. QED
    BY <1>7, <2>1, <2>2, <2>3, Zenon
<1>14. QED
  BY <1>3, <1>9, <1>10, <1>11, <1>12, <1>13, Zenon

(* The paragraphs of a text that fits.                                       *)
ShortParas == {para \in Seq(Seq(Place)) : ParaLen(para) <= Limit}

LEMMA ShortParagraphs ==
  FittingTexts \subseteq Seq(ShortParas)
<1> DEFINE P == Seq(Seq(Place))
           Good(t) == TextLen(t) \in Int /\ TextLen(t) >= 0 - 2 /\ \A p \in DOMAIN t : ParaLen(t[p]) <= TextLen(t)
           T == {t \in Seq(P) : Good(t)}
<1>1. << >> \in T
  <2>1. << >> \in Seq(P) /\ DOMAIN << >> = {}
    OBVIOUS
  <2>2. TextLen(<< >>) = 0 - 2
    <3>1. Chars(<< >>) = << >> /\ FlattenSeq(<< >>) = << >>
      BY CharsKeepConcat, FlattenEmpty
    <3>2. QED
      BY <3>1 DEF TextLen
  <2>3. QED
    BY <2>1, <2>2
<1>2. ASSUME NEW t \in Seq(P), NEW e \in P, t \in T
      PROVE  Append(t, e) \in T
  <2> DEFINE all == Append(t, e)
             n == Len(t)
  <2>1. TextLen(all) = TextLen(t) + 2 + ParaLen(e)
    BY LongerText
  <2>2. ParaLen(e) \in Int /\ 1 + ParaLen(e) >= 0
    BY ParagraphLength
  <2>3. /\ all \in Seq(P) /\ Len(all) = n + 1 /\ n \in Nat /\ all[n + 1] = e
        /\ \A i \in 1 .. n : all[i] = t[i]
    BY AppendProperties
  <2>4. DOMAIN all = 1 .. n + 1 /\ DOMAIN t = 1 .. n
    BY <2>3
  <2>5. TextLen(t) \in Int /\ TextLen(t) >= 0 - 2 /\ \A p \in DOMAIN t : ParaLen(t[p]) <= TextLen(t)
    BY <1>2
  <2>6. TextLen(all) \in Int /\ TextLen(all) >= 0 - 2 /\ ParaLen(e) <= TextLen(all) /\ TextLen(t) <= TextLen(all)
    BY <2>1, <2>2, <2>5
  <2>7. ASSUME NEW p \in DOMAIN all
        PROVE  ParaLen(all[p]) <= TextLen(all)
    <3> HIDE DEF all, n
    <3>1. CASE p = n + 1
      BY <2>3, <2>6, <3>1
    <3>2. CASE p # n + 1
      <4>1. p \in 1 .. n
        BY <2>3, <2>4, <3>2
      <4>2. t[p] \in Seq(Seq(Place))
        BY <4>1 DEF n
      <4>3. ParaLen(t[p]) \in Int
        BY <4>2, ParagraphLength
      <4>4. ParaLen(t[p]) <= TextLen(t) /\ all[p] = t[p]
        BY <2>3, <2>4, <2>5, <4>1
      <4>5. QED
        BY <2>5, <2>6, <4>3, <4>4
    <3>3. QED
      BY <3>1, <3>2
  <2>8. QED
    BY <2>3, <2>6, <2>7
<1> HIDE DEF T, P, Good
<1>3. Seq(P) \subseteq T
  BY <1>1, <1>2, SeqInduction
<1>4. SUFFICES ASSUME NEW t \in FittingTexts
               PROVE  t \in Seq(ShortParas)
  OBVIOUS
<1>5. t \in Seq(P) /\ TextLen(t) <= Limit
  BY DEF FittingTexts, Texts, P
<1>6. t \in T
  BY <1>3, <1>5
<1>7. TextLen(t) \in Int /\ \A p \in DOMAIN t : ParaLen(t[p]) <= TextLen(t)
  BY <1>6 DEF T, Good
<1>8. \A p \in DOMAIN t : t[p] \in ShortParas
  <2>1. TAKE p \in DOMAIN t
  <2>2. t[p] \in Seq(Seq(Place))
    BY <1>5 DEF P
  <2>3. ParaLen(t[p]) \in Int
    BY <2>2, ParagraphLength
  <2>4. ParaLen(t[p]) <= Limit
    BY <1>5, <1>7, <2>3, AnswersAssumption
  <2>5. QED
    BY <2>2, <2>4 DEF ShortParas
<1>9. QED
  BY <1>5, <1>8

(* The chunks joined again, step by step.                                    *)
LEMMA MendSteps ==
  ASSUME NEW P, NEW parts \in Seq(P)
  PROVE  \E h : /\ h[0] = << >>
                /\ \A i \in 1 .. Len(parts) : h[i] = Mend(parts, h[i - 1], i)
                /\ Mended(parts) = h[Len(parts)]
<1> DEFINE n == Len(parts)
           seq == [i \in DOMAIN parts |-> i]
           Of(acc, i) == Mend(parts, acc, i)
           Step(g, S) == IF S = {} THEN << >> ELSE Of(g[S \ {Max(S)}], seq[Max(S)])
           Rec(g, k) == g = [S \in SUBSET (1 .. k) |-> Step(g, S)]
           Fold(g) == g = [S \in SUBSET DOMAIN seq |-> Step(g, S)]
<1>1. n \in Nat /\ DOMAIN parts = 1 .. n
  OBVIOUS
<1>2. DOMAIN seq = 1 .. n /\ \A i \in 1 .. n : seq[i] = i
  BY <1>1
<1>3. Mended(parts) = (CHOOSE g : Fold(g))[DOMAIN seq]
  BY DEF Mended, FoldLeftDomain, FoldLeft, MapThenFoldSet
<1> HIDE DEF n, seq, Of
<1>4. \A g, S : S # {} => Step(g, S) = Of(g[S \ {Max(S)}], seq[Max(S)])
  OBVIOUS
<1>5. \A g : Step(g, {}) = << >>
  OBVIOUS
<1>6. \A g, e, S : g[S \ {Max(S)}] = e[S \ {Max(S)}] => Step(g, S) = Step(e, S)
  OBVIOUS
<1> HIDE DEF Step
<1>7. \A k \in Nat : \E g : Rec(g, k)
  <2> DEFINE K == {k \in Nat : \E g : Rec(g, k)}
  <2>1. 0 \in K
    <3> DEFINE g == [S \in SUBSET (1 .. 0) |-> << >>]
    <3>1. \A S \in SUBSET (1 .. 0) : Step(g, S) = << >>
      <4>1. \A S \in SUBSET (1 .. 0) : S = {}
        BY UpTo
      <4> HIDE DEF g
      <4>2. QED
        BY <1>5, <4>1
    <3>2. Rec(g, 0)
      BY <3>1
    <3>3. QED
      BY <3>2
  <2>2. ASSUME NEW k \in Nat, k \in K
        PROVE  k + 1 \in K
    <3>1. PICK g : Rec(g, k)
      BY <2>2
    <3> DEFINE e == [S \in SUBSET (1 .. k + 1) |->
                       IF k + 1 \in S THEN Of(g[S \ {k + 1}], seq[k + 1]) ELSE g[S]]
    <3>2. \A S \in SUBSET (1 .. k) : e[S] = g[S]
      <4>1. \A S \in SUBSET (1 .. k) : S \in SUBSET (1 .. k + 1) /\ k + 1 \notin S
        BY UpTo
      <4>2. QED
        BY <4>1
    <3>3. \A S \in SUBSET (1 .. k) : e[S] = Step(e, S)
      <4>1. TAKE S \in SUBSET (1 .. k)
      <4>2. S \ {Max(S)} \in SUBSET (1 .. k)
        OBVIOUS
      <4>3. e[S \ {Max(S)}] = g[S \ {Max(S)}]
        BY <3>2, <4>2
      <4> HIDE DEF e
      <4>4. g[S] = Step(g, S)
        BY <3>1
      <4>5. QED
        BY <1>6, <3>2, <4>3, <4>4
    <3>4. \A S \in SUBSET (1 .. k + 1) : k + 1 \in S => e[S] = Step(e, S)
      <4>1. SUFFICES ASSUME NEW S \in SUBSET (1 .. k + 1), k + 1 \in S
                     PROVE  e[S] = Step(e, S)
        BY Zenon
      <4>2. Max(S) = k + 1 /\ S \ {k + 1} \in SUBSET (1 .. k) /\ S # {}
        BY <4>1, LastIsMax, UpTo
      <4>3. e[S] = Of(g[S \ {k + 1}], seq[k + 1])
        BY <4>1
      <4> HIDE DEF e
      <4>4. e[S \ {k + 1}] = g[S \ {k + 1}]
        BY <3>2, <4>2
      <4>5. QED
        BY <1>4, <4>2, <4>3, <4>4, Zenon
    <3>5. \A S \in SUBSET (1 .. k + 1) : e[S] = Step(e, S)
      <4>1. \A S \in SUBSET (1 .. k + 1) : k + 1 \in S \/ S \in SUBSET (1 .. k)
        BY UpTo
      <4> HIDE DEF e
      <4>2. QED
        BY <3>3, <3>4, <4>1
    <3>6. Rec(e, k + 1)
      <4>1. e = [S \in SUBSET (1 .. k + 1) |-> e[S]]
        OBVIOUS
      <4> HIDE DEF e
      <4>2. QED
        BY <3>5, <4>1
    <3>7. \E f : Rec(f, k + 1)
      <4> HIDE DEF e, Rec
      <4>1. QED
        BY <3>6
    <3>8. QED
      BY <3>7
  <2>3. QED
    <3> HIDE DEF K
    <3>1. \A k \in Nat : k \in K
      BY <2>1, <2>2, Induction
    <3>2. QED
      BY <3>1 DEF K
<1>8. PICK g : Rec(g, n) /\ Mended(parts) = g[1 .. n]
  <2>1. \E g : Fold(g)
    <3>1. PICK g : Rec(g, n)
      BY <1>1, <1>7 DEF n
    <3>2. Fold(g)
      BY <1>2, <3>1
    <3>3. QED
      BY <3>2
  <2>2. Fold(CHOOSE g : Fold(g))
    <3> HIDE DEF Fold
    <3>1. QED
      BY <2>1
  <2>3. QED
    BY <1>2, <1>3, <2>2
<1> DEFINE h == [i \in 0 .. n |-> g[1 .. i]]
<1>9. h[0] = << >>
  <2>1. h[0] = g[{}] /\ {} \in SUBSET (1 .. n)
    BY <1>1, UpTo
  <2> HIDE DEF h
  <2>2. g[{}] = Step(g, {})
    BY <1>8, <2>1
  <2>3. QED
    BY <1>5, <2>1, <2>2
<1>10. ASSUME NEW i \in 1 .. n
       PROVE  h[i] = Mend(parts, h[i - 1], i)
  <2>1. i - 1 \in Nat /\ (i - 1) + 1 = i /\ i \in 0 .. n /\ i - 1 \in 0 .. n
    BY <1>1
  <2>2. h[i] = g[1 .. i] /\ h[i - 1] = g[1 .. i - 1]
    BY <2>1
  <2> HIDE DEF h
  <2>3. 1 .. i \in SUBSET (1 .. n) /\ i \in 1 .. i
    BY <1>1
  <2>4. Max(1 .. i) = i
    BY <2>1, <2>3, LastIsMax
  <2>5. (1 .. i) \ {i} = 1 .. i - 1 /\ 1 .. i # {}
    BY <2>1, UpTo
  <2>6. g[1 .. i] = Step(g, 1 .. i)
    BY <1>8, <2>3
  <2>7. g[1 .. i] = Of(g[1 .. i - 1], seq[i])
    BY <1>4, <2>4, <2>5, <2>6, Zenon
  <2>8. seq[i] = i
    BY <1>2
  <2>9. QED
    BY <2>2, <2>7, <2>8 DEF Of
<1>11. Mended(parts) = h[n]
  BY <1>1, <1>8
<1>12. QED
  <2> HIDE DEF h
  <2>1. QED
    BY <1>9, <1>10, <1>11 DEF n

LEMMA FrontAndLast ==
  ASSUME NEW S, NEW s \in Seq(S), NEW e \in S
  PROVE  /\ Append(s, e) \in Seq(S) /\ Append(s, e) # << >>
         /\ Front(Append(s, e)) = s /\ Last(Append(s, e)) = e
<1> DEFINE all == Append(s, e)
           front == SubSeq(all, 1, Len(s))
<1>1. /\ all \in Seq(S) /\ Len(all) = Len(s) + 1 /\ all # << >> /\ Len(s) \in Nat
      /\ all[Len(s) + 1] = e /\ \A i \in 1 .. Len(s) : all[i] = s[i]
  <2>1. /\ all \in Seq(S) /\ Len(all) = Len(s) + 1
        /\ all[Len(s) + 1] = e /\ \A i \in 1 .. Len(s) : all[i] = s[i]
    BY AppendProperties
  <2>2. all # << >>
    BY AppendProperties
  <2>3. QED
    BY <2>1, <2>2
<1> HIDE DEF all
<1>2. \A i \in 1 .. Len(s) : all[i] \in S
  BY <1>1
<1>3. front \in Seq(S) /\ Len(front) = Len(s) /\ \A i \in 1 .. Len(s) : front[i] = all[i]
  <2>1. PICK n \in Nat : n = Len(s)
    BY <1>1
  <2>2. /\ SubSeq(all, 1, n) \in Seq(S)
        /\ Len(SubSeq(all, 1, n)) = IF 1 <= n THEN n - 1 + 1 ELSE 0
        /\ \A i \in 1 .. n - 1 + 1 : SubSeq(all, 1, n)[i] = all[1 + i - 1]
    BY <1>1, <1>2, <2>1, SubSeqProperties
  <2>3. QED
    BY <2>1, <2>2
<1> HIDE DEF front
<1>4. \A i \in 1 .. Len(s) : front[i] = s[i]
  BY <1>1, <1>3
<1>5. front = s
  BY <1>3, <1>4, SeqEqual
<1>6. Len(all) - 1 = Len(s)
  BY <1>1
<1>7. Front(all) = s
  BY <1>5, <1>6, Zenon DEF Front, front
<1>8. Last(all) = e
  BY <1>1, Zenon DEF Last
<1>9. QED
  BY <1>1, <1>7, <1>8 DEF all

LEMMA CharsAppend ==
  ASSUME NEW t \in Texts, NEW q \in Seq(Seq(Place))
  PROVE  Append(t, q) \in Texts /\ Chars(Append(t, q)) = Chars(t) \o FlattenSeq(q)
<1> DEFINE P == Seq(Seq(Place))
<1>1. Texts = Seq(P)
  BY DEF Texts
<1>2. PICK u \in Texts : u = <<q>>
  <2>1. q \in P
    OBVIOUS
  <2> HIDE DEF P
  <2>2. <<q>> \in Seq(P)
    BY <2>1
  <2>3. QED
    BY <1>1, <2>2
<1>3. Append(t, q) = t \o u /\ Append(t, q) \in Texts
  <2>1. t \in Seq(P) /\ q \in P
    BY <1>1
  <2> HIDE DEF P
  <2>2. Append(t, q) = t \o <<q>> /\ Append(t, q) \in Seq(P)
    BY <2>1
  <2>3. QED
    BY <1>1, <1>2, <2>2
<1>4. Chars(t \o u) = Chars(t) \o Chars(u)
  BY CharsKeepConcat
<1>5. Chars(u) = FlattenSeq(q)
  <2>1. FlattenSeq(<<q>>) = q
    BY FlattenOne
  <2>2. QED
    BY <1>2, <2>1, Zenon DEF Chars
<1>6. QED
  BY <1>3, <1>4, <1>5, Zenon

(* The chunks joined again: the same characters, in paragraphs that are there*)
(* already or are joined of parted ones, whose characters are in D.          *)
LEMMA MendedReads ==
  ASSUME NEW words \in Texts, NEW D,
         \A i \in 1 .. Len(words) - 1 : EndsOpen(words[i]) =>
           /\ Range(FlattenSeq(words[i])) \subseteq D
           /\ Range(FlattenSeq(words[i + 1])) \subseteq D
  PROVE  /\ Mended(words) \in Texts
         /\ Chars(Mended(words)) = Chars(words)
         /\ \A p \in DOMAIN Mended(words) :
              \/ Mended(words)[p] \in Range(words)
              \/ Range(FlattenSeq(Mended(words)[p])) \subseteq D
<1> DEFINE P == Seq(Seq(Place))
           n == Len(words)
           In(q) == Range(FlattenSeq(q)) \subseteq D
           Kept(q) == q \in Range(words) \/ In(q)
           Upto(i) == SubSeq(words, 1, i)
           Good(acc, i) ==
             /\ acc \in Texts /\ (i > 0 => acc # << >>)
             /\ Chars(acc) = Chars(Upto(i))
             /\ \A p \in DOMAIN acc : Kept(acc[p])
             /\ i > 0 => Last(acc) = words[i] \/ In(Last(acc))
<1>1. Texts = Seq(P) /\ n \in Nat /\ DOMAIN words = 1 .. n /\ \A i \in 1 .. n : words[i] \in P
  BY DEF Texts
<1>2. ASSUME NEW i \in 0 .. n - 1
      PROVE  Upto(i) \in Texts /\ Upto(i + 1) = Append(Upto(i), words[i + 1])
  <2>1. /\ i + 1 \in Nat /\ i \in Nat /\ 1 <= i + 1 /\ i + 1 <= n
    BY <1>1
  <2>2. words \in Seq(P)
    BY <1>1
  <2> HIDE DEF P, n
  <2>3. \A j \in 1 .. i + 1 : words[j] \in P
    BY <1>1, <2>1
  <2>4. /\ SubSeq(words, 1, i) \in Seq(P)
    BY <2>1, <2>3, SubSeqProperties
  <2>5. SubSeq(words, 1, i + 1) = Append(SubSeq(words, 1, i), words[i + 1])
    <3>1. SubSeq(words, 1, i + 1) = Append(SubSeq(words, 1, (i + 1) - 1), words[i + 1])
      BY <2>1, <2>2, <2>3, SubSeqRecursiveSecond DEF n
    <3>2. (i + 1) - 1 = i
      BY <2>1
    <3>3. QED
      BY <3>1, <3>2, Zenon
  <2>6. QED
    BY <1>1, <2>4, <2>5
<1>3. Good(<< >>, 0)
  <2>1. << >> \in Texts /\ DOMAIN << >> = {}
    BY <1>1
  <2>2. Chars(Upto(0)) = Chars(<< >>)
    <3>1. SubSeq(words, 1, 0) = << >>
      BY SubSeqEmpty
    <3>2. QED
      BY <3>1, Zenon
  <2>3. ~(0 > 0)
    OBVIOUS
  <2> HIDE DEF P, n, In, Upto, Kept
  <2>4. QED
    BY <2>1, <2>2, <2>3
<1> HIDE DEF P, n, In, Upto
<1>4. ASSUME NEW acc \in Texts, NEW q \in P, Kept(q), \A p \in DOMAIN acc : Kept(acc[p])
      PROVE  \A p \in DOMAIN Append(acc, q) : Kept(Append(acc, q)[p])
  <2>1. acc \in Seq(P)
    BY <1>1
  <2>2. DOMAIN Append(acc, q) = 1 .. Len(acc) + 1 /\ DOMAIN acc = 1 .. Len(acc) /\ Len(acc) \in Nat
    BY <2>1
  <2>3. Append(acc, q)[Len(acc) + 1] = q /\ \A p \in 1 .. Len(acc) : Append(acc, q)[p] = acc[p]
    BY <2>1, AppendProperties
  <2>4. \A p \in 1 .. Len(acc) + 1 : p \in 1 .. Len(acc) \/ p = Len(acc) + 1
    BY <2>2
  <2> HIDE DEF Kept
  <2>5. QED
    BY <1>4, <2>2, <2>3, <2>4, Zenon
<1>5. ASSUME NEW acc, NEW i \in 0 .. n - 1, Good(acc, i)
      PROVE  Good(Mend(words, acc, i + 1), i + 1)
  <2> DEFINE q == words[i + 1]
             new == Mend(words, acc, i + 1)
  <2>1. i + 1 \in 1 .. n /\ i \in Nat /\ (i + 1) - 1 = i /\ i + 1 > 0 /\ (i + 1 > 1 <=> i > 0)
    BY <1>1
  <2>2. q \in P /\ q \in Range(words)
    BY <1>1, <2>1 DEF Range
  <2>3. Upto(i) \in Texts /\ Chars(Upto(i + 1)) = Chars(Upto(i)) \o FlattenSeq(q)
    <3>1. Upto(i) \in Texts /\ Upto(i + 1) = Append(Upto(i), q)
      BY <1>2
    <3>2. PICK u \in Texts, r \in Seq(Seq(Place)) : u = Upto(i) /\ r = q
      BY <2>2, <3>1 DEF P
    <3>3. Chars(Append(u, r)) = Chars(u) \o FlattenSeq(r)
      BY CharsAppend
    <3>4. QED
      BY <3>1, <3>2, <3>3, Zenon
  <2>4. /\ acc \in Texts /\ Chars(acc) = Chars(Upto(i)) /\ (i > 0 => acc # << >>)
        /\ \A p \in DOMAIN acc : Kept(acc[p])
        /\ i > 0 => Last(acc) = words[i] \/ In(Last(acc))
    BY <1>5
  <2>5. new = IF i > 0 /\ EndsOpen(words[i])
                THEN Append(Front(acc), Joint(Last(acc), q)) ELSE Append(acc, q)
    BY <2>1, Zenon DEF Mend
  <2> HIDE DEF q, new
  <2>6. ASSUME ~(i > 0 /\ EndsOpen(words[i])) PROVE Good(new, i + 1)
    <3>1. new = Append(acc, q)
      BY <2>5, <2>6
    <3>2. acc \in Seq(P)
      BY <1>1, <2>4
    <3>3. new \in Seq(P) /\ new # << >> /\ Last(new) = q
      BY <2>2, <3>1, <3>2, FrontAndLast
    <3>4. Chars(new) = Chars(acc) \o FlattenSeq(q)
      BY <2>2, <2>4, <3>1, CharsAppend DEF P
    <3>5. \A p \in DOMAIN new : Kept(new[p])
      <4>1. Kept(q)
        BY <2>2
      <4> HIDE DEF Kept
      <4>2. QED
        BY <1>4, <2>2, <2>4, <3>1, <4>1, Zenon
    <3> HIDE DEF Kept
    <3>6. QED
      BY <1>1, <2>3, <2>4, <3>3, <3>4, <3>5, Zenon DEF q
  <2>7. ASSUME i > 0, EndsOpen(words[i]) PROVE Good(new, i + 1)
    <3>1. PICK f \in Seq(P), l \in P : acc = Append(f, l)
      <4>1. acc \in Seq(P) /\ acc # << >>
        BY <1>1, <2>4, <2>7
      <4>2. QED
        BY <4>1, SequenceEmptyOrAppend
    <3>2. Front(acc) = f /\ Last(acc) = l
      BY <3>1, FrontAndLast
    <3> DEFINE j == Joint(l, q)
    <3>3. PICK x \in Seq(Place), y \in Seq(Place) : x = FlattenSeq(l) /\ y = FlattenSeq(q)
      BY <2>2, FlattenType DEF P
    <3>4. j \in P /\ FlattenSeq(j) = x \o y
      <4>1. PICK z \in Seq(Place) : z = x \o y
        <5>1. x \o y \in Seq(Place)
          BY ConcatProperties
        <5>2. QED
          BY <5>1
      <4>2. FlattenSeq(<<z>>) = z /\ <<z>> \in Seq(Seq(Place))
        BY FlattenOne
      <4>3. j = <<z>>
        BY <3>3, <4>1 DEF Joint
      <4>4. QED
        BY <4>1, <4>2, <4>3 DEF P
    <3>5. In(j)
      <4>1. Range(FlattenSeq(words[i])) \subseteq D /\ Range(FlattenSeq(words[i + 1])) \subseteq D
        <5>1. i \in 1 .. n - 1
          BY <1>1, <2>1, <2>7
        <5>2. QED
          BY <2>7, <5>1 DEF n
      <4>2. Range(x) \subseteq D
        <5>1. l = words[i] \/ In(l)
          BY <2>4, <2>7, <3>2
        <5>2. QED
          BY <3>3, <4>1, <5>1, Zenon DEF In
      <4>3. Range(y) \subseteq D
        BY <3>3, <4>1, Zenon DEF q
      <4>4. Range(x \o y) = Range(x) \union Range(y)
        BY RangeConcat
      <4> HIDE DEF j
      <4>5. QED
        BY <3>4, <4>2, <4>3, <4>4 DEF In
    <3>6. new = Append(f, j)
      BY <2>5, <2>7, <3>2, Zenon
    <3> HIDE DEF j
    <3>7. new \in Seq(P) /\ new # << >> /\ Last(new) = j
      BY <3>4, <3>6, FrontAndLast
    <3>8. f \in Texts /\ Chars(new) = Chars(f) \o (x \o y) /\ Chars(acc) = Chars(f) \o x
      <4>1. f \in Texts
        BY <1>1
      <4>2. Chars(Append(f, l)) = Chars(f) \o FlattenSeq(l)
        BY <4>1, CharsAppend DEF P
      <4>3. Chars(Append(f, j)) = Chars(f) \o FlattenSeq(j)
        BY <3>4, <4>1, CharsAppend DEF P
      <4>4. QED
        BY <3>1, <3>3, <3>4, <3>6, <4>1, <4>2, <4>3, Zenon
    <3>9. Chars(new) = Chars(Upto(i + 1))
      <4>1. PICK w \in Seq(Place) : w = Chars(f)
        BY <3>8, CharsKeepConcat
      <4>2. w \o (x \o y) = (w \o x) \o y
        BY ConcatAssociative
      <4>3. QED
        BY <2>3, <2>4, <3>3, <3>8, <4>1, <4>2, Zenon
    <3>10. \A p \in DOMAIN new : Kept(new[p])
      <4>1. Kept(j)
        BY <3>5
      <4>2. \A p \in DOMAIN f : Kept(f[p])
        <5>1. \A p \in DOMAIN f : p \in DOMAIN acc /\ acc[p] = f[p]
          BY <3>1
        <5> HIDE DEF Kept
        <5>2. QED
          BY <2>4, <5>1
      <4> HIDE DEF Kept
      <4>3. QED
        BY <1>4, <3>4, <3>6, <3>8, <4>1, <4>2, Zenon
    <3> HIDE DEF Kept
    <3>11. QED
      BY <1>1, <3>5, <3>7, <3>9, <3>10, Zenon
  <2>8. QED
    <3> HIDE DEF Good
    <3>1. QED
      BY <2>6, <2>7 DEF new
<1> HIDE DEF Good
<1>6. PICK h : /\ h[0] = << >>
               /\ \A i \in 1 .. n : h[i] = Mend(words, h[i - 1], i)
               /\ Mended(words) = h[n]
  BY <1>1, MendSteps DEF n
<1>7. Good(h[n], n)
  <2> DEFINE K == {k \in Nat : k \in 0 .. n => Good(h[k], k)}
  <2>1. 0 \in K
    BY <1>3, <1>6
  <2>2. \A k \in Nat : k \in K => k + 1 \in K
    <3>1. SUFFICES ASSUME NEW k \in Nat, k \in K, k + 1 \in 0 .. n
                   PROVE  Good(h[k + 1], k + 1)
      OBVIOUS
    <3>2. k \in 0 .. n /\ k \in 0 .. n - 1 /\ k + 1 \in 1 .. n /\ (k + 1) - 1 = k
      BY <1>1, <3>1
    <3>3. Good(h[k], k)
      BY <3>1, <3>2
    <3>4. h[k + 1] = Mend(words, h[k], k + 1)
      BY <1>6, <3>2, Zenon
    <3>5. QED
      BY <1>5, <3>2, <3>3, <3>4, Zenon
  <2> HIDE DEF K
  <2>3. \A k \in Nat : k \in K
    BY <2>1, <2>2, Induction
  <2>4. n \in 0 .. n
    BY <1>1
  <2>5. QED
    BY <1>1, <2>3, <2>4 DEF K
<1>8. Upto(n) = words
  BY <1>1, SubSeqFull DEF Upto, n
<1>9. QED
  BY <1>6, <1>7, <1>8, Zenon DEF Good, In

(* What of some characters is text.                                          *)
Seen(S) == {c \in S : Visible(c)}

LEMMA PlainReads ==
  ASSUME NEW words \in Texts
  PROVE  /\ Plain(words) \in Texts
         /\ Chars(Plain(words)) = PlainLine(Chars(words))
<1>1. \A i \in 1 .. Len(words) : Range(FlattenSeq(words[i])) \subseteq Place
  <2>1. TAKE i \in 1 .. Len(words)
  <2>2. PICK para \in Seq(Seq(Place)) : para = words[i]
    BY DEF Texts
  <2>3. FlattenSeq(para) \in Seq(Place)
    BY FlattenType
  <2>4. QED
    BY <2>2, <2>3 DEF Range
<1>2. \A i \in 1 .. Len(words) - 1 : i \in 1 .. Len(words) /\ i + 1 \in 1 .. Len(words)
  BY DEF Texts
<1>3. \A i \in 1 .. Len(words) - 1 : EndsOpen(words[i]) =>
         /\ Range(FlattenSeq(words[i])) \subseteq Place
         /\ Range(FlattenSeq(words[i + 1])) \subseteq Place
  BY <1>1, <1>2
<1>4. Mended(words) \in Texts /\ Chars(Mended(words)) = Chars(words)
  BY <1>3, MendedReads
<1>5. PICK m \in Texts : m = Mended(words)
  BY <1>4
<1>6. Untagged(m) \in Texts /\ Chars(Untagged(m)) = PlainLine(Chars(m))
  BY UntaggedReads
<1>7. QED
  BY <1>4, <1>5, <1>6, Zenon DEF Plain

LEMMA PlainLineKeeps ==
  ASSUME NEW R, NEW s \in Seq(Place)
  PROVE  /\ PlainLine(s) \in Seq(Place)
         /\ Sorted(s, R) => Sorted(PlainLine(s), R)
         /\ Range(PlainLine(s)) \subseteq Range(s)
         /\ Seen(Range(PlainLine(s))) = Seen(Range(s))
         /\ Len(PlainLine(s)) <= Len(s)
<1>1. PICK M : M = Marks \ {Torn}
  OBVIOUS
<1>2. /\ Stripped(s, M) \in Seq(Place)
      /\ Sorted(s, R) => Sorted(Stripped(s, M), R)
      /\ Range(Stripped(s, M)) = Without(Range(s), M)
      /\ Len(Stripped(s, M)) <= Len(s)
  BY StrippedSteps, StrippedKeeps, StrippedShorter
<1>3. PlainLine(s) = Stripped(s, M)
  BY <1>1 DEF PlainLine
<1>4. Without(Range(s), M) \subseteq Range(s) /\ Seen(Without(Range(s), M)) = Seen(Range(s))
  BY <1>1 DEF Without, Seen, Visible
<1>5. QED
  BY <1>2, <1>3, <1>4

(* Two parts of an order, when the second may follow all it may precede.     *)
LEMMA EitherOrder ==
  ASSUME NEW R, NEW D, \A c \in Place, d \in D : <<d, c>> \in R => <<c, d>> \in R,
         NEW ss \in Seq(Seq(Place)), Pieces(ss, R),
         NEW i \in DOMAIN ss, NEW j \in DOMAIN ss, i # j, Range(ss[j]) \subseteq D
  PROVE  Range(ss[i]) \X Range(ss[j]) \subseteq R
<1>1. i \in Nat /\ j \in Nat /\ i >= 1 /\ j >= 1 /\ ss[i] \in Seq(Place)
  OBVIOUS
<1>2. CASE i < j
  <2>1. i \in 1 .. j - 1
    BY <1>1, <1>2
  <2>2. QED
    BY <2>1 DEF Pieces
<1>3. CASE j < i
  <2>1. j \in 1 .. i - 1
    BY <1>1, <1>3
  <2>2. Range(ss[j]) \X Range(ss[i]) \subseteq R
    BY <2>1 DEF Pieces
  <2>3. Range(ss[i]) \subseteq Place
    BY <1>1 DEF Range
  <2>4. ASSUME NEW c \in Range(ss[i]), NEW d \in Range(ss[j])
        PROVE  <<c, d>> \in R
    BY <2>2, <2>3
  <2>5. QED
    BY <2>4
<1>4. QED
  BY <1>1, <1>2, <1>3

(* The paragraphs of the plain text that are too long have been joined.      *)
LEMMA PlainLarger ==
  ASSUME NEW R, NEW D, \A c \in Place, d \in D : <<d, c>> \in R => <<c, d>> \in R,
         NEW words \in Seq(ShortParas), Sorted(Chars(words), R),
         \A i \in 1 .. Len(words) - 1 : EndsOpen(words[i]) =>
           /\ Range(FlattenSeq(words[i])) \subseteq D
           /\ Range(FlattenSeq(words[i + 1])) \subseteq D
  PROVE  LargerLater(Plain(words), R)
<1>1. words \in Texts
  BY DEF ShortParas, Texts
<1>2. PICK m \in Texts : /\ m = Mended(words) /\ Chars(m) = Chars(words)
                         /\ \A p \in DOMAIN m : \/ m[p] \in Range(words)
                                                \/ Range(FlattenSeq(m[p])) \subseteq D
  BY <1>1, MendedReads
<1>3. PICK t \in Texts : /\ t = Untagged(m) /\ Chars(t) = PlainLine(Chars(m)) /\ Len(t) = Len(m)
                         /\ \A p \in 1 .. Len(m) : /\ FlattenSeq(t[p]) = PlainLine(FlattenSeq(m[p]))
                                                   /\ Len(t[p]) = Len(m[p])
  BY UntaggedReads
<1>4. /\ DOMAIN t = 1 .. Len(m) /\ DOMAIN m = 1 .. Len(m)
      /\ \A p \in 1 .. Len(m) : t[p] \in Seq(Seq(Place)) /\ m[p] \in Seq(Seq(Place))
  BY <1>3 DEF Texts
<1>5. Sorted(Chars(t), R)
  <2>1. PICK s \in Seq(Place) : s = Chars(m) /\ Sorted(s, R)
    BY <1>2, CharsKeepConcat
  <2>2. Sorted(PlainLine(s), R)
    BY <2>1, PlainLineKeeps
  <2>3. QED
    BY <1>3, <2>1, <2>2, Zenon
<1>6. ASSUME NEW p \in DOMAIN t, ParaLen(t[p]) > Limit
      PROVE  Range(FlattenSeq(t[p])) \subseteq D
  <2>1. PICK para \in Seq(Seq(Place)) : para = m[p]
    BY <1>4
  <2>2. PICK f \in Seq(Place) : f = FlattenSeq(para)
    BY FlattenType
  <2>3. PICK u \in Seq(Place) : u = PlainLine(f) /\ Len(u) <= Len(f) /\ Range(u) \subseteq Range(f)
    BY PlainLineKeeps
  <2>4. FlattenSeq(t[p]) = u /\ Len(t[p]) = Len(para)
    BY <1>3, <1>4, <2>1, <2>2, <2>3
  <2>5. ASSUME para \in Range(words) PROVE FALSE
    <3>1. ParaLen(para) <= Limit
      BY <2>5 DEF ShortParas, Range
    <3>2. ParaLen(t[p]) = Len(u) + Len(para) - 1 /\ ParaLen(para) = Len(f) + Len(para) - 1
      BY <2>2, <2>4 DEF ParaLen
    <3>3. Len(u) \in Nat /\ Len(f) \in Nat /\ Len(para) \in Nat
      OBVIOUS
    <3>4. QED
      BY <1>6, <2>3, <3>1, <3>2, <3>3, AnswersAssumption
  <2>6. Range(f) \subseteq D
    BY <1>2, <1>4, <2>1, <2>2, <2>5
  <2>7. QED
    BY <2>3, <2>4, <2>6
<1>7. PICK joined \in Seq(Seq(Place)) :
         /\ joined = Mapped(t, JoinedLines) /\ Chars(t) = FlattenSeq(joined)
         /\ Len(joined) = Len(t) /\ \A p \in 1 .. Len(t) : joined[p] = FlattenSeq(t[p])
  BY CharsByPara
<1>8. DOMAIN joined = DOMAIN t /\ Pieces(joined, R) /\ \A p \in DOMAIN t : joined[p] = FlattenSeq(t[p])
  <2>1. DOMAIN joined = DOMAIN t /\ \A p \in DOMAIN t : joined[p] = FlattenSeq(t[p])
    BY <1>3, <1>4, <1>7
  <2>2. Sorted(FlattenSeq(joined), R) <=> Pieces(joined, R)
    BY SortedFlatten
  <2>3. QED
    BY <1>5, <1>7, <2>1, <2>2
<1>9. ASSUME NEW p \in DOMAIN t, NEW q \in DOMAIN t, ParaLen(t[p]) <= Limit, ParaLen(t[q]) > Limit
      PROVE  Range(FlattenSeq(t[p])) \X Range(FlattenSeq(t[q])) \subseteq R
  <2>1. p # q
    <3>1. ParaLen(t[p]) \in Int
      BY <1>4, ParagraphLength
    <3>2. QED
      BY <1>9, <3>1, AnswersAssumption
  <2>2. Range(joined[q]) \subseteq D
    BY <1>6, <1>8, <1>9
  <2>3. Range(joined[p]) \X Range(joined[q]) \subseteq R
    BY <1>8, <2>1, <2>2, EitherOrder
  <2>4. QED
    BY <1>8, <2>3
<1>10. ASSUME NEW p \in DOMAIN t, ParaLen(t[p]) > Limit, NEW i \in DOMAIN t[p], NEW j \in DOMAIN t[p],
              Len(t[p][i]) <= Limit, Len(t[p][j]) > Limit
       PROVE  Range(t[p][i]) \X Range(t[p][j]) \subseteq R
  <2>1. PICK para \in Seq(Seq(Place)) : para = t[p]
    BY <1>4
  <2>2. i # j
    <3>1. Len(para[i]) \in Nat
      BY <2>1
    <3>2. QED
      BY <1>10, <2>1, <3>1, AnswersAssumption
  <2>3. Range(FlattenSeq(para)) = Among(para) /\ (Sorted(FlattenSeq(para), R) <=> Pieces(para, R))
    BY SortedFlatten
  <2>4. Pieces(para, R)
    <3>1. Sorted(joined[p], R)
      BY <1>8 DEF Pieces
    <3>2. QED
      BY <1>8, <2>1, <2>3, <3>1, Zenon
  <2>5. Range(para[j]) \subseteq D
    <3>1. Range(para[j]) \subseteq Among(para)
      BY <2>1 DEF Among
    <3>2. Among(para) \subseteq D
      BY <1>6, <1>10, <2>1, <2>3, Zenon
    <3>3. QED
      BY <3>1, <3>2
  <2>6. Range(para[i]) \X Range(para[j]) \subseteq R
    <3>1. i \in DOMAIN para /\ j \in DOMAIN para
      BY <2>1
    <3>2. QED
      BY <2>2, <2>4, <2>5, <3>1, EitherOrder
  <2>7. QED
    BY <2>1, <2>6
<1>11. LargerLater(t, R)
  <2>1. \A p, q \in DOMAIN t : ParaLen(t[p]) <= Limit /\ ParaLen(t[q]) > Limit =>
           Range(FlattenSeq(t[p])) \X Range(FlattenSeq(t[q])) \subseteq R
    BY <1>9, Zenon
  <2>2. \A p \in DOMAIN t : ParaLen(t[p]) > Limit =>
           \A i, j \in DOMAIN t[p] : Len(t[p][i]) <= Limit /\ Len(t[p][j]) > Limit =>
              Range(t[p][i]) \X Range(t[p][j]) \subseteq R
    BY <1>10, Zenon
  <2>3. QED
    BY <2>1, <2>2, Zenon DEF LargerLater
<1>12. QED
  BY <1>2, <1>3, <1>11, Zenon DEF Plain

-----------------------------------------------------------------------------
(* What a cut tag parted stays together in the chunks.                       *)

(* No paragraph ends in a tag that is parted, but for those of D: the one    *)
(* and the next are of the same line.                                        *)
Stitched(words, D) == \A i \in 1 .. Len(words) : EndsOpen(words[i]) =>
    /\ i < Len(words)
    /\ Range(FlattenSeq(words[i])) \subseteq D
    /\ Range(FlattenSeq(words[i + 1])) \subseteq D

LEMMA StitchedConcat ==
  ASSUME NEW D, NEW t \in Texts, NEW u \in Texts
  PROVE  /\ t \o u \in Texts
         /\ Stitched(t, D) /\ Stitched(u, D) => Stitched(t \o u, D)
         /\ Stitched(t \o u, D) => Stitched(u, D)
<1> DEFINE P == Seq(Seq(Place))
           all == t \o u
           m == Len(t)
           n == Len(u)
<1>1. Texts = Seq(P)
  BY DEF Texts
<1> HIDE DEF P
<1>2. /\ all \in Texts /\ Len(all) = m + n /\ m \in Nat /\ n \in Nat
      /\ \A i \in 1 .. m : all[i] = t[i]
      /\ \A i \in 1 .. m + n : i \notin 1 .. m => i - m \in 1 .. n /\ all[i] = u[i - m]
      /\ \A i \in 1 .. n : i + m \in 1 .. m + n /\ all[i + m] = u[i]
  <2>1. t \in Seq(P) /\ u \in Seq(P)
    BY <1>1
  <2>2. all \in Seq(P) /\ Len(all) = m + n /\ m \in Nat /\ n \in Nat
    BY <2>1
  <2>3. \A i \in 1 .. m : all[i] = t[i]
    BY <2>1
  <2>4. \A i \in 1 .. m + n : i \notin 1 .. m => i - m \in 1 .. n /\ all[i] = u[i - m]
    BY <2>1
  <2>5. \A i \in 1 .. n : i + m \in 1 .. m + n /\ all[i + m] = u[i]
    BY <2>1
  <2>6. QED
    BY <1>1, <2>2, <2>3, <2>4, <2>5
<1> HIDE DEF all
<1>3. ASSUME Stitched(t, D), Stitched(u, D), NEW i \in 1 .. m + n, EndsOpen(all[i])
      PROVE  /\ i < m + n
             /\ Range(FlattenSeq(all[i])) \subseteq D
             /\ Range(FlattenSeq(all[i + 1])) \subseteq D
  <2>1. ASSUME i \in 1 .. m
        PROVE  /\ i < m + n
               /\ Range(FlattenSeq(all[i])) \subseteq D
               /\ Range(FlattenSeq(all[i + 1])) \subseteq D
    <3>1. all[i] = t[i]
      BY <1>2, <2>1
    <3>2. /\ i < m
          /\ Range(FlattenSeq(t[i])) \subseteq D
          /\ Range(FlattenSeq(t[i + 1])) \subseteq D
      BY <1>3, <2>1, <3>1 DEF Stitched
    <3>3. i + 1 \in 1 .. m /\ i < m + n
      BY <1>2, <3>2
    <3>4. all[i + 1] = t[i + 1]
      BY <1>2, <3>3
    <3>5. QED
      BY <3>1, <3>2, <3>3, <3>4
  <2>2. ASSUME i \notin 1 .. m
        PROVE  /\ i < m + n
               /\ Range(FlattenSeq(all[i])) \subseteq D
               /\ Range(FlattenSeq(all[i + 1])) \subseteq D
    <3>1. PICK k \in 1 .. n : k = i - m /\ all[i] = u[k]
      BY <1>2, <2>2
    <3>2. /\ k < n
          /\ Range(FlattenSeq(u[k])) \subseteq D
          /\ Range(FlattenSeq(u[k + 1])) \subseteq D
      BY <1>3, <3>1 DEF Stitched
    <3>3. k + 1 \in 1 .. n /\ (k + 1) + m = i + 1 /\ i < m + n
      BY <1>2, <3>1, <3>2
    <3>4. all[i + 1] = u[k + 1]
      <4>1. all[(k + 1) + m] = u[k + 1]
        BY <1>2, <3>3
      <4>2. QED
        BY <3>3, <4>1, Zenon
    <3>5. QED
      BY <3>1, <3>2, <3>3, <3>4
  <2>3. QED
    BY <2>1, <2>2
<1>4. ASSUME Stitched(all, D), NEW i \in 1 .. n, EndsOpen(u[i])
      PROVE  /\ i < n
             /\ Range(FlattenSeq(u[i])) \subseteq D
             /\ Range(FlattenSeq(u[i + 1])) \subseteq D
  <2>1. i + m \in 1 .. m + n /\ all[i + m] = u[i]
    BY <1>2
  <2>2. /\ i + m < m + n
        /\ Range(FlattenSeq(all[i + m])) \subseteq D
        /\ Range(FlattenSeq(all[(i + m) + 1])) \subseteq D
    BY <1>2, <1>4, <2>1 DEF Stitched
  <2>3. i < n /\ i + 1 \in 1 .. n /\ (i + 1) + m = (i + m) + 1
    BY <1>2, <2>2
  <2>4. all[(i + m) + 1] = u[i + 1]
    <3>1. all[(i + 1) + m] = u[i + 1]
      BY <1>2, <2>3
    <3>2. QED
      BY <2>3, <3>1, Zenon
  <2>5. QED
    BY <2>1, <2>2, <2>3, <2>4
<1>5. Stitched(t, D) /\ Stitched(u, D) => Stitched(all, D)
  BY <1>2, <1>3 DEF Stitched
<1>6. Stitched(all, D) => Stitched(u, D)
  BY <1>4 DEF Stitched
<1>7. QED
  BY <1>2, <1>5, <1>6 DEF all

(* Chunks that are so when they are joined.                                  *)
Stitches(D) == {ts \in Seq(Texts) : Stitched(FlattenSeq(ts), D)}

LEMMA StitchesConcat ==
  ASSUME NEW D, NEW ts \in Seq(Texts), NEW us \in Seq(Texts)
  PROVE  /\ ts \in Stitches(D) /\ us \in Stitches(D) => ts \o us \in Stitches(D)
         /\ ts \o us \in Stitches(D) => us \in Stitches(D)
<1>1. ts \o us \in Seq(Texts)
  BY ConcatProperties
<1>2. FlattenSeq(ts \o us) = FlattenSeq(ts) \o FlattenSeq(us)
  <2> DEFINE P == Seq(Seq(Place))
  <2>1. ts \in Seq(Seq(P)) /\ us \in Seq(Seq(P))
    BY DEF Texts
  <2> HIDE DEF P
  <2>2. QED
    BY <2>1, FlattenConcat
<1>3. PICK t \in Texts, u \in Texts : t = FlattenSeq(ts) /\ u = FlattenSeq(us)
  BY ReadKeepsConcat
<1>4. /\ Stitched(t, D) /\ Stitched(u, D) => Stitched(t \o u, D)
      /\ Stitched(t \o u, D) => Stitched(u, D)
  BY StitchedConcat
<1>5. QED
  BY <1>1, <1>2, <1>3, <1>4, Zenon DEF Stitches

LEMMA StitchesFlatten ==
  ASSUME NEW D, NEW tss \in Seq(Stitches(D))
  PROVE  FlattenSeq(tss) \in Stitches(D)
<1> DEFINE S == Stitches(D)
           T == {us \in Seq(S) : FlattenSeq(us) \in S}
<1>1. S \subseteq Seq(Texts)
  BY DEF Stitches
<1>2. << >> \in T
  <2>1. << >> \in Seq(Texts) /\ FlattenSeq(<< >>) = << >> /\ Len(<< >>) = 0
    BY FlattenEmpty
  <2>2. 1 .. 0 = {}
    OBVIOUS
  <2>3. << >> \in S
    BY <2>1, <2>2 DEF Stitched, Stitches
  <2> HIDE DEF S
  <2>4. QED
    BY <2>3, FlattenEmpty
<1>3. ASSUME NEW us \in Seq(S), NEW e \in S, us \in T
      PROVE  Append(us, e) \in T
  <2>1. Append(us, e) \in Seq(S)
    BY AppendProperties
  <2>2. FlattenSeq(Append(us, e)) = FlattenSeq(us) \o e
    <3>1. us \in Seq(Seq(Texts)) /\ e \in Seq(Texts)
      BY <1>1
    <3>2. QED
      BY <3>1, FlattenAppend
  <2>3. PICK f \in Seq(Texts), g \in Seq(Texts) : f = FlattenSeq(us) /\ g = e /\ f \in S /\ g \in S
    BY <1>1, <1>3
  <2>4. f \o g \in S
    BY <2>3, StitchesConcat
  <2>5. QED
    BY <2>1, <2>2, <2>3, <2>4
<1> HIDE DEF S, T
<1>4. Seq(S) \subseteq T
  BY <1>2, <1>3, SeqInduction
<1>5. QED
  BY <1>4 DEF S, T

(* A line as it is before a hard split: it does not end in a parted tag, and *)
(* is of D if it has one.                                                    *)
SoundLines(D) == {line \in Seq(Place) : line # << >> =>
    /\ Last(line)[3] # Open
    /\ (\E c \in Range(line) : c[3] = Open) => Range(line) \subseteq D}

LEMMA PiecesStitched ==
  ASSUME NEW D, NEW line \in SoundLines(D)
  PROVE  HardSplit(line) \in Stitches(D)
<1>0. line \in Seq(Place)
  BY DEF SoundLines
<1>1. PICK count \in Nat : \E cuts \in [0 .. count -> 0 .. Len(line)] :
         /\ cuts[0] = 0 /\ cuts[count] = Len(line)
         /\ \A i \in 1 .. count : cuts[i - 1] <= cuts[i]
         /\ HardSplit(line) = [i \in 1 .. count |-> <<<<SubSeq(line, cuts[i - 1] + 1, cuts[i])>>>>]
  BY <1>0, HardSplitCuts
<1>2. PICK cut \in [0 .. count -> 0 .. Len(line)] :
         /\ cut[0] = 0 /\ cut[count] = Len(line)
         /\ \A i \in 1 .. count : cut[i - 1] <= cut[i]
         /\ HardSplit(line) = [i \in 1 .. count |-> <<<<SubSeq(line, cut[i - 1] + 1, cut[i])>>>>]
  BY <1>1
<1> DEFINE piece(i) == SubSeq(line, cut[i - 1] + 1, cut[i])
           Own(i) == <<piece(i)>>
           ps == [i \in 1 .. count |-> Own(i)]
           P == Seq(Seq(Place))
<1>3. ASSUME NEW i \in 1 .. count
      PROVE  /\ piece(i) \in Seq(Place) /\ Range(piece(i)) \subseteq Range(line)
             /\ piece(i) # << >> => Last(piece(i)) = line[cut[i]] /\ cut[i] \in 1 .. Len(line)
  <2>1. i \in 0 .. count /\ i - 1 \in 0 .. count
    OBVIOUS
  <2>2. PICK a \in 0 .. Len(line), b \in 0 .. Len(line) : a = cut[i - 1] /\ b = cut[i]
    BY <2>1
  <2>3. Len(line) \in Nat /\ \A j \in a + 1 .. b : line[j] \in Place /\ j \in 1 .. Len(line)
    BY <1>0
  <2>4. PICK x \in Seq(Place) :
          /\ x = SubSeq(line, a + 1, b)
          /\ Len(x) = IF a + 1 <= b THEN b - (a + 1) + 1 ELSE 0
          /\ \A j \in 1 .. b - (a + 1) + 1 : x[j] = line[(a + 1) + j - 1]
    <3>1. PICK lo \in Int, hi \in Int : lo = a + 1 /\ hi = b
      OBVIOUS
    <3>2. \A j \in lo .. hi : line[j] \in Place
      BY <2>3, <3>1
    <3>3. /\ SubSeq(line, lo, hi) \in Seq(Place)
          /\ Len(SubSeq(line, lo, hi)) = IF lo <= hi THEN hi - lo + 1 ELSE 0
          /\ \A j \in 1 .. hi - lo + 1 : SubSeq(line, lo, hi)[j] = line[lo + j - 1]
      BY <3>2, SubSeqProperties
    <3>4. QED
      BY <3>1, <3>3, Zenon
  <2>5. piece(i) = x
    BY <2>2, <2>4, Zenon
  <2>6. \A j \in 1 .. Len(x) : x[j] = line[a + j] /\ a + j \in 1 .. Len(line)
    <3>1. TAKE j \in 1 .. Len(x)
    <3>2. j \in 1 .. b - (a + 1) + 1 /\ (a + 1) + j - 1 = a + j /\ a + j \in 1 .. Len(line)
      BY <2>3, <2>4
    <3>3. QED
      BY <2>4, <3>2
  <2>7. Range(x) \subseteq Range(line)
    <3>1. \A j \in DOMAIN x : j \in 1 .. Len(x)
      OBVIOUS
    <3>2. DOMAIN line = 1 .. Len(line)
      BY <1>0
    <3>3. QED
      BY <2>6, <3>1, <3>2 DEF Range
  <2>8. x # << >> => x[Len(x)] = line[b] /\ b \in 1 .. Len(line)
    <3>1. SUFFICES ASSUME x # << >> PROVE x[Len(x)] = line[b] /\ b \in 1 .. Len(line)
      OBVIOUS
    <3>2. Len(x) \in 1 .. Len(x)
      BY <3>1
    <3>3. a + Len(x) = b
      BY <2>4, <3>2
    <3>4. QED
      BY <2>6, <3>2, <3>3
  <2>9. QED
    BY <2>2, <2>5, <2>7, <2>8 DEF Last
<1>4. HardSplit(line) = [i \in 1 .. count |-> <<Own(i)>>]
  BY <1>2
<1> HIDE DEF piece
<1>5. \A i \in 1 .. count : Own(i) \in P /\ FlattenSeq(Own(i)) = piece(i)
  BY <1>3, FlattenOne
<1>6. ASSUME NEW i \in 1 .. count, EndsOpen(Own(i))
      PROVE  piece(i) # << >> /\ Last(piece(i))[3] = Open
  <2>1. PICK x \in Seq(Place) : x = piece(i)
    BY <1>3
  <2>2. Last(<<x>>) = x
    BY DEF Last
  <2>3. QED
    BY <1>6, <2>1, <2>2, Zenon DEF EndsOpen
<1> HIDE DEF P, Own
<1>7. ps \in Seq(P) /\ Len(ps) = count /\ DOMAIN ps = 1 .. count /\ \A i \in 1 .. count : ps[i] = Own(i)
  BY <1>5
<1> HIDE DEF ps
<1>8. FlattenSeq(HardSplit(line)) = ps
  <2>1. FlattenSeq([i \in DOMAIN ps |-> <<ps[i]>>]) = ps
    BY <1>7, FlattenSingles
  <2>2. [i \in DOMAIN ps |-> <<ps[i]>>] = [i \in 1 .. count |-> <<Own(i)>>]
    BY <1>7
  <2>3. QED
    BY <1>4, <2>1, <2>2, Zenon
<1>9. ASSUME NEW i \in 1 .. count, EndsOpen(ps[i])
      PROVE  /\ i < count
             /\ Range(FlattenSeq(ps[i])) \subseteq D
             /\ Range(FlattenSeq(ps[i + 1])) \subseteq D
  <2>1. piece(i) # << >> /\ Last(piece(i))[3] = Open
    BY <1>6, <1>7, <1>9
  <2>2. Last(piece(i)) = line[cut[i]] /\ cut[i] \in 1 .. Len(line)
    BY <1>3, <2>1
  <2>3. line # << >> /\ line[cut[i]] \in Range(line)
    BY <1>0, <2>2 DEF Range
  <2>4. Last(line)[3] # Open /\ Range(line) \subseteq D
    BY <2>1, <2>2, <2>3 DEF SoundLines
  <2>5. i # count
    BY <1>2, <2>1, <2>2, <2>4, Zenon DEF Last
  <2>6. i < count /\ i + 1 \in 1 .. count
    BY <2>5
  <2>7. Range(piece(i)) \subseteq D /\ Range(piece(i + 1)) \subseteq D
    BY <1>3, <2>4, <2>6
  <2>8. FlattenSeq(ps[i]) = piece(i) /\ FlattenSeq(ps[i + 1]) = piece(i + 1)
    BY <1>5, <1>7, <2>6
  <2>9. QED
    BY <2>6, <2>7, <2>8
<1>10. Stitched(ps, D)
  BY <1>7, <1>9 DEF Stitched
<1>11. HardSplit(line) \in Seq(Texts)
  BY <1>0, HardSplitReads
<1>12. QED
  BY <1>8, <1>10, <1>11 DEF Stitches

(* The parts keep what each of them has.                                     *)
LEMMA AccumulateTyped ==
  ASSUME NEW P, NEW parts \in Seq(P), NEW sizes, NEW gap \in Nat,
         \A i \in DOMAIN parts : sizes[i] \in Int /\ gap + sizes[i] >= 0
  PROVE  /\ Accumulate(parts, sizes, gap).chunks \in Seq(Seq(P))
         /\ Accumulate(parts, sizes, gap).oversized \in Seq(P)
<1>1. PICK RR, Vain : RR = P \X P /\ Vain = P
  OBVIOUS
<1>2. \A i \in DOMAIN parts : parts[i] \in P
  OBVIOUS
<1>3. \A j \in DOMAIN parts : \A i \in 1 .. j - 1 : i \in DOMAIN parts
  OBVIOUS
<1>4. Sorted(parts, RR)
  BY <1>1, <1>2, <1>3 DEF Sorted
<1>5. \A i \in DOMAIN parts : sizes[i] <= 0 => parts[i] \in Vain
  BY <1>1, <1>2
<1>6. Accumulated(Accumulate(parts, sizes, gap), P, RR, Vain, parts, sizes)
  BY <1>4, <1>5, AccumulateSorted
<1>7. QED
  BY <1>6, Zenon DEF Accumulated

LEMMA SoundTexts ==
  ASSUME NEW D, NEW t \in Seq(Seq(SoundLines(D)))
  PROVE  t \in Texts /\ Stitched(t, D)
<1> DEFINE P == Seq(SoundLines(D))
<1>1. SoundLines(D) \subseteq Seq(Place)
  BY DEF SoundLines
<1>2. P \subseteq Seq(Seq(Place))
  BY <1>1
<1>3. ASSUME NEW para \in P
      PROVE  ~EndsOpen(para)
  <2>1. SUFFICES ASSUME para # << >> PROVE ~EndsOpen(para)
    BY DEF EndsOpen
  <2>2. PICK l \in SoundLines(D) : l = Last(para)
    <3>1. para[Len(para)] \in SoundLines(D)
      <4> DEFINE S == SoundLines(D)
      <4>1. para \in Seq(S)
        OBVIOUS
      <4> HIDE DEF S
      <4>2. Len(para) \in 1 .. Len(para)
        BY <2>1, <4>1
      <4>3. para[Len(para)] \in S
        BY <4>1, <4>2
      <4>4. QED
        BY <4>3 DEF S
    <3>2. QED
      BY <3>1 DEF Last
  <2>3. l # << >> => Last(l)[3] # Open
    BY DEF SoundLines
  <2>4. QED
    BY <2>2, <2>3, Zenon DEF EndsOpen
<1> HIDE DEF P
<1>4. t \in Seq(P)
  BY DEF P
<1>5. t \in Texts
  BY <1>2, <1>4 DEF Texts
<1>6. \A i \in 1 .. Len(t) : t[i] \in P
  BY <1>4
<1>7. QED
  BY <1>3, <1>5, <1>6 DEF Stitched

LEMMA SplitParagraphStitched ==
  ASSUME NEW D, NEW para \in Seq(SoundLines(D))
  PROVE  SplitParagraph(para) \in Stitches(D)
<1> DEFINE P == SoundLines(D)
           S == Stitches(D)
           sizes == LineLens(para)
           byLine == Accumulate(para, sizes, 1)
           over == byLine.oversized
           short == [i \in DOMAIN byLine.chunks |-> <<byLine.chunks[i]>>]
           long == [i \in DOMAIN over |-> HardSplit(over[i])]
           Q == Seq(P)
<1>0. P \subseteq Seq(Place)
  BY DEF SoundLines
<1> HIDE DEF S
<1>1. \A i \in DOMAIN para : sizes[i] \in Int /\ 1 + sizes[i] >= 0
  <2>1. \A i \in DOMAIN para : para[i] \in Seq(Place)
    BY <1>0
  <2>2. QED
    BY <2>1 DEF LineLens
<1> HIDE DEF P, sizes
<1>2. byLine.chunks \in Seq(Q) /\ over \in Seq(P)
  <2>1. PICK gap \in Nat : gap = 1
    OBVIOUS
  <2>2. para \in Seq(P)
    BY DEF P
  <2>3. \A i \in DOMAIN para : sizes[i] \in Int /\ gap + sizes[i] >= 0
    BY <1>1, <2>1
  <2> HIDE DEF byLine
  <2>4. /\ Accumulate(para, sizes, gap).chunks \in Seq(Seq(P))
        /\ Accumulate(para, sizes, gap).oversized \in Seq(P)
    BY <2>2, <2>3, AccumulateTyped
  <2>5. QED
    BY <2>1, <2>4, Zenon DEF byLine
<1> HIDE DEF byLine
<1>3. short \in Seq(Texts) /\ FlattenSeq(short) = byLine.chunks
  <2>1. Seq(Q) \subseteq Texts
    BY <1>0 DEF Texts
  <2> HIDE DEF Q
  <2>2. short \in Seq(Seq(Q)) /\ FlattenSeq(short) = byLine.chunks
    BY <1>2, FlattenSingles
  <2> HIDE DEF short
  <2>3. QED
    BY <2>1, <2>2
<1>4. Stitched(byLine.chunks, D)
  BY <1>2, SoundTexts DEF P
<1>5. short \in S
  BY <1>3, <1>4 DEF S, Stitches
<1> HIDE DEF over
<1>6. \A i \in DOMAIN over : HardSplit(over[i]) \in S
  BY <1>2, PiecesStitched DEF S, P
<1>7. long \in Seq(S)
  BY <1>2, <1>6
<1> HIDE DEF short, long
<1>8. FlattenSeq(long) \in S
  BY <1>7, StitchesFlatten DEF S
<1>9. SplitParagraph(para) = short \o FlattenSeq(long)
  BY DEF SplitParagraph, byLine, sizes, over, short, long
<1>10. PICK ts \in Seq(Texts), us \in Seq(Texts) : ts = short /\ us = FlattenSeq(long) /\ ts \in S /\ us \in S
  BY <1>5, <1>8 DEF S, Stitches
<1>11. ts \o us \in S
  BY <1>10, StitchesConcat DEF S
<1>12. QED
  BY <1>9, <1>10, <1>11 DEF S

LEMMA SplitStitched ==
  ASSUME NEW D, NEW words \in Seq(Seq(SoundLines(D)))
  PROVE  Split(words) \in Stitches(D)
<1> DEFINE P == Seq(SoundLines(D))
           S == Stitches(D)
           sizes == ParaLens(words)
           byPara == Accumulate(words, sizes, 2)
           over == byPara.oversized
           long == [i \in DOMAIN over |-> SplitParagraph(over[i])]
<1>0. P \subseteq Seq(Seq(Place)) /\ Seq(P) \subseteq Texts
  BY DEF SoundLines, Texts
<1> HIDE DEF S
<1>1. \A i \in DOMAIN words : sizes[i] \in Int /\ 2 + sizes[i] >= 0
  <2>1. TAKE i \in DOMAIN words
  <2>2. words[i] \in Seq(Seq(Place))
    <3> HIDE DEF P
    <3>1. words \in Seq(P)
      BY DEF P
    <3>2. QED
      BY <1>0, <3>1
  <2>3. ParaLen(words[i]) \in Int /\ 1 + ParaLen(words[i]) >= 0
    BY <2>2, ParagraphLength
  <2>4. QED
    BY <2>3 DEF ParaLens
<1> HIDE DEF sizes, P
<1>2. words \in Seq(P)
  BY DEF P
<1>3. byPara.chunks \in Seq(Seq(P)) /\ over \in Seq(P)
  <2>1. PICK gap \in Nat : gap = 2
    OBVIOUS
  <2>2. \A i \in DOMAIN words : sizes[i] \in Int /\ gap + sizes[i] >= 0
    BY <1>1, <2>1
  <2> HIDE DEF byPara
  <2>3. /\ Accumulate(words, sizes, gap).chunks \in Seq(Seq(P))
        /\ Accumulate(words, sizes, gap).oversized \in Seq(P)
    BY <1>2, <2>2, AccumulateTyped
  <2>4. QED
    BY <2>1, <2>3, Zenon DEF byPara
<1>4. ASSUME NEW ts \in Seq(Seq(P))
      PROVE  ts \in S
  <2>1. ts \in Seq(Texts)
    BY <1>0
  <2>2. FlattenSeq(ts) \in Seq(P)
    BY FlattenType
  <2>3. Stitched(FlattenSeq(ts), D)
    BY <2>2, SoundTexts DEF P
  <2>4. QED
    BY <2>1, <2>3 DEF S, Stitches
<1>5. CASE TextLen(words) <= Limit
  <2>1. Split(words) = <<words>>
    BY <1>5 DEF Split
  <2>2. <<words>> \in Seq(Seq(P))
    BY <1>2
  <2>3. QED
    BY <1>4, <2>1, <2>2 DEF S
<1>6. CASE ~(TextLen(words) <= Limit)
  <2>1. Split(words) = byPara.chunks \o FlattenSeq(long)
    BY <1>6 DEF Split, byPara, sizes, over
  <2> HIDE DEF byPara
  <2>2. byPara.chunks \in S
    BY <1>3, <1>4
  <2> HIDE DEF over
  <2>3. \A i \in DOMAIN over : SplitParagraph(over[i]) \in S
    BY <1>3, SplitParagraphStitched DEF S, P
  <2>4. long \in Seq(S)
    <3>1. DOMAIN over = 1 .. Len(over) /\ Len(over) \in Nat
      BY <1>3
    <3>2. QED
      BY <2>3, <3>1
  <2> HIDE DEF long
  <2>5. FlattenSeq(long) \in S
    BY <2>4, StitchesFlatten DEF S
  <2>6. PICK ts \in Seq(Texts), us \in Seq(Texts) :
           ts = byPara.chunks /\ us = FlattenSeq(long) /\ ts \in S /\ us \in S
    BY <2>2, <2>5 DEF S, Stitches
  <2>7. ts \o us \in S
    BY <2>6, StitchesConcat DEF S
  <2>8. QED
    BY <2>1, <2>6, <2>7 DEF S
<1>7. QED
  BY <1>5, <1>6

-----------------------------------------------------------------------------
(* The text of an answer, as a hard split will leave it.                     *)

(* What a hard split will leave of a line, marked in it.                     *)
CutFn == [line \in Seq(Place) |-> CutLine(line)]

LEMMA PartedHuge ==
  ASSUME NEW line \in Seq(Place), NEW k, NEW mark, Parted(line, k, mark)
  PROVE  Len(line) > Limit /\ k \in 1 .. Len(line) - 1 /\ line[k + 1][3] = mark
<1>1. k % Limit = 0 /\ k \in 1 .. Len(line) - 1 /\ line[k + 1][3] = mark
  BY DEF Parted
<1>2. Len(line) \in Nat /\ Limit \in Nat /\ Limit > 0
  BY AnswersAssumption
<1>3. PICK n \in Nat : n = k /\ n > 0 /\ n < Len(line)
  BY <1>1, <1>2
<1>4. n < Limit => n % Limit = n
  BY <1>2
<1>5. n % Limit = 0
  BY <1>1, <1>3
<1>6. QED
  BY <1>1, <1>2, <1>3, <1>4, <1>5

LEMMA CutLineKeeps ==
  ASSUME NEW line \in Seq(Place)
  PROVE  /\ CutLine(line) \in Seq(Place) /\ Len(CutLine(line)) = Len(line)
         /\ \A k \in 1 .. Len(line) :
              /\ CutLine(line)[k] = CutChar(line, k)
              /\ CutChar(line, k) \in Place
              /\ CutChar(line, k)[1] = line[k][1] /\ CutChar(line, k)[2] = line[k][2]
              /\ Visible(CutChar(line, k)) => CutChar(line, k) = line[k]
<1>1. ASSUME NEW k \in 1 .. Len(line)
      PROVE  /\ CutChar(line, k) \in Place
             /\ CutChar(line, k)[1] = line[k][1] /\ CutChar(line, k)[2] = line[k][2]
             /\ Visible(CutChar(line, k)) => CutChar(line, k) = line[k]
  <2>1. PICK a \in Nat, b \in Nat, m \in Nat \union Marks : line[k] = <<a, b, m>>
    <3>1. line[k] \in Place
      OBVIOUS
    <3>2. PICK N : N = Nat \union Marks
      OBVIOUS
    <3>3. line[k] \in Nat \X Nat \X N
      BY <3>1, <3>2 DEF Place
    <3>4. PICK a \in Nat, b \in Nat, m \in N : line[k] = <<a, b, m>>
      BY <3>3
    <3>5. QED
      BY <3>2, <3>4
  <2>2. CutChar(line, k) \in {<<a, b, Torn>>, <<a, b, Open>>, line[k]}
    BY <2>1 DEF CutChar
  <2>3. Torn \in Marks /\ Open \in Marks
    BY DEF Marks
  <2>4. QED
    BY <2>1, <2>2, <2>3 DEF Place, Visible
<1>2. DOMAIN line = 1 .. Len(line) /\ Len(line) \in Nat
  OBVIOUS
<1>3. CutLine(line) = [k \in 1 .. Len(line) |-> CutChar(line, k)]
  BY <1>2 DEF CutLine
<1>4. CutLine(line) \in Seq(Place) /\ Len(CutLine(line)) = Len(line)
  BY <1>1, <1>2, <1>3
<1>5. QED
  BY <1>1, <1>3, <1>4

LEMMA CutParagraph ==
  ASSUME NEW para \in Seq(Seq(Place))
  PROVE  /\ Mapped(para, CutFn) \in Seq(Seq(Place))
         /\ ParaLen(Mapped(para, CutFn)) = ParaLen(para)
<1> DEFINE L == Seq(Place)
           Good(s) == Len(FlattenSeq(Mapped(s, CutFn))) = Len(FlattenSeq(s))
           T == {s \in Seq(L) : Good(s)}
<1>1. \A l \in L : CutFn[l] \in L /\ Len(CutFn[l]) = Len(l)
  BY CutLineKeeps DEF CutFn
<1> HIDE DEF L
<1>2. /\ Mapped(<< >>, CutFn) = << >>
      /\ \A ss \in Seq(L) : Mapped(ss, CutFn) \in Seq(L) /\ Len(Mapped(ss, CutFn)) = Len(ss)
      /\ \A ss \in Seq(L), a \in L : Mapped(Append(ss, a), CutFn) = Append(Mapped(ss, CutFn), CutFn[a])
  <2>1. PICK A, B, F : A = L /\ B = L /\ F = CutFn
    OBVIOUS
  <2>0. \A a \in A : F[a] \in B
    BY <1>1, <2>1
  <2> HIDE DEF Good, T
  <2>2. /\ Mapped(<< >>, F) = << >>
        /\ \A ss \in Seq(A) : Mapped(ss, F) \in Seq(B)
        /\ \A ss \in Seq(A), a \in A : Mapped(Append(ss, a), F) = Append(Mapped(ss, F), F[a])
    <3>1. Mapped(<< >>, F) = << >>
      BY <2>0, MappedSteps
    <3>2. \A ss \in Seq(A) : Mapped(ss, F) \in Seq(B)
      BY <2>0, MappedSteps
    <3>3. ASSUME NEW ss \in Seq(A), NEW a \in A
          PROVE  Mapped(Append(ss, a), F) = Append(Mapped(ss, F), F[a])
      <4>1. Append(ss, a) = ss \o <<a>> /\ <<a>> \in Seq(A)
        OBVIOUS
      <4>2. Mapped(<<a>>, F) = <<F[a]>>
        BY DEF Mapped
      <4>3. Mapped(ss \o <<a>>, F) = Mapped(ss, F) \o Mapped(<<a>>, F)
        BY <4>1, MappedConcat
      <4>4. PICK m \in Seq(B), b \in B : m = Mapped(ss, F) /\ b = F[a]
        BY <2>0, <3>2
      <4>5. Append(m, b) = m \o <<b>>
        OBVIOUS
      <4>6. QED
        BY <4>1, <4>2, <4>3, <4>4, <4>5, Zenon
    <3>4. QED
      BY <3>1, <3>2, <3>3
  <2>3. \A ss \in Seq(L) : Len(Mapped(ss, CutFn)) = Len(ss)
    BY MappedIs
  <2>4. QED
    BY <2>1, <2>2, <2>3
<1>3. << >> \in T
  <2>1. << >> \in Seq(L)
    OBVIOUS
  <2>2. QED
    BY <1>2, <2>1, Zenon
<1>4. ASSUME NEW s \in Seq(L), NEW e \in L, s \in T
      PROVE  Append(s, e) \in T
  <2>1. PICK ms \in Seq(L) : ms = Mapped(s, CutFn)
    BY <1>2
  <2>2. Mapped(Append(s, e), CutFn) = Append(ms, CutFn[e])
    BY <1>2, <2>1
  <2>3. PICK ce \in L : ce = CutFn[e] /\ Len(ce) = Len(e)
    BY <1>1
  <2>4. FlattenSeq(Append(ms, ce)) = FlattenSeq(ms) \o ce /\ FlattenSeq(Append(s, e)) = FlattenSeq(s) \o e
    BY FlattenAppend DEF L
  <2>5. PICK f \in Seq(Place), g \in Seq(Place) : f = FlattenSeq(ms) /\ g = FlattenSeq(s)
    BY FlattenType DEF L
  <2>6. Len(f) = Len(g)
    BY <1>4, <2>1, <2>5
  <2>7. Len(f \o ce) = Len(f) + Len(ce) /\ Len(g \o e) = Len(g) + Len(e)
    BY ConcatProperties DEF L
  <2>8. Good(Append(s, e))
    BY <2>2, <2>3, <2>4, <2>5, <2>6, <2>7
  <2>9. Append(s, e) \in Seq(L)
    BY AppendProperties
  <2>10. QED
    BY <2>8, <2>9
<1> HIDE DEF Good, T
<1>5. Seq(L) \subseteq T
  BY <1>3, <1>4, SeqInduction
<1>6. para \in Seq(L)
  BY DEF L
<1>7. Good(para)
  BY <1>5, <1>6 DEF T
<1>8. Mapped(para, CutFn) \in Seq(L) /\ Len(Mapped(para, CutFn)) = Len(para)
  BY <1>2, <1>6
<1>9. QED
  BY <1>7, <1>8 DEF Good, L, ParaLen

LEMMA CutReads ==
  ASSUME NEW words \in Texts
  PROVE  /\ Cut(words) \in Texts /\ Len(Cut(words)) = Len(words)
         /\ \A p \in 1 .. Len(words) :
              /\ Cut(words)[p] \in Seq(Seq(Place))
              /\ Len(Cut(words)[p]) = Len(words[p]) /\ ParaLen(Cut(words)[p]) = ParaLen(words[p])
              /\ \A l \in 1 .. Len(words[p]) : Cut(words)[p][l] = CutLine(words[p][l])
<1> DEFINE P == Seq(Seq(Place))
<1>1. Texts = Seq(P) /\ words \in Seq(P) /\ Len(words) \in Nat /\ DOMAIN words = 1 .. Len(words)
  BY DEF Texts
<1>2. ASSUME NEW p \in 1 .. Len(words)
      PROVE  /\ Cut(words)[p] = Mapped(words[p], CutFn)
             /\ Cut(words)[p] \in Seq(Seq(Place))
             /\ Len(Cut(words)[p]) = Len(words[p]) /\ ParaLen(Cut(words)[p]) = ParaLen(words[p])
             /\ \A l \in 1 .. Len(words[p]) : Cut(words)[p][l] = CutLine(words[p][l])
  <2>1. PICK para \in Seq(Seq(Place)) : para = words[p]
    BY <1>1
  <2>2. DOMAIN para = 1 .. Len(para) /\ \A l \in DOMAIN para : para[l] \in Seq(Place)
    OBVIOUS
  <2>3. \A l \in DOMAIN para : CutLine(para[l]) = CutFn[para[l]]
    BY <2>2 DEF CutFn
  <2>4. Cut(words)[p] = [l \in DOMAIN para |-> CutLine(para[l])]
    BY <1>1, <2>1 DEF Cut
  <2>5. Cut(words)[p] = Mapped(para, CutFn)
    BY <2>3, <2>4 DEF Mapped
  <2>6. Len(Mapped(para, CutFn)) = Len(para)
    <3> DEFINE L == Seq(Place)
    <3>1. para \in Seq(L)
      OBVIOUS
    <3> HIDE DEF L
    <3>2. QED
      BY <3>1, MappedIs
  <2>7. \A l \in 1 .. Len(para) : Cut(words)[p][l] = CutLine(para[l])
    BY <2>2, <2>4
  <2>8. QED
    BY <2>1, <2>5, <2>6, <2>7, CutParagraph
<1> HIDE DEF P
<1>3. Cut(words) = [p \in 1 .. Len(words) |-> Mapped(words[p], CutFn)]
  <2>1. DOMAIN Cut(words) = 1 .. Len(words) /\ Cut(words) = [p \in 1 .. Len(words) |-> Cut(words)[p]]
    BY <1>1 DEF Cut
  <2>2. QED
    BY <1>2, <2>1
<1>4. \A p \in 1 .. Len(words) : Mapped(words[p], CutFn) \in P
  <2>1. TAKE p \in 1 .. Len(words)
  <2>2. Cut(words)[p] = Mapped(words[p], CutFn) /\ Cut(words)[p] \in Seq(Seq(Place))
    BY <1>2
  <2>3. QED
    BY <2>2 DEF P
<1>5. Cut(words) \in Seq(P) /\ Len(Cut(words)) = Len(words)
  BY <1>1, <1>3, <1>4
<1>6. QED
  BY <1>1, <1>2, <1>5

(* The characters of a text are those of its lines.                          *)
LEMMA AmongAt ==
  ASSUME NEW para \in Seq(Seq(Place))
  PROVE  /\ \A c \in Among(para) : \E l \in 1 .. Len(para) : \E k \in 1 .. Len(para[l]) : c = para[l][k]
         /\ \A l \in 1 .. Len(para) : \A k \in 1 .. Len(para[l]) : para[l][k] \in Among(para)
<1>1. DOMAIN para = 1 .. Len(para) /\ \A l \in DOMAIN para : DOMAIN para[l] = 1 .. Len(para[l])
  OBVIOUS
<1>2. /\ \A c \in Among(para) : \E l \in DOMAIN para : \E k \in DOMAIN para[l] : c = para[l][k]
      /\ \A l \in DOMAIN para : \A k \in DOMAIN para[l] : para[l][k] \in Among(para)
  BY DEF Among, Range
<1>3. QED
  BY <1>1, <1>2

LEMMA CharsAt ==
  ASSUME NEW words \in Texts
  PROVE  /\ \A c \in Range(Chars(words)) : \E p \in 1 .. Len(words) : \E l \in 1 .. Len(words[p]) :
              \E k \in 1 .. Len(words[p][l]) : c = words[p][l][k]
         /\ \A p \in 1 .. Len(words) : \A l \in 1 .. Len(words[p]) :
              \A k \in 1 .. Len(words[p][l]) : words[p][l][k] \in Range(Chars(words))
<1>1. PICK joined \in Seq(Seq(Place)) :
         /\ Chars(words) = FlattenSeq(joined) /\ Len(joined) = Len(words)
         /\ \A p \in 1 .. Len(words) : joined[p] = FlattenSeq(words[p])
  BY CharsByPara
<1>2. Range(Chars(words)) = Among(joined)
  BY <1>1, SortedFlatten
<1>3. ASSUME NEW p \in 1 .. Len(words)
      PROVE  words[p] \in Seq(Seq(Place)) /\ Range(joined[p]) = Among(words[p])
  <2>1. PICK para \in Seq(Seq(Place)) : para = words[p]
    BY DEF Texts
  <2>2. Range(FlattenSeq(para)) = Among(para)
    BY SortedFlatten
  <2>3. QED
    BY <1>1, <2>1, <2>2
<1>4. \A c : c \in Among(joined) <=> \E p \in 1 .. Len(words) : c \in Range(joined[p])
  <2>1. DOMAIN joined = 1 .. Len(words)
    BY <1>1
  <2>2. QED
    BY <2>1 DEF Among
<1>5. ASSUME NEW c \in Range(Chars(words))
      PROVE  \E p \in 1 .. Len(words) : \E l \in 1 .. Len(words[p]) :
               \E k \in 1 .. Len(words[p][l]) : c = words[p][l][k]
  <2>1. PICK p \in 1 .. Len(words) : c \in Range(joined[p])
    BY <1>2, <1>4, <1>5, Zenon
  <2>2. c \in Among(words[p]) /\ words[p] \in Seq(Seq(Place))
    BY <1>3, <2>1
  <2>3. \E l \in 1 .. Len(words[p]) : \E k \in 1 .. Len(words[p][l]) : c = words[p][l][k]
    BY <2>2, AmongAt, Zenon
  <2>4. QED
    BY <2>3, Zenon
<1>6. ASSUME NEW p \in 1 .. Len(words), NEW l \in 1 .. Len(words[p]), NEW k \in 1 .. Len(words[p][l])
      PROVE  words[p][l][k] \in Range(Chars(words))
  <2>1. words[p][l][k] \in Among(words[p])
    BY <1>3, AmongAt, Zenon
  <2>2. QED
    BY <1>2, <1>3, <1>4, <2>1
<1>7. QED
  BY <1>5, <1>6, Zenon

(* The text as it is split: what a hard split will leave is marked.          *)
Source == Cut(answer.text)
TagCut == {c \in Place : CutIn(c, End)}

Marked(cut, words) ==
    /\ cut \in Texts /\ Len(cut) = Len(words)
    /\ \A p \in 1 .. Len(cut) :
         /\ cut[p] \in Seq(Seq(Place)) /\ Len(cut[p]) = Len(words[p]) /\ ParaLen(cut[p]) = ParaLen(words[p])
         /\ \A l \in 1 .. Len(cut[p]) :
              /\ words[p][l] \in Seq(Place) /\ cut[p][l] = CutLine(words[p][l])
              /\ cut[p][l] \in Seq(Place) /\ Len(cut[p][l]) = Len(words[p][l])

LEMMA CutPlaced ==
  ASSUME NEW words \in Texts
  PROVE  Marked(Cut(words), words)
<1>1. /\ Cut(words) \in Texts /\ Len(Cut(words)) = Len(words)
      /\ \A p \in 1 .. Len(words) :
           /\ Cut(words)[p] \in Seq(Seq(Place))
           /\ Len(Cut(words)[p]) = Len(words[p]) /\ ParaLen(Cut(words)[p]) = ParaLen(words[p])
           /\ \A l \in 1 .. Len(words[p]) : Cut(words)[p][l] = CutLine(words[p][l])
  BY CutReads
<1>2. ASSUME NEW p \in 1 .. Len(words), NEW l \in 1 .. Len(words[p])
      PROVE  /\ words[p][l] \in Seq(Place) /\ CutLine(words[p][l]) \in Seq(Place)
             /\ Len(CutLine(words[p][l])) = Len(words[p][l])
  <2>1. PICK para \in Seq(Seq(Place)) : para = words[p]
    BY DEF Texts
  <2>2. words[p][l] \in Seq(Place)
    BY <2>1
  <2>3. QED
    BY <2>2, CutLineKeeps
<1>3. PICK cut : cut = Cut(words)
  OBVIOUS
<1>4. ASSUME NEW p \in 1 .. Len(cut)
      PROVE  /\ cut[p] \in Seq(Seq(Place)) /\ Len(cut[p]) = Len(words[p]) /\ ParaLen(cut[p]) = ParaLen(words[p])
             /\ \A l \in 1 .. Len(cut[p]) :
                  /\ words[p][l] \in Seq(Place) /\ cut[p][l] = CutLine(words[p][l])
                  /\ cut[p][l] \in Seq(Place) /\ Len(cut[p][l]) = Len(words[p][l])
  <2>1. /\ p \in 1 .. Len(words) /\ cut[p] \in Seq(Seq(Place))
        /\ Len(cut[p]) = Len(words[p]) /\ ParaLen(cut[p]) = ParaLen(words[p])
        /\ \A l \in 1 .. Len(words[p]) : cut[p][l] = CutLine(words[p][l])
    BY <1>1, <1>3
  <2>2. ASSUME NEW l \in 1 .. Len(cut[p])
        PROVE  /\ words[p][l] \in Seq(Place) /\ cut[p][l] = CutLine(words[p][l])
               /\ cut[p][l] \in Seq(Place) /\ Len(cut[p][l]) = Len(words[p][l])
    <3>1. l \in 1 .. Len(words[p]) /\ cut[p][l] = CutLine(words[p][l])
      BY <2>1
    <3>2. QED
      BY <1>2, <2>1, <3>1
  <2>3. QED
    BY <2>1, <2>2
<1>5. cut \in Texts /\ Len(cut) = Len(words)
  BY <1>1, <1>3
<1>6. Marked(cut, words)
  BY <1>4, <1>5, Zenon DEF Marked
<1>7. QED
  BY <1>3, <1>6

LEMMA SourcePlaced ==
  ASSUME answer \in Answers
  PROVE  answer.text \in Texts /\ InPlace(answer.text) /\ Marked(Source, answer.text)
BY CutPlaced, AnswersAssumption DEF Source

(* Where a character of it stands, and what it was.                          *)
WellPlaced(line, p, l, k) ==
    /\ line[k][1] = p /\ line[k][2] = l /\ line[k][3] \notin {Torn, Open}
    /\ Visible(line[k]) => \A j \in 1 .. k - 1 : line[j][3] < line[k][3]
    /\ line[k][3] = End => k > 1 /\ line[k - 1][3] = Mark

LEMMA InPlaceAt ==
  ASSUME NEW cut, InPlace(cut), NEW p \in DOMAIN cut, NEW l \in DOMAIN cut[p], NEW k \in DOMAIN cut[p][l]
  PROVE  WellPlaced(cut[p][l], p, l, k)
BY DEF InPlace, WellPlaced

Stands(c, line, p, l, k) ==
    /\ c \in Place /\ c[1] = p /\ c[2] = l /\ c = CutChar(line, k)
    /\ line \in Seq(Place) /\ k \in 1 .. Len(line) /\ line = LineOf(c)
    /\ Visible(c) => c = line[k]
    /\ line[k] \in Place /\ line[k][3] \notin {Torn, Open}
    /\ Visible(line[k]) => \A j \in 1 .. k - 1 : line[j][3] < line[k][3]

LEMMA SourceChar ==
  ASSUME answer \in Answers, NEW p \in 1 .. Len(Source), NEW l \in 1 .. Len(Source[p]),
         NEW k \in 1 .. Len(Source[p][l])
  PROVE  Stands(Source[p][l][k], answer.text[p][l], p, l, k)
<1>1. PICK line \in Seq(Place) : /\ line = answer.text[p][l] /\ Source[p][l] = CutLine(line)
                                 /\ Len(Source[p][l]) = Len(line)
  BY SourcePlaced DEF Marked
<1>2. k \in 1 .. Len(line) /\ k \in DOMAIN line /\ line[k] \in Place
  BY <1>1
<1>3. /\ CutLine(line)[k] = CutChar(line, k)
      /\ CutChar(line, k) \in Place
      /\ CutChar(line, k)[1] = line[k][1] /\ CutChar(line, k)[2] = line[k][2]
      /\ Visible(CutChar(line, k)) => CutChar(line, k) = line[k]
  BY <1>2, CutLineKeeps
<1>4. p \in DOMAIN answer.text /\ l \in DOMAIN answer.text[p]
  <2>1. /\ answer.text \in Texts /\ Len(Source) = Len(answer.text) /\ Len(Source[p]) = Len(answer.text[p])
    BY SourcePlaced DEF Marked
  <2>2. PICK words \in Texts : words = answer.text
    BY <2>1
  <2>3. p \in DOMAIN words /\ words[p] \in Seq(Seq(Place))
    BY <2>1, <2>2 DEF Texts
  <2>4. l \in DOMAIN words[p]
    BY <2>1, <2>2, <2>3
  <2>5. QED
    BY <2>2, <2>3, <2>4
<1>5. /\ line[k][1] = p /\ line[k][2] = l /\ line[k][3] \notin {Torn, Open}
      /\ Visible(line[k]) => \A j \in 1 .. k - 1 : line[j][3] < line[k][3]
  <2>1. InPlace(answer.text) /\ k \in DOMAIN answer.text[p][l]
    BY <1>1, <1>2, SourcePlaced
  <2>2. WellPlaced(answer.text[p][l], p, l, k)
    BY <1>4, <2>1, InPlaceAt, Zenon
  <2>3. WellPlaced(line, p, l, k)
    BY <1>1, <2>2
  <2>4. QED
    BY <2>3 DEF WellPlaced
<1>6. PICK c \in Place : c = Source[p][l][k] /\ c = CutChar(line, k)
  BY <1>1, <1>3
<1>7. c[1] = p /\ c[2] = l
  BY <1>3, <1>5, <1>6
<1>8. LineOf(c) = line
  BY <1>1, <1>7 DEF LineOf
<1>9. Stands(c, line, p, l, k)
  BY <1>2, <1>3, <1>5, <1>6, <1>7, <1>8 DEF Stands
<1>10. QED
  BY <1>1, <1>6, <1>9

(* Only what is cut differs.                                                 *)
LEMMA SourceDiffers ==
  ASSUME answer \in Answers, NEW c \in Range(Chars(answer.text)), Visible(c),
         c \notin Range(Chars(Source))
  PROVE  TornApart(c)
<1>1. /\ answer.text \in Texts /\ Source \in Texts /\ Len(Source) = Len(answer.text)
      /\ \A p \in 1 .. Len(Source) :
           /\ Len(Source[p]) = Len(answer.text[p])
           /\ \A l \in 1 .. Len(Source[p]) : Len(Source[p][l]) = Len(answer.text[p][l])
  BY SourcePlaced DEF Marked
<1>2. PICK p \in 1 .. Len(answer.text) : \E l \in 1 .. Len(answer.text[p]) :
         \E k \in 1 .. Len(answer.text[p][l]) : c = answer.text[p][l][k]
  BY <1>1, CharsAt
<1>3. PICK l \in 1 .. Len(answer.text[p]) : \E k \in 1 .. Len(answer.text[p][l]) : c = answer.text[p][l][k]
  BY <1>2
<1>4. PICK k \in 1 .. Len(answer.text[p][l]) : c = answer.text[p][l][k]
  BY <1>3
<1>5. p \in 1 .. Len(Source) /\ l \in 1 .. Len(Source[p]) /\ k \in 1 .. Len(Source[p][l])
  BY <1>1
<1>6. Source[p][l][k] \in Range(Chars(Source))
  BY <1>1, <1>5, CharsAt
<1>9. InPlace(answer.text) /\ p \in DOMAIN answer.text /\ l \in DOMAIN answer.text[p]
  <2>1. PICK words \in Texts : words = answer.text
    BY <1>1
  <2>2. p \in DOMAIN words /\ words[p] \in Seq(Seq(Place))
    BY <2>1 DEF Texts
  <2>3. l \in DOMAIN words[p]
    BY <2>1, <2>2
  <2>4. QED
    BY <2>1, <2>2, <2>3, AnswersAssumption
<1>7. PICK line \in Seq(Place) :
         /\ line = answer.text[p][l] /\ k \in 1 .. Len(line) /\ Source[p][l][k] = CutChar(line, k)
         /\ c[1] = p /\ c[2] = l /\ c = line[k]
  <2>1. PICK line, d : line = answer.text[p][l] /\ d = Source[p][l][k] /\ Stands(d, line, p, l, k)
    BY <1>5, SourceChar
  <2>2. c = line[k]
    BY <1>4, <2>1
  <2>3. c[1] = p /\ c[2] = l
    <3>1. k \in DOMAIN answer.text[p][l]
      BY <2>1 DEF Stands
    <3>2. WellPlaced(answer.text[p][l], p, l, k)
      BY <1>9, <3>1, InPlaceAt, Zenon
    <3>3. QED
      BY <1>4, <3>2 DEF WellPlaced
  <2>4. QED
    BY <2>1, <2>2, <2>3 DEF Stands
<1>8. CutChar(line, k) # c
  BY <1>6, <1>7
<1>10. \A i \in DOMAIN line : line[i][3] = End => i > 1 /\ line[i - 1][3] = Mark
  <2>1. TAKE i \in DOMAIN line
  <2>2. WellPlaced(answer.text[p][l], p, l, i)
    BY <1>7, <1>9, InPlaceAt, Zenon
  <2>3. WellPlaced(line, p, l, i)
    BY <1>7, <2>2
  <2>4. QED
    BY <2>3 DEF WellPlaced
<1>11. ASSUME Parted(line, k, Rest) PROVE TornApart(c)
  <2>1. Len(line) > Limit /\ k \in DOMAIN line
    BY <1>7, <1>11, PartedHuge
  <2>2. LineOf(c) = line
    BY <1>7 DEF LineOf
  <2>3. QED
    BY <1>7, <1>11, <2>1, <2>2 DEF TornApart, Huge
<1>12. ~Parted(line, k - 1, Rest)
  <2>1. SUFFICES ASSUME Parted(line, k - 1, Rest) PROVE FALSE
    OBVIOUS
  <2>2. k - 1 \in 1 .. Len(line) - 1 /\ line[(k - 1) + 1][3] = Rest
    BY <2>1, PartedHuge
  <2>3. (k - 1) + 1 = k
    BY <1>7
  <2>4. c[3] = Rest
    BY <1>7, <2>2, <2>3
  <2>5. QED
    BY <2>4 DEF Visible, Marks
<1>13. ~Parted(line, k, End)
  <2>1. SUFFICES ASSUME Parted(line, k, End) PROVE FALSE
    OBVIOUS
  <2>2. k \in 1 .. Len(line) - 1 /\ line[k + 1][3] = End
    BY <2>1, PartedHuge
  <2>3. k + 1 \in DOMAIN line /\ (k + 1) - 1 = k
    BY <1>7, <2>2
  <2>4. line[(k + 1) - 1][3] = Mark
    BY <1>10, <2>2, <2>3
  <2>5. c[3] = Mark
    BY <1>7, <2>3, <2>4
  <2>6. QED
    BY <2>5 DEF Visible, Marks
<1>14. QED
  BY <1>7, <1>8, <1>11, <1>12, <1>13 DEF CutChar

LEMMA SourceShows ==
  ASSUME answer \in Answers, NEW c \in Range(Chars(Source))
  PROVE  /\ c \in Place
         /\ Visible(c) => c \in Range(Chars(answer.text))
         /\ c[3] = Torn => CutIn(c, Rest)
<1>1. Source \in Texts /\ answer.text \in Texts /\ Len(Source) = Len(answer.text)
      /\ \A p \in 1 .. Len(Source) : Len(Source[p]) = Len(answer.text[p])
  BY SourcePlaced DEF Marked
<1>2. PICK p \in 1 .. Len(Source) : \E l \in 1 .. Len(Source[p]) :
         \E k \in 1 .. Len(Source[p][l]) : c = Source[p][l][k]
  BY <1>1, CharsAt
<1>3. PICK l \in 1 .. Len(Source[p]) : \E k \in 1 .. Len(Source[p][l]) : c = Source[p][l][k]
  BY <1>2
<1>4. PICK k \in 1 .. Len(Source[p][l]) : c = Source[p][l][k]
  BY <1>3
<1>5. PICK line : line = answer.text[p][l] /\ Stands(c, line, p, l, k)
  BY <1>4, SourceChar
<1>6. line[k] \in Range(Chars(answer.text))
  <2>1. /\ p \in 1 .. Len(answer.text) /\ l \in 1 .. Len(answer.text[p])
        /\ k \in 1 .. Len(answer.text[p][l]) /\ line[k] = answer.text[p][l][k]
    BY <1>1, <1>5 DEF Stands
  <2>2. answer.text[p][l][k] \in Range(Chars(answer.text))
    BY <1>1, <2>1, CharsAt
  <2>3. QED
    BY <2>1, <2>2
<1>7. ASSUME c[3] = Torn PROVE CutIn(c, Rest)
  <2>1. c # line[k] /\ c = CutChar(line, k) /\ line \in Seq(Place) /\ line = LineOf(c)
    BY <1>5, <1>7 DEF Stands
  <2>2. <<line[k][1], line[k][2], Open>>[3] # Torn
    BY DEF Open, Torn
  <2>3. PICK i : Parted(line, i, Rest)
    BY <1>7, <2>1, <2>2 DEF CutChar
  <2>4. Len(line) > Limit /\ i \in DOMAIN line
    BY <2>1, <2>3, PartedHuge
  <2>5. QED
    BY <2>1, <2>3, <2>4 DEF CutIn, Huge
<1>8. QED
  BY <1>5, <1>6, <1>7 DEF Stands

LEMMA SourceSound ==
  ASSUME answer \in Answers
  PROVE  Source \in Seq(Seq(SoundLines(TagCut)))
<1>1. Source \in Texts /\ \A p \in 1 .. Len(Source) :
         /\ Source[p] \in Seq(Seq(Place)) /\ \A l \in 1 .. Len(Source[p]) : Source[p][l] \in Seq(Place)
  BY SourcePlaced DEF Marked
<1>2. ASSUME NEW p \in 1 .. Len(Source), NEW l \in 1 .. Len(Source[p])
      PROVE  Source[p][l] \in SoundLines(TagCut)
  <2>1. PICK cut \in Seq(Place) : cut = Source[p][l]
    BY <1>1
  <2>2. PICK line \in Seq(Place) : line = answer.text[p][l] /\ Len(line) = Len(cut)
    BY <2>1, SourcePlaced DEF Marked
  <2>3. ASSUME NEW k \in 1 .. Len(cut)
        PROVE  /\ cut[k] \in Place /\ LineOf(cut[k]) = line
               /\ cut[k][3] = Open => Parted(line, k, End)
    <3>1. PICK c : c = cut[k] /\ Stands(c, line, p, l, k)
      BY <2>1, <2>2, SourceChar
    <3>2. <<line[k][1], line[k][2], Torn>>[3] # Open
      BY DEF Open, Torn
    <3>3. c[3] = Open => Parted(line, k, End)
      BY <3>1, <3>2 DEF CutChar, Stands
    <3>4. QED
      BY <3>1, <3>3 DEF Stands
  <2>4. ASSUME cut # << >>
        PROVE  Last(cut)[3] # Open
    <3>1. Len(cut) \in 1 .. Len(cut) /\ Len(cut) \in Nat
      BY <2>4
    <3>2. ~Parted(line, Len(cut), End)
      BY <2>2, <3>1 DEF Parted
    <3>3. QED
      BY <2>3, <3>1, <3>2 DEF Last
  <2>5. ASSUME NEW c \in Range(cut), c[3] = Open
        PROVE  Range(cut) \subseteq TagCut
    <3>1. PICK k \in 1 .. Len(cut) : c = cut[k]
      BY DEF Range
    <3>2. Parted(line, k, End)
      BY <2>3, <2>5, <3>1
    <3>3. Len(line) > Limit /\ k \in DOMAIN line
      BY <3>2, PartedHuge
    <3>4. \A j \in 1 .. Len(cut) : cut[j] \in TagCut
      <4>1. TAKE j \in 1 .. Len(cut)
      <4>2. cut[j] \in Place /\ LineOf(cut[j]) = line
        BY <2>3
      <4>3. CutIn(cut[j], End)
        BY <3>2, <3>3, <4>2 DEF CutIn, Huge
      <4>4. QED
        BY <4>2, <4>3 DEF TagCut
    <3>5. QED
      BY <3>4 DEF Range
  <2>6. QED
    BY <2>1, <2>4, <2>5 DEF SoundLines
<1> DEFINE S == SoundLines(TagCut)
<1>3. \A p \in 1 .. Len(Source) : \A l \in 1 .. Len(Source[p]) : Source[p][l] \in S
  BY <1>2
<1> HIDE DEF S
<1>4. \A p \in 1 .. Len(Source) : Source[p] \in Seq(S)
  <2>1. TAKE p \in 1 .. Len(Source)
  <2>2. PICK para \in Seq(Seq(Place)) : para = Source[p]
    BY <1>1
  <2>3. \A l \in 1 .. Len(para) : para[l] \in S
    BY <1>3, <2>2
  <2>4. para \in Seq(S)
    BY <2>3
  <2>5. QED
    BY <2>2, <2>4
<1>5. Source \in Seq(Seq(S))
  <2> DEFINE P == Seq(S)
  <2>1. PICK src \in Seq(Seq(Seq(Place))) : src = Source
    BY <1>1 DEF Texts
  <2>2. \A p \in 1 .. Len(src) : src[p] \in P
    BY <1>4, <2>1
  <2> DEFINE T == Seq(Seq(Place))
  <2> HIDE DEF P, T
  <2>3. src \in Seq(P)
    <3>1. src \in Seq(T)
      BY DEF T
    <3>2. QED
      BY <2>2, <3>1
  <2>4. QED
    BY <2>1, <2>3 DEF P
<1>6. QED
  BY <1>5 DEF S

-----------------------------------------------------------------------------
(* Every message has a text and fits.                                           *)

FitInv ==
    /\ answer \in Answers
    /\ at \in {"html", "plain"} => left # << >>
    /\ left \in Seq(FittingTexts)
    /\ messages \in Seq(FittingTexts)
    /\ \A i \in DOMAIN messages : TextLen(messages[i]) > 0

LEMMA ChunkShown ==
  ASSUME FitInv, at \in {"html", "plain"}, ChunkMayAppear
  PROVE  /\ messages' \in Seq(FittingTexts)
         /\ \A i \in DOMAIN messages' : TextLen(messages'[i]) > 0
<1>1. CASE UNCHANGED messages
  BY <1>1 DEF FitInv
<1>2. CASE ChunkAppears
  <2> DEFINE chunk1 == Head(left)
  <2>1. chunk1 \in FittingTexts /\ messages \in Seq(FittingTexts)
    <3>1. left \in Seq(FittingTexts) /\ left # << >>
      BY DEF FitInv
    <3>2. QED
      BY <3>1 DEF FitInv
  <2>2. TextLen(chunk1) > 0 /\ messages' = Append(messages, chunk1)
    BY <1>2 DEF ChunkAppears
  <2> HIDE DEF chunk1
  <2>3. messages' \in Seq(FittingTexts)
    BY <2>1, <2>2
  <2>4. \A i \in DOMAIN messages' : messages'[i] = chunk1 \/ (i \in DOMAIN messages /\ messages'[i] = messages[i])
    BY <2>1, <2>2
  <2>5. \A i \in DOMAIN messages : TextLen(messages[i]) > 0
    BY DEF FitInv
  <2>6. QED
    BY <2>2, <2>3, <2>4, <2>5, Zenon
<1>3. QED
  BY <1>1, <1>2 DEF ChunkMayAppear

LEMMA TextStepFits ==
  ASSUME FitInv, Text
  PROVE  FitInv'
<1>1. CASE ChunkSent
  <2>1. /\ messages' \in Seq(FittingTexts)
        /\ \A i \in DOMAIN messages' : TextLen(messages'[i]) > 0
    BY <1>1, ChunkShown DEF ChunkSent, ChunkMayAppear
  <2>2. left \in Seq(FittingTexts) /\ left # << >>
    BY <1>1 DEF FitInv, ChunkSent
  <2>3. Tail(left) \in Seq(FittingTexts)
    BY <2>2
  <2>4. QED
    BY <1>1, <2>1, <2>3 DEF FitInv, ChunkSent
<1>2. CASE ChunkRefused
  <2>1. FlattenSeq(left) \in Texts
    <3>1. left \in Seq(Seq(Seq(Seq(Place))))
      BY DEF FitInv, FittingTexts, Texts
    <3>2. FlattenSeq(left) \in Seq(Seq(Seq(Place)))
      BY <3>1, FlattenType
    <3>3. QED
      BY <3>2 DEF Texts
  <2>2. Split(Plain(FlattenSeq(left))) \in Seq(FittingTexts)
    BY <2>1, PlainReads, SplitFits
  <2>3. left' \in Seq(FittingTexts)
    BY <1>2, <2>2 DEF ChunkRefused
  <2>4. at' \in {"html", "plain"} => left' # << >>
    BY <1>2 DEF ChunkRefused
  <2>5. UNCHANGED <<answer, messages>>
    BY <1>2 DEF ChunkRefused
  <2>6. QED
    BY <2>3, <2>4, <2>5 DEF FitInv
<1>3. CASE ChunkCut \/ ChunkRaises
  <2>1. /\ messages' \in Seq(FittingTexts)
        /\ \A i \in DOMAIN messages' : TextLen(messages'[i]) > 0
    BY <1>3, ChunkShown DEF ChunkCut, ChunkRaises
  <2>2. QED
    BY <1>3, <2>1 DEF FitInv, ChunkCut, ChunkRaises
<1>4. QED
  BY <1>1, <1>2, <1>3 DEF Text

LEMMA FittingChunks == RichSpec => []FitInv
<1>1. ASSUME RichInit PROVE FitInv
  <2>1. CASE answer.text = << >>
    <3>1. left = << >> /\ at = "file" /\ messages = << >> /\ answer \in Answers
      BY <1>1, <2>1 DEF RichInit, Start
    <3>2. QED
      BY <3>1 DEF FitInv
  <2>2. CASE answer.text # << >>
    <3>1. Cut(answer.text) \in Texts /\ left = Split(Cut(answer.text))
      BY <1>1, <2>2, CutReads, AnswersAssumption DEF RichInit
    <3>2. left \in Seq(FittingTexts)
      BY <3>1, SplitFits
    <3>3. at \in {"html", "plain"} => left # << >>
      BY <1>1 DEF RichInit, Start
    <3>4. QED
      BY <1>1, <3>2, <3>3 DEF RichInit, FitInv
  <2>3. QED
    BY <2>1, <2>2
<1>2. ASSUME FitInv, [RichNext]_richVars PROVE FitInv'
  <2>1. CASE Text
    BY <1>2, <2>1, TextStepFits
  <2>2. CASE File
    <3>1. UNCHANGED <<answer, left, messages>> /\ at' \notin {"html", "plain"}
      BY <2>2 DEF File, NotSent, Uploaded, Refused, Unreadable, UploadLost, UploadRaises, NoticeSent,
         NoticeRaises, Return, NextFile, Uploading, Pending, Kind, textVars
    <3>2. QED
      BY <1>2, <3>1 DEF FitInv
  <2>3. CASE UNCHANGED richVars
    BY <1>2, <2>3 DEF FitInv, richVars, textVars
  <2>4. QED
    BY <1>2, <2>1, <2>2, <2>3 DEF RichNext
<1>3. QED
  BY <1>1, <1>2, PTL DEF RichSpec

(* Every message send_rich sends has a text and fits Telegram's limit, the   *)
(* separators included, after a hard split and after the split of the plain  *)
(* rest: for every limit and every text.                                     *)
THEOREM EveryMessageFits == RichSpec => []MessagesFit
<1>1. ASSUME FitInv PROVE MessagesFit
  <2>1. SUFFICES ASSUME NEW i \in DOMAIN messages
                 PROVE  TextLen(messages[i]) \in 1 .. Limit
    BY DEF MessagesFit
  <2>2. messages[i] \in FittingTexts /\ TextLen(messages[i]) > 0
    BY <1>1 DEF FitInv
  <2>3. TextLen(messages[i]) \in Int /\ TextLen(messages[i]) <= Limit
    <3>1. << >> \in Seq(Seq(Place)) /\ messages[i] \in Seq(Seq(Seq(Place)))
      BY <2>2 DEF FittingTexts, Texts
    <3>2. QED
      BY <2>2, <3>1, LongerText DEF FittingTexts
  <2>4. QED
    BY <2>2, <2>3, AnswersAssumption
<1>2. QED
  BY <1>1, FittingChunks, PTL

-----------------------------------------------------------------------------
(* The text arrives whole and in its order, but for what is cut and what is  *)
(* oversized.                                                                *)

(* What may come after what: a part later in the text, one that is too long  *)
(* after one that is not, or one of a line in which a tag was cut.  Markup   *)
(* may come anywhere.                                                        *)
MayFollow == {cd \in Place \X Place : Visible(cd[1]) /\ Visible(cd[2]) =>
    /\ cd[1] # cd[2]
    /\ Before(cd[2], cd[1]) => \/ Oversized(cd[2]) /\ ~Oversized(cd[1])
                               \/ cd[2][1] = cd[1][1] /\ Huge(cd[2]) /\ ~Huge(cd[1])
                               \/ CutIn(cd[2], End)}

LEMMA FollowsLater ==
  \A c, d \in Place : Before(c, d) => <<c, d>> \in MayFollow
<1>1. SUFFICES ASSUME NEW c \in Place, NEW d \in Place, Before(c, d)
               PROVE  <<c, d>> \in MayFollow
  OBVIOUS
<1>2. c[1] \in Nat /\ c[2] \in Nat /\ c[3] \in Int /\ d[1] \in Nat /\ d[2] \in Nat /\ d[3] \in Int
  BY DEF Place, Marks, Mark, End, Rest, Torn, Open
<1>3. ~Before(d, c) /\ c # d
  BY <1>1, <1>2 DEF Before
<1>4. <<c, d>> \in Place \X Place /\ <<c, d>>[1] = c /\ <<c, d>>[2] = d
  OBVIOUS
<1>5. QED
  BY <1>3, <1>4, Zenon DEF MayFollow

LEMMA FollowsLarger ==
  \A c, d \in Place : \/ Oversized(d) /\ ~Oversized(c)
                      \/ d[1] = c[1] /\ Huge(d) /\ ~Huge(c)
                      => <<c, d>> \in MayFollow
<1>1. SUFFICES ASSUME NEW c \in Place, NEW d \in Place,
                      \/ Oversized(d) /\ ~Oversized(c)
                      \/ d[1] = c[1] /\ Huge(d) /\ ~Huge(c)
               PROVE  <<c, d>> \in MayFollow
  BY Zenon
<1>2. c # d
  BY <1>1, Zenon
<1>3. <<c, d>> \in Place \X Place /\ <<c, d>>[1] = c /\ <<c, d>>[2] = d
  OBVIOUS
<1>4. QED
  BY <1>1, <1>2, <1>3, Zenon DEF MayFollow

(* A line in which a tag was cut may come after all it may come before.      *)
LEMMA FollowsEither ==
  \A c \in Place, d \in TagCut : <<d, c>> \in MayFollow => <<c, d>> \in MayFollow
<1>1. SUFFICES ASSUME NEW c \in Place, NEW d \in TagCut, <<d, c>> \in MayFollow
               PROVE  <<c, d>> \in MayFollow
  OBVIOUS
<1>2. d \in Place /\ CutIn(d, End)
  BY DEF TagCut
<1>3. /\ <<c, d>> \in Place \X Place /\ <<c, d>>[1] = c /\ <<c, d>>[2] = d
      /\ <<d, c>>[1] = d /\ <<d, c>>[2] = c
  BY <1>2
<1>4. Visible(c) /\ Visible(d) => c # d
  BY <1>1, <1>3, Zenon DEF MayFollow
<1>5. QED
  BY <1>2, <1>3, <1>4, Zenon DEF MayFollow

(* The text of an answer is in this order before it is split.                *)
LEMMA SourceSorted ==
  ASSUME answer \in Answers
  PROVE  /\ Source \in Texts
         /\ Sorted(Chars(Source), MayFollow)
         /\ LargerLater(Source, MayFollow)
<1> DEFINE words == Source
           P == Seq(Seq(Place))
<1>1. words \in Texts /\ Len(words) = Len(answer.text)
  BY SourcePlaced DEF Marked
<1>2. /\ \A p \in DOMAIN words : words[p] \in P
      /\ \A p \in DOMAIN words : \A l \in DOMAIN words[p] : words[p][l] \in Seq(Place)
      /\ words \in Seq(P) /\ DOMAIN words = 1 .. Len(words) /\ Len(words) \in Nat
  BY <1>1 DEF Texts
<1>0. ASSUME NEW p \in DOMAIN words
      PROVE  /\ ParaLen(words[p]) = ParaLen(answer.text[p])
             /\ \A l \in DOMAIN words[p] : Len(words[p][l]) = Len(answer.text[p][l])
  <2>1. p \in 1 .. Len(Source)
    BY <1>2
  <2>2. PICK para \in P : para = Source[p]
    BY <1>2
  <2>3. DOMAIN para = 1 .. Len(para)
    BY <2>2
  <2>4. /\ ParaLen(Source[p]) = ParaLen(answer.text[p])
        /\ \A l \in 1 .. Len(Source[p]) : Len(Source[p][l]) = Len(answer.text[p][l])
    BY <2>1, SourcePlaced DEF Marked
  <2>5. QED
    BY <2>2, <2>3, <2>4
<1>12. ASSUME NEW p \in DOMAIN words, NEW l \in DOMAIN words[p], NEW k \in DOMAIN words[p][l]
       PROVE  Stands(words[p][l][k], answer.text[p][l], p, l, k)
  <2>1. p \in 1 .. Len(Source)
    BY <1>2
  <2>2. PICK para \in P : para = Source[p]
    BY <1>2
  <2>3. l \in 1 .. Len(Source[p])
    BY <2>2
  <2>4. PICK line \in Seq(Place) : line = Source[p][l]
    BY <2>2, <2>3
  <2>5. k \in 1 .. Len(Source[p][l])
    BY <2>4
  <2>6. QED
    BY <2>1, <2>3, <2>5, SourceChar
<1> HIDE DEF words, P
<1>3. ASSUME NEW p \in DOMAIN words, NEW l \in DOMAIN words[p], NEW c \in Range(words[p][l])
      PROVE  c \in Place /\ c[1] = p /\ c[2] = l
  <2>1. PICK k \in DOMAIN words[p][l] : c = words[p][l][k]
    BY DEF Range
  <2>2. Stands(words[p][l][k], answer.text[p][l], p, l, k)
    BY <1>12, <2>1
  <2>3. QED
    BY <2>1, <2>2 DEF Stands
<1>4. ASSUME NEW p \in DOMAIN words
      PROVE  /\ FlattenSeq(words[p]) \in Seq(Place)
             /\ \A c \in Range(FlattenSeq(words[p])) :
                  c \in Place /\ c[1] = p /\ \E l \in DOMAIN words[p] : c \in Range(words[p][l])
             /\ Sorted(FlattenSeq(words[p]), MayFollow) <=> Pieces(words[p], MayFollow)
  <2>1. PICK para \in Seq(Seq(Place)) : para = words[p]
    BY <1>2 DEF P
  <2>2. /\ Range(FlattenSeq(para)) = Among(para)
        /\ Sorted(FlattenSeq(para), MayFollow) <=> Pieces(para, MayFollow)
    BY SortedFlatten
  <2>3. FlattenSeq(para) \in Seq(Place)
    BY FlattenType
  <2>4. \A c \in Among(para) : \E l \in DOMAIN words[p] : c \in Range(words[p][l])
    BY <2>1 DEF Among
  <2>5. \A c \in Range(FlattenSeq(words[p])) :
           c \in Place /\ c[1] = p /\ \E l \in DOMAIN words[p] : c \in Range(words[p][l])
    <3>1. TAKE c \in Range(FlattenSeq(words[p]))
    <3>2. PICK l \in DOMAIN words[p] : c \in Range(words[p][l])
      BY <2>1, <2>2, <2>4, Zenon
    <3>3. c \in Place /\ c[1] = p
      BY <1>3, <3>2
    <3>4. QED
      BY <3>2, <3>3, Zenon
  <2>6. QED
    BY <2>1, <2>2, <2>3, <2>5, Zenon
<1>5. ASSUME NEW p \in DOMAIN words, NEW l \in DOMAIN words[p]
      PROVE  Sorted(words[p][l], MayFollow)
  <2>1. SUFFICES ASSUME NEW j \in DOMAIN words[p][l], NEW i \in 1 .. j - 1
                 PROVE  <<words[p][l][i], words[p][l][j]>> \in MayFollow
    BY DEF Sorted
  <2>2. PICK line \in Seq(Place) : line = words[p][l]
    BY <1>2
  <2>3. i \in DOMAIN line /\ j \in DOMAIN line
    BY <2>2
  <2>4. PICK c \in Place, d \in Place : c = line[i] /\ d = line[j]
    BY <2>3
  <2>5. PICK was : /\ was = answer.text[p][l]
                   /\ Stands(c, was, p, l, i) /\ Stands(d, was, p, l, j)
    BY <1>12, <2>2, <2>3, <2>4
  <2>6. ASSUME Visible(c), Visible(d) PROVE <<c, d>> \in MayFollow
    <3>1. c[1] = d[1] /\ c[2] = d[2] /\ c = was[i] /\ d = was[j]
      BY <2>5, <2>6 DEF Stands
    <3>2. c[3] < d[3]
      BY <2>5, <2>6, <3>1 DEF Stands
    <3>3. Before(c, d)
      BY <3>1, <3>2, Zenon DEF Before
    <3>4. QED
      BY <3>3, FollowsLater
  <2>7. ASSUME ~(Visible(c) /\ Visible(d)) PROVE <<c, d>> \in MayFollow
    <3>1. <<c, d>> \in Place \X Place /\ <<c, d>>[1] = c /\ <<c, d>>[2] = d
      OBVIOUS
    <3>2. QED
      BY <2>7, <3>1, Zenon DEF MayFollow
  <2>8. QED
    BY <2>2, <2>4, <2>6, <2>7
<1>6. ASSUME NEW p \in DOMAIN words
      PROVE  Sorted(FlattenSeq(words[p]), MayFollow)
  <2>1. ASSUME NEW j \in DOMAIN words[p], NEW i \in 1 .. j - 1
        PROVE  Range(words[p][i]) \X Range(words[p][j]) \subseteq MayFollow
    <3>1. i \in DOMAIN words[p] /\ i < j
      <4>1. PICK para \in Seq(Seq(Place)) : para = words[p]
        BY <1>2 DEF P
      <4>2. i \in DOMAIN para /\ i < j
        BY <4>1
      <4>3. QED
        BY <4>1, <4>2
    <3>2. ASSUME NEW c \in Range(words[p][i]), NEW d \in Range(words[p][j])
          PROVE  <<c, d>> \in MayFollow
      <4>1. c \in Place /\ d \in Place /\ c[1] = p /\ c[2] = i /\ d[1] = p /\ d[2] = j
        BY <1>3, <3>1
      <4>2. Before(c, d)
        BY <3>1, <4>1 DEF Before
      <4>3. QED
        BY <4>1, <4>2, FollowsLater
    <3>3. QED
      BY <3>2
  <2>2. Pieces(words[p], MayFollow)
    BY <1>5, <2>1 DEF Pieces
  <2>3. QED
    BY <1>4, <2>2
<1>7. Sorted(Chars(words), MayFollow)
  <2> DEFINE m == Mapped(words, JoinedLines)
  <2>1. /\ Chars(words) = FlattenSeq(m)
        /\ m \in Seq(Seq(Place))
        /\ Len(m) = Len(words)
        /\ \A p \in 1 .. Len(words) : m[p] = FlattenSeq(words[p])
    BY <1>1, CharsByPara
  <2> HIDE DEF m
  <2>2. DOMAIN m = DOMAIN words
    BY <1>2, <2>1
  <2>3. \A p \in DOMAIN m : Sorted(m[p], MayFollow)
    BY <1>2, <1>6, <2>1, <2>2, Zenon
  <2>4. ASSUME NEW q \in DOMAIN m, NEW p \in 1 .. q - 1
        PROVE  Range(m[p]) \X Range(m[q]) \subseteq MayFollow
    <3>1. p \in DOMAIN words /\ q \in DOMAIN words /\ p < q
      BY <1>2, <2>2
    <3>2. ASSUME NEW c \in Range(m[p]), NEW d \in Range(m[q])
          PROVE  <<c, d>> \in MayFollow
      <4>1. c \in Place /\ d \in Place /\ c[1] = p /\ d[1] = q
        BY <1>2, <1>4, <2>1, <3>1
      <4>2. Before(c, d)
        BY <3>1, <4>1 DEF Before
      <4>3. QED
        BY <4>1, <4>2, FollowsLater
    <3>3. QED
      BY <3>2
  <2>5. Pieces(m, MayFollow)
    BY <2>3, <2>4 DEF Pieces
  <2>6. Sorted(FlattenSeq(m), MayFollow) <=> Pieces(m, MayFollow)
    BY <2>1, SortedFlatten
  <2>7. QED
    BY <2>1, <2>5, <2>6, Zenon
<1>8. ASSUME NEW p \in DOMAIN words, NEW q \in DOMAIN words,
             ParaLen(words[p]) <= Limit, ParaLen(words[q]) > Limit,
             NEW c \in Range(FlattenSeq(words[p])), NEW d \in Range(FlattenSeq(words[q]))
      PROVE  <<c, d>> \in MayFollow
  <2>1. c \in Place /\ d \in Place /\ c[1] = p /\ d[1] = q
    BY <1>4
  <2>2. ParaLen(words[p]) \in Int
    <3>1. words[p] \in Seq(Seq(Place))
      BY <1>2 DEF P
    <3>2. QED
      BY <3>1, ParagraphLength
  <2>3. ~(ParaLen(words[p]) > Limit)
    BY <1>8, <2>2, AnswersAssumption
  <2>4. Oversized(d) /\ ~Oversized(c)
    BY <1>0, <1>8, <2>1, <2>3, Zenon DEF Oversized
  <2>5. QED
    BY <2>1, <2>4, FollowsLarger
<1>9. ASSUME NEW p \in DOMAIN words, NEW i \in DOMAIN words[p], NEW j \in DOMAIN words[p],
             Len(words[p][i]) <= Limit, Len(words[p][j]) > Limit,
             NEW c \in Range(words[p][i]), NEW d \in Range(words[p][j])
      PROVE  <<c, d>> \in MayFollow
  <2>1. c \in Place /\ d \in Place /\ c[1] = p /\ d[1] = p /\ c[2] = i /\ d[2] = j
    BY <1>3
  <2>2. Len(words[p][i]) \in Nat
    <3>1. words[p][i] \in Seq(Place)
      BY <1>2
    <3>2. QED
      BY <3>1
  <2>3. ~(Len(words[p][i]) > Limit)
    BY <1>9, <2>2, AnswersAssumption
  <2>4. Huge(d) /\ ~Huge(c)
    BY <1>0, <1>9, <2>1, <2>3, Zenon DEF Huge, LineOf
  <2>5. QED
    BY <2>1, <2>4, FollowsLarger
<1>10. LargerLater(words, MayFollow)
  <2>1. ASSUME NEW p \in DOMAIN words, NEW q \in DOMAIN words,
               ParaLen(words[p]) <= Limit, ParaLen(words[q]) > Limit
        PROVE  Range(FlattenSeq(words[p])) \X Range(FlattenSeq(words[q])) \subseteq MayFollow
    BY <1>8, <2>1
  <2>2. ASSUME NEW p \in DOMAIN words, NEW i \in DOMAIN words[p], NEW j \in DOMAIN words[p],
               Len(words[p][i]) <= Limit, Len(words[p][j]) > Limit
        PROVE  Range(words[p][i]) \X Range(words[p][j]) \subseteq MayFollow
    BY <1>9, <2>2
  <2>3. QED
    BY <2>1, <2>2, Zenon DEF LargerLater
<1>11. QED
  BY <1>1, <1>7, <1>10 DEF words

(* What was sent, and what is left after it, stands in order and is of the   *)
(* text; and it is all of it, unless sending was given up.  As long as the   *)
(* chunks are HTML, what a cut tag parted is still together in them.         *)
Reading(texts) ==
    /\ Sorted(ReadAll(texts), MayFollow)
    /\ Range(ReadAll(texts)) \subseteq Range(Chars(Source))
TextInv ==
    /\ delivered \in BOOLEAN
    /\ Reading(messages)
    /\ at \in {"html", "plain"} => Reading(messages \o left)
    /\ at \in {"html", "plain"} \/ left = << >> =>
          Seen(Range(ReadAll(messages \o left))) = Seen(Range(Chars(Source)))
    /\ at = "html" => left \in Stitches(TagCut)

LEMMA UnmarkedKeeps ==
  ASSUME NEW s \in Seq(Place)
  PROVE  /\ Unmarked(s) \in Seq(Place)
         /\ Sorted(s, MayFollow) => Sorted(Unmarked(s), MayFollow)
         /\ Range(Unmarked(s)) = Seen(Range(s))
<1>1. PICK M, R : M = Marks /\ R = MayFollow
  OBVIOUS
<1>2. /\ Stripped(s, M) \in Seq(Place)
      /\ Sorted(s, R) => Sorted(Stripped(s, M), R)
      /\ Range(Stripped(s, M)) = Without(Range(s), M)
  BY StrippedSteps, StrippedKeeps
<1>3. Without(Range(s), M) = Seen(Range(s))
  BY <1>1 DEF Without, Seen, Visible
<1>4. QED
  BY <1>1, <1>2, <1>3, Zenon DEF Unmarked

LEMMA ChunksTyped ==
  ASSUME FitInv
  PROVE  /\ messages \in Seq(Texts) /\ left \in Seq(Texts) /\ messages \o left \in Seq(Texts)
         /\ ReadAll(messages) \in Seq(Place) /\ ReadAll(left) \in Seq(Place)
         /\ ReadAll(messages \o left) = ReadAll(messages) \o ReadAll(left)
<1>1. messages \in Seq(Texts) /\ left \in Seq(Texts)
  <2>1. FittingTexts \subseteq Texts
    BY DEF FittingTexts
  <2>2. QED
    BY <2>1 DEF FitInv
<1>2. messages \o left \in Seq(Texts)
  BY <1>1
<1>3. QED
  BY <1>1, <1>2, ReadKeepsConcat

(* A chunk that appears is the next one.                                     *)
LEMMA NextChunk ==
  ASSUME FitInv, TextInv, at \in {"html", "plain"}, ChunkAppears
  PROVE  /\ messages' \o Tail(left) = messages \o left
         /\ Reading(messages')
         /\ left \in Stitches(TagCut) => Tail(left) \in Stitches(TagCut)
<1>1. left # << >> /\ messages \in Seq(Texts) /\ left \in Seq(Texts)
  BY ChunksTyped DEF FitInv
<1>2. PICK c \in Texts, r \in Seq(Texts) : c = Head(left) /\ r = Tail(left) /\ left = <<c>> \o r
  <2>1. Head(left) \in Texts /\ Tail(left) \in Seq(Texts) /\ left = <<Head(left)>> \o Tail(left)
    BY <1>1, SMTT(60)
  <2>2. QED
    BY <2>1
<1>3. messages' = Append(messages, c)
  BY <1>2 DEF ChunkAppears
<1>4. PICK m \in Seq(Texts) : m = messages
  BY <1>1
<1>5. Append(m, c) \o r = m \o (<<c>> \o r) /\ Append(m, c) \in Seq(Texts)
  BY SMTT(60)
<1>6. messages' \o Tail(left) = messages \o left
  BY <1>2, <1>3, <1>4, <1>5, Zenon
<1>7. Reading(messages \o left)
  BY DEF TextInv
<1>8. ReadAll(Append(m, c) \o r) = ReadAll(Append(m, c)) \o ReadAll(r)
      /\ ReadAll(Append(m, c)) \in Seq(Place) /\ ReadAll(r) \in Seq(Place)
  BY <1>5, ReadKeepsConcat
<1>9. PICK x \in Seq(Place), y \in Seq(Place) : x = ReadAll(Append(m, c)) /\ y = ReadAll(r)
  BY <1>8
<1>10. Sorted(x \o y, MayFollow) /\ Range(x \o y) \subseteq Range(Chars(Source))
  <2>1. ReadAll(messages \o left) = x \o y
    BY <1>2, <1>3, <1>4, <1>6, <1>8, <1>9, Zenon
  <2>2. QED
    BY <1>7, <2>1, Zenon DEF Reading
<1>11. Sorted(x \o y, MayFollow) <=>
         Sorted(x, MayFollow) /\ Sorted(y, MayFollow) /\ Range(x) \X Range(y) \subseteq MayFollow
  BY SortedConcat
<1>12. Sorted(x, MayFollow) /\ Range(x) \subseteq Range(Chars(Source))
  <2>1. Range(x \o y) = Range(x) \union Range(y)
    BY RangeConcat
  <2>2. Range(x) \subseteq Range(Chars(Source))
    BY <1>10, <2>1
  <2>3. QED
    BY <1>10, <1>11, <2>2, Zenon
<1>13. Reading(messages')
  BY <1>3, <1>4, <1>9, <1>12, Zenon DEF Reading
<1>14. ASSUME left \in Stitches(TagCut) PROVE Tail(left) \in Stitches(TagCut)
  <2>1. <<c>> \in Seq(Texts)
    OBVIOUS
  <2>2. <<c>> \o r \in Stitches(TagCut)
    BY <1>2, <1>14, Zenon
  <2>3. r \in Stitches(TagCut)
    BY <2>1, <2>2, StitchesConcat
  <2>4. QED
    BY <1>2, <2>3
<1>15. QED
  BY <1>6, <1>13, <1>14, Zenon

(* What is left, as plain text and split again.                              *)
LEMMA RefusedAgain ==
  ASSUME FitInv, TextInv, at = "html",
         NEW again, again = Split(Plain(FlattenSeq(left)))
  PROVE  /\ again \in Seq(Texts)
         /\ Reading(messages \o again)
         /\ Seen(Range(ReadAll(messages \o again))) = Seen(Range(ReadAll(messages \o left)))
<1> DEFINE words == FlattenSeq(left)
           plain == Plain(words)
<1>1. PICK x \in Seq(Place), y \in Seq(Place) :
         x = ReadAll(messages) /\ y = ReadAll(left) /\ ReadAll(messages \o left) = x \o y
  BY ChunksTyped
<1>2. /\ Sorted(x, MayFollow) /\ Sorted(y, MayFollow) /\ Range(x) \X Range(y) \subseteq MayFollow
      /\ Range(x) \union Range(y) \subseteq Range(Chars(Source))
  <2>1. Sorted(x \o y, MayFollow) <=>
          Sorted(x, MayFollow) /\ Sorted(y, MayFollow) /\ Range(x) \X Range(y) \subseteq MayFollow
    BY SortedConcat
  <2>2. Reading(messages \o left)
    BY DEF TextInv
  <2>3. Sorted(x \o y, MayFollow) /\ Range(x \o y) \subseteq Range(Chars(Source))
    BY <1>1, <2>2, Zenon DEF Reading
  <2>4. Range(x \o y) = Range(x) \union Range(y)
    BY RangeConcat
  <2>5. Range(x) \union Range(y) \subseteq Range(Chars(Source))
    BY <2>3, <2>4
  <2>6. QED
    BY <2>1, <2>3, <2>5, Zenon
<1>3. words \in Seq(ShortParas)
  <2>1. left \in Seq(Seq(ShortParas))
    BY ShortParagraphs DEF FitInv
  <2>2. QED
    BY <2>1, FlattenType
<1>4. words \in Texts /\ Chars(words) = y
  BY <1>1, <1>3 DEF ShortParas, Texts, ReadAll
<1>5. LargerLater(plain, MayFollow)
  <2>1. Stitched(words, TagCut)
    BY DEF TextInv, Stitches
  <2>2. \A i \in 1 .. Len(words) - 1 : EndsOpen(words[i]) =>
           /\ Range(FlattenSeq(words[i])) \subseteq TagCut
           /\ Range(FlattenSeq(words[i + 1])) \subseteq TagCut
    <3> HIDE DEF words
    <3>1. Len(words) \in Nat
      BY <1>4 DEF Texts
    <3>2. \A i \in 1 .. Len(words) - 1 : i \in 1 .. Len(words)
      BY <3>1
    <3>3. QED
      BY <2>1, <3>2 DEF Stitched
  <2>3. Sorted(Chars(words), MayFollow)
    BY <1>2, <1>4
  <2> HIDE DEF words
  <2>4. QED
    BY <1>3, <2>2, <2>3, FollowsEither, PlainLarger
<1>6. plain \in Texts /\ Chars(plain) = PlainLine(y)
  BY <1>4, PlainReads
<1>7. /\ Sorted(PlainLine(y), MayFollow)
      /\ Range(PlainLine(y)) \subseteq Range(y) /\ Seen(Range(PlainLine(y))) = Seen(Range(y))
  BY <1>2, PlainLineKeeps
<1> HIDE DEF plain
<1>8. /\ Split(plain) \in Seq(Texts)
      /\ Sorted(ReadAll(Split(plain)), MayFollow)
      /\ Range(ReadAll(Split(plain))) = Range(Chars(plain))
  <2>1. Sorted(Chars(plain), MayFollow)
    BY <1>6, <1>7
  <2>2. QED
    BY <1>5, <1>6, <2>1, SplitSorted
<1>9. again = Split(plain)
  BY DEF plain
<1>10. PICK z \in Seq(Place) : z = ReadAll(again)
  BY <1>8, <1>9, ReadKeepsConcat
<1>11. Sorted(z, MayFollow) /\ Range(z) \subseteq Range(y) /\ Seen(Range(z)) = Seen(Range(y))
  BY <1>6, <1>7, <1>8, <1>9, <1>10, Zenon
<1>12. ReadAll(messages \o again) = x \o z
  <2>1. messages \in Seq(Texts) /\ again \in Seq(Texts)
    BY <1>8, <1>9, ChunksTyped
  <2>2. ReadAll(messages \o again) = ReadAll(messages) \o ReadAll(again)
    BY <2>1, ReadKeepsConcat
  <2>3. QED
    BY <1>1, <1>10, <2>2, Zenon
<1>13. Range(x) \X Range(z) \subseteq MayFollow
  BY <1>2, <1>11
<1>14. Sorted(x \o z, MayFollow)
  <2>1. Sorted(x \o z, MayFollow) <=>
          Sorted(x, MayFollow) /\ Sorted(z, MayFollow) /\ Range(x) \X Range(z) \subseteq MayFollow
    BY SortedConcat
  <2>2. QED
    BY <1>2, <1>11, <1>13, <2>1, Zenon
<1>15. Range(x \o z) = Range(x) \union Range(z) /\ Range(x \o y) = Range(x) \union Range(y)
  BY RangeConcat
<1>16. Range(x \o z) \subseteq Range(Chars(Source))
  BY <1>2, <1>11, <1>15
<1>17. Seen(Range(x \o z)) = Seen(Range(x \o y))
  <2>1. /\ Seen(Range(x) \union Range(z)) = Seen(Range(x)) \union Seen(Range(z))
        /\ Seen(Range(x) \union Range(y)) = Seen(Range(x)) \union Seen(Range(y))
    BY DEF Seen
  <2>2. QED
    BY <1>11, <1>15, <2>1, Zenon
<1>18. Reading(messages \o again)
  BY <1>12, <1>14, <1>16, Zenon DEF Reading
<1>19. QED
  BY <1>1, <1>8, <1>9, <1>12, <1>17, <1>18, Zenon

LEMMA StartsWhole ==
  ASSUME RichInit, FitInv
  PROVE  TextInv
<1>1. answer \in Answers /\ messages = << >> /\ delivered = TRUE
  BY DEF RichInit
<1>2. /\ Source \in Texts
      /\ Sorted(Chars(Source), MayFollow)
      /\ LargerLater(Source, MayFollow)
      /\ Source \in Seq(Seq(SoundLines(TagCut)))
  BY <1>1, SourceSorted, SourceSound
<1>3. messages \o left = left
  <2>1. left \in Seq(Texts)
    BY ChunksTyped
  <2>2. << >> \o left = left
    BY <2>1
  <2>3. QED
    BY <1>1, <2>2, Zenon
<1>4. Sorted(ReadAll(left), MayFollow) /\ Range(ReadAll(left)) = Range(Chars(Source))
  <2>1. CASE answer.text = << >>
    <3>1. left = << >> /\ Source = << >>
      <4>1. DOMAIN << >> = {}
        OBVIOUS
      <4>2. Cut(<< >>) = << >>
        BY <4>1 DEF Cut
      <4>3. QED
        BY <2>1, <4>2 DEF RichInit, Source
    <3>2. ReadAll(left) = << >> /\ Chars(Source) = << >>
      BY <3>1, ReadKeepsConcat, CharsKeepConcat, Zenon
    <3>3. QED
      BY <3>2, SortedEmpty, Zenon
  <2>2. CASE answer.text # << >>
    <3>1. left = Split(Source)
      BY <2>2 DEF RichInit, Source
    <3>2. QED
      BY <1>2, <3>1, SplitSorted
  <2>3. QED
    BY <2>1, <2>2
<1>5. Reading(messages)
  <2>1. ReadAll(messages) = << >>
    BY <1>1, ReadKeepsConcat, Zenon
  <2>2. Sorted(<< >>, MayFollow) /\ Range(<< >>) = {}
    BY SortedEmpty
  <2>3. QED
    BY <2>1, <2>2 DEF Reading
<1>6. Reading(messages \o left)
  BY <1>3, <1>4 DEF Reading
<1>7. at = "html" => left \in Stitches(TagCut)
  <2>1. SUFFICES ASSUME at = "html" PROVE left \in Stitches(TagCut)
    OBVIOUS
  <2>2. answer.text # << >>
    BY <2>1 DEF RichInit, Start
  <2>3. left = Split(Source)
    BY <2>2 DEF RichInit, Source
  <2>4. QED
    BY <1>2, <2>3, SplitStitched
<1>8. QED
  BY <1>1, <1>3, <1>4, <1>5, <1>6, <1>7, Zenon DEF TextInv

LEMMA SameText ==
  ASSUME UNCHANGED answer
  PROVE  (MayFollow)' = MayFollow /\ (Source)' = Source /\ (TagCut)' = TagCut
<1>1. \A c : CutIn(c, End)' <=> CutIn(c, End)
  BY DEF CutIn, Huge, LineOf
<1>2. QED
  BY <1>1 DEF MayFollow, Before, Oversized, Huge, LineOf, CutIn, Source, TagCut

LEMMA TextInvNext ==
  ASSUME UNCHANGED answer, delivered' \in BOOLEAN,
         Reading(messages'),
         at' \in {"html", "plain"} => Reading(messages' \o left'),
         at' \in {"html", "plain"} \/ left' = << >> =>
            Seen(Range(ReadAll(messages' \o left'))) = Seen(Range(Chars(Source))),
         at' = "html" => left' \in Stitches(TagCut)
  PROVE  TextInv'
BY SameText DEF TextInv, Reading

LEMMA TextStepWhole ==
  ASSUME FitInv, TextInv, Text
  PROVE  TextInv'
<1>1. UNCHANGED answer /\ delivered' \in BOOLEAN
  BY DEF Text, ChunkSent, ChunkRefused, ChunkCut, ChunkRaises, TextInv
<1>2. CASE ChunkSent
  <2>1. at \in {"html", "plain"} /\ ChunkAppears /\ left' = Tail(left) /\ at' \in {at, "file"}
    BY <1>2 DEF ChunkSent
  <2>2. /\ messages' \o Tail(left) = messages \o left /\ Reading(messages')
        /\ left \in Stitches(TagCut) => Tail(left) \in Stitches(TagCut)
    BY <2>1, NextChunk
  <2>3. messages' \o left' = messages \o left
    BY <2>1, <2>2, Zenon
  <2>4. /\ Reading(messages \o left)
        /\ Seen(Range(ReadAll(messages \o left))) = Seen(Range(Chars(Source)))
        /\ at' = "html" => left' \in Stitches(TagCut)
    BY <2>1, <2>2 DEF TextInv
  <2>5. /\ Reading(messages' \o left')
        /\ Seen(Range(ReadAll(messages' \o left'))) = Seen(Range(Chars(Source)))
    BY <2>3, <2>4, Zenon
  <2>6. QED
    BY <1>1, <2>2, <2>4, <2>5, TextInvNext
<1>3. CASE ChunkRefused
  <2>1. /\ at = "html" /\ left' = Split(Plain(FlattenSeq(left))) /\ messages' = messages
        /\ at' # "html"
    BY <1>3 DEF ChunkRefused
  <2>2. PICK again : again = Split(Plain(FlattenSeq(left)))
    OBVIOUS
  <2>3. /\ Reading(messages \o again)
        /\ Seen(Range(ReadAll(messages \o again))) = Seen(Range(ReadAll(messages \o left)))
    BY <2>1, <2>2, RefusedAgain
  <2>4. /\ Reading(messages)
        /\ Seen(Range(ReadAll(messages \o left))) = Seen(Range(Chars(Source)))
    BY <2>1 DEF TextInv
  <2>5. messages' \o left' = messages \o again
    BY <2>1, <2>2, Zenon
  <2>6. /\ Reading(messages' \o left') /\ Reading(messages')
        /\ Seen(Range(ReadAll(messages' \o left'))) = Seen(Range(Chars(Source)))
    BY <2>1, <2>3, <2>4, <2>5, Zenon
  <2>7. QED
    BY <1>1, <2>1, <2>6, TextInvNext
<1>4. CASE ChunkCut \/ ChunkRaises
  <2>1. /\ at \in {"html", "plain"} /\ at' \notin {"html", "plain"} /\ left' = left
        /\ messages' = messages \/ ChunkAppears
    BY <1>4 DEF ChunkCut, ChunkRaises, ChunkMayAppear
  <2>2. left' # << >>
    BY <2>1 DEF FitInv
  <2>3. Reading(messages')
    <3>1. CASE messages' = messages
      <4>1. Reading(messages)
        BY DEF TextInv
      <4>2. QED
        BY <3>1, <4>1, Zenon
    <3>2. CASE ChunkAppears
      BY <2>1, <3>2, NextChunk
    <3>3. QED
      BY <2>1, <3>1, <3>2
  <2>4. at' # "html"
    BY <2>1
  <2>5. QED
    BY <1>1, <2>1, <2>2, <2>3, <2>4, TextInvNext
<1>5. QED
  BY <1>2, <1>3, <1>4 DEF Text

LEMMA TextInvariant == RichSpec => []TextInv
<1>1. ASSUME FitInv, TextInv, [RichNext]_richVars PROVE TextInv'
  <2>1. CASE Text
    BY <1>1, <2>1, TextStepWhole
  <2>2. ASSUME UNCHANGED <<answer, left, messages, delivered>>, at' = at \/ at' \notin {"html", "plain"}
        PROVE  TextInv'
    <3>1. /\ Reading(messages)
          /\ at \in {"html", "plain"} => Reading(messages \o left)
          /\ at \in {"html", "plain"} \/ left = << >> =>
                Seen(Range(ReadAll(messages \o left))) = Seen(Range(Chars(Source)))
          /\ at = "html" => left \in Stitches(TagCut)
      BY <1>1 DEF TextInv
    <3>2. messages' = messages /\ left' = left /\ messages' \o left' = messages \o left
      BY <2>2
    <3>3. /\ Reading(messages')
          /\ at' \in {"html", "plain"} => Reading(messages' \o left')
          /\ at' \in {"html", "plain"} \/ left' = << >> =>
                Seen(Range(ReadAll(messages' \o left'))) = Seen(Range(Chars(Source)))
          /\ at' = "html" => left' \in Stitches(TagCut)
      <4>1. at' = "html" => at = "html"
        BY <2>2
      <4>2. QED
        BY <2>2, <3>1, <3>2, <4>1, Zenon
    <3>4. UNCHANGED answer /\ delivered' \in BOOLEAN
      BY <1>1, <2>2 DEF TextInv
    <3>5. QED
      BY <3>3, <3>4, TextInvNext
  <2>3. CASE File
    <3>1. UNCHANGED <<answer, left, messages, delivered>> /\ at' \notin {"html", "plain"}
      BY <2>3 DEF File, NotSent, Uploaded, Refused, Unreadable, UploadLost, UploadRaises, NoticeSent,
         NoticeRaises, Return, NextFile, Uploading, Pending, Kind, textVars
    <3>2. QED
      BY <2>2, <3>1
  <2>4. CASE UNCHANGED richVars
    <3>1. UNCHANGED <<answer, left, messages, delivered, at>>
      BY <2>4 DEF richVars, textVars
    <3>2. QED
      BY <2>2, <3>1
  <2>5. QED
    BY <1>1, <2>1, <2>3, <2>4 DEF RichNext
<1>2. QED
  BY <1>1, StartsWhole, FittingChunks, PTL DEF RichSpec

(* The text arrives whole: no character is shown twice, only those of an     *)
(* escape that a hard split cut are missing once no chunk is left, also when *)
(* the plain rest was split again, and a part changes places with a later one*)
(* only when it is too long for a message or of a line in which a tag was    *)
(* cut: for every limit and every text.                                      *)
THEOREM TextArrivesWhole == RichSpec => []TextWhole
<1>1. ASSUME FitInv, TextInv PROVE TextOnce /\ OnlyOversizedMove
  <2>0. answer \in Answers /\ answer.text \in Texts /\ Source \in Texts
    BY <1>1, SourcePlaced DEF FitInv, Marked
  <2>1. PICK s \in Seq(Place) : s = ReadAll(messages)
    BY <1>1, ChunksTyped
  <2>2. Shown = Unmarked(s)
    BY <2>1, Zenon DEF Shown, ReadAll
  <2>3. Sorted(s, MayFollow) /\ Range(s) \subseteq Range(Chars(Source))
    BY <1>1, <2>1 DEF TextInv, Reading
  <2>4. PICK u \in Seq(Place) : u = Shown /\ Sorted(u, MayFollow) /\ Range(u) = Seen(Range(s))
    BY <2>2, <2>3, UnmarkedKeeps
  <2>5. \A j \in DOMAIN u : \A i \in 1 .. j - 1 :
           /\ u[i] # u[j]
           /\ Before(u[j], u[i]) => \/ Oversized(u[j]) /\ ~Oversized(u[i])
                                    \/ u[j][1] = u[i][1] /\ Huge(u[j]) /\ ~Huge(u[i])
                                    \/ CutIn(u[j], End)
    <3>1. TAKE j \in DOMAIN u
    <3>2. TAKE i \in 1 .. j - 1
    <3>3. PICK c \in Place, d \in Place : c = u[i] /\ d = u[j]
      BY <3>1, <3>2
    <3>4. <<c, d>> \in MayFollow
      BY <2>4, <3>3 DEF Sorted
    <3>5. Visible(c) /\ Visible(d)
      BY <2>4, <3>1, <3>2, <3>3 DEF Seen, Range
    <3>6. /\ c # d
          /\ Before(d, c) => \/ Oversized(d) /\ ~Oversized(c)
                             \/ d[1] = c[1] /\ Huge(d) /\ ~Huge(c)
                             \/ CutIn(d, End)
      <4>1. <<c, d>>[1] = c /\ <<c, d>>[2] = d
        OBVIOUS
      <4>2. QED
        BY <3>4, <3>5, <4>1, Zenon DEF MayFollow
    <3>7. QED
      BY <3>3, <3>6, Zenon
  <2>6. OnlyOversizedMove
    BY <2>4, <2>5, Zenon DEF OnlyOversizedMove
  <2>7. IsInjective(Shown)
    <3>1. SUFFICES ASSUME NEW i \in DOMAIN u, NEW j \in DOMAIN u, i < j
                   PROVE  u[i] # u[j]
      BY <2>4 DEF IsInjective
    <3>2. i \in 1 .. j - 1
      BY <3>1
    <3>3. QED
      BY <2>5, <3>2
  <2>8. Range(Meant) = Seen(Range(Chars(answer.text)))
    <3>1. PICK m \in Seq(Place) : m = Chars(answer.text)
      BY <2>0, CharsKeepConcat
    <3>2. QED
      BY <3>1, UnmarkedKeeps DEF Meant
  <2>9. ASSUME NEW c \in Range(Chars(Source))
        PROVE  /\ Visible(c) => c \in Range(Chars(answer.text))
               /\ c[3] = Torn => CutIn(c, Rest)
    BY <2>0, <2>9, SourceShows
  <2>10. Range(Shown) \subseteq Range(Meant)
    <3>1. Seen(Range(s)) \subseteq Seen(Range(Chars(answer.text)))
      BY <2>3, <2>9 DEF Seen
    <3>2. QED
      BY <2>4, <2>8, <3>1
  <2>11. ASSUME NEW c \in Range(Chars(FlattenSeq(messages))), c[3] = Torn
         PROVE  CutIn(c, Rest)
    <3>1. c \in Range(Chars(Source))
      BY <2>1, <2>3, <2>11 DEF ReadAll
    <3>2. QED
      BY <2>9, <2>11, <3>1
  <2>12. ASSUME left = << >>, NEW c \in Range(Meant) \ Range(Shown)
         PROVE  TornApart(c)
    <3>1. messages \o left = messages
      <4>1. PICK m \in Seq(Texts) : m = messages
        BY <1>1, ChunksTyped
      <4>2. m \o << >> = m
        OBVIOUS
      <4>3. QED
        BY <2>12, <4>1, <4>2, Zenon
    <3>2. Seen(Range(ReadAll(messages \o left))) = Seen(Range(Chars(Source)))
      BY <1>1, <2>12 DEF TextInv
    <3>3. Range(Shown) = Seen(Range(Chars(Source)))
      BY <2>1, <2>4, <3>1, <3>2, Zenon
    <3>4. c \in Range(Chars(answer.text)) /\ Visible(c) /\ c \notin Range(Chars(Source))
      BY <2>8, <2>12, <3>3 DEF Seen
    <3>5. QED
      BY <2>0, <3>4, SourceDiffers
  <2>13. TextOnce
    BY <2>7, <2>10, <2>11, <2>12 DEF TextOnce
  <2>14. QED
    BY <2>6, <2>13
<1>2. ASSUME FilesInv, FitInv, TextInv PROVE RichTypeOK
  <2>1. Range(uploads) \union told \union unanswered \subseteq DOMAIN answer.files
    BY <1>2 DEF FilesInv, FilesTyped, Range
  <2>2. QED
    BY <1>2, <2>1 DEF RichTypeOK, FilesInv, FilesTyped, FitInv, TextInv
<1>3. QED
  BY <1>1, <1>2, FilesInvariant, FittingChunks, TextInvariant, PTL DEF TextWhole
=============================================================================
