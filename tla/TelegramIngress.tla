------------------------------ MODULE TelegramIngress ------------------------------
(* From a Telegram message to the turn a provider gets: AuthMiddleware, the  *)
(* group policy, download into the dated directory, transcription, and the   *)
(* payload.  Handlers of different messages run concurrently; an action is   *)
(* what one does between two awaits.                                         *)
(*                                                                           *)
(* A definition that no other one uses is a fault the code could have had in *)
(* place of the definition after it (PROJECT.json, mutants).                 *)
EXTENDS Naturals, FiniteSets, FiniteSetsExt

CONSTANTS
    Message,
    Arrivals    \* what the messages may be: functions to records of Trait

(* "photo": any attachment of an image type; "document": any other file.     *)
Chat == {"private", "group", "channel"}
Kind == {"text", "photo", "document", "voice", "nothing"}
Trait == [chat : Chat, user : BOOLEAN, listed : BOOLEAN, topic : BOOLEAN,
          addressed : {"us", "nobody", "another"}, kind : Kind,
          caption : BOOLEAN, reply : BOOLEAN]

ASSUME TraitsAssumption ==
    IsFiniteSet(Message) /\ Arrivals \subseteq [Message -> Trait]

VARIABLES
    config,     \* group_mention_only, automatic_audio, provider
    is,         \* the traits of each message
    pc,
    path,       \* where its attachment goes
    files,      \* what is at each path
    payload,    \* what the provider got of it
    answered,   \* where an error about it was sent
    overlapped  \* history: its path was chosen while another download had
                \*   chosen the same and not created it

vars == <<config, is, pc, path, files, payload, answered, overlapped>>

(* Documents share one name; photos and voice notes are named by their id.   *)
Stem(m) == IF is[m].kind = "document" THEN "document" ELSE "unique"
Counter == 0..Cardinality(Message)
Path == {"document"} \X Counter \union Message \X Counter
NoPath == <<"none", 0>>

Init ==
    /\ config \in [mentionOnly : BOOLEAN, audio : BOOLEAN, provider : {"codex", "claude"}]
    /\ is \in Arrivals
    /\ pc = [m \in Message |-> "sent"]
    /\ path = [m \in Message |-> NoPath]
    /\ files = [p \in Path |-> {}]
    /\ payload = [m \in Message |-> {}]
    /\ answered = [m \in Message |-> "nowhere"]
    /\ overlapped = {}

-----------------------------------------------------------------------------
(* Who may speak, and to whom.                                               *)

AuthorizedByUser(m) == is[m].user
Authorized(m) ==
    IF is[m].chat = "channel" THEN is[m].listed
    ELSE is[m].user /\ (is[m].chat = "group" => is[m].listed)

Dropped(m) ==
    /\ is[m].chat = "group"
    /\ \/ is[m].addressed = "another"
       \/ config.mentionOnly /\ is[m].addressed # "us"

HasMedia(m) == is[m].kind \in {"photo", "document", "voice"}

Arrive(m) ==
    /\ pc[m] = "sent"
    /\ pc' = [pc EXCEPT ![m] =
                IF ~Authorized(m) \/ Dropped(m) \/ is[m].kind = "nothing" THEN "dropped"
                ELSE IF HasMedia(m) THEN "storing" ELSE "turn"]
    /\ UNCHANGED <<config, is, path, files, payload, answered, overlapped>>

-----------------------------------------------------------------------------
(* Media.                                                                    *)

Named(m, k) == IF Stem(m) = "document" THEN <<"document", k>> ELSE <<m, k>>

FirstName(m) == 0
FreeCounter(m) == Min({k \in Counter : files[Named(m, k)] = {}})

PrepareDestination(m) ==
    /\ pc[m] = "storing"
    /\ path' = [path EXCEPT ![m] = Named(m, FreeCounter(m))]
    /\ LET others == {o \in Message \ {m} : pc[o] = "fetching" /\ path[o] = path'[m]}
       IN overlapped' = overlapped \union others \union (IF others = {} THEN {} ELSE {m})
    /\ pc' = [pc EXCEPT ![m] = "fetching"]
    /\ UNCHANGED <<config, is, files, payload, answered>>

Transcribes(m) == is[m].kind = "voice" /\ config.audio

Downloaded(m) ==
    /\ pc[m] = "fetching"
    /\ files' = [files EXCEPT ![path[m]] = {m}]
    /\ pc' = [pc EXCEPT ![m] = IF Transcribes(m) THEN "transcribing" ELSE "turn"]
    /\ UNCHANGED <<config, is, path, payload, answered, overlapped>>

(* An error is sent to the chat; sending may itself fail.                    *)
Tell(m, where) ==
    \/ /\ pc' = [pc EXCEPT ![m] = "told"]
       /\ answered' = [answered EXCEPT ![m] = where]
    \/ /\ pc' = [pc EXCEPT ![m] = "failed"]
       /\ UNCHANGED answered

ItsTopic(m) == IF is[m].topic THEN "topic" ELSE "chat"

(* It may leave a part of the file.                                          *)
DownloadFails(m) ==
    /\ pc[m] = "fetching"
    /\ files' \in {files, [files EXCEPT ![path[m]] = {"part"}]}
    /\ Tell(m, "chat")
    /\ UNCHANGED <<config, is, path, payload, overlapped>>

Transcribed(m) ==
    /\ pc[m] = "transcribing"
    /\ pc' = [pc EXCEPT ![m] = "turn"]
    /\ UNCHANGED <<config, is, path, files, payload, answered, overlapped>>

(* No key, a refusal, a timeout or an empty transcript.                      *)
TellsAndGoesOn(m) ==
    /\ pc' = [pc EXCEPT ![m] = "turn"]
    /\ answered' = [answered EXCEPT ![m] = ItsTopic(m)]
GivesUp(m) == Tell(m, ItsTopic(m))
TranscriptionFails(m) ==
    /\ pc[m] = "transcribing"
    /\ GivesUp(m)
    /\ UNCHANGED <<config, is, path, files, payload, overlapped>>

-----------------------------------------------------------------------------
(* The payload, as the set of its parts.                                     *)

AudioToo(m) == HasMedia(m)
Attached(m) == HasMedia(m) /\ ~Transcribes(m)
AsImage(m) == Attached(m) /\ is[m].kind = "photo" /\ config.provider = "codex"

(* Lost by an adapter that took every attachment of Codex for an image.      *)
OnlyClaudeLines(m) == Attached(m) /\ config.provider = "claude"
AsLine(m) == Attached(m) /\ ~AsImage(m)

Parts(m) ==
    (IF is[m].kind = "text" THEN {"text"} ELSE {})
      \union (IF HasMedia(m) /\ is[m].caption THEN {"caption"} ELSE {})
      \union (IF Transcribes(m) THEN {"transcript"} ELSE {})
      \union (IF is[m].reply THEN {"quote"} ELSE {})
      \union (IF AsImage(m) THEN {"image"} ELSE {})
      \union (IF AsLine(m) THEN {"line"} ELSE {})

Submit(m) ==
    /\ pc[m] = "turn"
    /\ payload' = [payload EXCEPT ![m] = Parts(m)]
    /\ pc' = [pc EXCEPT ![m] = "submitted"]
    /\ UNCHANGED <<config, is, path, files, answered, overlapped>>

Handle(m) == \/ Arrive(m) \/ PrepareDestination(m) \/ Downloaded(m) \/ DownloadFails(m)
             \/ Transcribed(m) \/ TranscriptionFails(m) \/ Submit(m)
Next == \E m \in Message : Handle(m)

Spec == Init /\ [][Next]_vars

-----------------------------------------------------------------------------
(* Properties.                                                               *)

(* Type correctness; a payload that the bridge accepts has text or an image. *)
TypeOK ==
    /\ pc \in [Message -> {"sent", "dropped", "storing", "fetching", "transcribing",
                           "turn", "submitted", "told", "failed"}]
    /\ path \in [Message -> Path \union {NoPath}]
    /\ \A p \in Path : files[p] \in {{}, {"part"}} \union {{m} : m \in Message}
    /\ answered \in [Message -> {"nowhere", "chat", "topic"}]
    /\ \A m \in Message : pc[m] = "submitted" => payload[m] \ {"quote"} # {}

(* Unauthorized input never reaches a harness: an unlisted chat or an        *)
(* unlisted person in a private chat or a group; nor does what a group says  *)
(* to another bot.                                                           *)
OnlyAllowedIsSubmitted == \A m \in Message : pc[m] = "submitted" =>
    /\ is[m].chat \in {"group", "channel"} => is[m].listed
    /\ is[m].chat \in {"group", "private"} => is[m].user
    /\ is[m].chat = "group" => is[m].addressed # "another"

(* What the user sent is in the payload once: an attachment natively or as a *)
(* line or as its transcript, and the caption and the quote with it.         *)
PayloadComplete == \A m \in Message : pc[m] = "submitted" =>
    /\ HasMedia(m) <=> Cardinality(payload[m] \intersect {"image", "line", "transcript"}) = 1
    /\ HasMedia(m) /\ is[m].caption => "caption" \in payload[m]
    /\ is[m].reply => "quote" \in payload[m]

(* The attachment of a turn is the file of its message, unless two downloads *)
(* of one name began together.                                               *)
AttachmentIsOwn == \A m \in Message :
    pc[m] = "submitted" /\ Attached(m) /\ m \notin overlapped => files[path[m]] = {m}

(* "Transcription failure returns a clear Telegram error and does not invoke *)
(* either harness", nor does a failed download: no message is both answered  *)
(* with an error and submitted.                                              *)
ErrorOrTurn == \A m \in Message : answered[m] # "nowhere" => payload[m] = {}

(* Every message is submitted whole, or refused, or answered with an error.  *)
SubmittedRightly ==
    TypeOK /\ OnlyAllowedIsSubmitted /\ PayloadComplete /\ ErrorOrTurn

-----------------------------------------------------------------------------
(* What the documents promise and the code does not keep.                    *)

(* The line in a payload "references the unchanged downloaded file".         *)
AttachmentUnchanged == \A m \in Message :
    pc[m] = "submitted" /\ Attached(m) => files[path[m]] = {m}

(* "topic isolation": an error about a message of a topic is told there.     *)
ErrorsInTopic == \A m \in Message :
    answered[m] # "nowhere" => answered[m] = ItsTopic(m)
=============================================================================
