----------------------------- MODULE SessionLife -----------------------------
(* The native session of a topic over many turns, gateway runs and providers.*)
(*                                                                           *)
(* Telegram keeps an update until the poll after the one that returned it;   *)
(* every start of the gateway drops what Telegram kept.  A turn resolves the *)
(* topic's record in sessions.json, starts a provider process with the       *)
(* record's id and transport, and writes the id the process announced.  The  *)
(* process (the App Server bridge, or Claude) opens or resumes a native      *)
(* session and submits the user's text.  Between two runs the configuration  *)
(* may name the other provider; Codex's control socket, which selects the    *)
(* transport, comes and goes.                                                *)
(*                                                                           *)
(* The store's file operations are synchronous and a save replaces the file, *)
(* so a resolve, an update or a reset is one step.  A definition that no     *)
(* other one uses is a fault the code could have had in place of the next    *)
(* one (PROJECT.json, mutants).                                              *)
EXTENDS Naturals

CONSTANTS
    Update,         \* Telegram messages
    Key,            \* topics
    KeyOf,          \* the topic of a message
    NoId            \* no session id

ASSUME ConstantsAssumption ==
    /\ KeyOf \in [Update -> Key]
    /\ NoId \notin Update

Provider == {"codex", "claude"}
Transport == {"managed", "embedded"}

(* What holds a native session: an App Server behind a transport, or Claude. *)
Server == Transport \union {"claude"}

(* An id is named by the message whose turn created it.                      *)
SessionId == Update \union {NoId}

(* The records _from_raw accepts; anything else makes every later load raise.*)
Absent == [provider |-> "none", id |-> NoId, backend |-> "none"]
Record == {Absent} \union
          [provider : {"codex"}, id : SessionId, backend : Transport \union {"none"}]
          \union [provider : {"claude"}, id : SessionId, backend : {"none"}]

VARIABLES
    up,             \* the gateway runs
    provider,       \* AgentConfig.provider of this run
    socket,         \* the Codex control socket exists
    kept,           \* updates Telegram keeps
    handler,        \* the gateway's handler of each message
    stored,         \* sessions.json
    misread,        \* history: the last read of it has failed
    request,        \* AgentRequest.resume_session and resume_backend
    server,         \* the server each turn's process talks to
    process,        \* the provider process of each turn
    thread,         \* the session the process opened
    announced,      \* the turn's handler has read its id
    origin,         \* history: the server that created each session
    resumes,        \* history: message, session and server of each resume
    submissions     \* history: times the text of a message was submitted

gatewayVars == <<up, provider, socket>>
telegramVars == <<kept, handler>>
processVars == <<process, thread>>
storeVars == <<stored, misread>>
historyVars == <<origin, resumes, submissions>>
vars == <<gatewayVars, telegramVars, storeVars, request, server, processVars,
          announced, historyVars>>

Init ==
    /\ up = FALSE
    /\ provider \in Provider
    /\ socket \in BOOLEAN
    /\ kept = {}
    /\ handler = [u \in Update |-> "unsent"]
    /\ stored = [k \in Key |-> Absent] /\ misread = FALSE
    /\ request = [u \in Update |-> Absent]
    /\ server = [u \in Update |-> "none"]
    /\ process = [u \in Update |-> "none"]
    /\ thread = [u \in Update |-> NoId]
    /\ announced = [u \in Update |-> FALSE]
    /\ origin = [u \in Update |-> "none"]
    /\ resumes = {}
    /\ submissions = [u \in Update |-> 0]

-----------------------------------------------------------------------------
(* Telegram and the life of the gateway.                                     *)

Send(u) ==
    /\ handler[u] = "unsent"
    /\ handler' = [handler EXCEPT ![u] = "pending"]
    /\ kept' = kept \union {u}
    /\ UNCHANGED <<gatewayVars, storeVars, request, server, processVars,
                   announced, historyVars>>

(* getUpdates returns the message and a task starts to handle it.            *)
Poll(u) ==
    /\ up
    /\ u \in kept
    /\ handler[u] = "pending"
    /\ handler' = [handler EXCEPT ![u] = "waiting"]
    /\ UNCHANGED <<gatewayVars, kept, storeVars, request, server, processVars,
                   announced, historyVars>>

(* The next getUpdates confirms it, however far the task has come.           *)
Confirm(u) ==
    /\ up
    /\ u \in kept
    /\ handler[u] \in {"waiting", "executing", "over"}
    /\ kept' = kept \ {u}
    /\ UNCHANGED <<gatewayVars, handler, storeVars, request, server, processVars,
                   announced, historyVars>>

(* The gateway crashes or stops.  Its handlers are gone, its providers may   *)
(* go on, and Telegram would deliver again what was not confirmed.           *)
Crash ==
    /\ up
    /\ up' = FALSE
    /\ handler' = [u \in Update |->
                     IF u \in kept THEN "pending"
                     ELSE IF handler[u] = "unsent" THEN "unsent" ELSE "over"]
    /\ UNCHANGED <<provider, socket, kept, storeVars, request, server,
                   processVars, announced, historyVars>>

(* run: delete_webhook(drop_pending_updates=True).                           *)
KeepPending == UNCHANGED kept
DropPending == kept' = {}

Start ==
    /\ ~up
    /\ up' = TRUE
    /\ provider' \in Provider
    /\ DropPending
    /\ UNCHANGED <<socket, handler, storeVars, request, server, processVars,
                   announced, historyVars>>

SocketChanges ==
    /\ socket' = ~socket
    /\ UNCHANGED <<up, provider, telegramVars, storeVars, request, server,
                   processVars, announced, historyVars>>

-----------------------------------------------------------------------------
(* The session store.                                                        *)

(* load_json takes a file it cannot read for an empty one.                   *)
Unread == [k \in Key |-> Absent]
Load(file) == \/ misread' = FALSE /\ file = stored
              \/ misread' = TRUE /\ file = Unread
Files == {stored, Unread}

FreshKeepsBackend(rec) ==
    [provider |-> provider, id |-> NoId, backend |-> rec.backend]
Fresh(rec) == [provider |-> provider, id |-> NoId, backend |-> "none"]

UsableWithBackend(rec) == rec.provider = provider /\ rec.backend # "none"
Usable(rec) == rec.provider = provider

(* resolve_session: keep the record, or save a fresh one for this provider.  *)
Resolved(rec) == IF Usable(rec) THEN rec ELSE Fresh(rec)

Chosen == IF provider = "claude" THEN "claude"
          ELSE IF socket THEN "managed" ELSE "embedded"

InheritedBackend(rec, u) ==
    IF provider # "codex" THEN "none"
    ELSE IF rec.backend = "none" THEN server[u] ELSE rec.backend
(* update_session: the announced transport; no process announces none.       *)
Backend(rec, u) == IF provider = "codex" THEN server[u] ELSE "none"

Updated(rec, u) ==
    [provider |-> provider, id |-> thread[u], backend |-> Backend(rec, u)]

Executing(u) == up /\ handler[u] = "executing"
TopicFree(k) == \A u \in Update : Executing(u) => KeyOf[u] # k

-----------------------------------------------------------------------------
(* A turn in the gateway.                                                    *)

(* The turn lock is ours: resolve_session, _build_command and the start of   *)
(* the process, without an await that suspends in between.                   *)
ForgetBackend(rec) == [rec EXCEPT !.backend = "none"]
Request(rec) == rec

Begin(u) ==
    /\ up
    /\ handler[u] = "waiting"
    /\ TopicFree(KeyOf[u])
    /\ \E file \in Files :
         LET rec == Resolved(file[KeyOf[u]]) IN
         /\ Load(file)
         /\ request' = [request EXCEPT ![u] = Request(rec)]
         /\ stored' = IF rec = file[KeyOf[u]]
                        THEN stored
                        ELSE [file EXCEPT ![KeyOf[u]] = rec]
    /\ server' = [server EXCEPT ![u] = Chosen]
    /\ process' = [process EXCEPT ![u] = "started"]
    /\ thread' = [thread EXCEPT ![u] = NoId]
    /\ announced' = [announced EXCEPT ![u] = FALSE]
    /\ handler' = [handler EXCEPT ![u] = "executing"]
    /\ UNCHANGED <<gatewayVars, kept, historyVars>>

ReadThread(u) ==
    /\ Executing(u)
    /\ thread[u] # NoId
    /\ ~announced[u]
    /\ announced' = [announced EXCEPT ![u] = TRUE]
    /\ UNCHANGED <<gatewayVars, telegramVars, storeVars, request, server,
                   processVars, historyVars>>

Over(u) == handler' = [handler EXCEPT ![u] = "over"]

(* Answered, failed, timed out or aborted: _persist_response.  A record that *)
(* is not in the file is the one the turn resolved.                          *)
Finish(u) ==
    /\ Executing(u)
    /\ IF announced[u]
         THEN \E file \in Files :
                LET k == KeyOf[u]
                    rec == IF file[k] = Absent THEN request[u] ELSE file[k]
                IN  Load(file) /\ stored' = [file EXCEPT ![k] = Updated(rec, u)]
         ELSE UNCHANGED <<stored, misread>>
    /\ Over(u)
    /\ UNCHANGED <<gatewayVars, kept, request, server, processVars, announced,
                   historyVars>>

(* The handler was cancelled, a callback raised or the save failed.          *)
Abandon(u) ==
    /\ Executing(u)
    /\ Over(u)
    /\ UNCHANGED <<gatewayVars, kept, storeVars, request, server, processVars,
                   announced, historyVars>>

(* /new, once the turn lock is its own.                                      *)
Reset(k) ==
    /\ up
    /\ TopicFree(k)
    /\ \E file \in Files : Load(file) /\ stored' = [file EXCEPT ![k] = Fresh(@)]
    /\ UNCHANGED <<gatewayVars, telegramVars, request, server, processVars,
                   announced, historyVars>>

-----------------------------------------------------------------------------
(* A provider process.  The gateway may be gone while it runs.               *)

Opens(u, id) ==
    /\ thread' = [thread EXCEPT ![u] = id]
    /\ process' = [process EXCEPT ![u] = "open"]
    /\ UNCHANGED <<gatewayVars, telegramVars, storeVars, request, server,
                   announced, submissions>>

(* start_or_resume: an id is only offered to the transport it came from;     *)
(* Claude is given every id.                                                 *)
FitsAlways(u) == request[u].id # NoId
Fits(u) == /\ request[u].id # NoId
           /\ server[u] = "claude" \/ request[u].backend = server[u]

(* Claude may answer a resume with a session of its own.                     *)
StartThread(u) ==
    /\ process[u] = "started"
    /\ Fits(u) => server[u] = "claude"
    /\ Opens(u, u)
    /\ origin' = [origin EXCEPT ![u] = server[u]]
    /\ resumes' = IF Fits(u)
                    THEN resumes \union {<<u, request[u].id, server[u]>>}
                    ELSE resumes

ResumeThread(u) ==
    /\ process[u] = "started"
    /\ Fits(u)
    /\ Opens(u, request[u].id)
    /\ resumes' = resumes \union {<<u, request[u].id, server[u]>>}
    /\ UNCHANGED origin

(* run_turn writes turn/start; whatever comes of it, it never does again.    *)
Submit(u) ==
    /\ process[u] = "open"
    /\ process' = [process EXCEPT ![u] = "submitted"]
    /\ submissions' = [submissions EXCEPT ![u] = @ + 1]
    /\ UNCHANGED <<gatewayVars, telegramVars, storeVars, request, server, thread,
                   announced, origin, resumes>>

(* It ends, fails (a resume that is refused included) or is killed.          *)
End(u) ==
    /\ process[u] \in {"started", "open", "submitted"}
    /\ process' = [process EXCEPT ![u] = "ended"]
    /\ UNCHANGED <<gatewayVars, telegramVars, storeVars, request, server, thread,
                   announced, historyVars>>

-----------------------------------------------------------------------------
Turn(u) == Begin(u) \/ ReadThread(u) \/ Finish(u) \/ Abandon(u)
Process(u) == StartThread(u) \/ ResumeThread(u) \/ Submit(u) \/ End(u)

Next == \/ \E u \in Update : \/ Send(u) \/ Poll(u) \/ Confirm(u)
                             \/ Turn(u) \/ Process(u)
        \/ \E k \in Key : Reset(k)
        \/ Crash \/ Start \/ SocketChanges

Spec == Init /\ [][Next]_vars

-----------------------------------------------------------------------------
(* Properties.                                                               *)

(* Type correctness; the file's part says that what is saved can be loaded.  *)
TypeOK ==
    /\ up \in BOOLEAN
    /\ provider \in Provider
    /\ socket \in BOOLEAN
    /\ kept \subseteq Update
    /\ handler \in [Update -> {"unsent", "pending", "waiting", "executing", "over"}]
    /\ stored \in [Key -> Record] /\ misread \in BOOLEAN
    /\ request \in [Update -> Record]
    /\ server \in [Update -> Server \union {"none"}]
    /\ process \in [Update -> {"none", "started", "open", "submitted", "ended"}]
    /\ thread \in [Update -> SessionId]
    /\ announced \in [Update -> BOOLEAN]
    /\ origin \in [Update -> Server \union {"none"}]
    /\ resumes \subseteq Update \X Update \X Server
    /\ submissions \in [Update -> Nat]

(* The record of a topic names the provider and the transport that created   *)
(* its session, across provider changes, transport changes and crashes.      *)
Owner(rec) == IF rec.provider = "codex" THEN rec.backend ELSE rec.provider
OwnershipRecorded ==
    \A k \in Key : stored[k].id # NoId => /\ origin[stored[k].id] = Owner(stored[k])
                                          /\ KeyOf[stored[k].id] = k

(* "a provider or managed/embedded transport change starts a fresh native    *)
(* session instead of sending an incompatible ID": a session is only resumed *)
(* on the server that created it, by a turn of its own topic.                *)
ResumeFits ==
    \A r \in resumes : origin[r[2]] = r[3] /\ KeyOf[r[1]] = KeyOf[r[2]]

(* What is stored and what is resumed have the owner they name.              *)
SessionsFit == TypeOK /\ OwnershipRecorded /\ ResumeFits

(* "never replays the same user turn": no message is submitted to a provider *)
(* twice, though Telegram may still hold it when the gateway crashes.        *)
SubmittedOnce == \A u \in Update : submissions[u] <= 1

(* "each later turn resumes the ID persisted by its predecessor": while its  *)
(* turn is in the gateway, a process opens a new Codex session only when the *)
(* topic's stored one does not fit it.                                       *)
NewOnlyIfUnfit ==
    [][\A u \in Update :
         /\ Executing(u) /\ server[u] # "claude"
         /\ process[u] = "started" /\ thread'[u] = u
         => \/ stored[KeyOf[u]].id = NoId
            \/ origin[stored[KeyOf[u]].id] # server[u]]_vars

(* A topic's session is forgotten only by its /new, for another provider, or *)
(* by the save after a read of the store that failed, which is taken for an  *)
(* empty one: not by a turn of this or of another topic that fails, not by a *)
(* crash, and not by the end of a turn of the topic itself, which knows the  *)
(* id it announced.                                                          *)
ForgottenOnPurpose ==
    [][\A k \in Key :
         stored[k].id # NoId /\ stored'[k].id = NoId
         => \/ Reset(k)
            \/ stored[k].provider # provider
            \/ misread' /\ \A u \in Update : Finish(u) => KeyOf[u] # k]_vars
=============================================================================
