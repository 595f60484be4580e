---------------------------- MODULE TurnExecution ----------------------------
(* One gateway process executing Telegram turns through a provider CLI.      *)
(*                                                                           *)
(* Orchestrator.handle_message queues every turn of a (chat, topic) on a     *)
(* FIFO lock; the owner resolves the stored native session, runs one         *)
(* provider process through CLIService.execute and run_streaming_subprocess, *)
(* persists the session id the process announced and leaves the lock.        *)
(* /stop, /stop_all, /interrupt and /new run in other handler tasks, without *)
(* the lock, and reach a turn only through the ProcessRegistry: its list of  *)
(* processes and its set of aborted topics.                                  *)
(*                                                                           *)
(* One asyncio event loop runs all the handlers, so a handler is atomic      *)
(* between two awaits; an action below is the code between two awaits.       *)
EXTENDS Integers, Sequences, FiniteSets

CONSTANTS
    Turn,           \* user messages that reach handle_message
    Reset,          \* /new and /reset commands
    Key,            \* SessionKey.lock_key values: (chat, topic) pairs
    Chat,
    KeyOf,          \* the lock key of a turn or a reset
    ChatOf,         \* the chat of a lock key
    NoId,           \* no native session id
    MaxUnread       \* bound: stdout lines a provider may be ahead of the reader

Task == Turn \union Reset

ASSUME ConstantsAssumption ==
    /\ KeyOf \in [Task -> Key]
    /\ ChatOf \in [Key -> Chat]
    /\ Turn \intersect Reset = {}
    /\ NoId \notin Turn
    /\ MaxUnread \in Nat \ {0}

(* A native session id is named by the turn whose process created it.        *)
SessionId == Turn \union {NoId}

VARIABLES
    pc,             \* where the handler of a task is
    turnLock,       \* Orchestrator._turn_locks: holder first, then the waiters
    sessions,       \* the session id stored for each key ("" is NoId)
    registered,     \* ProcessRegistry._processes: turns whose process is listed
    abortedTopics,  \* ProcessRegistry._aborted_topics
    proc,           \* the operating system's view of each turn's process
    doomed,         \* turns whose process has a SIGKILL on its way
    unread,         \* stdout lines written and not yet read
    resume,         \* AgentRequest.resume_session of each turn
    seen,           \* service._StreamState.session_id of each turn
    outcome,        \* what handle_message returned or raised
    asked,          \* history: turns executing when an abort of their topic ran
    hit,            \* history: turns whose listed process an abort targeted
    retired         \* history: session ids that a reset has discarded

handlerVars == <<pc, turnLock, outcome>>
registryVars == <<registered, abortedTopics>>
streamVars == <<unread, resume, seen>>
historyVars == <<asked, hit, retired>>
vars == <<handlerVars, registryVars, streamVars, historyVars,
          sessions, proc, doomed>>

(* Inside CLIService.execute: every await it can be suspended in.            *)
ExecutePc == {"spawning", "streaming", "consuming", "draining",
              "reaping", "killing", "expired"}

Executing(t) == pc[t] \in ExecutePc
Live(t) == proc[t] \in {"running", "closed"}
NoLock(x) == TRUE
HoldsLock(x) == /\ turnLock[KeyOf[x]] # << >>
                /\ Head(turnLock[KeyOf[x]]) = x
Aborted(t) == KeyOf[t] \in abortedTopics

Init ==
    /\ pc = [x \in Task |-> "new"]
    /\ turnLock = [k \in Key |-> << >>]
    /\ sessions = [k \in Key |-> NoId]
    /\ registered = {}
    /\ abortedTopics = {}
    /\ proc = [t \in Turn |-> "none"]
    /\ doomed = {}
    /\ unread = [t \in Turn |-> 0]
    /\ resume = [t \in Turn |-> NoId]
    /\ seen = [t \in Turn |-> NoId]
    /\ outcome = [t \in Turn |-> "none"]
    /\ asked = {}
    /\ hit = {}
    /\ retired = {}

-----------------------------------------------------------------------------
(* ProcessRegistry.  An operator that no other one uses is a fault of the    *)
(* code that the next definition could have had (PROJECT.json, mutants).     *)

StickyFlag(t) == UNCHANGED abortedTopics
ClearTopicAbort(t) == abortedTopics' = abortedTopics \ {KeyOf[t]}

FlagChat(targets) ==
    abortedTopics' = abortedTopics \union {ChatOf[KeyOf[t]] : t \in targets}
Flag(targets) ==
    abortedTopics' = abortedTopics \union {KeyOf[t] : t \in targets}

StaysListed(t) == UNCHANGED registered
Unregister(t) == registered' = registered \ {t}

UnlistChat(targets) ==
    registered' = {t \in registered :
                     \A u \in targets : ChatOf[KeyOf[t]] # ChatOf[KeyOf[u]]}
Unlist(targets) == registered' = registered \ targets

(* The live ones are going to be killed.                                     *)
NoKill(targets) == UNCHANGED doomed
Doom(targets) == doomed' = doomed \union {t \in targets : Live(t)}

-----------------------------------------------------------------------------
(* The turn lock.                                                            *)

QueueFirst(x) == turnLock' = [turnLock EXCEPT ![KeyOf[x]] = <<x>> \o @]
Queue(x) == turnLock' = [turnLock EXCEPT ![KeyOf[x]] = Append(@, x)]
Leave(x) == turnLock' = [turnLock EXCEPT ![KeyOf[x]] = Tail(@)]

(* handle_message reaches `async with self._turn_locks...`.                  *)
Arrive(t) ==
    /\ pc[t] = "new"
    /\ pc' = [pc EXCEPT ![t] = "waiting"]
    /\ Queue(t)
    /\ UNCHANGED <<outcome, registryVars, streamVars, historyVars,
                   sessions, proc, doomed>>

(* The finally of execute and the exit of the turn lock; no await suspends   *)
(* between the end of the event loop and here.                               *)
Conclude(t, out) ==
    /\ pc' = [pc EXCEPT ![t] = "done"]
    /\ outcome' = [outcome EXCEPT ![t] = out]
    /\ ClearTopicAbort(t)
    /\ unread' = [unread EXCEPT ![t] = 0]
    /\ Leave(t)

PersistUnlessAborted(t) ==
    sessions' = IF seen[t] = NoId \/ Aborted(t)
                  THEN sessions
                  ELSE [sessions EXCEPT ![KeyOf[t]] = seen[t]]
PersistChatWide(t) ==
    sessions' = [k \in Key |-> IF seen[t] # NoId /\ ChatOf[k] = ChatOf[KeyOf[t]]
                                 THEN seen[t]
                                 ELSE sessions[k]]
(* _persist_response and update_session.                                     *)
Persist(t) == sessions' = IF seen[t] = NoId
                            THEN sessions
                            ELSE [sessions EXCEPT ![KeyOf[t]] = seen[t]]

(* The flag is read before it is cleared.                                    *)
BlankTooLate(t, out) == out
Blank(t, out) == IF Aborted(t) THEN "silent" ELSE out

Answer(t, out) == Conclude(t, Blank(t, out)) /\ Persist(t)

(* The turn lock is ours: resolve_session, clear_topic_abort, _make_cli and  *)
(* the start of create_subprocess_exec.                                      *)
Begin(t) ==
    /\ pc[t] = "waiting"
    /\ HoldsLock(t)
    /\ resume' = [resume EXCEPT ![t] = sessions[KeyOf[t]]]
    /\ ClearTopicAbort(t)
    /\ pc' = [pc EXCEPT ![t] = "spawning"]
    /\ UNCHANGED <<turnLock, outcome, registered, unread, seen, historyVars,
                   sessions, proc, doomed>>

(* _make_cli finds no project directory or no binary: the error is the       *)
(* answer and nothing was spawned.                                           *)
BeginFails(t) ==
    /\ pc[t] = "waiting"
    /\ HoldsLock(t)
    /\ resume' = [resume EXCEPT ![t] = sessions[KeyOf[t]]]
    /\ Conclude(t, "failed")
    /\ UNCHANGED <<registered, seen, historyVars, sessions, proc, doomed>>

-----------------------------------------------------------------------------
(* run_streaming_subprocess and the loop of execute over its events.         *)

Spawned(t) ==
    /\ pc[t] = "spawning"
    /\ proc' = [proc EXCEPT ![t] = "running"]
    /\ registered' = registered \union {t}
    /\ pc' = [pc EXCEPT ![t] = "streaming"]
    /\ UNCHANGED <<turnLock, outcome, abortedTopics, streamVars, historyVars,
                   sessions, doomed>>

SpawnFails(t) ==
    /\ pc[t] = "spawning"
    /\ Conclude(t, "failed")
    /\ UNCHANGED <<registered, resume, seen, historyVars, sessions, proc,
                   doomed>>

(* An event after the topic was aborted: execute returns "" at once.  The    *)
(* generator is dropped where it stands: the process stays listed until      *)
(* FinalizeGenerator and nothing kills it.                                   *)
ReadAborted(t) ==
    /\ pc[t] = "streaming"
    /\ unread[t] > 0
    /\ Aborted(t)
    /\ Answer(t, "silent")
    /\ UNCHANGED <<registered, resume, seen, historyVars, proc, doomed>>

ReadLine(t) ==
    /\ pc[t] = "streaming"
    /\ unread[t] > 0
    /\ ~Aborted(t)
    /\ unread' = [unread EXCEPT ![t] = @ - 1]

(* SystemInitEvent or ResultEvent with a session id: the resumed session or  *)
(* one the process created.                                                  *)
ReadSessionId(t) ==
    /\ ReadLine(t)
    /\ \E id \in {resume[t], t} \ {NoId} : seen' = [seen EXCEPT ![t] = id]
    /\ UNCHANGED <<handlerVars, registryVars, resume, historyVars, sessions,
                   proc, doomed>>

(* A tool, progress or status event: execute awaits its Telegram callback.   *)
ReadCallbackEvent(t) ==
    /\ ReadLine(t)
    /\ pc' = [pc EXCEPT ![t] = "consuming"]
    /\ UNCHANGED <<turnLock, outcome, registryVars, resume, seen, historyVars,
                   sessions, proc, doomed>>

(* Answer text, an event without a session id, or no event at all.           *)
ReadOther(t) ==
    /\ ReadLine(t)
    /\ UNCHANGED <<handlerVars, registryVars, resume, seen, historyVars,
                   sessions, proc, doomed>>

CallbackReturns(t) ==
    /\ pc[t] = "consuming"
    /\ pc' = [pc EXCEPT ![t] = "streaming"]
    /\ UNCHANGED <<turnLock, outcome, registryVars, streamVars, historyVars,
                   sessions, proc, doomed>>

(* The callback raises a Telegram error, which execute does not catch: the   *)
(* turn ends without _persist_response.                                      *)
CallbackRaises(t) ==
    /\ pc[t] = "consuming"
    /\ Conclude(t, "raised")
    /\ UNCHANGED <<registered, resume, seen, historyVars, sessions, proc,
                   doomed>>

(* readline or line_handler raises ValueError (a line over the limit, a      *)
(* malformed record): the generator's finally unregisters the process, and   *)
(* the error is the answer whether or not the topic was aborted.             *)
StreamFails(t) ==
    /\ pc[t] = "streaming"
    /\ unread[t] > 0
    /\ Unregister(t)
    /\ Conclude(t, "failed")
    /\ Persist(t)
    /\ UNCHANGED <<resume, seen, historyVars, proc, doomed>>

(* readline returns b"": on to `await stderr_drain`, still listed.           *)
ReadEof(t) ==
    /\ pc[t] = "streaming"
    /\ unread[t] = 0
    /\ proc[t] \in {"closed", "dead"}
    /\ pc' = [pc EXCEPT ![t] = "draining"]
    /\ UNCHANGED <<turnLock, outcome, registryVars, streamVars, historyVars,
                   sessions, proc, doomed>>

(* stderr is at its end too: unregister, then `await process.wait()`.        *)
Drained(t) ==
    /\ pc[t] = "draining"
    /\ proc[t] \in {"closed", "dead"}
    /\ Unregister(t)
    /\ pc' = [pc EXCEPT ![t] = "reaping"]
    /\ UNCHANGED <<turnLock, outcome, abortedTopics, streamVars, historyVars,
                   sessions, proc, doomed>>

(* The process has been waited for; the post handler's events and the end.   *)
Reaped(t) ==
    /\ pc[t] = "reaping"
    /\ proc[t] = "dead"
    /\ Answer(t, "text")
    /\ UNCHANGED <<registered, resume, seen, historyVars, proc, doomed>>

-----------------------------------------------------------------------------
(* The deadline of _stream_with_timeout.                                     *)

(* It fires while readline waits: TimeoutError in the generator, which       *)
(* kills the process tree and waits for it.                                  *)
DeadlineInRead(t) ==
    /\ pc[t] = "streaming"
    /\ pc' = [pc EXCEPT ![t] = "killing"]
    /\ Doom({t})
    /\ UNCHANGED <<turnLock, outcome, registryVars, streamVars, historyVars,
                   sessions, proc>>

(* It fires while the generator is suspended at a yield and the handler      *)
(* awaits a callback: asyncio.timeout cancels the handler's task, and the    *)
(* CancelledError leaves execute and handle_message.                         *)
DeadlineInCallback(t) ==
    /\ pc[t] = "consuming"
    /\ Conclude(t, "cancelled")
    /\ UNCHANGED <<registered, resume, seen, historyVars, sessions, proc,
                   doomed>>

(* The killed process is gone: the __TIMEOUT__ event meets the loop.         *)
TimeoutEvent(t) ==
    /\ pc[t] = "killing"
    /\ proc[t] = "dead"
    /\ \/ /\ Aborted(t)
          /\ Answer(t, "silent")
          /\ UNCHANGED <<resume, seen>>
       \/ /\ ~Aborted(t)
          /\ pc' = [pc EXCEPT ![t] = "expired"]
          /\ UNCHANGED <<turnLock, outcome, abortedTopics, streamVars, sessions>>
    /\ UNCHANGED <<registered, historyVars, proc, doomed>>

(* The generator's finally after the timeout event, then the answer.         *)
TimeoutEnds(t) ==
    /\ pc[t] = "expired"
    /\ Unregister(t)
    /\ Answer(t, "timed_out")
    /\ UNCHANGED <<resume, seen, historyVars, proc, doomed>>

(* The event loop finalises a generator its consumer dropped.                *)
FinalizeGenerator(t) ==
    /\ pc[t] = "done"
    /\ t \in registered
    /\ Unregister(t)
    /\ UNCHANGED <<handlerVars, abortedTopics, streamVars, historyVars,
                   sessions, proc, doomed>>

-----------------------------------------------------------------------------
(* Provider processes.                                                       *)

(* Output that no handler will read any more is not modelled.                *)
Write(t) ==
    /\ proc[t] = "running"
    /\ pc[t] \in {"streaming", "consuming"}
    /\ unread[t] < MaxUnread
    /\ unread' = [unread EXCEPT ![t] = @ + 1]
    /\ UNCHANGED <<handlerVars, registryVars, resume, seen, historyVars,
                   sessions, proc, doomed>>

CloseStdout(t) ==
    /\ proc[t] = "running"
    /\ proc' = [proc EXCEPT ![t] = "closed"]
    /\ UNCHANGED <<handlerVars, registryVars, streamVars, historyVars,
                   sessions, doomed>>

(* By itself, on SIGTERM, on SIGINT, or by a SIGKILL on its way.             *)
Exit(t) ==
    /\ Live(t)
    /\ proc' = [proc EXCEPT ![t] = "dead"]
    /\ doomed' = doomed \ {t}
    /\ UNCHANGED <<handlerVars, registryVars, streamVars, historyVars,
                   sessions>>

(* The SIGKILL of _kill_processes, 0.25 s after its SIGTERM, or the one of   *)
(* the deadline.                                                             *)
ForceKill(t) == t \in doomed /\ Exit(t)

-----------------------------------------------------------------------------
(* Commands.                                                                 *)

Asked(keys) ==
    asked' = asked \union {t \in Turn : Executing(t) /\ KeyOf[t] \in keys}

(* kill_by_chat_topic and kill_all_active up to the 0.25 s sleep: flag the   *)
(* topics, unlist the processes, SIGTERM the live ones.                      *)
Kill(targets) ==
    /\ Flag(targets)
    /\ Unlist(targets)
    /\ Doom(targets)
    /\ hit' = hit \union targets

InTopic(k) == {t \in registered : KeyOf[t] = k}

Stop(k) ==
    /\ Kill(InTopic(k))
    /\ Asked({k})
    /\ UNCHANGED <<handlerVars, streamVars, retired, sessions, proc>>

StopAll ==
    /\ Kill(registered)
    /\ Asked(Key)
    /\ UNCHANGED <<handlerVars, streamVars, retired, sessions, proc>>

(* interrupt_all: flag and SIGINT the live ones of a chat, and unlist none.  *)
Interrupt(c) ==
    LET targets == {t \in registered : ChatOf[KeyOf[t]] = c /\ Live(t)} IN
    /\ Flag(targets)
    /\ hit' = hit \union targets
    /\ Asked({k \in Key : ChatOf[k] = c})
    /\ UNCHANGED <<handlerVars, registered, streamVars, retired, sessions,
                   proc, doomed>>

(* reset_session: abort, and only then queue for the turn lock.  The abort   *)
(* of live processes suspends, for 0.25 s and at most 2 s for each.          *)
ResetAbort(r) ==
    /\ pc[r] = "new"
    /\ Kill(InTopic(KeyOf[r]))
    /\ Asked({KeyOf[r]})
    /\ IF \E t \in InTopic(KeyOf[r]) : Live(t)
         THEN /\ pc' = [pc EXCEPT ![r] = "aborting"]
              /\ UNCHANGED turnLock
         ELSE /\ pc' = [pc EXCEPT ![r] = "waiting"]
              /\ Queue(r)
    /\ UNCHANGED <<outcome, streamVars, retired, sessions, proc>>

ResetKilled(r) ==
    /\ pc[r] = "aborting"
    /\ pc' = [pc EXCEPT ![r] = "waiting"]
    /\ Queue(r)
    /\ UNCHANGED <<outcome, registryVars, streamVars, historyVars, sessions,
                   proc, doomed>>

(* Every id a turn of this key created or resumed so far is discarded.       *)
ResetStore(r) ==
    /\ pc[r] = "waiting"
    /\ HoldsLock(r)
    /\ sessions' = [sessions EXCEPT ![KeyOf[r]] = NoId]
    /\ retired' = retired \union
                    {t \in Turn : KeyOf[t] = KeyOf[r]
                                  /\ pc[t] \notin {"new", "waiting"}}
    /\ pc' = [pc EXCEPT ![r] = "done"]
    /\ Leave(r)
    /\ UNCHANGED <<outcome, registryVars, streamVars, asked, hit, proc, doomed>>

-----------------------------------------------------------------------------
Read(t) == \/ ReadAborted(t) \/ ReadSessionId(t) \/ ReadCallbackEvent(t)
           \/ ReadOther(t) \/ StreamFails(t) \/ ReadEof(t)

Start(t) == Begin(t) \/ BeginFails(t)
Spawn(t) == Spawned(t) \/ SpawnFails(t)
Callback(t) == CallbackReturns(t) \/ CallbackRaises(t)
Deadline(t) == DeadlineInRead(t) \/ DeadlineInCallback(t)
Ending(t) == Drained(t) \/ Reaped(t) \/ TimeoutEvent(t) \/ TimeoutEnds(t)

Handler(t) == \/ Arrive(t) \/ Start(t) \/ Spawn(t) \/ Read(t) \/ Callback(t)
              \/ Deadline(t) \/ Ending(t) \/ FinalizeGenerator(t)
Process(t) == Write(t) \/ CloseStdout(t) \/ Exit(t)
Resetting(r) == ResetAbort(r) \/ ResetKilled(r) \/ ResetStore(r)
Command == (\E k \in Key : Stop(k)) \/ StopAll \/ (\E c \in Chat : Interrupt(c))

Next == \/ \E t \in Turn : Handler(t) \/ Process(t)
        \/ \E r \in Reset : Resetting(r)
        \/ Command

Spec == Init /\ [][Next]_vars

(* What the event loop and the operating system guarantee: a task that can   *)
(* run runs, Telegram calls end (aiogram's request timeout), the deadline's  *)
(* timer fires, SIGKILL kills.  Nothing makes a provider write or exit.      *)
HandlerFairness(t) ==
    /\ WF_vars(Start(t)) /\ WF_vars(Spawn(t)) /\ WF_vars(Callback(t))
    /\ WF_vars(Deadline(t)) /\ WF_vars(proc[t] = "dead" /\ Ending(t))
    /\ WF_vars(ForceKill(t)) /\ WF_vars(FinalizeGenerator(t))

Fairness == /\ \A t \in Turn : HandlerFairness(t)
            /\ \A r \in Reset : WF_vars(ResetKilled(r) \/ ResetStore(r))

(* The provider's part: having closed its stdout it ends.                    *)
ProviderFairness == \A t \in Turn : WF_vars(proc[t] = "closed" /\ Exit(t))

FairSpec == Spec /\ Fairness
FairProviderSpec == FairSpec /\ ProviderFairness

-----------------------------------------------------------------------------
(* Properties.                                                               *)

(* Type correctness of the gateway's state.                                  *)
TypeOK ==
    /\ pc \in [Task -> {"new", "aborting", "waiting", "done"} \union ExecutePc]
    /\ turnLock \in [Key -> Seq(Task)]
    /\ sessions \in [Key -> SessionId]
    /\ registered \subseteq Turn
    /\ abortedTopics \subseteq Key
    /\ proc \in [Turn -> {"none", "running", "closed", "dead"}]
    /\ doomed \subseteq Turn
    /\ unread \in [Turn -> 0 .. MaxUnread]
    /\ resume \in [Turn -> SessionId]
    /\ seen \in [Turn -> SessionId]
    /\ outcome \in [Turn -> {"none", "text", "silent", "failed", "timed_out",
                             "raised", "cancelled"}]
    /\ asked \subseteq Turn
    /\ hit \subseteq Turn
    /\ retired \subseteq Turn

(* While a turn executes, the session it resumed is still the one stored for *)
(* its topic: no other turn and no /new slips in between resolve_session and *)
(* _persist_response, so the turns of a topic form one chain of sessions.    *)
SessionLineage ==
    \A t \in Turn : Executing(t) => resume[t] = sessions[KeyOf[t]]

(* A session discarded by /new never comes back: a turn that was in flight   *)
(* when /new arrived cannot store its id after the reset, although /new      *)
(* aborts it first and only then queues behind it.                           *)
NoResurrection == \A k \in Key : sessions[k] \notin retired

(* A topic never holds a session that a turn of another topic created.       *)
SessionsOfTopic ==
    \A k \in Key : sessions[k] = NoId \/ KeyOf[sessions[k]] = k

(* Sessions are chained, topic by topic.                                     *)
SessionsChain == TypeOK /\ SessionLineage /\ SessionsOfTopic

(* While a turn reads its process, /stop can reach the process: it is listed *)
(* unless an abort that took it off the list is about to kill it.            *)
ReachableByAbort ==
    \A t \in Turn : pc[t] \in {"streaming", "consuming", "draining"} /\ Live(t)
                      => t \in registered \union doomed

(* An empty answer is only given to a turn that was executing when someone   *)
(* aborted its topic: no flag of an earlier turn or of another topic blanks  *)
(* an answer.                                                                *)
SilenceIsAsked ==
    \A t \in Turn : outcome[t] = "silent" => t \in asked

(* A turn whose process an abort has targeted neither answers nor reports a  *)
(* timeout: the flag outlives the process and is not cleared under the turn. *)
StoppedStaysSilent ==
    \A t \in hit : outcome[t] \notin {"text", "timed_out"}

(* Silence and the aborts agree in both directions.                          *)
SilencedOnRequest == SilenceIsAsked /\ StoppedStaysSilent

(* However a turn comes to its answer, aborted and timed out included, the   *)
(* session id its process announced is the one stored when the turn leaves.  *)
ObservedIdKept ==
    [][\A t \in Turn :
         /\ outcome[t] = "none"
         /\ outcome'[t] \in {"text", "silent", "failed", "timed_out"}
         /\ seen[t] # NoId
         => sessions'[KeyOf[t]] = seen[t]]_vars

(* Every turn that reaches the turn lock ends, aborted or not, and frees it. *)
TurnsEnd == \A t \in Turn : pc[t] = "waiting" ~> pc[t] = "done"

(* Every /new takes effect, whatever the turns before it do.                 *)
ResetsEnd == \A r \in Reset : pc[r] \in {"aborting", "waiting"} ~> pc[r] = "done"

(* A turn and a /new may each wait for the other: both get their way.        *)
TasksEnd == TurnsEnd /\ ResetsEnd

(* The registry lists no process for ever: dropped generators included.      *)
RegistryDrains == \A t \in Turn : t \in registered ~> t \notin registered

-----------------------------------------------------------------------------
(* TopicTurns is what this module implements: a turn is active from Begin to *)
(* the step that leaves the turn lock.                                       *)
phase == [t \in Turn |-> CASE pc[t] = "done" -> "over"
                           [] Executing(t)  -> "active"
                           [] OTHER         -> "idle"]

Topics == INSTANCE TopicTurns WITH session <- sessions, used <- resume

(* A topic is a register that turns read, hold and write one after the       *)
(* other, whatever the processes, commands and deadlines do.                 *)
ImplementsTopicTurns == Topics!Spec

-----------------------------------------------------------------------------
(* What the documentation promises and the code does not keep.               *)

(* "Timeout, /stop, and /interrupt terminate the active provider process":   *)
(* once the deadline has ended a turn, its process is dead or being killed.  *)
TimeoutTerminates ==
    \A t \in Turn : outcome[t] \in {"timed_out", "cancelled"}
                      => ~Live(t) \/ t \in doomed

(* "The gateway serializes turns per Telegram chat/topic": a turn does not   *)
(* run its process beside one that an earlier turn left alive after an       *)
(* interrupt and that nothing is going to kill.                              *)
InterruptedIsOver ==
    \A t \in hit, u \in Turn :
      /\ KeyOf[t] = KeyOf[u]
      /\ outcome[t] = "silent" /\ Executing(u)
      /\ Live(t) /\ Live(u)
      => t \in doomed
=============================================================================
