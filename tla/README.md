# TLA+ models of telegram-to-agents

`telegram-to-agents` is one asyncio process that passes Telegram messages to a
coding agent's command-line interface (Codex or Claude) and the answer back. A
message becomes a *turn*: the gateway starts one provider process for it, shows
its progress in a temporary message, removes that message and sends the answer.
The native session id a process announces is stored per topic, so that the next
turn of the topic resumes it.

This directory holds TLA+ modules translated from the code under
`src/telegram_to_agents/`, TLC configurations that check them on small
instances, and TLAPS proofs of their safety properties for every instance.
`PROJECT.json` maps each definition to the lines it models, and lists the runs,
the faults each property detects, the hazards with the properties that would
catch them, and the theorems.

    tlc -config Turns.cfg MCTurnExecution      a run (PROJECT.json has them all)
    tlapm TurnExecutionProofs.tla              the proofs of a module

## The system

| Component | Code | State | Operations | Model |
| --- | --- | --- | --- | --- |
| Orchestrator | `orchestrator/core.py` | one FIFO `asyncio.Lock` per (chat, topic) | `handle_message`, `reset_session`, `abort`, `interrupt`, `abort_all` | `TurnExecution`, `TopicTurns` |
| Process registry | `cli/process_registry.py`, `infra/process_tree.py` | listed processes per chat, set of aborted topics | register, unregister, kill by topic, kill all, interrupt a chat; signal a tree | `TurnExecution`, `ProcessTree` |
| Turn execution | `cli/service.py`, `cli/executor.py` | the stream state of a turn, the generator's position, the deadline | `execute`, `run_streaming_subprocess` | `TurnExecution`, `StreamOutcome` |
| Session store | `session/manager.py`, `infra/json_store.py`, `infra/atomic_io.py` | a JSON file: provider, session id, transport, topic name per topic | resolve, update, reset | `SessionLife`; the name in `ProjectRouting` |
| Telegram delivery | `messenger/telegram/message_dispatch.py`, `temporary_progress.py`, `sender.py` | known ids and cached text of the progress message, the current reaction | progress and reaction callbacks, `clear`, `send_rich` | `TelegramDelivery`, `StageReaction`, `RunMessage`, `AnswerDelivery` |
| Provider adapters | `cli/codex_provider.py`, `claude_provider.py`, `codex_events.py`, `stream_events.py` | text, thread id and error of a stream | parse a line, filter, choose the result | `StreamOutcome` |
| App Server bridge | `cli/codex_appserver_bridge.py` | request ids, queued messages, item phases | `request`, `next_message`, turn loop | `AppServerBridge`; start or resume in `SessionLife` |
| Telegram frontend | `messenger/telegram/app.py`, `middleware.py`, `topic.py`, `message_text.py` | bot identity, topic names, exit code | message and command handlers, authorisation, mention policy | `TelegramIngress`, `ProjectRouting` |
| Media ingress | `messenger/telegram/media.py`, `files/`, `security/`, `transcription/` | the dated storage directory | download, transcribe | `TelegramIngress`; answers' files in `AnswerDelivery` |
| Formatting | `messenger/telegram/formatting.py` | none | Markdown to HTML, `split_html_message` | `AnswerDelivery` (splitting) |
| Life cycle | `__main__.py`, `infra/pidlock.py`, `cli_commands/` | `bot.pid`, the exit code | start, stop, restart, shutdown | `GatewayLifecycle`, `ProcessTree` |
| Routing and secrets | `workspace/`, `infra/env_secrets.py` | topic names; a cache of `.env` | project root resolution, `.env` loading | `ProjectRouting` (routing) |
| Configuration, wizard | `config.py`, `cli/init_wizard.py` | `config.json`, `.env` | dialogue, saving | `Installation` |
| Linux service | `infra/service*.py` | the unit file, systemd | install, start, stop, status | `Installation`, `GatewayLifecycle` |

How they interact. aiogram runs every update's handler in a task of its own, on
one event loop. A message handler goes through ingress (authorisation, download,
transcription) and `run_message` to `handle_message`, queues on its topic's lock
and, inside it, resolves the session, executes the provider and persists the
announced id. The event loop of `execute` calls back into the delivery
(reactions, the progress message) and is suspended while the callback waits for
Telegram. Commands run beside it without the lock and reach a turn only through
the registry: they flag its topic, take its process off the list and signal the
process. Only `/new` queues for the lock, after its abort. Outside the process,
gateways and the commands `stop` and `restart` meet in `bot.pid`, in signals and
in systemd; runs of one gateway after another meet in the files of the state root.

What is hard. Handlers interleave at every `await`: an abort falls between any
two steps of a turn, a deadline may fire in the generator or in its consumer, an
exception may leave the generator suspended until the loop finalises it. The
provider is free to ignore SIGTERM and SIGINT, to close stdout and stay, and to
die at any time. Telegram refuses, delays or loses calls, and a lost call may
have taken effect. The App Server mixes responses, notifications and requests of
its own in one stream. Process trees change while they are read. The process may
die between any two steps of a turn or of a file update, and the user may edit a
file or run a command between any two steps of another. The `hazards` of
`PROJECT.json` name the lines.

What makes each component correct:

- *Orchestrator, registry, execution*: turns of a topic form one chain of
  sessions; `/new` is final; topics do not affect each other; an answer is
  suppressed exactly on request; every process stays within reach of `/stop`;
  turns end.
- *Session store*: an id is only resumed by the provider and transport that
  created it, and only forgotten on purpose.
- *Delivery*: never progress and answer side by side; never two progress
  messages; an answer whole, in order and at most once; a reaction that leaves
  with the turn; every file shown or told; the dispatch ends.
- *Adapters and bridge*: the response is what the provider said for an answer,
  and nothing it said for another turn; a failure is told; a turn is submitted
  at most once.
- *Ingress*: nobody else's messages reach a provider; a turn carries all of its
  message and its own attachment, or the message is answered with an error.
- *Life cycle*: at most one gateway per state directory; shutdown leaves no
  provider behind; what is started and stopped starts and stops.
- *Routing, installation*: a topic keeps its name and its project; settings,
  secrets, unit and service agree.

## The modules

An action is the code between two points where something else may step in: two
awaits in the gateway, two system calls between processes. Variables marked
`history` record the past for the properties and never restrict a step. A
definition that nothing else uses and that stands before another one is a fault
the code could have had in its place; `PROJECT.json` names the property that
detects it.

### `TurnExecution`: turns, aborts and deadlines

The state of one gateway process. An action is the code between two awaits,
which the event loop runs without interruption.

| Model | Code |
| --- | --- |
| `turnLock[k]`: a sequence, the holder first | `Orchestrator._turn_locks[k]` and its waiters |
| `sessions[k]` | the `session_id` stored for the topic |
| `registered`, `abortedTopics` | `ProcessRegistry._processes`, `_aborted_topics` |
| `proc[t]`, `doomed`, `unread[t]` | the provider process, a SIGKILL on its way, its pipe |
| `pc[t]` | the `await` at which the turn's handler is suspended |
| `resume[t]`, `seen[t]` | `AgentRequest.resume_session`, `_StreamState.session_id` |
| `asked`, `hit`, `retired` | history only: no guard reads them |

`pc` is `"spawning"` in `create_subprocess_exec`, `"streaming"` in `readline`,
`"consuming"` in a progress callback with the generator suspended at its yield,
`"draining"` in `await stderr_drain`, `"reaping"` in `await process.wait()`,
`"killing"` in the wait after a deadline's SIGKILL and `"expired"` in the
generator's clean-up after the timeout event. `Conclude` is the common way out:
the `finally` of `execute` and the release of the lock. No await suspends
between the two, because the session manager's file operations are synchronous
and its lock is never contended across an await. A generator that `execute`
abandons stays as it is: its process remains listed until `FinalizeGenerator`,
and nothing kills it.

`ProcessRegistry._lock` is not a variable: no await suspends while it is held.
The kill of an aborted process is SIGTERM, which the process may ignore
(`Exit` may happen at any time), 0.25 s, then SIGKILL (`doomed`, `ForceKill`).
The kill returns after 2 s for each process whether or not it has died, so
`ResetKilled` does not wait for the death. SIGINT may be ignored and nothing
follows it. Which text a turn ends with is not distinguished (`"text"`, an
error result of the provider included); `"failed"`, `"timed_out"`, `"silent"`
(the empty text of an aborted turn), `"raised"` and `"cancelled"` are.

### `TopicTurns`: what the gateway promises

A topic is a register. A turn reads it, owns the topic while it is active and
leaves the id it read or the one it created; `/new` empties it while no turn is
active. `TurnExecution` implements it with `session <- sessions`,
`used <- resume` and a `phase` computed from `pc`: processes, flags, commands
and deadlines disappear. Both TLC and a proof show the implementation.

### `TelegramDelivery`, `StageReaction`, `RunMessage`: one turn in its chat

`TelegramDelivery` is `run_message` with the progress editor and
`_send_text_chunks`. The editor's variables keep their meaning (`known`,
`active`, `rendered`); `visible`, `shown` and `sent` are what the chat displays.
A rendering is a number, the event that changed it. `Lost(effect)` is a call
without a reply: it happened or it did not. The turn behind it is abstract: it
makes up to `MaxEvents` callbacks and then returns a text, returns the empty
text, raises, or is cancelled. `attempt` counts the rounds of `clear()`, two for
each call, and the `finally` of `run_message` may call it a second time.

`StageReaction` is the `ReactionTracker`: the emoji it has noted (`current`,
before the call), the call it awaits and the reaction in the chat, which differ
once a call fails.

`RunMessage` puts the two together in the order of `run_message`: one callback at
a time sets the reaction or the progress, the progress is cleared before the
answer, and the reaction last, in the `finally`, unless clearing the progress
raises. It adds no variable: each of its steps is one of a part, with the rest
unchanged, and both parts are refinements of it.

### `AnswerDelivery`: the content of an answer and its files

A text is a sequence of paragraphs of lines of the characters of its HTML source.
What the answer says is named by its place; what the HTML adds has a mark instead.
The code counts and cuts source characters, so a tag and an escaped character such
as `&lt;` are two of them here, the least that can be cut in two: `Mark` and `End`,
a column and `Rest`. A tag or an escape lies within one line (`InPlace`).

`Split`, `Accumulate` and `HardSplit` are `split_html_message` and its helper as
operators over such texts. What a hard split will leave of an escape (`Torn`
halves, shown as junk) and of a tag (`Open`) is marked before the split (`Cut`),
since it depends on the line alone. Telegram refuses a chunk with a tag that is cut
off. The actions are `send_rich`: chunk by chunk; the fallback to plain text, which
joins what is left again (`Mended`: across a cut tag two parts become one line),
drops the tags, undoes the escapes (`Untagged`) and splits the result; then
`send_file` for each tag with the retry as a document, the notices and the errors
that leave it.

### `SessionLife`: sessions over turns, gateway runs and providers

`TurnExecution` looks into one gateway process and keeps of a session its id;
`SessionLife` looks at what outlives a turn. An action is a whole file operation
or a whole stage of a provider process.

| Model | Code |
| --- | --- |
| `up`, `provider`, `socket` | the gateway process, `AgentConfig.provider`, what `resolve_codex_transport` looks at |
| `kept`, `handler[u]` | updates Telegram would deliver again, and the task that handles each |
| `stored[k]` | the topic's record in `sessions.json`: provider, id, transport |
| `request[u]`, `server[u]` | `resume_session` and `resume_backend`; the App Server (by transport) or Claude |
| `process[u]`, `thread[u]` | the bridge process (or Claude), the id it opened |
| `announced[u]` | `_StreamState.session_id` is set |
| `origin`, `resumes`, `submissions` | history only: no guard reads them |

`Begin` is resolve, request and start of the process. `Finish` and `Abandon` are
the two ways out of `handle_message`, with and without `_persist_response`.
`Fits`, `StartThread` and `ResumeThread` are `start_or_resume` of the bridge; a
refused resume is an `End`. Claude takes every id and may answer with another
one. `Crash` takes the handlers away and leaves the processes; `Start` may come
up with the other provider and drops what Telegram kept
(`delete_webhook(drop_pending_updates=True)`). The file operations are
synchronous and a save is a rename, so a crash finds a complete file. Every
read may fail (`Load`, `misread`) and then answers with an empty store, as
`load_json` does for an `OSError` or invalid JSON; the save that follows writes that
down for every topic. A message that failed before it had a process, and
the topic's name in the record, are left out.

### `StreamOutcome`: from lines to the response

The two line parsers (`CodexEvents`, `ClaudeEvents`), the `CodexThinkingFilter`
(`buffered`), the trackers of `CodexCLI._stream` (`tracked`) and of `execute`
(`session`, `result`), and what the handlers after the end make of the exit code
and stderr (`CodexPost`, `DefaultPost`, `Respond`). A line is its number and a
text the number of its line, so that a text that is lost, repeated or taken from
elsewhere is seen. The turn is neither aborted nor late. The bridge prints its
answer after it has closed the App Server (`codex_appserver_bridge.py:640` and
`:650`), so an error of its own comes before the answer; after it only a signal
ends it with another code than 0 (`Endings`).

### `AppServerBridge`: one run of the bridge

The bridge and an App Server with a pipe each way. `pc` is the request `main()`
waits for or the loop of the turn; `queued`, `phases`, `streamed` and `text` are
the bridge's own. The server is external: its definitions stand for no line of
this repository. They follow what the bridge expects of it, with the tests'
stand-in (`fake_daemon.py`) as a guide and what that does in a fixed order made
free: the server answers or refuses requests, streams items in parts, names a
phase when an item starts or only when it completes, sends items and ends of other
turns and threads, asks for approvals, begins a turn before it answers, and may
close at any time. `MaxAhead` bounds what it has sent and the bridge has not handled.

### `GatewayLifecycle`: gateways around one `bot.pid`

`acquire_lock`, `release_lock`, `run_bot`, `stop_bot`, `cmd_restart` and systemd
with `Restart=on-failure`. `pc` of a gateway goes through reading the file,
killing, writing, running, ending, stopping, releasing; `pc` of a command through
stopping the unit, reading, killing, unlinking, starting again. A gateway may crash
anywhere, also while it kills another; a pid may be given to a stranger; a shutdown
may hang.

| Model | Code |
| --- | --- |
| `"listing"` (`List`) | the listing of the victim's descendants that is kept (`pidlock.py:52`) |
| `"signalling"` (`Terminate`) | a second listing and SIGTERM to what it shows (`process_tree.py:44`) |
| `"killing"` (`ForceKill`, `KillEnds`) | the wait of five seconds, the forced kill with a third listing, and the kill of what the first one has shown |
| `child`, `listed` | the gateway's provider, `"late"` if it was started after the shutdown had looked for processes to kill; who has it on the first listing |
| `"running"` with `code` 42 (`AskRestart`) | `/restart` has set the code and awaits its reply, which may raise: the gateway polls on (`app.py:187`) |
| `"ending"` (`StopPolling`) | the polling is stopped and has not yet returned the code |
| `"stopping"` | the handlers are removed and the shutdown runs |
| `crashed`, `cut` | history: who died of itself, and whom a signal ended before its shutdown had looked |

Each of the three listings may fail, which counts as one without processes, and a
provider may start between any two of them. A SIGTERM that meets a handler turns
the exit code into 0, also one that `/restart` has set.

### `ProcessTree`: bringing a tree down

`list_process_descendants`, `terminate_process_tree`, `force_kill_process_tree`
and their three callers (`mode`): `_kill_processes` for `/stop`, `/new` and the
shutdown, the deadline in `run_streaming_subprocess`, and the PID lock's
`_kill_and_wait`. The tree is read at once and signalled one pid after the other
while its processes fork, exit and lose their parents; `ps` may fail. What the
code's stack finds in the table, `Descendants`, is the smallest set that holds
the children of the process and of its own members.

### `ProjectRouting`: where a turn runs

`TopicNameCache`, the name in a session record, `resolve_project_root` and the
two times a turn asks for its project: for the roots of files it may send, before
its lock, and for its working directory, when it executes. Topics are created,
renamed and forgotten by restarts; directories come and go; a `/new` and a change
of provider replace the record, and the end of a turn writes it (`Persist`), with
the name of the turn's session (`named`) if it has been lost. A turn reads
`sessions.json` up to four times, and each read may fail (`Reads`): it then finds no
name, and a save writes an empty store down.

### `TelegramIngress`: from a message to a turn

`AuthMiddleware`, the mention policy, download, transcription and the payload,
for messages handled concurrently. A message is a record of traits; `path` and
`files` are the dated directory, where `prepare_destination` picks a free name
that only the awaited download occupies; `payload` is the set of parts a provider
gets.

### `Installation`: settings, secrets, unit and service

The commands run, onboarding, stop and restart, each with a state root; the
dialogue, what it saves and in which order, `install_service` with the failure of
each `systemctl` call, the unit as written and as loaded, and the service. The
user may edit a file, interrupt a command or reboot between any two steps.
What `GatewayLifecycle` has in detail is one step here. One dialogue is held at a
time (`Invoke`): nothing in the code prevents two, but both would ask the same
user in two terminals, and the properties are not claimed for that.

### Instances and proofs

`MCTurnExecution`, `MCSessionLife`, `MCAppServerBridge`, `MCProjectRouting`,
`MCTelegramIngress`, `MCAnswerDelivery`, `MCProcessTree` and `MCInstallation`
hold the values a configuration cannot write down, symmetries and constraints.
`GatewayLifecycle`, `StreamOutcome` and `RunMessage` are checked as they are.
`TurnExecutionProofs` (with those of `StreamOutcome`), `SessionLifeProofs`,
`RunMessageProofs` (with those of `TelegramDelivery`, `StageReaction` and
`AnswerDelivery`), `AppServerBridgeProofs`, `ProjectRoutingProofs`,
`TelegramIngressProofs`, `GatewayLifecycleProofs` (with those of `Installation`)
and `ProcessTreeProofs` hold the proofs.

## The runs

| Run | Instance | Shows |
| --- | --- | --- |
| `turns` | turns `a1`, `a2` and reset `r` of one topic, or `a1` and a turn `b` of another topic of the chat | `SessionsChain`, `NoResurrection`, `SilencedOnRequest`, `ReachableByAbort`, `ObservedIdKept`, `ImplementsTopicTurns` |
| `turn_liveness` | `a1`, `a2`, or `a1`, `r`; fair | `TasksEnd`, `RegistryDrains` |
| `delivery` | 3 events, 3 chunks, 2 emoji; fair | `AnswerReplacesProgress`, `OneProgressMessage`, `RenderCacheTrue`, `AnswerInOrder`, `ReactionInOrder`, `RunEnds` |
| `session_life` | `m1`, `m2` in topic `A`; topic `B` with its resets | `SessionsFit`, `SubmittedOnce`, `NewOnlyIfUnfit`, `ForgottenOnPurpose` |
| `bridge` | an answer, a commentary, an item of another turn and one of another thread, an approval; fair | `TurnIsWhatWasSaid`, `FailsForCause`, `BridgeEnds` |
| `lifecycle` | two gateways and one command; fair | `LockHolds`, `StopReachesProviders`, `CommandsEnd`, `UnitComesBack` |
| `outcome` | up to 5 lines of either provider | `CodexFailureTold`, `PassedOn`, `AnswerKept` |
| `routing` | two topics with a turn each, two names; one name and one topic mapped | `NameLasts`, `NeverFallsBack` |
| `ingress` | any message beside an authorized document | `SubmittedRightly`, `AttachmentIsOwn` |
| `answer` | texts of up to three paragraphs over nine shapes, of up to two over four more with escapes and tags, and of nothing but markup; two file tags, limit 4 | `MessagesFit`, `TextWhole`, `FilesShownOrTold` |
| `tree` | a lead, its caller and three more processes | `BroughtDown` |
| `installation` | two commands, two state roots | `ServiceAsInstalled`, `FilesSettle`, `SettingsKept` |

A property with several parts is a conjunction of named ones, with the type
invariant of its module among them. `PROJECT.json` has a fault for each part that
is more than a type.

Bounds and why they are enough.

- `turns`: everything a turn can do to another one happens through its topic's
  lock, the stored id, the flag and the registry, so two turns and a reset in one
  topic show a predecessor, a successor and a `/new` in every order, and two
  topics of one chat what `/interrupt` and the shared list can confuse. The
  constraint `OneTopicOrTwo` keeps the two casts apart. `MaxUnread = 1`: the
  reader only distinguishes no line from some. Commands are not bounded, since
  they change nothing once their effect is there.
- `turn_liveness`: the second task waits for the first (`TwoTasks`); a third
  would wait in the same queue.
- `delivery`: three events allow a creation, an edit and a replacement (each
  message needs an event); three chunks a first, a middle and a last one; two
  emoji a reaction that is set, kept, changed and removed.
- `session_life`: two messages of one topic are a session and its successor. The
  second topic has only its resets: it shows what a save for one topic does to
  another, after a read that failed too. Crashes, restarts, provider and transport
  changes, failing reads and `/new` are not bounded; a message is handled once, so
  the instance is finite. That ids stay in their topic needs messages in two topics
  and is left to the proof.
- `bridge`: two parts show what is streamed and what is repeated on completion.
  `AskId = {3}` gives a request of the server the number of the bridge's own
  third one. `MaxAhead = 2` lets an event overtake a response and another the
  next one.
- `lifecycle`: two gateways race, replace and kill each other; one command stops
  or restarts between any two of their steps. A gateway is started once and has at
  most one provider at a time; listings fail without bound. With
  `Service` and `PidReuse` both `TRUE` every way to start and end is open, by
  hand too. The safety properties are proved without these bounds.
- `outcome`: five lines hold a session, a text, a tool, a second text and a result
  in every order, and a failed turn after them.
- `routing`: one topic is mapped by its id, one by a name the other may get as
  well. One turn for each topic stands between resets, restarts and the other
  topic's saves. The properties are proved for any number.
- `ingress`: one message has every combination of traits, the other competes for
  the name of its document. Proved for any number of messages.
- `answer`: the shapes are paragraphs that fit, fill the limit, exceed it in one
  line or in all together, are blank, or begin with markup; three of them put
  something before and after each. Four more have escapes and tags: in lines that
  fit, across a cut and just beside one. Two tags show a file after a file that failed.
- `tree`: a depth of three and siblings, in every order in which parents exit.
- `installation`: every command beside and after every other one, with the root
  of the first or another one. One dialogue is held at a time.

Deadlock is checked in all runs but those whose system stops: a gateway and a
command are started once (`lifecycle`), a turn has one response (`outcome`), and
messages (`ingress`), an answer (`answer`) and a tree (`tree`) are dealt with.

Fairness.

- `TurnExecution`: `HandlerFairness` is weak fairness of the steps the event loop
  and the operating system owe: a task whose await is over runs, Telegram calls
  end (aiogram's request timeout), a deadline's timer fires, SIGKILL kills, an
  abandoned generator is finalised. A deadline is only in force in `"streaming"`
  and `"consuming"`; it can fire in every such state, so weak fairness is about
  a timer that is running, and readings in between do not postpone it.
  `ProviderFairness` is the one assumption on the provider: having closed its
  stdout it exits. The code relies on it (below). Nothing makes a provider write,
  answer or exit otherwise.
- `RunMessage`: every call returns or fails, and the turn ends however often it
  calls back before. The second is strong fairness, because callbacks come in
  between, and is what `TasksEnd` shows of `TurnExecution`.
- `AppServerBridge`: the bridge reads what there is, and the server does what it
  owes: reads requests, completes the items and the turn it began. It may die
  instead, and owes no item it has not begun.
- `GatewayLifecycle`: a start, a command and systemd go on; the waits of the code
  have an end. Gateways need not end, and a shutdown may hang: only
  `UnitComesBack` assumes, as its antecedent, that none does. It is about the
  gateway of the unit whose polling a `/restart` has stopped, and excepts a command
  and a start over that gateway, whose SIGTERM turns the code into 0.

## Where the code parts from its documents

Each line is a promise of a document or docstring, stated as a definition that
no configuration names, and what the code does. TLC shows the counterexample when
the definition takes the place of the properties in a copy of the run's
configuration (with `FairSpec` instead of `FairProviderSpec` for `TurnsEnd`).
`FEATURE.md` and `PROOF.md` are in
`docs/features/telegram-to-agents-gateway/`.

| Definition, run | Promise | Code |
| --- | --- | --- |
| `TimeoutTerminates`, `turns` | "Timeout, `/stop`, and `/interrupt` terminate the active provider process" (`FEATURE.md:43`) | The `asyncio.timeout` spans a `yield` (`executor.py:160`). When it fires while `execute` awaits a callback, the cancellation surfaces in the callback and leaves `handle_message`; the code that kills the process never runs. |
| `InterruptedIsOver`, `turns` | "serializes turns per Telegram chat/topic" (`FEATURE.md:15`) | After `/interrupt` the next event makes `execute` return and release the lock (`service.py:106`); a provider that survives SIGINT goes on beside the next turn. |
| `TurnsEnd`, `turn_liveness` | "fixed per-turn timeout" (`FEATURE.md:19`) | `await stderr_drain` and `await process.wait()` (`executor.py:121`, `:142`) are outside the deadline; in the second the process is off the registry, where no command reaches it. |
| `WithheldOnlyForProgress`, `delivery` | "A transient deletion failure is retried and then temporary progress deletion succeeds" (`PROOF.md:57`) | A retried deletion of a message that is gone already is refused, which counts as a failure (`temporary_progress.py:384`): the answer is withheld. |
| `TimeoutClearsProgress`, `delivery` | "clear temporary progress" (`FEATURE.md:43`) | The id of a progress message is noted after the call that creates it (`temporary_progress.py:369`); a deadline or a network error in between leaves the message in the chat. |
| `FailureSurfaced`, `outcome` | "A harness failure after accepting a turn is surfaced once." (`FEATURE.md:39`) | The text of a failed Claude turn is its stderr (`executor.py:67`); if that is empty, nothing is sent. |
| `OneInstance`, `lifecycle` | "prevents multiple bot instances from running simultaneously" (`pidlock.py:1`) | `acquire_lock` reads the file, judges the process and only then writes (`pidlock.py:108`): two that start together both run. |
| `KillsOnlyInstances`, `lifecycle` | "kill any running instance before acquiring" (`pidlock.py:103`) | Any live process with the pid of the file is taken for a gateway and killed with its children (`pidlock.py:114`). |
| `RestartComesBack`, `lifecycle` | "Restart the gateway" (`commands.py:21`) | `/restart` ends the gateway with code 42 (`app.py:187`); only systemd makes a restart of that. |
| `StopEndsService`, `lifecycle` | "Stop the installed service or the PID-file gateway process." (`lifecycle.py:23`) | The unit is stopped only if it is `active` (`lifecycle.py:31`): a stop in the seconds before systemd's restart stops nothing and the gateway comes back. |
| `OneProjectPerTurn`, `routing` | "the mapped absolute project is used consistently and persists" (`PROOF.md:73`) | File roots are resolved before the lock (`app.py:270`) and the working directory under it (`service.py:86`): a rename in between gives a turn two projects. |
| `NamesNotLost`, `routing` | "losing topic names" is a fault that is caught (`PROOF.md:75`) | Names told by Telegram are in memory (`topic.py:66`) and written down only by a turn or `/new`: those told since are lost at a restart. |
| `AttachmentUnchanged`, `ingress` | "references the unchanged downloaded file" (`FEATURE.md:18`) | A free path is chosen before the download creates it (`storage.py:26`): two files of one name that arrive together share it. |
| `ErrorsInTopic`, `ingress` | "topic isolation" (`FEATURE.md:19`) | The message about a failed download lacks the topic (`media.py:168`). |
| `AnswerInItsOrder`, `answer` | "Split an HTML message into chunks" (`formatting.py:188`) | Oversized paragraphs are set aside and sent behind all others (`formatting.py:180`). |
| `FileFailuresContained`, `answer` | "File failures do not affect the return value." (`sender.py:198`) | Flood control or a server error under an upload, and any error of a notice, leave `send_rich` (`sender.py:267`), and the remaining tags are dropped. |
| `StoppedTreeEnds`, `tree` | "`/stop` ... terminate the active provider process" (`FEATURE.md:43`) | A tree is force-killed only if its lead outlives SIGTERM (`process_registry.py:109`); a slow descendant of a lead that ends at once goes on. |
| `InstalledRootRuns`, `installation` | "The unit safely pins the resolved active state root" (`FEATURE.md:24`) | `install_service` starts the unit (`service_linux.py:177`), which does nothing to one that runs already with another root. |
| `RunsGateway`, `installation` | "With no command, run the native-harness Telegram gateway." (`__main__.py:127`) | The result of `install_service` is dropped (`init_wizard.py:155`): when it fails, no gateway runs. |
| `StopsOwnRoot`, `installation` | "authoritative for configuration, runtime state, status, stop, and restart" (`FEATURE.md:23`) | `stop` and `restart` act on the one service without looking at its root (`lifecycle.py:31`). |

The rest are causes that the checked properties name, so the runs go through them:

- A `sessions.json` that cannot be read counts as an empty store
  (`json_store.py:31`), and the next save replaces it: the sessions and names of all
  other topics are gone, though "each later turn resumes the ID persisted by its
  predecessor" (`FEATURE.md:15`). `ForgottenOnPurpose` and `NameLasts` allow a loss
  for that; `NeverFallsBack` allows a turn in the default project when a read fails
  and the topic is mapped by a name that is nowhere else.
- A hard split slices HTML (`formatting.py:203`), so it may cut an escape: the chat
  shows the two halves in place of the character. `TextWhole` allows the loss of just
  these characters, in lines longer than a message. If it cuts a tag, Telegram
  refuses the chunk, and the plain text sends the line behind what follows it.
- A `ps` that fails shows no processes (`process_tree.py:77`), and a provider may
  start after the listing that a kill keeps (`pidlock.py:52`): when the gateway dies
  before its shutdown has looked, such a provider stays. `StopReachesProviders` allows
  only that.
- A `/restart` whose reply cannot be sent leaves the gateway polling with its code
  set (`app.py:187`); `UnitComesBack` begins where the polling has been stopped.

Two more are outside the runs. An item whose phase arrives only with its
completion loses the text that was streamed before (`codex_appserver_bridge.py:417`
and `:424`); `AppServerBridge` takes text without a phase for nobody's (`said`), so
that a turn that fails because of it counts as `excused`. `load_env_secrets` takes
an unchanged modification time for an unchanged file and keeps an unreadable one as
empty (`env_secrets.py:37`, `:83`).

## What is proved

### Turns

`TurnExecutionProofs` proves, for every number of turns, resets, topics and
chats and every bound, from `ConstantsAssumption` alone (every task has a key,
turns are not resets, the bound is positive):

| Theorem | Statement |
| --- | --- |
| `TypeCorrect` | `TypeOK`, and who holds a lock |
| `LineageHolds`, `DiscardedStaysDiscarded`, `TopicsKeepApart` | `SessionLineage`, `NoResurrection`, `SessionsOfTopic` |
| `GatewayImplementsTopicTurns` | `ImplementsTopicTurns` |
| `OnlyAskedSilence`, `StoppedNeverAnswers`, `ReadersCanBeStopped` | `SilenceIsAsked`, `StoppedStaysSilent`, `ReachableByAbort` |
| `SessionsAreChains`, `SilenceIsExact` | `SessionsChain`, `SilencedOnRequest`, the conjunctions of the above |
| `AnnouncedIdIsStored` | `ObservedIdKept` |

The argument is in three layers, each an inductive invariant on top of the last.

- `TypeInv` adds to the types that every executing turn holds its lock
  (`LockOwned`). Types alone are not inductive: `Leave` takes the head off
  a sequence, and only ownership says it is there. One head per sequence gives
  mutual exclusion (`OneHolder`, `SameLockSameHolder`), which everything else uses.
- `SessionInv` relates stored, resumed and announced ids. A stored id belongs to
  a turn of the topic that has begun; an announced id is the resumed one or the
  turn's own; and no executing turn resumes a retired id, nor is it retired
  itself. The last part makes `NoResurrection` inductive: a reset holds the lock
  when it retires ids, so no turn is executing that could store one later.
- `AbortInv` relates the flag, the registry and the turns: a topic flagged while
  a turn of it executes was asked for, a turn that was hit and executes is
  flagged, and a process that is read is listed or doomed. The flag survives until
  `Conclude` because `Begin` clears it before the process it could be about exists.

`ObservedIdKept` follows from `TypeInv` step by step. The implementation proof
maps `Begin` to `Start`, `BeginFails` to `Refuse`, each concluding step to
`Finish`, `ResetStore` to `Fresh` and everything else to a stutter; that the
topic is `Free` comes from mutual exclusion, that the id left is allowed from
`SessionInv`. Induction on the reachable states is all the proofs need, since
`turnLock` is only used through its head and tail.

The same module proves of `StreamOutcome`, for any number of lines,
`FailureTold` (`CodexFailureTold`), `EventsPassedOn` (`PassedOn`) and `AnswerIsKept`
(`AnswerKept`). The invariant `OutcomeInv` says which lines each provider may have
printed (`Dialect`: one answer, and no end of a Codex turn before it), and what the
trackers have of them (`SessionLatest`, `Tracked`, `ResultKept`, `ShownOnce`). What
one line leaves is the same for both providers but for the tracker (`Leaves`); that
the folds over its events come to this is read off their recursion, which no line
takes further than two events (`HeardFold`, `TrackFold`, `FilterFold`).

### Sessions

`SessionLifeProofs` proves, for every set of messages and topics, from its
`ConstantsAssumption` (every message has a topic, `NoId` is no message):

| Theorem | Statement |
| --- | --- |
| `TypeCorrect` | `TypeOK` |
| `OwnershipHolds`, `ResumesFit` | `OwnershipRecorded`, `ResumeFits` |
| `AllFit` | `SessionsFit`, the conjunction of the above |
| `NeverReplayed` | `SubmittedOnce` |
| `ContinuesSession` | `NewOnlyIfUnfit` |
| `KeptUnlessForgotten` | `ForgottenOnPurpose` |

All hold whatever reads fail. The inductive invariant `IInv` adds to
the types: `OneStart`, a message that waits has no process, and neither has one
that a running gateway may still be given, because `Start` drops what was kept;
`OwnServer`, the provider changes only between gateway runs, when no turn executes;
`Traced`, wherever an id is kept (the file, a request, a process) its creator is
kept beside it, and `origin` is set once, before the id is used; `Undisturbed`,
while a turn executes the file holds the record it resolved, unless a save for
another topic lost it. `ResumeFits` alone is not inductive: it needs the requests
traced, which need the file traced, which needs the processes traced.

### The chat

`RunMessageProofs` proves of `TelegramDelivery`, for every number of callbacks and
chunks (`BoundsAssumption`), `TypeCorrect`, `ProgressGone` (`AnswerReplacesProgress`),
`OneAtATime` (`OneProgressMessage`), `CacheTruthful` (`RenderCacheTrue`) and
`ChunksInOrder` (`AnswerInOrder`). The properties speak of what the chat shows,
and are inductive only with what the editor knows of it:

- `Phases`: the callbacks run until the turn returns, and an answer is sent after
  the clearing of the progress with no known id left;
- `OneVisible`: while callbacks run, at most the active message is visible. One
  whose creation was cut off may be visible and unknown, but then the turn has
  raised or was cancelled and sends no answer;
- `Tracked`: otherwise what is visible is known;
- `CacheTrue`, `InOrder`: the cache and the position in the answer, also inside a
  call.

Of `StageReaction` it proves `ReactionTyped` and `NoneStays` (`ReactionLeaves`) for
every set of emoji. `NotedFirst` is needed: until the clearing, a reaction that
may be shown has been noted, because the emoji is stored before the call.

Of the whole it proves `RunImplementsParts`: every behaviour of `run_message` is
one of `TelegramDelivery` and one of `StageReaction`, fairness aside. So the
invariants of both hold of the whole, and with `KnownTargets` (a message that is
being deleted is known until its deletion is confirmed) they give `GoesLast`
(`ReactionGoesLast`) and `ReactionKept` (`ReactionInOrder`).

Of `AnswerDelivery` it proves `FilesReachTheChat` (`FilesShownOrTold`), for any
answers with any number of tags (`AnswersAssumption`). `FilesInv` says of each tag
that was dealt with that it is shown, told or lost by the network (`AllDone`), and
that what is shown lies behind `next` in the order of the tags (`InTurn`,
`UploadsPast`).

It also proves `EveryMessageFits` (`MessagesFit`), for every limit and every text.
`FitInv` says of the chunks still to be sent that the source of each has a length
(`TextLen`) of at most `Limit`; that `Split` yields such chunks (`SplitFits`) rests on what
the folds over a text come to, which is an induction over its length. No theorem
with an operator parameter is used: lemma `Induction` is about a set of naturals
and follows from the least element of a set of naturals, and each fold is reasoned
about as the function of its steps (`PutSteps`, `FlattenSteps`).

And `TextArrivesWhole` (`TextWhole`), for every limit and every text whose characters
name the places they have in it, with escapes and tags anywhere in its lines
(`InPlace`, in `AnswersAssumption`): no character is shown twice; the only ones that
are missing in the end are those whose escape a hard split has cut; only the halves
of these are shown beside the text; and a part is sent behind a later one only if it
is an oversized paragraph or line and the other is not, or if a tag in its line was
cut. `TextWhole` speaks of what was sent alone and is not inductive. `TextInv` says
it of what was sent followed by what is left: every two characters are in an order
they may have (`Sorted`, `MayFollow`), all come from the marked source (`Source`,
which is `Cut(answer.text)`), and together they show all that this shows. What the
source shows of the answer is said once and for all (`SourceSorted`, `SourceSound`, `SourceShows`,
`SourceDiffers`).

That the splitting of a text yields such an order (`SplitSorted`) is an invariant of
`Accumulate` over its parts, those joined and those set aside for being too long
(`AccumulateSorted`, `Rearranged`), and a hard split reads as what it has cut
(`HardSplitReads`). When Telegram refuses a message, the plain rest is split again.
By then a paragraph fits (`ShortParagraphs`), unless it was joined over a cut tag,
which the last conjunct of `TextInv` confines to the lines where a tag was cut
(`Stitches`, `SplitStitched`); so whatever the second split sets aside is of such a
line (`PlainLarger`) and may come after the rest (`FollowsEither`).

### The bridge

`AppServerBridgeProofs` proves, for any items, turns, threads and phases, texts of
any number of parts, any numbers of the server's requests and any bound on what is
under way (`ConstantsAssumption`), `TypeCorrect`, `TurnSaid` (`TurnIsWhatWasSaid`)
and `FailsForReason` (`FailsForCause`). The properties speak of the end of a turn;
the invariant speaks of what *pends*, the queue and behind it the stream:

- `OneOut`, `ResponseInTurn`: at most one request of the bridge is out, or its
  response pends, so that a message with the number waited for is the response or
  a request of the server, and no such request precedes the greeting;
- `ItemsInOrder`, `PhaseKnown`, `StreamsNoted`: the notes of an item pend in the
  order it went through, so the bridge has its phase before its first part and
  has noted what was streamed before the completion that would repeat it;
- `TextAccounted`: what the server has said is what the bridge has, followed by
  what the pending messages will add, one after the other, and nothing of it comes
  behind an end of the turn. This holds for the answer and for the progress;
- `Verdict`: the end of the turn pends only when the server has ended it, with a
  reason if it failed or said nothing.

`TextAccounted` is the induction over the pending messages as a statement: a
sequence of remainders (`Accounts`) that a message sent prolongs, a note that is
taken shortens and every other message leaves as it is (`AccountsAppend`,
`AccountsTake`, `AccountsSkip`). `MeantIsMade` is the heart of it: what the bridge
makes of a note, from the phases and parts it has noted, is what the server meant.
That needs `ItemsInOrder`, which the fault `FreshFirst` breaks, and a queue that
loses nothing, which `Keep` breaks.

### Routing and ingress

`ProjectRoutingProofs` proves, for every set of topics, names and turns and every
mapping (`ConstantsAssumption`), `TypeCorrect`, `NamesLast` (`NameLasts`) and
`NoFallback` (`NeverFallsBack`). The invariant adds `Named`: the cache has the
last name told; a record has the name of the last turn or `/new`, unless a failed
read has lost it, and so has the session of a running turn, from which `Persist` may
write it back. `ProjectOfTopic`
says what the choice among the keys comes to.

`TelegramIngressProofs` proves, for any finite set of messages (`TraitsAssumption`),
`OnlyAllowed`, `NothingDropped`, `NeverBoth`, together `SubmissionRight`
(`SubmittedRightly`), and `OwnAttachment` (`AttachmentIsOwn`). The invariant
follows a message: `Entered` (only an allowed one goes on), `OneOutcome` (a payload
is made once, an error is the end), `Occupied` (a file belongs to a message that
was given its path) and `OwnPath` (a path chosen alone stays its message's). That a
free counter exists is a counting argument (`CounterFree`): there is one more than
there are messages.

### The gateway's life

`GatewayLifecycleProofs` proves, for any number of gateways and commands and both
values of `Service` and `PidReuse` (`ConstantsAssumption`), `TypeCorrect`,
`MutualExclusion` (`TwoOnlyByRace`), `FileIsTrue` (`FileNamesGateway`), together
`LockCorrect` (`LockHolds`), and `OnlyUnseenProvidersStay` (`StopReachesProviders`). The
invariant adds `Named` (who is named, in the file or as a victim, got through its
start), `Exclusive` (without a race a start that has read the file has killed
every gateway when it comes to write) and `Providers` (a provider that outlives its
gateway belongs to a crash or to a gateway that was cut off from its shutdown, and
whoever has listed it has not finished the kill). Mutual exclusion is not
inductive: the write that would break it is only known to be safe from what was
killed since the read.

The same module proves of `Installation`, for any number of commands and state
roots (`SettingsAssumption`: the three marks are no command or root),
`InstalledServiceRuns` (`ServiceAsInstalled`), `FilesAgree` (`FilesSettle`) and
`SettingsStay` (`SettingsKept`). All rest on `OneDialogue`: at most one command is
in a dialogue, and a run is in one only while its root has no settings of another.
`OwnSettings` and `OwnUnit` say that what a command wrote, the configuration and the
unit, is what it finds at its next step. `ServiceAsInstalled` itself is not
inductive: the service may be off or about to start, from the root systemd has
loaded, so `Begun` says that this root is the installed one as well (`Settled`).

`ProcessTreeProofs` proves, for every set of processes and trees of any depth,
`TypeCorrect`, `LeadEndsCallerStays` (`LeadGone`, `CallerSurvives`) and `NoneEscapes`
(`SurvivorsAccounted`), together `TreeBroughtDown` (`BroughtDown`). The invariant
follows the tree as it was first read through each of the three modes (`Reaches`:
who is left of it is still to be signalled, was told, or outlived the grace), and
keeps the lead to the end (`LeadLast`) and the caller out of every list (`Spared`).
That the table stays a forest is the part about data: `Descendants` is a smallest
closed set, so a smaller closed set is shown after a death or a fork
(`DeathKeepsTable`, `ForkKeepsTable`), without induction over the tree.

### Only model-checked

The liveness properties: the proof system has no fairness and no `ENABLED`. Every
safety property of every run is stated by a theorem.

## Not modelled

- What is pure text: the wording of activities and messages, Markdown to HTML
  (`formatting.py`, rewriting without state), the construction of command lines,
  log redaction, the help, status and log output, the unit's `PATH`.
- What is pure I/O: the WebSocket upgrade and the framing of the two transports,
  lingering, the command menu, the typing indicator.
- The configuration schema, which is pydantic's, the detection of media types, and
  the syntax and the cache of `.env`.
- Symbolic links in the paths an answer names: `is_path_safe` is a trait of the
  file in `AnswerDelivery`.
- The power loss within an atomic save: a save is one step, a rename.
- `parse_codex_jsonl`, `uninstall_service` and `print_service_status`, which
  nothing calls.
