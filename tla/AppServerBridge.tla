---------------------------- MODULE AppServerBridge ----------------------------
(* One run of the Codex App Server bridge: a JSON-RPC client that writes its *)
(* requests to an App Server, reads responses, notifications and requests of *)
(* the server from one stream, and collects the final answer of one turn.    *)
(*                                                                           *)
(* The server is external; what it sends follows the repository's own        *)
(* stand-in for it.  A text is a sequence of parts: <<i, n>> is the n-th     *)
(* part of item i.  The notification "initialized", which is not answered,   *)
(* is left out.                                                              *)
(*                                                                           *)
(* A definition that no other one uses is a fault the code could have had in *)
(* place of the definition after it (PROJECT.json, mutants).                 *)
EXTENDS Integers, Sequences, FiniteSets

CONSTANTS
    Item,       \* what turns consist of
    Thread,     \* Thread[i] and Turn[i]: where item i belongs,
    Turn,       \*   "mine" is the bridge's own thread or turn
    Phase,      \* "final_answer" or "commentary", or "tool" for a tool call
    Parts,      \* parts a message's text has
    AskId,      \* ids the server gives its own requests
    MaxAhead    \* bound: notifications and requests sent and not yet handled

Known == {"final_answer", "commentary"}

ASSUME ConstantsAssumption ==
    /\ Thread \in [Item -> {"mine", "other"}]
    /\ Turn \in [Item -> {"mine", "other"}]
    /\ Phase \in [Item -> Known \union {"tool"}]
    /\ Parts \in Nat \ {0} /\ MaxAhead \in Nat \ {0}
    /\ AskId \subseteq Nat

VARIABLES
    pc,         \* the request main() waits for, the turn's loop, the end
    outcome,    \* "text" or "error" once the turn is decided
    queued,     \* AppServer._queued
    phases,     \* _TurnState.item_phases ("none": no entry)
    streamed,   \* _TurnState.delta_item_ids
    text,       \* _TurnState.text_parts
    progress,   \* progress events written to stdout
    toServer, fromServer,       \* the two pipes
    open,       \* the server's end of the pipes is open
    work,       \* the bridge's thread and turn at the server
    stage,      \* how far each item has come; 0 .. Parts: parts streamed
    asks,       \* server requests: "unused", "waiting" or "refused"
    unnamed,    \* items whose phase the server names only when they complete
    said,       \* history: final text, and progress, the server sent with a
                \*   phase; what streams without one is nobody's
    excused     \* history: the bridge has a reason to fail

turnState == <<phases, streamed, text, progress>>
bridgeVars == <<pc, outcome, queued, turnState>>
serverVars == <<open, work, stage, asks, unnamed, said>>
vars == <<bridgeVars, toServer, fromServer, serverVars, excused>>

(* request() numbers the requests 1, 2, 3; the pc says which one is out.     *)
RequestId == [starting |-> 1, opening |-> 2, submitting |-> 3]
Requesting == pc \in DOMAIN RequestId

Request(id) == [kind |-> "request", id |-> id]
Response(id, ok) == [kind |-> "response", id |-> id, ok |-> ok]
Ask(id) == [kind |-> "ask", id |-> id]
Note(k, i, n) == [kind |-> k, id |-> 0, item |-> i, part |-> n]
Completed(th, tu, ok) ==
    [kind |-> "turn_done", id |-> 0, thread |-> th, turn |-> tu, ok |-> ok]

New == -1
Done == Parts + 1
Reported == Parts + 2

Text(i) == [n \in 1 .. Parts |-> <<i, n>>]

Init ==
    /\ pc = "starting"
    /\ outcome = "none"
    /\ queued = << >>
    /\ phases = [i \in Item |-> "none"]
    /\ streamed = {}
    /\ text = << >>
    /\ progress = << >>
    /\ toServer = <<Request(1)>>
    /\ fromServer = << >>
    /\ open = TRUE
    /\ work = "none"
    /\ stage = [i \in Item |-> New]
    /\ asks = [a \in AskId |-> "unused"]
    /\ unnamed = {}
    /\ said = [final |-> << >>, progress |-> << >>]
    /\ excused = FALSE

-----------------------------------------------------------------------------
(* The App Server.                                                           *)

Send(m) == open /\ fromServer' = Append(fromServer, m)
Emit(m) == Len(queued) + Len(fromServer) < MaxAhead /\ Send(m)

(* It takes a request or the refusal of one of its own.  Events of a turn    *)
(* may overtake the response to the request that started it.                 *)
ServerReads ==
    /\ open
    /\ toServer # << >>
    /\ toServer' = Tail(toServer)
    /\ LET m == Head(toServer) IN
         \/ /\ m.kind = "request"
            /\ \E ok \in BOOLEAN :
                 /\ Send(Response(m.id, ok))
                 /\ excused' = (excused \/ ~ok)
                 /\ work' = IF ok /\ m.id = RequestId.opening THEN "loaded"
                            ELSE IF ok /\ m.id = RequestId.submitting /\ work = "loaded"
                              THEN "running" ELSE work
            /\ UNCHANGED asks
         \/ /\ m.kind = "refusal"
            /\ asks' = [asks EXCEPT ![m.id] = "refused"]
            /\ UNCHANGED <<fromServer, work, excused>>
    /\ UNCHANGED <<bridgeVars, open, stage, unnamed, said>>

BeginsEarly ==
    /\ toServer # << >>
    /\ Head(toServer) = Request(RequestId.submitting)
    /\ open /\ work = "loaded"
    /\ work' = "running"
    /\ UNCHANGED <<bridgeVars, toServer, fromServer, open, stage, asks, unnamed, said,
                   excused>>

Mine(i) == Thread[i] = "mine" /\ Turn[i] = "mine"
Running(i) ==
    IF Mine(i) THEN work = "running" /\ \A a \in AskId : asks[a] # "waiting"
               ELSE work \in {"loaded", "running"}
Of(i, p) == Mine(i) /\ Phase[i] = p

StartItem(i) ==
    /\ Running(i) /\ stage[i] = New
    /\ \E p \in {Phase[i]} \union (IF Mine(i) THEN {"none"} ELSE {}) :
         /\ Emit([Note("started", i, 0) EXCEPT !.part = p])
         /\ unnamed' = IF p = "none" THEN unnamed \union {i} ELSE unnamed
    /\ stage' = [stage EXCEPT ![i] = 0]
    /\ said' = IF Of(i, "tool")
                 THEN [said EXCEPT !.progress = Append(@, <<i, 0>>)] ELSE said
    /\ UNCHANGED <<bridgeVars, toServer, open, work, asks, excused>>

StreamPart(i) ==
    /\ Running(i) /\ Phase[i] # "tool"
    /\ stage[i] \in 0 .. Parts - 1
    /\ stage' = [stage EXCEPT ![i] = @ + 1]
    /\ LET n == stage[i] + 1 IN
         /\ Emit(Note("delta", i, n))
         /\ said' = IF i \in unnamed THEN said
                    ELSE IF Of(i, "final_answer")
                      THEN [said EXCEPT !.final = Append(@, <<i, n>>)]
                    ELSE IF Of(i, "commentary")
                      THEN [said EXCEPT !.progress = Append(@, <<i, n>>)]
                    ELSE said
    /\ UNCHANGED <<bridgeVars, toServer, open, work, asks, unnamed, excused>>

(* An item has streamed all of its text or, sent whole, none of it.          *)
CompleteItem(i) ==
    /\ Running(i)
    /\ stage[i] \in {0, Parts}
    /\ stage' = [stage EXCEPT ![i] = Done]
    /\ Emit(Note("completed", i, 0))
    /\ said' = IF Of(i, "final_answer") /\ stage[i] = 0
                 THEN [said EXCEPT !.final = @ \o Text(i)] ELSE said
    /\ UNCHANGED <<bridgeVars, toServer, open, work, asks, unnamed, excused>>

CompleteTurn ==
    /\ work = "running"
    /\ \A i \in Item : Mine(i) => stage[i] \in {New, Done}
    /\ \A a \in AskId : asks[a] # "waiting"
    /\ work' = "ended"
    /\ \E ok \in BOOLEAN :
         /\ Emit(Completed("mine", "mine", ok))
         /\ excused' = (excused \/ ~ok \/ said.final = << >>)
    /\ UNCHANGED <<bridgeVars, toServer, open, stage, asks, unnamed, said>>

(* Another turn ends, on this thread or with this number on another one.     *)
OtherTurnEnds(i) ==
    /\ ~Mine(i) /\ stage[i] = Done
    /\ stage' = [stage EXCEPT ![i] = Reported]
    /\ Emit(Completed(Thread[i], Turn[i], TRUE))
    /\ UNCHANGED <<bridgeVars, toServer, open, work, asks, unnamed, said, excused>>

(* The server asks for an approval, for this turn or an earlier one of the   *)
(* thread, and waits for the answer.  The numbers of its requests are its    *)
(* own and may be those of the bridge.                                       *)
AskApproval(a) ==
    /\ work \in {"loaded", "running"}
    /\ asks[a] = "unused"
    /\ asks' = [asks EXCEPT ![a] = "waiting"]
    /\ Emit(Ask(a))
    /\ UNCHANGED <<bridgeVars, toServer, open, work, stage, unnamed, said, excused>>

ServerDies ==
    /\ open
    /\ open' = FALSE
    /\ excused' = TRUE
    /\ UNCHANGED <<bridgeVars, toServer, fromServer, work, stage, asks, unnamed, said>>

-----------------------------------------------------------------------------
(* request(): read until a message has the id that is waited for.            *)

Fail == pc' = "closing" /\ outcome' = "error"

(* The next request, unless the server is gone, or the loop of run_turn.     *)
Following == [starting |-> "opening", opening |-> "submitting", submitting |-> "reading"]

Proceed ==
    /\ pc' = Following[pc]
    /\ UNCHANGED outcome
    /\ IF pc = "submitting"
         THEN UNCHANGED toServer
         ELSE open /\ toServer' = Append(toServer, Request(RequestId[Following[pc]]))

(* Only ids are compared.  A request of the server with that id passes for a *)
(* response with the result {}: good enough for "initialize", without a      *)
(* thread or a turn for the other two.                                       *)
Accepted(m) == IF m.kind = "response" THEN m.ok ELSE pc = "starting"

ReadResponse ==
    /\ Requesting
    /\ fromServer # << >>
    /\ LET m == Head(fromServer) IN
         /\ m.id = RequestId[pc]
         /\ \/ Accepted(m) /\ Proceed
            \/ ~Accepted(m) /\ Fail /\ UNCHANGED toServer
         /\ excused' = (excused \/ m.kind = "ask")
    /\ fromServer' = Tail(fromServer)
    /\ UNCHANGED <<queued, turnState, serverVars>>

Keep(m) == queued' = queued
QueueAside(m) == queued' = Append(queued, m)

ReadOther ==
    /\ Requesting
    /\ fromServer # << >>
    /\ Head(fromServer).id # RequestId[pc]
    /\ QueueAside(Head(fromServer))
    /\ fromServer' = Tail(fromServer)
    /\ UNCHANGED <<pc, outcome, turnState, toServer, serverVars, excused>>

-----------------------------------------------------------------------------
(* run_turn: next_message, the refusal of requests, _record_agent_message_   *)
(* phase, _progress_exec_event and _consume_turn_event.                      *)

FreshFirst == IF fromServer # << >> THEN "stream" ELSE "queue"
Source == IF queued # << >> THEN "queue" ELSE "stream"

Available == queued # << >> \/ fromServer # << >>
Message == Head(IF Source = "queue" THEN queued ELSE fromServer)
Take == IF Source = "queue"
          THEN queued' = Tail(queued) /\ UNCHANGED fromServer
          ELSE fromServer' = Tail(fromServer) /\ UNCHANGED queued

NextMessage == pc = "reading" /\ Available /\ Take

LeaveUnanswered(m) == UNCHANGED toServer
Refuse(m) == toServer' = Append(toServer, [kind |-> "refusal", id |-> m.id])

RefuseRequest ==
    /\ NextMessage
    /\ open
    /\ Message.kind = "ask"
    /\ Refuse(Message)
    /\ UNCHANGED <<pc, outcome, turnState, serverVars, excused>>

PhaseNamed(m) == IF m.kind = "started" THEN m.part ELSE Phase[m.item]

RecordPhase(m) ==
    phases' = IF Mine(m.item) /\ m.kind \in {"started", "completed"}
                 /\ PhaseNamed(m) \in Known
                THEN [phases EXCEPT ![m.item] = PhaseNamed(m)] ELSE phases

ProgressOf(m) ==
    CASE m.kind = "started" /\ Of(m.item, "tool") -> <<<<m.item, 0>>>>
      [] m.kind = "delta" /\ Mine(m.item) /\ phases[m.item] = "commentary"
           -> <<<<m.item, m.part>>>>
      [] OTHER -> << >>

(* What _consume_turn_event lets through.  Items of another turn are told by *)
(* their turn, those of another thread by their thread.                      *)
TurnOnly(m) == Turn[m.item] = "mine"
Consumed(m) == Thread[m.item] = "mine" /\ Turn[m.item] = "mine"

AlreadyStreamed(i) == i \in streamed

AnswerOf(m) ==
    CASE m.kind = "delta" /\ Consumed(m) /\ phases[m.item] = "final_answer"
           -> <<<<m.item, m.part>>>>
      [] m.kind = "completed" /\ Consumed(m) /\ Phase[m.item] = "final_answer"
           /\ ~AlreadyStreamed(m.item) -> Text(m.item)
      [] OTHER -> << >>

ConsumeEvent ==
    /\ NextMessage
    /\ LET m == Message IN
         /\ m.kind \in {"started", "delta", "completed"}
         /\ RecordPhase(m)
         /\ progress' = progress \o ProgressOf(m)
         /\ streamed' = IF Consumed(m) /\ m.kind = "delta"
                          THEN streamed \union {m.item} ELSE streamed
         /\ text' = text \o AnswerOf(m)
    /\ UNCHANGED <<pc, outcome, toServer, serverVars, excused>>

OwnTurnByName(m) == m.turn = "mine"
OwnTurn(m) == m.thread = "mine" /\ m.turn = "mine"

(* A response nobody waits for any more, or the end of another turn.         *)
IgnoreMessage ==
    /\ NextMessage
    /\ \/ Message.kind = "response"
       \/ Message.kind = "turn_done" /\ ~OwnTurn(Message)
    /\ UNCHANGED <<pc, outcome, turnState, toServer, serverVars, excused>>

TurnCompleted ==
    /\ NextMessage
    /\ Message.kind = "turn_done"
    /\ OwnTurn(Message)
    /\ pc' = "closing"
    /\ outcome' = IF Message.ok /\ text # << >> THEN "text" ELSE "error"
    /\ UNCHANGED <<turnState, toServer, serverVars, excused>>

(* End of file, or a request or a refusal into a pipe nobody reads.          *)
ServerGone ==
    /\ ~open
    /\ \/ (Requesting \/ pc = "reading") /\ ~Available
       \/ Requesting /\ fromServer = << >>
       \/ pc \in {"starting", "opening"}
       \/ pc = "reading" /\ Available /\ Message.kind = "ask"
    /\ Fail
    /\ UNCHANGED <<queued, turnState, toServer, fromServer, serverVars, excused>>

(* close(): the server process is terminated, then killed.  The answer is    *)
(* printed after it, and a process that is not reaped takes it along.        *)
Close ==
    /\ pc = "closing"
    /\ pc' = "over"
    /\ open' = FALSE
    /\ \/ UNCHANGED <<outcome, excused>>
       \/ open /\ outcome' = "error" /\ excused' = TRUE
    /\ UNCHANGED <<queued, turnState, toServer, fromServer, work, stage,
                   asks, unnamed, said>>

-----------------------------------------------------------------------------
Bridge == \/ ReadResponse \/ ReadOther
          \/ RefuseRequest \/ ConsumeEvent \/ IgnoreMessage \/ TurnCompleted
          \/ ServerGone \/ Close

Owed == \/ ServerReads \/ CompleteTurn
        \/ \E i \in Item : Mine(i) /\ stage[i] # New /\
             (StreamPart(i) \/ CompleteItem(i))

Server == \/ Owed \/ BeginsEarly \/ ServerDies
          \/ \E i \in Item : StartItem(i) \/ StreamPart(i) \/ CompleteItem(i)
                               \/ OtherTurnEnds(i)
          \/ \E a \in AskId : AskApproval(a)

Over == pc = "over" /\ UNCHANGED vars

Next == Bridge \/ Server \/ Over

(* The bridge runs, and a server that is alive answers what it reads,        *)
(* finishes the items it started and ends a turn whose requests were         *)
(* answered.                                                                 *)
Spec == Init /\ [][Next]_vars /\ WF_vars(Bridge) /\ WF_vars(Owed)

-----------------------------------------------------------------------------
(* Properties.                                                               *)

(* Type correctness.                                                         *)
TypeOK ==
    /\ pc \in DOMAIN RequestId \union {"reading", "closing", "over"}
    /\ outcome \in {"none", "text", "error"}
    /\ (pc \in {"closing", "over"}) = (outcome # "none")
    /\ phases \in [Item -> Known \union {"none"}]
    /\ streamed \subseteq {i \in Item : Mine(i)}
    /\ Len(queued) + Len(fromServer) <= MaxAhead + 1
    /\ work \in {"none", "loaded", "running", "ended"}
    /\ stage \in [Item -> New .. Reported]
    /\ asks \in [AskId -> {"unused", "waiting", "refused"}]
    /\ unnamed \subseteq Item

(* A turn that succeeds returns the final answer's parts, each once and in   *)
(* the order the server sent them, whether they were read at once or queued  *)
(* behind a response, and no part of a commentary or of another turn.        *)
AnswerIsWhatWasSaid == outcome = "text" => text = said.final

(* Its commentary and tool calls were reported to the gateway likewise.      *)
ProgressIsWhatWasSaid == outcome = "text" => progress = said.progress

(* What the gateway reads of a turn that succeeds is what the server said.   *)
TurnIsWhatWasSaid == TypeOK /\ AnswerIsWhatWasSaid /\ ProgressIsWhatWasSaid

(* A turn is only failed for a reason: the server closed, refused, failed    *)
(* the turn or said nothing of a known phase, its process could not be       *)
(* reaped, or the number of one of its requests was taken for a response.    *)
FailsForCause == outcome = "error" => excused

(* A turn ends, if the server ends it: nothing waits for an answer the       *)
(* bridge does not give.                                                     *)
BridgeEnds == <>(pc = "over")
=============================================================================
