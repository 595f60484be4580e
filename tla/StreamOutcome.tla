------------------------------ MODULE StreamOutcome ------------------------------
(* From the lines a provider process prints, its exit code and its stderr to *)
(* the response of a turn: the two line parsers, CodexThinkingFilter, the    *)
(* trackers of CodexCLI._stream and CLIService.execute, and the handlers     *)
(* after the end of the stream.  The turn is neither aborted nor late        *)
(* (TurnExecution has those).                                                *)
(*                                                                           *)
(* A line is known by its number, a text by the number of its line.          *)
(* A definition that no other one uses is a fault the code could have had in *)
(* place of the definition after it (PROJECT.json, mutants).                 *)
EXTENDS Naturals, Sequences, FiniteSets, SequencesExt

CONSTANT MaxLines       \* bound on the lines of one turn

ASSUME MaxLinesAssumption == MaxLines \in Nat

VARIABLES
    provider,   \* "codex" (the bridge) or "claude"
    lines,      \* printed and read so far
    buffered,   \* CodexThinkingFilter: text not passed on yet
    tracked,    \* CodexCLI: the texts, the thread, as line numbers
    shown,      \* activities passed to Telegram, in order
    session,    \* execute: the session id it will store (0: none)
    result,     \* execute: the last result event
    response    \* what execute returns

outcomeVars == <<provider, lines, buffered, tracked, shown, session, result, response>>

None == [of |-> "none", texts |-> <<>>, error |-> FALSE]
Result(of, texts, error) == [of |-> of, texts |-> texts, error |-> error]

OutcomeInit ==
    /\ provider \in {"codex", "claude"}
    /\ lines = <<>> /\ buffered = <<>> /\ shown = <<>>
    /\ tracked = [text |-> <<>>, thread |-> 0]
    /\ session = 0
    /\ result = None /\ response = None

-----------------------------------------------------------------------------
(* What the processes print.  The bridge prints the thread, activities, and  *)
(* the answer with the end of the turn; Claude Code names its session first  *)
(* and ends with a result, that may be empty or an error.                    *)

Blocks == {<<"text">>, <<"tool">>, <<"thinking">>, <<"text", "tool">>}
Plain(kind) == [kind |-> kind, id |-> TRUE, blocks |-> <<>>, empty |-> FALSE, error |-> FALSE]
AssistantLines ==
    [kind : {"assistant"}, id : {FALSE}, blocks : Blocks, empty : {FALSE}, error : {FALSE}]
ResultLines ==
    [kind : {"result"}, id : BOOLEAN, blocks : {<<>>}, empty : BOOLEAN, error : BOOLEAN]

Printed == {lines[i].kind : i \in DOMAIN lines}

BridgeLines ==
    IF lines = <<>> THEN {Plain("thread")}
    ELSE IF "message" \in Printed
           THEN IF "completed" \in Printed THEN {} ELSE {Plain("completed")}
           ELSE {Plain(k) : k \in {"status", "progress", "tool", "message"}}

ClaudeLines ==
    IF lines = <<>> THEN {Plain("init"), Plain("junk")}
    ELSE IF "result" \in Printed THEN {}
    ELSE {Plain("status"), Plain("junk")} \union AssistantLines \union ResultLines

-----------------------------------------------------------------------------
(* parse_codex_stream_event and parse_claude_stream_event: events of a line. *)

Event(kind, n, id, res) == [kind |-> kind, n |-> n, id |-> id, result |-> res]

ActivityKinds == {"status", "progress", "tool", "thinking"}

CodexEvents(l, n) ==
    IF l.kind = "thread" THEN <<Event("init", n, n, None)>>
    ELSE IF l.kind = "message" THEN <<Event("text", n, 0, None)>>
    ELSE IF l.kind = "completed" THEN <<Event("result", n, 0, Result("text", <<>>, FALSE))>>
    ELSE <<Event(l.kind, n, 0, None)>>

OrEmpty(l, n) == IF l.empty THEN <<>> ELSE <<n>>

ClaudeEvents(l, n) ==
    IF l.kind = "junk" THEN <<>>
    ELSE IF l.kind = "init" THEN <<Event("init", n, n, None)>>
    ELSE IF l.kind = "status" THEN <<Event("status", n, 0, None)>>
    ELSE IF l.kind = "assistant"
           THEN [i \in DOMAIN l.blocks |-> Event(l.blocks[i], n, 0, None)]
    ELSE <<Event("result", n, IF l.id THEN n ELSE 0, Result("text", OrEmpty(l, n), l.error))>>

-----------------------------------------------------------------------------
(* CodexThinkingFilter.                                                      *)

SilentFilter(state, event) ==
    IF event.kind = "text" THEN [state EXCEPT !.held = Append(@, event)]
    ELSE IF event.kind = "tool" THEN [state EXCEPT !.held = <<>>]
    ELSE [held |-> <<>>, out |-> state.out \o state.held \o <<event>>]

Filter(state, event) ==
    IF event.kind = "text" THEN [state EXCEPT !.held = Append(@, event)]
    ELSE IF event.kind = "tool" THEN [held |-> <<>>, out |-> Append(state.out, event)]
    ELSE IF event.kind = "thinking" THEN [state EXCEPT !.out = Append(@, event)]
    ELSE [held |-> <<>>, out |-> state.out \o state.held \o <<event>>]

ClearFirst(state) == state.out
Flush(state) == state.out \o state.held

HeldAgain(state) == state.held
HeldAfter(state) == <<>>

(* The codex adapter flushes after every line, so the filter holds nothing   *)
(* back across lines.                                                        *)
Filtered(l, n) ==
    IF provider = "codex"
      THEN FoldLeft(Filter, [held |-> buffered, out |-> <<>>], CodexEvents(l, n))
      ELSE [held |-> <<>>, out |-> ClaudeEvents(l, n)]

-----------------------------------------------------------------------------
(* The trackers.                                                             *)

Track(t, event) ==
    IF event.kind = "init" /\ event.id # 0 THEN [t EXCEPT !.thread = event.id]
    ELSE IF event.kind = "text" THEN [t EXCEPT !.text = Append(@, event.n)]
    ELSE t

Latest(new, old) == new
Known(new, old) == IF new # 0 THEN new ELSE old

(* One event: the session, the result and what Telegram gets to see.         *)
Heard(acc, event) ==
    [session |-> IF event.kind \in {"init", "result"} THEN Known(event.id, acc.session)
                                                     ELSE acc.session,
     result |-> IF event.kind = "result" THEN event.result ELSE acc.result,
     shown |-> IF event.kind \in ActivityKinds THEN Append(acc.shown, event) ELSE acc.shown]

Consume(events) ==
    LET all == FoldLeft(Heard, [session |-> session, result |-> result, shown |-> shown], events)
    IN session' = all.session /\ result' = all.result /\ shown' = all.shown

TakeLine ==
    /\ response = None /\ Len(lines) < MaxLines
    /\ \E l \in IF provider = "codex" THEN BridgeLines ELSE ClaudeLines :
          LET state == Filtered(l, Len(lines) + 1)
              events == Flush(state)
          IN /\ lines' = Append(lines, l)
             /\ tracked' = IF provider = "codex" THEN FoldLeft(Track, tracked, events)
                                                 ELSE tracked
             /\ Consume(events)
             /\ buffered' = HeldAfter(state)
    /\ UNCHANGED <<provider, response>>

-----------------------------------------------------------------------------
(* After the end of the stream.                                              *)

Unexplained(stderr) == Result("text", tracked.text, TRUE)
Explained(stderr) ==
    IF tracked.text # <<>> THEN Result("text", tracked.text, TRUE)
    ELSE IF stderr THEN Result("stderr", <<>>, TRUE)
    ELSE Result("no final response", <<>>, TRUE)

CodexPost(code, stderr) ==
    <<Event("result", 0, tracked.thread,
            IF code # 0 THEN Explained(stderr) ELSE Result("text", tracked.text, FALSE))>>

DefaultPost(code, stderr) ==
    IF code = 0 THEN <<>>
    ELSE <<Event("result", 0, 0, Result(IF stderr THEN "stderr" ELSE "text", <<>>, TRUE))>>

(* Codes: 0, 1 and 9 (a signal).  The bridge ends with 0 when it has printed *)
(* everything, and with 1 and an explanation before the answer; Claude ends  *)
(* in any way.                                                               *)
Endings ==
    IF provider = "claude" THEN {0, 1, 9} \X BOOLEAN
    ELSE (IF "completed" \in Printed THEN {<<0, FALSE>>} ELSE {})
           \union (IF "message" \in Printed THEN {} ELSE {<<1, TRUE>>})
           \union {<<9, FALSE>>}

Respond(r) == IF r = None THEN Result("no response", <<>>, TRUE) ELSE r

Ends(code, stderr) ==
    LET post == IF provider = "codex" THEN CodexPost(code, stderr)
                                      ELSE DefaultPost(code, stderr)
    IN /\ Consume(post)
       /\ response' = Respond(result')

StreamEnds ==
    /\ response = None
    /\ \E e \in Endings : Ends(e[1], e[2])
    /\ UNCHANGED <<provider, lines, buffered, tracked>>

OutcomeNext == TakeLine \/ StreamEnds
OutcomeSpec == OutcomeInit /\ [][OutcomeNext]_outcomeVars

-----------------------------------------------------------------------------
(* Properties.                                                               *)

(* Type correctness; every text is one of a line that was printed, and the   *)
(* filter is empty between lines.                                            *)
OutcomeTypeOK ==
    /\ lines \in Seq([kind : {"thread", "status", "progress", "tool", "message",
                               "completed", "init", "junk", "assistant", "result"},
                      id : BOOLEAN, blocks : Blocks \union {<<>>},
                      empty : BOOLEAN, error : BOOLEAN])
    /\ buffered = <<>>
    /\ session \in 0..Len(lines) /\ tracked.thread \in 0..Len(lines)
    /\ \A r \in {result, response} :
          /\ r.of \in {"none", "text", "stderr", "no final response", "no response"}
          /\ \A i \in DOMAIN r.texts : r.texts[i] \in 1..Len(lines)

Answering == {i \in DOMAIN lines : lines[i].kind \in {"message", "result"}}

(* An answer the process printed before it ended well is the response, whole *)
(* and nothing else: the empty result of turn.completed, the filter and the  *)
(* handler after the stream do not lose it.                                  *)
Succeeds == StreamEnds /\ \E e \in Endings : e[1] = 0 /\ Ends(e[1], e[2])
AnswerKept ==
    [][Succeeds => \A i \in Answering :
          /\ response'.texts = (IF lines[i].empty THEN <<>> ELSE <<i>>)
          /\ response'.error = lines[i].error]_outcomeVars

(* A Codex turn that fails at whatever point is reported, as an error and    *)
(* with a text.                                                              *)
CodexFailureTold ==
    response # None /\ provider = "codex" /\ "completed" \notin Printed =>
        response.error /\ (response.of = "text" => response.texts # <<>>)

Announcing == {i \in DOMAIN lines : lines[i].kind \in {"thread", "init", "result"} /\ lines[i].id}

(* The session to be stored is the last one the process announced.           *)
SessionIsAnnounced ==
    session = IF Announcing = {} THEN 0 ELSE CHOOSE i \in Announcing : \A j \in Announcing : j <= i

Activities(i) ==
    IF lines[i].kind = "assistant"
      THEN Cardinality({b \in DOMAIN lines[i].blocks : lines[i].blocks[b] \in ActivityKinds})
      ELSE IF lines[i].kind \in ActivityKinds THEN 1 ELSE 0

(* Every activity of the process reaches Telegram once and in order, also    *)
(* those around text that the filter may hold.                               *)
ActivityShown ==
    /\ \A i \in DOMAIN lines : Cardinality({k \in DOMAIN shown : shown[k].n = i}) = Activities(i)
    /\ \A i, j \in DOMAIN shown : i < j => shown[i].n <= shown[j].n

(* What execute learns and passes on while the stream runs is what the       *)
(* process printed.                                                          *)
PassedOn == OutcomeTypeOK /\ SessionIsAnnounced /\ ActivityShown

-----------------------------------------------------------------------------
(* "A harness failure after accepting a turn is surfaced": not one of Claude *)
(* that leaves no stderr, whose empty text is not sent.                      *)
FailureSurfaced ==
    response.error => (response.of = "text" => response.texts # <<>>)
=============================================================================
