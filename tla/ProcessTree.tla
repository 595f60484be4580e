----------------------------- MODULE ProcessTree -----------------------------
(* Killing a process and everything it started.                              *)
(*                                                                           *)
(* The provider CLI is the lead of a tree: the App Server bridge and its     *)
(* server, Claude and its tools.  Three callers bring a tree down: /stop,    *)
(* /new and the shutdown (ProcessRegistry, mode "stop"), the deadline of a   *)
(* turn (run_streaming_subprocess, "timeout") and the PID lock's             *)
(* _kill_and_wait ("lock"), whose lead is a gateway.  The tree is read with  *)
(* ps and signalled pid by pid, while its processes run, fork, exit and lose *)
(* their parents.  Pids are not reused while a tree is brought down.  An     *)
(* operator that no other one uses is a fault the code could have had.       *)

CONSTANTS
    Process,
    Lead,           \* the process the caller wants to end
    Self,           \* the process that brings the tree down
    Nobody          \* the parent of an orphan and of a process outside the tree

ASSUME ConstantsAssumption ==
    /\ Lead \in Process
    /\ Self \in Process \ {Lead}
    /\ Nobody \notin Process

VARIABLES
    parent,         \* the parent of each process
    alive,
    stubborn,       \* processes that may outlive the grace of a SIGTERM
    told,           \* processes that were sent a SIGTERM
    mode,           \* "stop", "timeout" or "lock"
    pc,             \* where the caller is
    top,            \* the process whose tree is being force-killed
    todo,           \* pids that are still to be signalled
    watched,        \* descendants of the lead that _kill_and_wait remembers
    before,         \* history: the tree of the lead when ps was first read
    blind           \* history: a reading of ps failed

tree == <<parent, alive, stubborn>>
caller == <<mode, pc, top, todo, watched, blind>>
vars == <<tree, told, caller, before>>

(* What p started, what that started and so on, whose parents still live:    *)
(* the smallest set that has the children of p and of its own members.       *)
Closed(C, p) == \A q \in alive : parent[q] \in C \union {p} => q \in C
Descendants(p) == {q \in alive : \A C \in SUBSET alive : Closed(C, p) => q \in C}
Acyclic == \A p \in alive : p \notin Descendants(p)

Init ==
    /\ alive \in {A \in SUBSET Process : {Lead, Self} \subseteq A}
    /\ mode \in {"stop", "timeout", "lock"}
    /\ \E above \in [alive \ {Lead} -> (alive \ {Self}) \union {Nobody}] :
         parent = [p \in Process |-> IF p \in alive \ {Lead} THEN above[p] ELSE Nobody]
    /\ Acyclic
    (* the gateway is above the trees of its providers; a `stop` may be run by *)
    (* a provider's own tool, below the gateway it stops                       *)
    /\ mode # "lock" => parent[Self] = Nobody
    /\ stubborn \in SUBSET (alive \ {Self})
    /\ told = {}
    /\ pc = CASE mode = "stop" -> "term"
              [] mode = "timeout" -> "kill"
              [] mode = "lock" -> "watch"
    /\ top = Lead
    /\ todo = {}
    /\ watched = {}
    /\ before = {}
    /\ blind = FALSE

-----------------------------------------------------------------------------
(* The processes.                                                            *)

EndsOnly(p) == alive' = alive \ {p} /\ UNCHANGED parent
(* A process ends and its children become orphans.                           *)
Die(p) ==
    /\ alive' = alive \ {p}
    /\ parent' = [q \in Process |-> IF q = p \/ parent[q] = p THEN Nobody ELSE parent[q]]

Exit(p) ==
    /\ p \in alive \ {Self}
    /\ Die(p)
    /\ UNCHANGED <<stubborn, told, caller, before>>

Fork(p, q) ==
    /\ p \in alive \ {Self}
    /\ q \in Process \ (alive \union before)
    /\ alive' = alive \union {q}
    /\ parent' = [parent EXCEPT ![q] = p]
    /\ stubborn' \in {stubborn \ {q}, stubborn \union {q}}
    /\ told' = told \ {q}
    /\ UNCHANGED <<caller, before>>

-----------------------------------------------------------------------------
(* process_tree.                                                             *)

(* What list_process_descendants returns: nothing when ps fails.             *)
Listed(p, found) ==
    /\ \/ found = Descendants(p) /\ UNCHANGED blind
       \/ found = {} /\ blind' = TRUE
    /\ before' = IF before = {} THEN {p} \union Descendants(p) ELSE before

(* os.kill(target, SIGTERM).                                                 *)
Term(p) ==
    /\ told' = IF p \in alive THEN told \union {p} ELSE told
    /\ UNCHANGED <<parent, alive>>

(* os.kill(target, SIGKILL).                                                 *)
Kill(p) ==
    /\ IF p \in alive THEN Die(p) ELSE UNCHANGED <<parent, alive>>
    /\ UNCHANGED told

(* _send_signal never signals its own process.                               *)
AllTargets(targets) == targets
Others(targets) == targets \ {Self}

(* _kill_and_wait lists the descendants before it signals anything.          *)
Watch ==
    /\ pc = "watch"
    /\ \E found \in SUBSET Process : Listed(Lead, found) /\ watched' = Others(found)
    /\ pc' = "term"
    /\ UNCHANGED <<tree, told, mode, top, todo>>

TermTargets(found) == Others({Lead} \union found)

(* terminate_process_tree: ps first, then SIGTERM, the lead first.           *)
BeginTerm ==
    /\ pc = "term"
    /\ \E found \in SUBSET Process : Listed(Lead, found) /\ todo' = TermTargets(found)
    /\ pc' = "terminating"
    /\ UNCHANGED <<tree, told, mode, top, watched>>

Terminate(p) ==
    /\ pc = "terminating"
    /\ p \in todo
    /\ Lead \in todo => p = Lead
    /\ Term(p)
    /\ todo' = todo \ {p}
    /\ pc' = IF todo' = {} THEN "grace" ELSE pc
    /\ UNCHANGED <<stubborn, mode, top, watched, before, blind>>

(* A process that heeds SIGTERM ends within the grace.                       *)
Obey(p) ==
    /\ p \in told \intersect alive
    /\ Die(p)
    /\ UNCHANGED <<stubborn, told, caller, before>>

LeadEnded == Lead \notin alive
GraceOver == told \intersect alive \subseteq stubborn

(* What comes after the lead: _kill_and_wait turns to those it remembered.   *)
NeverSweeps == "done"
AfterLead == IF mode = "lock" THEN "sweep" ELSE "done"

(* _kill_processes sleeps its 0.25 s out; _kill_and_wait polls the lead for  *)
(* up to 5 s.  Only a lead that is still there has its tree force-killed.    *)
Grace ==
    /\ pc = "grace"
    /\ GraceOver \/ (mode = "lock" /\ LeadEnded)
    /\ pc' = IF LeadEnded THEN AfterLead ELSE "kill"
    /\ UNCHANGED <<tree, told, mode, top, todo, watched, before, blind>>

SparesTheTop(found) == Others(found)
KillTargets(found) == Others({top} \union found)

(* force_kill_process_tree: ps first, then SIGKILL, the top of the tree last. *)
BeginKill ==
    /\ pc = "kill"
    /\ \E found \in SUBSET Process : Listed(top, found) /\ todo' = KillTargets(found)
    /\ pc' = "killing"
    /\ UNCHANGED <<tree, told, mode, top, watched>>

ForceKill(p) ==
    /\ pc = "killing"
    /\ p \in todo
    /\ p = top => todo = {top}
    /\ Kill(p)
    /\ todo' = todo \ {p}
    /\ pc' = IF todo' = {} THEN AfterLead ELSE pc
    /\ UNCHANGED <<stubborn, mode, top, watched, before, blind>>

(* The remembered descendants that are alive, each with its own tree.        *)
Sweep ==
    /\ pc = "sweep"
    /\ IF watched \intersect alive = {}
         THEN pc' = "done" /\ UNCHANGED top
         ELSE pc' = "kill" /\ top' \in watched \intersect alive
    /\ UNCHANGED <<tree, told, mode, todo, watched, before, blind>>

CallerStep ==
    \/ Watch
    \/ BeginTerm
    \/ \E p \in Process : Terminate(p)
    \/ Grace
    \/ BeginKill
    \/ \E p \in Process : ForceKill(p)
    \/ Sweep

Next ==
    \/ CallerStep
    \/ \E p \in Process : Exit(p)
    \/ \E p \in Process : Obey(p)
    \/ \E p, q \in Process : Fork(p, q)

Spec == Init /\ [][Next]_vars

-----------------------------------------------------------------------------
(* Every variable has its type, and no process is its own ancestor.          *)
TypeOK ==
    /\ alive \subseteq Process
    /\ parent \in [Process -> alive \union {Nobody}]
    /\ Acyclic
    /\ stubborn \subseteq Process
    /\ told \subseteq Process
    /\ mode \in {"stop", "timeout", "lock"}
    /\ pc \in {"watch", "term", "terminating", "grace", "kill", "killing", "sweep", "done"}
    /\ top \in Process
    /\ todo \subseteq Process \ {Self}
    /\ watched \subseteq Process
    /\ before \subseteq Process
    /\ blind \in BOOLEAN

(* The lead is gone when the caller returns, whether it heeds SIGTERM or     *)
(* not, whatever ps said and whatever was forked meanwhile.                  *)
LeadGone == pc = "done" => Lead \notin alive

(* Of the tree there was when the caller first read ps, only these are    *)
(* left when it returns: the caller itself; anyone, when ps failed; and      *)
(* after a stop, processes slow on SIGTERM.  A descendant does not escape by *)
(* losing its parent, neither the deadline's kill nor the PID lock's.        *)
SurvivorsAccounted ==
    pc = "done" =>
        \A p \in before \intersect alive :
            p = Self \/ blind \/ (mode = "stop" /\ p \in stubborn)

(* A `stop` that runs below the gateway it stops is not killed with it.      *)
CallerSurvives == Self \in alive

(* A tree is brought down, and nothing else.                                 *)
BroughtDown == TypeOK /\ LeadGone /\ SurvivorsAccounted /\ CallerSurvives

(* What the feature document says of /stop: it terminates the provider.      *)
(* With Codex the lead is the bridge and the provider its child; SIGTERM     *)
(* ends the bridge at once, and only a lead that is still alive has the rest *)
(* of its tree force-killed.                                                 *)
StoppedTreeEnds ==
    pc = "done" /\ mode = "stop" /\ ~blind => before \intersect alive = {}

=============================================================================
