---------------------------- MODULE GatewayLifecycle ----------------------------
(* Gateway processes and stop commands around one bot.pid: acquire_lock with *)
(* kill_existing, release_lock, run_bot, stop_bot, cmd_restart, and systemd  *)
(* with Restart=on-failure.  An action is what a process does between two    *)
(* points where another process may step in.  A SIGTERM acts at once: it     *)
(* kills a process that has no handler installed.                            *)
(*                                                                           *)
(* A definition that no other one uses is a fault the code could have had in *)
(* place of the definition after it (PROJECT.json, mutants).                 *)
EXTENDS Integers, FiniteSets

CONSTANTS
    Proc,       \* gateway processes; bound: each is started once
    Ctl,        \* stop and restart commands, each given once
    Nobody,     \* no process
    Service,    \* the systemd unit is installed
    PidReuse    \* the pid of a dead gateway may be given to another program

ASSUME ConstantsAssumption ==
    /\ Proc \intersect Ctl = {} /\ Nobody \notin Proc \union Ctl
    /\ Service \in BOOLEAN /\ PidReuse \in BOOLEAN

Actor == Proc \union Ctl

VARIABLES
    pc,         \* where each gateway or command is
    file,       \* the process named in bot.pid; Nobody: no file
    victim,     \* the process an actor read there and is killing
    child,      \* a gateway's provider process: started "early", or "late",
                \*   after the shutdown looked for processes to kill
    listed,     \* the actors that had seen this provider when they began to kill
    unit,       \* the gateway systemd runs; Nobody: inactive
    code,       \* the exit status a gateway has set, or ended with
    crashed,    \* history: gateways that died of themselves
    cut,        \* history: those a signal ended before their shutdown looked
    strangers,  \* pids of dead gateways that belong to other programs now
    raced       \* history: two starts overlapped, or a stop and a start

childVars == <<child, listed>>
exitVars == <<code, crashed, cut>>
vars == <<pc, file, victim, childVars, unit, exitVars, strangers, raced>>

Init ==
    /\ pc = [a \in Actor |-> "off"]
    /\ file = Nobody
    /\ victim = [a \in Actor |-> Nobody]
    /\ child = [p \in Proc |-> "none"]
    /\ listed = [p \in Proc |-> {}]
    /\ unit = Nobody
    /\ code = [p \in Proc |-> 0]
    /\ crashed = {} /\ cut = {} /\ strangers = {}
    /\ raced = FALSE

Alive(p) == pc[p] \notin {"off", "gone"}
Going(a, s) == pc' = [pc EXCEPT ![a] = s]

-----------------------------------------------------------------------------
(* acquire_lock and _kill_and_wait.                                          *)

WriteThenCheck(p) ==
    /\ pc[p] = "off"
    /\ Going(p, "checking")
    /\ file' = p
    /\ UNCHANGED <<victim, childVars, unit, exitVars, strangers, raced>>
Start(p) ==
    /\ pc[p] = "off"
    /\ Going(p, "checking")
    /\ UNCHANGED <<file, victim, childVars, unit, exitVars, strangers, raced>>

(* The pid in the file is taken for a gateway if any process has it.         *)
ReadFile(a, free) ==
    /\ \/ /\ file # Nobody /\ Alive(file)
          /\ Going(a, "listing")
          /\ victim' = [victim EXCEPT ![a] = file]
          /\ UNCHANGED strangers
       \/ /\ file \in strangers
          /\ strangers' = strangers \ {file}
          /\ Going(a, free) /\ UNCHANGED victim
       \/ /\ file \notin strangers /\ (file # Nobody => ~Alive(file))
          /\ Going(a, free)
          /\ UNCHANGED <<victim, strangers>>
    /\ UNCHANGED <<file, childVars, unit, exitVars, raced>>

CheckFile(p) == pc[p] = "checking" /\ ReadFile(p, "writing")

Gone(p) == child' = [child EXCEPT ![p] = "none"] /\ listed' = [listed EXCEPT ![p] = {}]

(* The listing with ps that is kept for the end of the kill.  It shows       *)
(* nothing when ps fails, or when the gateway has ended meanwhile.           *)
List(a) ==
    /\ pc[a] = "listing"
    /\ Going(a, "signalling")
    /\ \/ UNCHANGED listed
       \/ /\ Alive(victim[a]) /\ child[victim[a]] # "none"
          /\ listed' = [listed EXCEPT ![victim[a]] = @ \union {a}]
    /\ UNCHANGED <<file, victim, child, unit, exitVars, strangers, raced>>

(* What a SIGTERM leaves of q: handlers exist from "running" to the finally  *)
(* of run_bot, which removes them before it shuts down.                      *)
AfterTerm(q) == IF pc[q] \in {"running", "ending"} THEN {"stopping"}
                ELSE IF pc[q] = "stopping" THEN {"stopping", "gone"} ELSE {"gone"}

(* The provider of q gets the signal too, unless ps failed, did not show it  *)
(* yet, or it takes no notice.                                               *)
Reached(q) == UNCHANGED childVars \/ Gone(q)

Unshut == {"acquired", "running", "ending", "stopping"}
CutIf(q, gone) == cut' = IF gone /\ pc[q] \in Unshut THEN cut \union {q} ELSE cut

(* A second listing, and SIGTERM.  A gateway with a handler returns 0 then,  *)
(* whatever code it had set, and systemd takes a death by SIGTERM for 0; one *)
(* in its shutdown keeps the code it has.                                    *)
Terminate(a) ==
    LET q == victim[a] IN
    /\ pc[a] = "signalling"
    /\ \/ /\ Alive(q)
          /\ \E s \in AfterTerm(q) :
                /\ pc' = [pc EXCEPT ![a] = "killing", ![q] = s]
                /\ code' = IF pc[q] = s THEN code ELSE [code EXCEPT ![q] = 0]
                /\ CutIf(q, s = "gone")
          /\ Reached(q)
       \/ /\ ~Alive(q)
          /\ Going(a, "killing")
          /\ UNCHANGED <<childVars, code, cut>>
    /\ UNCHANGED <<file, victim, unit, crashed, strangers, raced>>

(* The gateway has ended, or it is force-killed after five seconds, with its *)
(* provider if ps shows that; then what the first listing showed is.         *)
Hurried(a) == TRUE
Waited(a) == ~Alive(victim[a])

Forgotten(a) == UNCHANGED childVars
KillListed(a) == IF a \in listed[victim[a]] THEN Gone(victim[a]) ELSE UNCHANGED childVars

KillEnds(a, after) ==
    /\ pc[a] = "killing" /\ Waited(a)
    /\ Going(a, after)
    /\ KillListed(a)
    /\ victim' = [victim EXCEPT ![a] = Nobody]
    /\ UNCHANGED <<file, unit, exitVars, strangers, raced>>

WaitOn(a) == UNCHANGED vars
ForceKill(a) ==
    LET q == victim[a] IN
    /\ pc[a] = "killing" /\ Alive(q)
    /\ Going(q, "gone")
    /\ code' = [code EXCEPT ![q] = 1]
    /\ CutIf(q, TRUE)
    /\ Reached(q)
    /\ UNCHANGED <<file, victim, unit, crashed, strangers, raced>>

Killing == {"listing", "signalling", "killing"}

WriteFile(p) ==
    /\ pc[p] = "writing"
    /\ file' = p
    /\ Going(p, "acquired")
    /\ raced' = (raced \/ \E q \in Proc \ {p} : pc[q] \in Killing \union {"writing"})
    /\ UNCHANGED <<victim, childVars, unit, exitVars, strangers>>

-----------------------------------------------------------------------------
(* run_bot: signal handlers, polling, shutdown, release_lock.                *)

Run(p) ==
    /\ pc[p] = "acquired"
    /\ Going(p, "running")
    /\ UNCHANGED <<file, victim, childVars, unit, exitVars, strangers, raced>>

(* A turn starts its provider, also while the polling or the gateway winds   *)
(* down; the provider may end at any time.                                   *)
Spawn(p) ==
    /\ pc[p] \in {"running", "ending", "stopping", "releasing"}
    /\ child[p] = "none"
    /\ child' = [child EXCEPT ![p] = IF pc[p] = "releasing" THEN "late" ELSE "early"]
    /\ UNCHANGED <<pc, file, victim, listed, unit, exitVars, strangers, raced>>

ProviderEnds(p) ==
    /\ child[p] # "none" /\ Gone(p)
    /\ UNCHANGED <<pc, file, victim, unit, exitVars, strangers, raced>>

(* /restart sets the exit code and answers; only then it stops the polling.  *)
(* If the answer cannot be sent the gateway polls on with the code set.      *)
AskRestart(p) ==
    /\ pc[p] = "running" /\ code[p] = 0
    /\ code' = [code EXCEPT ![p] = 42]
    /\ UNCHANGED <<pc, file, victim, childVars, unit, crashed, cut, strangers, raced>>

StopPolling(p) ==
    /\ pc[p] = "running" /\ code[p] = 42
    /\ Going(p, "ending")
    /\ UNCHANGED <<file, victim, childVars, unit, code, crashed, cut, strangers, raced>>

(* The polling returns the code, or it raises; the handlers are removed.     *)
ExitZero(p) == 0
ExitCode(p) == code[p]

RunReturns(p) ==
    /\ pc[p] = "ending"
    /\ Going(p, "stopping")
    /\ code' = [code EXCEPT ![p] = ExitCode(p)]
    /\ UNCHANGED <<file, victim, childVars, unit, crashed, cut, strangers, raced>>

RunFails(p) ==
    /\ pc[p] \in {"running", "ending"}
    /\ Going(p, "stopping")
    /\ code' = [code EXCEPT ![p] = 1]
    /\ UNCHANGED <<file, victim, childVars, unit, crashed, cut, strangers, raced>>

Abandoned(p) == UNCHANGED childVars
KillAll(p) == Gone(p)

Shutdown(p) ==
    /\ pc[p] = "stopping"
    /\ KillAll(p)
    /\ Going(p, "releasing")
    /\ UNCHANGED <<file, victim, unit, exitVars, strangers, raced>>

ReleasesAny(p) == file # Nobody
Releases(p) == file = p

Release(p) ==
    /\ pc[p] = "releasing"
    /\ file' = IF Releases(p) THEN Nobody ELSE file
    /\ Going(p, "gone")
    /\ UNCHANGED <<victim, childVars, unit, exitVars, strangers, raced>>

(* It dies of an exception, of SIGKILL or with the machine's memory.         *)
Crash(p) ==
    /\ Alive(p)
    /\ Going(p, "gone")
    /\ code' = [code EXCEPT ![p] = 1] /\ crashed' = crashed \union {p}
    /\ UNCHANGED <<file, victim, childVars, unit, cut, strangers, raced>>

(* Another program gets the pid of a dead gateway.  (That it gets it while   *)
(* somebody waits for that gateway to end is left out.)                      *)
Reuse ==
    /\ PidReuse
    /\ \E p \in Proc : pc[p] = "gone" /\ strangers' = strangers \union {p}
    /\ UNCHANGED <<pc, file, victim, childVars, unit, exitVars, raced>>

-----------------------------------------------------------------------------
(* systemd.                                                                  *)

StartUnit(p) ==
    /\ Service /\ unit = Nobody
    /\ pc[p] = "off"
    /\ Going(p, "checking")
    /\ unit' = p
    /\ UNCHANGED <<file, victim, childVars, exitVars, strangers, raced>>

(* Its control group goes with the process.  It is started again after any   *)
(* end but a clean one.                                                      *)
UnitEnds ==
    /\ unit # Nobody /\ pc[unit] = "gone"
    /\ Gone(unit)
    /\ IF code[unit] # 0
         THEN \E p \in Proc : pc[p] = "off" /\ unit' = p /\ Going(p, "checking")
         ELSE unit' = Nobody /\ UNCHANGED pc
    /\ UNCHANGED <<file, victim, exitVars, strangers, raced>>

-----------------------------------------------------------------------------
(* stop_bot and cmd_restart.                                                 *)

(* A unit that waits to be restarted is not "active": it is not stopped.     *)
Active == unit # Nobody /\ Alive(unit)

StopCommand(c) ==
    /\ pc[c] = "off"
    /\ Going(c, IF Active THEN "service" ELSE "reading")
    /\ UNCHANGED <<file, victim, childVars, unit, exitVars, strangers, raced>>

CycleCommand(c) ==
    /\ Service /\ pc[c] = "off"
    /\ Going(c, "cycling")
    /\ UNCHANGED <<file, victim, childVars, unit, exitVars, strangers, raced>>

(* systemctl stop: SIGTERM, and in the end SIGKILL, to the control group.    *)
StopService(c, from, to) ==
    /\ pc[c] = from
    /\ \/ /\ Active
          /\ pc' = [pc EXCEPT ![c] = to, ![unit] = "gone"]
          /\ file' \in {file} \union (IF Releases(unit) THEN {Nobody} ELSE {})
          /\ Gone(unit)
          /\ unit' = Nobody
       \/ /\ ~Active
          /\ Going(c, to) /\ UNCHANGED <<file, childVars, unit>>
    /\ UNCHANGED <<victim, exitVars, strangers, raced>>

StopReads(c) == pc[c] = "reading" /\ ReadFile(c, "unlinking")

(* The file goes, whoever wrote it; a restart starts a gateway afterwards.   *)
Unlink(c) ==
    /\ pc[c] = "unlinking"
    /\ file' = Nobody
    /\ raced' = (raced \/ (file # Nobody /\ Alive(file)))
    /\ \E s \in {"gone"} \union (IF Service THEN {} ELSE {"restart"}) : Going(c, s)
    /\ UNCHANGED <<victim, childVars, unit, exitVars, strangers>>

StartAgain(c) ==
    /\ pc[c] = "restart"
    /\ \/ /\ unit = Nobody
          /\ \E p \in Proc :
                /\ pc[p] = "off"
                /\ pc' = [pc EXCEPT ![c] = "gone", ![p] = "checking"]
                /\ unit' = IF Service THEN p ELSE unit
       \/ unit # Nobody /\ Going(c, "gone") /\ UNCHANGED unit
    /\ UNCHANGED <<file, victim, childVars, exitVars, strangers, raced>>

-----------------------------------------------------------------------------
Kill(a, after) == List(a) \/ Terminate(a) \/ KillEnds(a, after) \/ ForceKill(a)

Acquire(p) == \/ CheckFile(p) \/ Kill(p, "writing") \/ WriteFile(p) \/ Run(p)
Leave(p) == RunReturns(p) \/ Shutdown(p) \/ Release(p)
CtlStep(c) == \/ StopService(c, "service", "reading")
              \/ StopService(c, "cycling", "restart")
              \/ StopReads(c) \/ Kill(c, "unlinking") \/ Unlink(c) \/ StartAgain(c)

Next ==
    \/ \E p \in Proc : \/ Start(p) \/ StartUnit(p) \/ Acquire(p) \/ Leave(p)
                       \/ Spawn(p) \/ ProviderEnds(p) \/ AskRestart(p)
                       \/ StopPolling(p) \/ RunFails(p) \/ Crash(p)
    \/ \E c \in Ctl : StopCommand(c) \/ CycleCommand(c) \/ CtlStep(c)
    \/ UnitEnds \/ Reuse

(* Starts and commands go on, and systemd restarts what failed; a gateway    *)
(* may hang in its shutdown.                                                 *)
Spec == /\ Init /\ [][Next]_vars
        /\ WF_vars(UnitEnds)
        /\ \A p \in Proc : WF_vars(Acquire(p))
        /\ \A c \in Ctl : WF_vars(CtlStep(c))

-----------------------------------------------------------------------------
(* Properties.                                                               *)

(* Type correctness; the file names a process that got through its start.    *)
TypeOK ==
    /\ \A p \in Proc : pc[p] \in Killing \union {"off", "checking", "writing",
            "acquired", "running", "ending", "stopping", "releasing", "gone"}
    /\ \A c \in Ctl : pc[c] \in Killing \union {"off", "service", "reading",
            "unlinking", "cycling", "restart", "gone"}
    /\ file \in Proc \union {Nobody} /\ unit \in Proc \union {Nobody}
    /\ victim \in [Actor -> Proc \union {Nobody}]
    /\ child \in [Proc -> {"none", "early", "late"}]
    /\ listed \in [Proc -> SUBSET Actor]
    /\ file \in Proc => pc[file] \notin Killing \union {"off", "checking", "writing"}
    /\ code \in [Proc -> {0, 1, 42}]
    /\ UNION {crashed, cut, strangers} \subseteq Proc /\ raced \in BOOLEAN

Polling == {p \in Proc : pc[p] \in Unshut}

(* Two gateways of one state directory run only if two of them were between  *)
(* reading the file and writing it at the same time, or a stop removed the   *)
(* file of a gateway it had not read: crashes, stale files, hanging          *)
(* shutdowns, /restart and systemd do not lead there.                        *)
TwoOnlyByRace == Cardinality(Polling) > 1 => raced

(* Without such a race the file names the gateway that runs, so the next     *)
(* start or stop finds it.                                                   *)
FileNamesGateway == ~raced => \A p \in Polling : file = p

(* The lock holds against everything but a race.                             *)
LockHolds == TypeOK /\ TwoOnlyByRace /\ FileNamesGateway

(* A gateway that ends without a crash leaves none of the providers it had   *)
(* before its shutdown looked for them, unless a signal ended it before      *)
(* that; and then only one that the listing of no stop or start has shown:   *)
(* ps failed, or the provider was started after it.  What a listing showed   *)
(* is ended with the kill it was made for, whichever of gateway, provider    *)
(* and killer goes first (and unless the killer dies over it).  The          *)
(* providers of the unit go with its control group.                          *)
StopReachesProviders ==
    \A p \in Proc :
        pc[p] = "gone" /\ p \notin crashed /\ child[p] = "early" =>
            \/ unit = p
            \/ p \in cut /\ \A a \in listed[p] : victim[a] = p

(* Every start and every stop comes to its end, also against a gateway that  *)
(* hangs in its shutdown.                                                    *)
CommandsEnd ==
    /\ \A p \in Proc : pc[p] = "listing" ~> pc[p] \notin Killing
    /\ \A c \in Ctl : pc[c] = "reading" ~> pc[c] \in {"gone", "restart"}

AllStarted == \A q \in Proc : pc[q] # "off"

(* The gateway of the unit whose polling a /restart has stopped is followed  *)
(* by another one, if no shutdown hangs: the exit code reaches systemd       *)
(* through the end of the polling and the shutdown.  Unless somebody gives   *)
(* the unit a command or starts a gateway over it, whose SIGTERM turns the   *)
(* code into 0 (or no process is left to run it).                            *)
UnitComesBack ==
    (\A p \in Proc : WF_vars(Leave(p))) =>
      \A p \in Proc : (pc[p] = "ending" /\ unit = p) ~>
        \/ unit \in Proc \ {p} \/ AllStarted
        \/ (\E a \in Actor : victim[a] = p) \/ \E c \in Ctl : pc[c] # "off"

-----------------------------------------------------------------------------
(* What the code's own words promise and the code does not keep.             *)

(* "prevents multiple bot instances from running simultaneously".            *)
OneInstance == Cardinality(Polling) <= 1

(* "kill any running instance before acquiring": and nothing else.           *)
KillsOnlyInstances == [][strangers \subseteq strangers']_vars

(* "Restart the gateway": /restart is followed by another gateway, if no     *)
(* shutdown hangs.                                                           *)
RestartComesBack ==
    (\A p \in Proc : WF_vars(Leave(p))) =>
      \A p \in Proc : code[p] = 42 ~> \E q \in Proc \ {p} : pc[q] # "off"

(* "Stop the installed service": systemd starts no gateway under a stop.     *)
StopEndsService ==
    [][\A c \in Ctl : pc[c] \in Killing \union {"reading", "unlinking"} =>
          ~(UnitEnds /\ unit' # Nobody)]_vars
=============================================================================
