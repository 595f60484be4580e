------------------------- MODULE GatewayLifecycleProofs -------------------------
(* GatewayLifecycle for any number of gateways and commands, with or without *)
(* a service, and whether or not pids are reused.                            *)
EXTENDS GatewayLifecycle, Installation, FiniteSetTheorems, TLAPS

Starting == Killing \union {"off", "checking", "writing"}
ProcState == Starting \union {"acquired", "running", "ending", "stopping", "releasing", "gone"}
CtlState == Killing \union {"off", "service", "reading", "unlinking", "cycling", "restart", "gone"}

States ==
    /\ pc \in [Actor -> ProcState \union CtlState]
    /\ \A p \in Proc : pc[p] \in ProcState
    /\ \A c \in Ctl : pc[c] \in CtlState
    /\ file \in Proc \union {Nobody} /\ unit \in Proc \union {Nobody}
    /\ victim \in [Actor -> Proc \union {Nobody}]
    /\ child \in [Proc -> {"none", "early", "late"}]
    /\ listed \in [Proc -> SUBSET Actor]
    /\ code \in [Proc -> {0, 1, 42}]
    /\ crashed \subseteq Proc /\ cut \subseteq Proc
    /\ strangers \subseteq Proc /\ raced \in BOOLEAN

(* Who is named, in the file or as a victim, got through its start; another  *)
(* program has only the pid of a gateway that is gone; a victim is kept      *)
(* while it is killed, and for good if its killer dies over it.              *)
Named ==
    /\ file \in Proc => pc[file] \notin Starting
    /\ \A a \in Actor : victim[a] \in Proc => pc[victim[a]] \notin Starting
    /\ \A a \in Actor : pc[a] \in Killing => victim[a] \in Proc
    /\ \A a \in Actor : pc[a] \notin Killing \union {"gone"} => victim[a] = Nobody
    /\ \A p \in strangers : pc[p] = "gone"

(* Without a race a start that has read the file knows of every gateway, and *)
(* has killed it when it comes to write.                                     *)
Exclusive == ~raced =>
    /\ \A p \in Polling : file = p
    /\ \A q \in Proc : pc[q] \in Killing => Polling \subseteq {victim[q]}
    /\ \A q \in Proc : pc[q] = "writing" => Polling = {}

(* A provider is started after the start of its gateway; one that outlives   *)
(* its gateway was cut off from the shutdown; one that was listed is still   *)
(* being killed.                                                             *)
ProvidersOf(p) ==
    /\ pc[p] \in Starting \union {"acquired"} => child[p] = "none"
    /\ pc[p] = "releasing" => child[p] # "early"
    /\ pc[p] = "gone" /\ p \notin crashed /\ child[p] = "early" => unit = p \/ p \in cut
    /\ \A a \in listed[p] : victim[a] = p

Providers == \A p \in Proc : ProvidersOf(p)

IInv == States /\ Named /\ Exclusive /\ Providers

-----------------------------------------------------------------------------
(* What an action changes, without its cases.                                *)

(* Where a start and a stop go on after a kill.                              *)
After(a, s) == (a \in Proc /\ s = "writing") \/ (a \in Ctl /\ s = "unlinking")

(* Reading the file: the process named there is to be killed, or it is gone. *)
LEMMA ReadEffect ==
  ASSUME States, Named, NEW a \in Actor, NEW free, ReadFile(a, free)
  PROVE  /\ UNCHANGED <<file, childVars, unit, exitVars, raced>>
         /\ \/ /\ file \in Proc /\ pc[file] \notin Starting \union {"gone"}
               /\ pc' = [pc EXCEPT ![a] = "listing"]
               /\ victim' = [victim EXCEPT ![a] = file]
               /\ UNCHANGED strangers
            \/ /\ file = Nobody \/ (file \in Proc /\ pc[file] = "gone")
               /\ pc' = [pc EXCEPT ![a] = free]
               /\ strangers' \subseteq strangers
               /\ UNCHANGED victim
<1> USE ConstantsAssumption DEF States, Named, Starting, Actor
<1>1. UNCHANGED <<file, childVars, unit, exitVars, raced>>
  BY DEF ReadFile
<1>2. CASE file # Nobody /\ Alive(file) /\ Going(a, "listing")
           /\ victim' = [victim EXCEPT ![a] = file] /\ UNCHANGED strangers
  BY <1>1, <1>2 DEF Alive, ProcState, Going
<1>3. CASE file \in strangers /\ strangers' = strangers \ {file}
           /\ Going(a, free) /\ UNCHANGED victim
  BY <1>1, <1>3 DEF Going
<1>4. CASE file \notin strangers /\ (file # Nobody => ~Alive(file))
           /\ Going(a, free) /\ UNCHANGED <<victim, strangers>>
  <2>1. file = Nobody \/ (file \in Proc /\ pc[file] = "gone")
    BY <1>4 DEF Alive, ProcState
  <2>2. QED
    BY <1>1, <1>4, <2>1 DEF Going
<1>5. QED
  BY <1>2, <1>3, <1>4 DEF ReadFile

(* SIGTERM: the victim goes into its shutdown or is gone, and is noted if it *)
(* had its shutdown before it.                                               *)
TermEffects(a, q, s) ==
    /\ s \in {"stopping", "gone"}
    /\ s = "stopping" => pc[q] \in {"running", "ending", "stopping"}
    /\ pc' = [pc EXCEPT ![a] = "killing", ![q] = s]
    /\ code' = code \/ code' = [code EXCEPT ![q] = 0]
    /\ cut' = cut \/ cut' = cut \union {q}
    /\ s = "gone" /\ pc[q] \in Unshut => q \in cut'
    /\ Reached(q)
    /\ UNCHANGED <<file, victim, unit, crashed, strangers, raced>>

LEMMA TermEffect ==
  ASSUME States, Named, NEW a \in Actor, Terminate(a)
  PROVE  /\ victim[a] \in Proc /\ victim[a] # a /\ pc[victim[a]] \notin Starting
         /\ pc[a] = "signalling"
         /\ \E s : TermEffects(a, victim[a], s)
<1> DEFINE q == victim[a]
<1>1. pc[a] = "signalling" /\ UNCHANGED <<file, victim, unit, crashed, strangers, raced>>
  BY DEF Terminate
<1>2. q \in Proc /\ pc[q] \notin Starting /\ q # a
  BY <1>1 DEF Named, Starting, Killing
<1>3. ASSUME Alive(q), NEW s \in AfterTerm(q), pc' = [pc EXCEPT ![a] = "killing", ![q] = s],
             code' = IF pc[q] = s THEN code ELSE [code EXCEPT ![q] = 0],
             CutIf(q, s = "gone"), Reached(q)
      PROVE  TermEffects(a, q, s)
  BY <1>1, <1>3 DEF TermEffects, AfterTerm, CutIf
<1>4. ASSUME ~Alive(q), Going(a, "killing"), UNCHANGED <<childVars, code, cut>>
      PROVE  TermEffects(a, q, "gone")
  <2>1. pc[q] = "gone"
    BY <1>2, <1>4 DEF Alive, Starting
  <2>2. pc' = [pc EXCEPT ![a] = "killing", ![q] = "gone"]
    BY <1>2, <1>4, <2>1 DEF Going, States, Actor
  <2>3. QED
    BY <1>1, <1>4, <2>1, <2>2 DEF TermEffects, Reached, Unshut
<1>5. QED
  BY <1>1, <1>2, <1>3, <1>4 DEF Terminate

(* Killing by force: the victim is gone, and noted likewise.                 *)
LEMMA ForceEffect ==
  ASSUME States, Named, NEW a \in Actor, ForceKill(a)
  PROVE  /\ victim[a] \in Proc /\ pc[victim[a]] \notin Starting
         /\ pc' = [pc EXCEPT ![victim[a]] = "gone"]
         /\ code' = [code EXCEPT ![victim[a]] = 1]
         /\ cut' = cut \/ cut' = cut \union {victim[a]}
         /\ pc[victim[a]] \in Unshut => victim[a] \in cut'
         /\ Reached(victim[a])
         /\ UNCHANGED <<file, victim, unit, crashed, strangers, raced>>
<1>1. pc[a] = "killing" /\ UNCHANGED <<file, victim, unit, crashed, strangers, raced>>
  BY DEF ForceKill
<1>2. victim[a] \in Proc /\ pc[victim[a]] \notin Starting
  BY <1>1 DEF Named, Killing
<1>3. QED
  BY <1>1, <1>2 DEF ForceKill, Going, CutIf

(* The providers: what happens to them is that they are gone, or nothing.    *)
LEMMA ReachEffect ==
  ASSUME States, NEW q \in Proc, Reached(q)
  PROVE  /\ child' \in [Proc -> {"none", "early", "late"}]
         /\ listed' \in [Proc -> SUBSET Actor]
         /\ \A p \in Proc : child'[p] = "none" \/ child'[p] = child[p]
         /\ \A p \in Proc : listed'[p] \subseteq listed[p]
  BY DEF Reached, Gone, childVars, States

-----------------------------------------------------------------------------
(* The initial state satisfies the invariant.                                *)
LEMMA InitIInv == Init => IInv
<1> SUFFICES ASSUME Init PROVE IInv
  OBVIOUS
<1> USE ConstantsAssumption DEF Init
<1>1. States
  BY DEF States, ProcState, CtlState, Starting, Actor
<1>2. Named /\ Exclusive /\ Providers
  BY DEF Named, Exclusive, Providers, ProvidersOf, Polling, Actor, Unshut, Killing
<1>3. QED
  BY <1>1, <1>2 DEF IInv

(* A step is one of these.                                                   *)
LEMMA NextSteps ==
  ASSUME [Next]_vars
  PROVE  \/ \E p \in Proc : \/ Start(p) \/ StartUnit(p) \/ WriteFile(p) \/ Run(p) \/ Shutdown(p)
                            \/ Release(p) \/ Spawn(p) \/ ProviderEnds(p) \/ AskRestart(p)
                            \/ StopPolling(p) \/ RunReturns(p) \/ RunFails(p) \/ Crash(p)
         \/ \E a \in Actor : \E s : /\ After(a, s)
                                   /\ \/ List(a) \/ Terminate(a) \/ ForceKill(a) \/ KillEnds(a, s)
                                      \/ pc[a] \in {"checking", "reading"} /\ ReadFile(a, s)
         \/ \E c \in Ctl : \E from \in {"service", "cycling"} : \E to \in {"reading", "restart"} :
                \/ StopCommand(c) \/ CycleCommand(c) \/ Unlink(c) \/ StartAgain(c)
                \/ StopService(c, from, to)
         \/ UnitEnds \/ Reuse \/ UNCHANGED vars
<1>1. ASSUME NEW p \in Proc PROVE p \in Actor /\ After(p, "writing")
  BY DEF Actor, After
<1>2. ASSUME NEW c \in Ctl PROVE c \in Actor /\ After(c, "unlinking")
  BY DEF Actor, After
<1>3. QED
  BY <1>1, <1>2 DEF Next, Acquire, Leave, CtlStep, Kill, CheckFile, StopReads

(* Every variable keeps its type.                                            *)
LEMMA StatesStep ==
  ASSUME States, Named, [Next]_vars
  PROVE  States'
<1> USE ConstantsAssumption DEF States, ProcState, CtlState, Starting, Killing, Actor, exitVars, childVars
<1>1. ASSUME NEW p \in Proc, Start(p) PROVE States'
  BY <1>1 DEF Start, Going
<1>2. ASSUME NEW p \in Proc, StartUnit(p) PROVE States'
  BY <1>2 DEF StartUnit, Going
<1>3. ASSUME NEW a \in Actor, NEW s, After(a, s), pc[a] \in {"checking", "reading"}, ReadFile(a, s)
      PROVE  States'
  <2>1. UNCHANGED <<file, childVars, unit, exitVars, raced>>
    BY <1>3, ReadEffect
  <2>2. ASSUME file \in Proc, pc[file] \notin Starting \union {"gone"},
               pc' = [pc EXCEPT ![a] = "listing"],
               victim' = [victim EXCEPT ![a] = file], UNCHANGED strangers
        PROVE  States'
    BY <1>3, <2>1, <2>2
  <2>3. ASSUME file = Nobody \/ (file \in Proc /\ pc[file] = "gone"),
               pc' = [pc EXCEPT ![a] = s],
               strangers' \subseteq strangers, UNCHANGED victim
        PROVE  States'
    BY <1>3, <2>1, <2>3 DEF After
  <2>4. QED
    <3> HIDE DEF Actor, States, Named, ProcState, CtlState, Starting
    <3>1. QED
      BY <1>3, <2>2, <2>3, ReadEffect
<1>4. ASSUME NEW a \in Actor, List(a) PROVE States'
  <2>1. victim[a] \in Proc
    BY <1>4 DEF List, Named
  <2>2. QED
    BY <1>4, <2>1 DEF List, Going
<1>5. ASSUME NEW a \in Actor, Terminate(a) PROVE States'
  <2>1. victim[a] \in Proc /\ victim[a] # a /\ pc[a] = "signalling"
    BY <1>5, TermEffect
  <2>2. PICK s : TermEffects(a, victim[a], s)
    BY <1>5, TermEffect
  <2>3. child' \in [Proc -> {"none", "early", "late"}] /\ listed' \in [Proc -> SUBSET Actor]
    BY <2>1, <2>2, ReachEffect DEF TermEffects
  <2>4. QED
    BY <2>1, <2>2, <2>3 DEF TermEffects
<1>6. ASSUME NEW a \in Actor, NEW s, After(a, s), KillEnds(a, s) PROVE States'
  <2>1. pc[a] = "killing" /\ victim[a] \in Proc
    BY <1>6 DEF KillEnds, Named
  <2>2. QED
    BY <1>6, <2>1 DEF KillEnds, Going, KillListed, Gone, After
<1>7. ASSUME NEW a \in Actor, ForceKill(a) PROVE States'
  <2>1. child' \in [Proc -> {"none", "early", "late"}] /\ listed' \in [Proc -> SUBSET Actor]
    BY <1>7, ForceEffect, ReachEffect
  <2>2. QED
    BY <1>7, <2>1, ForceEffect
<1>8. ASSUME NEW p \in Proc, WriteFile(p) PROVE States'
  BY <1>8 DEF WriteFile, Going
<1>9. ASSUME NEW p \in Proc, Run(p) PROVE States'
  BY <1>9 DEF Run, Going
<1>10. ASSUME NEW p \in Proc, Shutdown(p) PROVE States'
  BY <1>10 DEF Shutdown, Going, KillAll, Gone
<1>11. ASSUME NEW p \in Proc, Release(p) PROVE States'
  BY <1>11 DEF Release, Going, Releases
<1>12. ASSUME NEW p \in Proc, Spawn(p) PROVE States'
  BY <1>12 DEF Spawn
<1>13. ASSUME NEW p \in Proc, ProviderEnds(p) PROVE States'
  BY <1>13 DEF ProviderEnds, Gone
<1>14. ASSUME NEW p \in Proc, AskRestart(p) PROVE States'
  BY <1>14 DEF AskRestart
<1>15. ASSUME NEW p \in Proc, StopPolling(p) PROVE States'
  BY <1>15 DEF StopPolling, Going
<1>16. ASSUME NEW p \in Proc, RunReturns(p) PROVE States'
  BY <1>16 DEF RunReturns, Going, ExitCode
<1>17. ASSUME NEW p \in Proc, RunFails(p) PROVE States'
  BY <1>17 DEF RunFails, Going
<1>18. ASSUME NEW p \in Proc, Crash(p) PROVE States'
  BY <1>18 DEF Crash, Going
<1>19. ASSUME NEW c \in Ctl, StopCommand(c) PROVE States'
  BY <1>19 DEF StopCommand, Going, Active
<1>20. ASSUME NEW c \in Ctl, CycleCommand(c) PROVE States'
  BY <1>20 DEF CycleCommand, Going
<1>21. ASSUME NEW c \in Ctl, NEW from \in {"service", "cycling"}, NEW to \in {"reading", "restart"},
             StopService(c, from, to)
      PROVE  States'
  BY <1>21 DEF StopService, Going, Active, Releases, Gone
<1>22. ASSUME NEW c \in Ctl, Unlink(c) PROVE States'
  BY <1>22 DEF Unlink, Going
<1>23. ASSUME NEW c \in Ctl, StartAgain(c) PROVE States'
  BY <1>23 DEF StartAgain, Going
<1>24. CASE UnitEnds
  BY <1>24 DEF UnitEnds, Going, Gone
<1>25. CASE Reuse
  BY <1>25 DEF Reuse
<1>26. CASE UNCHANGED vars
  BY <1>26 DEF vars
<1>27. QED
  <2> HIDE DEF States, ProcState, CtlState, Starting, Killing, Actor, exitVars, childVars
  <2>1. ASSUME NEW p \in Proc,
               \/ Start(p) \/ StartUnit(p) \/ WriteFile(p) \/ Run(p) \/ Shutdown(p)
               \/ Release(p) \/ Spawn(p) \/ ProviderEnds(p) \/ AskRestart(p)
               \/ StopPolling(p) \/ RunReturns(p) \/ RunFails(p) \/ Crash(p)
        PROVE  States'
    BY <2>1, <1>1, <1>2, <1>8, <1>9, <1>10, <1>11, <1>12, <1>13, <1>14, <1>15, <1>16,
       <1>17, <1>18
  <2>2. ASSUME NEW a \in Actor, NEW s, After(a, s),
               \/ List(a) \/ Terminate(a) \/ ForceKill(a) \/ KillEnds(a, s)
               \/ pc[a] \in {"checking", "reading"} /\ ReadFile(a, s)
        PROVE  States'
    BY <2>2, <1>3, <1>4, <1>5, <1>6, <1>7
  <2>3. ASSUME NEW c \in Ctl, NEW from \in {"service", "cycling"}, NEW to \in {"reading", "restart"},
               \/ StopCommand(c) \/ CycleCommand(c) \/ Unlink(c) \/ StartAgain(c)
               \/ StopService(c, from, to)
        PROVE  States'
    BY <2>3, <1>19, <1>20, <1>21, <1>22, <1>23
  <2>4. QED
    BY <2>1, <2>2, <2>3, <1>24, <1>25, <1>26, NextSteps

(* Who is named got through its start.                                       *)
LEMMA NamedStep ==
  ASSUME States, Named, [Next]_vars
  PROVE  Named'
<1> USE ConstantsAssumption DEF States, Named, ProcState, CtlState, Starting, Killing, Actor, exitVars, childVars
<1>1. ASSUME NEW p \in Proc, Start(p) PROVE Named'
  BY <1>1 DEF Start, Going
<1>2. ASSUME NEW p \in Proc, StartUnit(p) PROVE Named'
  BY <1>2 DEF StartUnit, Going
<1>3. ASSUME NEW a \in Actor, NEW s, After(a, s), pc[a] \in {"checking", "reading"}, ReadFile(a, s)
      PROVE  Named'
  <2>1. UNCHANGED <<file, childVars, unit, exitVars, raced>>
    BY <1>3, ReadEffect
  <2>2. ASSUME file \in Proc, pc[file] \notin Starting \union {"gone"},
               pc' = [pc EXCEPT ![a] = "listing"],
               victim' = [victim EXCEPT ![a] = file], UNCHANGED strangers
        PROVE  Named'
    BY <1>3, <2>1, <2>2
  <2>3. ASSUME file = Nobody \/ (file \in Proc /\ pc[file] = "gone"),
               pc' = [pc EXCEPT ![a] = s],
               strangers' \subseteq strangers, UNCHANGED victim
        PROVE  Named'
    BY <1>3, <2>1, <2>3 DEF After
  <2>4. QED
    <3> HIDE DEF Actor, States, Named, ProcState, CtlState, Starting
    <3>1. QED
      BY <1>3, <2>2, <2>3, ReadEffect
<1>4. ASSUME NEW a \in Actor, List(a) PROVE Named'
  BY <1>4 DEF List, Going
<1>5. ASSUME NEW a \in Actor, Terminate(a) PROVE Named'
  <2>1. victim[a] \in Proc /\ victim[a] # a /\ pc[victim[a]] \notin Starting /\ pc[a] = "signalling"
    BY <1>5, TermEffect
  <2>2. PICK s : TermEffects(a, victim[a], s)
    BY <1>5, TermEffect
  <2>3. s \in {"stopping", "gone"} /\ pc' = [pc EXCEPT ![a] = "killing", ![victim[a]] = s]
        /\ (s = "stopping" => pc[victim[a]] \in {"running", "ending", "stopping"})
        /\ UNCHANGED <<file, victim, strangers>>
    BY <2>2 DEF TermEffects
  <2>4. QED
    BY <2>1, <2>3
<1>6. ASSUME NEW a \in Actor, NEW s, After(a, s), KillEnds(a, s) PROVE Named'
  <2>1. pc' = [pc EXCEPT ![a] = s] /\ victim' = [victim EXCEPT ![a] = Nobody] /\ pc[a] = "killing"
        /\ UNCHANGED <<file, strangers>>
    BY <1>6 DEF KillEnds, Going
  <2>2. QED
    BY <1>6, <2>1 DEF After
<1>7. ASSUME NEW a \in Actor, ForceKill(a) PROVE Named'
  <2>1. victim[a] \in Proc /\ pc[victim[a]] \notin Starting /\ pc' = [pc EXCEPT ![victim[a]] = "gone"]
        /\ UNCHANGED <<file, victim, strangers>>
    BY <1>7, ForceEffect
  <2>2. QED
    BY <2>1
<1>8. ASSUME NEW p \in Proc, WriteFile(p) PROVE Named'
  BY <1>8 DEF WriteFile, Going
<1>9. ASSUME NEW p \in Proc, Run(p) PROVE Named'
  BY <1>9 DEF Run, Going
<1>10. ASSUME NEW p \in Proc, Shutdown(p) PROVE Named'
  BY <1>10 DEF Shutdown, Going, KillAll, Gone
<1>11. ASSUME NEW p \in Proc, Release(p) PROVE Named'
  BY <1>11 DEF Release, Going, Releases
<1>12. ASSUME NEW p \in Proc, Spawn(p) PROVE Named'
  BY <1>12 DEF Spawn
<1>13. ASSUME NEW p \in Proc, ProviderEnds(p) PROVE Named'
  BY <1>13 DEF ProviderEnds, Gone
<1>14. ASSUME NEW p \in Proc, AskRestart(p) PROVE Named'
  BY <1>14 DEF AskRestart
<1>15. ASSUME NEW p \in Proc, StopPolling(p) PROVE Named'
  BY <1>15 DEF StopPolling, Going
<1>16. ASSUME NEW p \in Proc, RunReturns(p) PROVE Named'
  BY <1>16 DEF RunReturns, Going, ExitCode
<1>17. ASSUME NEW p \in Proc, RunFails(p) PROVE Named'
  BY <1>17 DEF RunFails, Going
<1>18. ASSUME NEW p \in Proc, Crash(p) PROVE Named'
  BY <1>18 DEF Crash, Going
<1>19. ASSUME NEW c \in Ctl, StopCommand(c) PROVE Named'
  BY <1>19 DEF StopCommand, Going, Active
<1>20. ASSUME NEW c \in Ctl, CycleCommand(c) PROVE Named'
  BY <1>20 DEF CycleCommand, Going
<1>21. ASSUME NEW c \in Ctl, NEW from \in {"service", "cycling"}, NEW to \in {"reading", "restart"},
             StopService(c, from, to)
      PROVE  Named'
  <2>1. CASE Active /\ pc' = [pc EXCEPT ![c] = to, ![unit] = "gone"]
             /\ file' \in {file} \union (IF Releases(unit) THEN {Nobody} ELSE {})
             /\ UNCHANGED <<victim, strangers>>
    BY <1>21, <2>1 DEF Active, StopService
  <2>2. CASE pc' = [pc EXCEPT ![c] = to] /\ UNCHANGED <<file, victim, strangers>>
    BY <1>21, <2>2 DEF StopService
  <2>3. QED
    BY <1>21, <2>1, <2>2 DEF StopService, Going
<1>22. ASSUME NEW c \in Ctl, Unlink(c) PROVE Named'
  BY <1>22 DEF Unlink, Going
<1>23. ASSUME NEW c \in Ctl, StartAgain(c) PROVE Named'
  BY <1>23 DEF StartAgain, Going
<1>24. CASE UnitEnds
  BY <1>24 DEF UnitEnds, Going, Gone
<1>25. CASE Reuse
  BY <1>25 DEF Reuse
<1>26. CASE UNCHANGED vars
  BY <1>26 DEF vars
<1>27. QED
  <2> HIDE DEF States, Named, ProcState, CtlState, Starting, Killing, Actor, exitVars, childVars
  <2>1. ASSUME NEW p \in Proc,
               \/ Start(p) \/ StartUnit(p) \/ WriteFile(p) \/ Run(p) \/ Shutdown(p)
               \/ Release(p) \/ Spawn(p) \/ ProviderEnds(p) \/ AskRestart(p)
               \/ StopPolling(p) \/ RunReturns(p) \/ RunFails(p) \/ Crash(p)
        PROVE  Named'
    BY <2>1, <1>1, <1>2, <1>8, <1>9, <1>10, <1>11, <1>12, <1>13, <1>14, <1>15, <1>16,
       <1>17, <1>18
  <2>2. ASSUME NEW a \in Actor, NEW s, After(a, s),
               \/ List(a) \/ Terminate(a) \/ ForceKill(a) \/ KillEnds(a, s)
               \/ pc[a] \in {"checking", "reading"} /\ ReadFile(a, s)
        PROVE  Named'
    BY <2>2, <1>3, <1>4, <1>5, <1>6, <1>7
  <2>3. ASSUME NEW c \in Ctl, NEW from \in {"service", "cycling"}, NEW to \in {"reading", "restart"},
               \/ StopCommand(c) \/ CycleCommand(c) \/ Unlink(c) \/ StartAgain(c)
               \/ StopService(c, from, to)
        PROVE  Named'
    BY <2>3, <1>19, <1>20, <1>21, <1>22, <1>23
  <2>4. QED
    BY <2>1, <2>2, <2>3, <1>24, <1>25, <1>26, NextSteps

(* Whoever writes the file without a race has killed all there were.         *)
LEMMA ExclusiveStep ==
  ASSUME States, Named, Exclusive, [Next]_vars
  PROVE  Exclusive'
<1> USE ConstantsAssumption DEF States, Named, Exclusive, Polling, Unshut, ProcState, CtlState, Starting, Killing, Actor, exitVars, childVars
<1>1. ASSUME NEW p \in Proc, Start(p) PROVE Exclusive'
  <2>1. Polling' \subseteq Polling /\ UNCHANGED <<file, raced, victim>>
    BY <1>1 DEF Start, Going
  <2>2. \A q \in Proc : pc'[q] \in Killing \union {"writing"} => pc'[q] = pc[q]
    BY <1>1 DEF Start, Going
  <2>3. QED
    BY <2>1, <2>2
<1>2. ASSUME NEW p \in Proc, StartUnit(p) PROVE Exclusive'
  <2>1. Polling' \subseteq Polling /\ UNCHANGED <<file, raced, victim>>
    BY <1>2 DEF StartUnit, Going
  <2>2. \A q \in Proc : pc'[q] \in Killing \union {"writing"} => pc'[q] = pc[q]
    BY <1>2 DEF StartUnit, Going
  <2>3. QED
    BY <2>1, <2>2
<1>3. ASSUME NEW a \in Actor, NEW s, After(a, s), pc[a] \in {"checking", "reading"}, ReadFile(a, s)
      PROVE  Exclusive'
  <2>1. UNCHANGED <<file, childVars, unit, exitVars, raced>>
    BY <1>3, ReadEffect
  <2>2. ASSUME file \in Proc, pc[file] \notin Starting \union {"gone"},
               pc' = [pc EXCEPT ![a] = "listing"],
               victim' = [victim EXCEPT ![a] = file], UNCHANGED strangers
        PROVE  Exclusive'
    <3>1. pc'[a] = "listing" /\ Polling' \subseteq Polling
      BY <1>3, <2>2
    <3>2. \A q \in Proc : q # a => pc'[q] = pc[q] /\ victim'[q] = victim[q]
      BY <2>2
    <3>3. victim'[a] = file
      BY <2>2
    <3>4. QED
      BY <2>1, <3>1, <3>2, <3>3
  <2>3. ASSUME file = Nobody \/ (file \in Proc /\ pc[file] = "gone"),
               pc' = [pc EXCEPT ![a] = s],
               strangers' \subseteq strangers, UNCHANGED victim
        PROVE  Exclusive'
    <3>1. ~raced => Polling = {}
      BY <2>3
    <3>2. Polling' = Polling /\ \A q \in Proc : q # a => pc'[q] = pc[q]
      BY <1>3, <2>3 DEF After
    <3>3. QED
      BY <1>3, <2>1, <2>3, <3>1, <3>2 DEF After
  <2>4. QED
    <3> HIDE DEF Actor, States, Named, Exclusive, Polling, Unshut, ProcState, CtlState, Starting
    <3>1. QED
      BY <1>3, <2>2, <2>3, ReadEffect
<1>4. ASSUME NEW a \in Actor, List(a) PROVE Exclusive'
  <2>1. pc[a] = "listing" /\ pc' = [pc EXCEPT ![a] = "signalling"] /\ UNCHANGED <<file, raced, victim>>
    BY <1>4 DEF List, Going
  <2>2. Polling' = Polling /\ \A q \in Proc : pc'[q] # pc[q] => pc[q] \in Killing /\ pc'[q] \in Killing
    BY <2>1
  <2>3. \A q \in Proc : (pc'[q] \in Killing => pc[q] \in Killing) /\ (pc'[q] = "writing" => pc[q] = "writing")
    BY <2>1
  <2>4. QED
    BY <2>1, <2>2, <2>3
<1>5. ASSUME NEW a \in Actor, Terminate(a) PROVE Exclusive'
  <2>1. victim[a] \in Proc /\ victim[a] # a /\ pc[victim[a]] \notin Starting /\ pc[a] = "signalling"
    BY <1>5, TermEffect
  <2>2. PICK s : TermEffects(a, victim[a], s)
    BY <1>5, TermEffect
  <2>3. s \in {"stopping", "gone"} /\ pc' = [pc EXCEPT ![a] = "killing", ![victim[a]] = s]
        /\ (s = "stopping" => pc[victim[a]] \in {"running", "ending", "stopping"})
        /\ UNCHANGED <<file, victim, raced>>
    BY <2>2 DEF TermEffects
  <2>4. Polling' \subseteq Polling
    BY <2>1, <2>3
  <2>5. \A q \in Proc : (pc'[q] \in Killing => pc[q] \in Killing) /\ (pc'[q] = "writing" => pc[q] = "writing")
    BY <2>1, <2>3
  <2>6. QED
    BY <2>3, <2>4, <2>5
<1>6. ASSUME NEW a \in Actor, NEW s, After(a, s), KillEnds(a, s) PROVE Exclusive'
  <2>1. pc' = [pc EXCEPT ![a] = s] /\ victim' = [victim EXCEPT ![a] = Nobody] /\ pc[a] = "killing"
        /\ UNCHANGED <<file, raced>> /\ pc[victim[a]] \in {"off", "gone"} /\ victim[a] \in Proc
    BY <1>6 DEF KillEnds, Going, Waited, Alive
  <2>2. Polling' = Polling /\ victim[a] \notin Polling
    BY <1>6, <2>1 DEF After
  <2>3. \A q \in Proc : q # a => pc'[q] = pc[q] /\ victim'[q] = victim[q]
    BY <2>1
  <2>4. a \in Proc => pc'[a] = "writing" /\ (~raced => Polling = {})
    BY <1>6, <2>1, <2>2 DEF After
  <2>5. QED
    BY <2>1, <2>2, <2>3, <2>4
<1>7. ASSUME NEW a \in Actor, ForceKill(a) PROVE Exclusive'
  <2>1. victim[a] \in Proc /\ pc' = [pc EXCEPT ![victim[a]] = "gone"] /\ UNCHANGED <<file, raced, victim>>
    BY <1>7, ForceEffect
  <2>2. Polling' \subseteq Polling
    BY <2>1
  <2>3. QED
    BY <2>1, <2>2
<1>8. ASSUME NEW p \in Proc, WriteFile(p) PROVE Exclusive'
  <2>1. pc[p] = "writing" /\ pc' = [pc EXCEPT ![p] = "acquired"] /\ file' = p
        /\ raced' = (raced \/ \E q \in Proc \ {p} : pc[q] \in Killing \union {"writing"})
    BY <1>8 DEF WriteFile, Going
  <2>2. SUFFICES ASSUME ~raced' PROVE Exclusive'
    BY DEF Exclusive
  <2>3. ~raced /\ \A q \in Proc \ {p} : pc[q] \notin Killing \union {"writing"}
    BY <2>1, <2>2
  <2>4. Polling = {}
    BY <2>1, <2>3
  <2>5. Polling' \subseteq {p} /\ \A q \in Proc : pc'[q] \notin Killing \union {"writing"}
    BY <2>1, <2>3, <2>4
  <2>6. QED
    BY <2>1, <2>5
<1>9. ASSUME NEW p \in Proc, Run(p) PROVE Exclusive'
  <2>1. Polling' \subseteq Polling /\ UNCHANGED <<file, raced, victim>>
    BY <1>9 DEF Run, Going
  <2>2. \A q \in Proc : pc'[q] \in Killing \union {"writing"} => pc'[q] = pc[q]
    BY <1>9 DEF Run, Going
  <2>3. QED
    BY <2>1, <2>2
<1>10. ASSUME NEW p \in Proc, Shutdown(p) PROVE Exclusive'
  <2>1. Polling' \subseteq Polling /\ UNCHANGED <<file, raced, victim>>
    BY <1>10 DEF Shutdown, Going
  <2>2. \A q \in Proc : pc'[q] \in Killing \union {"writing"} => pc'[q] = pc[q]
    BY <1>10 DEF Shutdown, Going
  <2>3. QED
    BY <2>1, <2>2
<1>11. ASSUME NEW p \in Proc, Release(p) PROVE Exclusive'
  <2>1. pc[p] = "releasing" /\ pc' = [pc EXCEPT ![p] = "gone"] /\ UNCHANGED <<raced, victim>>
        /\ file' = IF file = p THEN Nobody ELSE file
    BY <1>11 DEF Release, Releases, Going
  <2>2. Polling' = Polling /\ p \notin Polling
    BY <2>1
  <2>3. QED
    BY <2>1, <2>2
<1>12. ASSUME NEW p \in Proc, Spawn(p) PROVE Exclusive'
  <2>1. Polling' \subseteq Polling /\ UNCHANGED <<file, raced, victim>>
    BY <1>12 DEF Spawn
  <2>2. \A q \in Proc : pc'[q] \in Killing \union {"writing"} => pc'[q] = pc[q]
    BY <1>12 DEF Spawn
  <2>3. QED
    BY <2>1, <2>2
<1>13. ASSUME NEW p \in Proc, ProviderEnds(p) PROVE Exclusive'
  <2>1. Polling' \subseteq Polling /\ UNCHANGED <<file, raced, victim>>
    BY <1>13 DEF ProviderEnds
  <2>2. \A q \in Proc : pc'[q] \in Killing \union {"writing"} => pc'[q] = pc[q]
    BY <1>13 DEF ProviderEnds
  <2>3. QED
    BY <2>1, <2>2
<1>14. ASSUME NEW p \in Proc, AskRestart(p) PROVE Exclusive'
  <2>1. Polling' \subseteq Polling /\ UNCHANGED <<file, raced, victim>>
    BY <1>14 DEF AskRestart
  <2>2. \A q \in Proc : pc'[q] \in Killing \union {"writing"} => pc'[q] = pc[q]
    BY <1>14 DEF AskRestart
  <2>3. QED
    BY <2>1, <2>2
<1>15. ASSUME NEW p \in Proc, StopPolling(p) PROVE Exclusive'
  <2>1. Polling' \subseteq Polling /\ UNCHANGED <<file, raced, victim>>
    BY <1>15 DEF StopPolling, Going
  <2>2. \A q \in Proc : pc'[q] \in Killing \union {"writing"} => pc'[q] = pc[q]
    BY <1>15 DEF StopPolling, Going
  <2>3. QED
    BY <2>1, <2>2
<1>16. ASSUME NEW p \in Proc, RunReturns(p) PROVE Exclusive'
  <2>1. Polling' \subseteq Polling /\ UNCHANGED <<file, raced, victim>>
    BY <1>16 DEF RunReturns, Going
  <2>2. \A q \in Proc : pc'[q] \in Killing \union {"writing"} => pc'[q] = pc[q]
    BY <1>16 DEF RunReturns, Going
  <2>3. QED
    BY <2>1, <2>2
<1>17. ASSUME NEW p \in Proc, RunFails(p) PROVE Exclusive'
  <2>1. Polling' \subseteq Polling /\ UNCHANGED <<file, raced, victim>>
    BY <1>17 DEF RunFails, Going
  <2>2. \A q \in Proc : pc'[q] \in Killing \union {"writing"} => pc'[q] = pc[q]
    BY <1>17 DEF RunFails, Going
  <2>3. QED
    BY <2>1, <2>2
<1>18. ASSUME NEW p \in Proc, Crash(p) PROVE Exclusive'
  <2>1. Polling' \subseteq Polling /\ UNCHANGED <<file, raced, victim>>
    BY <1>18 DEF Crash, Going
  <2>2. \A q \in Proc : pc'[q] \in Killing \union {"writing"} => pc'[q] = pc[q]
    BY <1>18 DEF Crash, Going
  <2>3. QED
    BY <2>1, <2>2
<1>19. ASSUME NEW c \in Ctl, StopCommand(c) PROVE Exclusive'
  <2>1. Polling' \subseteq Polling /\ UNCHANGED <<file, raced, victim>>
    BY <1>19 DEF StopCommand, Going, Active
  <2>2. \A q \in Proc : pc'[q] \in Killing \union {"writing"} => pc'[q] = pc[q]
    BY <1>19 DEF StopCommand, Going, Active
  <2>3. QED
    BY <2>1, <2>2
<1>20. ASSUME NEW c \in Ctl, CycleCommand(c) PROVE Exclusive'
  <2>1. Polling' \subseteq Polling /\ UNCHANGED <<file, raced, victim>>
    BY <1>20 DEF CycleCommand, Going
  <2>2. \A q \in Proc : pc'[q] \in Killing \union {"writing"} => pc'[q] = pc[q]
    BY <1>20 DEF CycleCommand, Going
  <2>3. QED
    BY <2>1, <2>2
<1>21. ASSUME NEW c \in Ctl, NEW from \in {"service", "cycling"}, NEW to \in {"reading", "restart"},
             StopService(c, from, to)
      PROVE  Exclusive'
  <2>1. CASE Active /\ pc' = [pc EXCEPT ![c] = to, ![unit] = "gone"]
             /\ file' \in {file} \union (IF Releases(unit) THEN {Nobody} ELSE {})
             /\ UNCHANGED <<raced, victim>>
    <3>1. unit \in Proc /\ unit # c
      BY <2>1 DEF Active
    <3>2. Polling' = Polling \ {unit}
      BY <2>1, <3>1
    <3>3. file' = file \/ (file = unit /\ file' = Nobody)
      BY <2>1 DEF Releases
    <3>4. \A q \in Proc : pc'[q] \in Killing \union {"writing"} => pc'[q] = pc[q]
      BY <2>1, <3>1
    <3>5. QED
      BY <2>1, <3>2, <3>3, <3>4
  <2>2. CASE pc' = [pc EXCEPT ![c] = to] /\ UNCHANGED <<file, raced, victim>>
    <3>1. Polling' = Polling
      BY <2>2
    <3>2. QED
      BY <2>2, <3>1
  <2>3. QED
    BY <1>21, <2>1, <2>2 DEF StopService, Going
<1>22. ASSUME NEW c \in Ctl, Unlink(c) PROVE Exclusive'
  <2>1. file' = Nobody /\ raced' = (raced \/ (file # Nobody /\ Alive(file))) /\ UNCHANGED victim
        /\ \A q \in Proc : pc'[q] = pc[q]
    BY <1>22 DEF Unlink, Going
  <2>2. Polling' = Polling
    BY <2>1
  <2>3. ASSUME ~raced' PROVE Polling = {}
    <3>1. ~raced /\ (file = Nobody \/ pc[file] \in {"off", "gone"})
      BY <2>1, <2>3 DEF Alive
    <3>2. \A q \in Polling : file = q
      BY <3>1
    <3>3. QED
      BY <3>1, <3>2
  <2>4. QED
    BY <2>1, <2>2, <2>3
<1>23. ASSUME NEW c \in Ctl, StartAgain(c) PROVE Exclusive'
  <2>1. Polling' \subseteq Polling /\ UNCHANGED <<file, raced, victim>>
    BY <1>23 DEF StartAgain, Going
  <2>2. \A q \in Proc : pc'[q] \in Killing \union {"writing"} => pc'[q] = pc[q]
    BY <1>23 DEF StartAgain, Going
  <2>3. QED
    BY <2>1, <2>2
<1>24. CASE UnitEnds
  <2>1. Polling' \subseteq Polling /\ UNCHANGED <<file, raced, victim>>
    BY <1>24 DEF UnitEnds, Going
  <2>2. \A q \in Proc : pc'[q] \in Killing \union {"writing"} => pc'[q] = pc[q]
    BY <1>24 DEF UnitEnds, Going
  <2>3. QED
    BY <2>1, <2>2
<1>25. CASE Reuse
  <2>1. Polling' \subseteq Polling /\ UNCHANGED <<file, raced, victim>>
    BY <1>25 DEF Reuse
  <2>2. \A q \in Proc : pc'[q] \in Killing \union {"writing"} => pc'[q] = pc[q]
    BY <1>25 DEF Reuse
  <2>3. QED
    BY <2>1, <2>2
<1>26. CASE UNCHANGED vars
  BY <1>26 DEF vars
<1>27. QED
  <2> HIDE DEF States, Named, Exclusive, Polling, Unshut, ProcState, CtlState, Starting, Killing, Actor, exitVars, childVars
  <2>1. ASSUME NEW p \in Proc,
               \/ Start(p) \/ StartUnit(p) \/ WriteFile(p) \/ Run(p) \/ Shutdown(p)
               \/ Release(p) \/ Spawn(p) \/ ProviderEnds(p) \/ AskRestart(p)
               \/ StopPolling(p) \/ RunReturns(p) \/ RunFails(p) \/ Crash(p)
        PROVE  Exclusive'
    BY <2>1, <1>1, <1>2, <1>8, <1>9, <1>10, <1>11, <1>12, <1>13, <1>14, <1>15, <1>16,
       <1>17, <1>18
  <2>2. ASSUME NEW a \in Actor, NEW s, After(a, s),
               \/ List(a) \/ Terminate(a) \/ ForceKill(a) \/ KillEnds(a, s)
               \/ pc[a] \in {"checking", "reading"} /\ ReadFile(a, s)
        PROVE  Exclusive'
    BY <2>2, <1>3, <1>4, <1>5, <1>6, <1>7
  <2>3. ASSUME NEW c \in Ctl, NEW from \in {"service", "cycling"}, NEW to \in {"reading", "restart"},
               \/ StopCommand(c) \/ CycleCommand(c) \/ Unlink(c) \/ StartAgain(c)
               \/ StopService(c, from, to)
        PROVE  Exclusive'
    BY <2>3, <1>19, <1>20, <1>21, <1>22, <1>23
  <2>4. QED
    BY <2>1, <2>2, <2>3, <1>24, <1>25, <1>26, NextSteps

(* A provider is known to whoever has to end it.                             *)
LEMMA ProvidersStep ==
  ASSUME States, Named, Providers, [Next]_vars
  PROVE  Providers'
<1> USE ConstantsAssumption DEF States, Named, Providers, ProvidersOf, Unshut, ProcState, CtlState, Starting, Killing, Actor, exitVars, childVars
<1>1. ASSUME NEW p \in Proc, Start(p) PROVE Providers'
  BY <1>1 DEF Start, Going
<1>2. ASSUME NEW p \in Proc, StartUnit(p) PROVE Providers'
  BY <1>2 DEF StartUnit, Going
<1>3. ASSUME NEW a \in Actor, NEW s, After(a, s), pc[a] \in {"checking", "reading"}, ReadFile(a, s)
      PROVE  Providers'
  <2>1. UNCHANGED <<file, childVars, unit, exitVars, raced>>
    BY <1>3, ReadEffect
  <2>2. ASSUME file \in Proc, pc[file] \notin Starting \union {"gone"},
               pc' = [pc EXCEPT ![a] = "listing"],
               victim' = [victim EXCEPT ![a] = file], UNCHANGED strangers
        PROVE  Providers'
    <3>1. victim[a] = Nobody
      BY <1>3
    <3>2. ASSUME NEW q \in Proc PROVE ProvidersOf(q)'
      BY <1>3, <2>1, <2>2, <3>1
    <3>3. QED
      BY <3>2
  <2>3. ASSUME file = Nobody \/ (file \in Proc /\ pc[file] = "gone"),
               pc' = [pc EXCEPT ![a] = s],
               strangers' \subseteq strangers, UNCHANGED victim
        PROVE  Providers'
    <3>1. ASSUME NEW q \in Proc PROVE ProvidersOf(q)'
      BY <1>3, <2>1, <2>3 DEF After
    <3>2. QED
      BY <3>1
  <2>4. QED
    <3> HIDE DEF Actor, States, Named, Providers, ProvidersOf, ProcState, CtlState, Starting
    <3>1. QED
      BY <1>3, <2>2, <2>3, ReadEffect
<1>4. ASSUME NEW a \in Actor, List(a) PROVE Providers'
  <2>1. pc[a] = "listing" /\ victim[a] \in Proc /\ pc' = [pc EXCEPT ![a] = "signalling"]
        /\ (listed' = listed \/ listed' = [listed EXCEPT ![victim[a]] = listed[victim[a]] \union {a}])
        /\ UNCHANGED <<child, victim, unit, crashed, cut>>
    BY <1>4 DEF List, Going
  <2>2. ASSUME NEW q \in Proc PROVE ProvidersOf(q)'
    BY <2>1
  <2>3. QED
    BY <2>2
<1>5. ASSUME NEW a \in Actor, Terminate(a) PROVE Providers'
  <2>1. victim[a] \in Proc /\ victim[a] # a /\ pc[victim[a]] \notin Starting /\ pc[a] = "signalling"
    BY <1>5, TermEffect
  <2>2. PICK s : TermEffects(a, victim[a], s)
    BY <1>5, TermEffect
  <2>3. s \in {"stopping", "gone"} /\ pc' = [pc EXCEPT ![a] = "killing", ![victim[a]] = s]
        /\ (cut' = cut \/ cut' = cut \union {victim[a]})
        /\ (s = "gone" /\ pc[victim[a]] \in Unshut => victim[a] \in cut')
        /\ UNCHANGED <<victim, unit, crashed>>
    BY <2>2 DEF TermEffects
  <2>4. /\ \A p \in Proc : child'[p] = "none" \/ child'[p] = child[p]
        /\ \A p \in Proc : listed'[p] \subseteq listed[p]
    BY <2>1, <2>2, ReachEffect DEF TermEffects
  <2>5. ASSUME NEW q \in Proc, q # victim[a] PROVE ProvidersOf(q)'
    <3>1. pc'[q] = pc[q] \/ (pc[q] = "signalling" /\ pc'[q] = "killing")
      BY <2>1, <2>3, <2>5
    <3>2. QED
      BY <2>3, <2>4, <2>5, <3>1
  <2>6. ASSUME NEW q \in Proc, q = victim[a] PROVE ProvidersOf(q)'
    <3>1. pc'[q] = s
      BY <2>1, <2>3, <2>6
    <3>2. QED
      BY <2>1, <2>3, <2>4, <2>6, <3>1
  <2>7. ASSUME NEW q \in Proc PROVE ProvidersOf(q)'
    <3> HIDE DEF ProvidersOf
    <3>1. QED
      BY <2>5, <2>6
  <2>8. QED
    BY <2>7
<1>6. ASSUME NEW a \in Actor, NEW s, After(a, s), KillEnds(a, s) PROVE Providers'
  <2>1. pc' = [pc EXCEPT ![a] = s] /\ pc[a] = "killing" /\ victim[a] \in Proc
        /\ victim' = [victim EXCEPT ![a] = Nobody] /\ UNCHANGED <<unit, crashed, cut>>
    BY <1>6 DEF KillEnds, Going
  <2>2. KillListed(a)
    BY <1>6 DEF KillEnds
  <2>3. ASSUME NEW q \in Proc PROVE ProvidersOf(q)'
    <3>1. pc'[q] = pc[q] \/ (q = a /\ pc'[q] = "writing")
      BY <1>6, <2>1 DEF After
    <3>2. (child'[q] = "none" /\ listed'[q] = {}) \/ (child'[q] = child[q] /\ listed'[q] = listed[q] /\ ~(victim[a] = q /\ a \in listed[q]))
      BY <2>1, <2>2 DEF KillListed, Gone
    <3>3. \A b \in listed'[q] : victim'[b] = q
      BY <2>1, <3>2
    <3>4. QED
      BY <2>1, <3>1, <3>2, <3>3
  <2>4. QED
    BY <2>3
<1>7. ASSUME NEW a \in Actor, ForceKill(a) PROVE Providers'
  <2>1. victim[a] \in Proc /\ pc[victim[a]] \notin Starting /\ pc' = [pc EXCEPT ![victim[a]] = "gone"]
        /\ (cut' = cut \/ cut' = cut \union {victim[a]})
        /\ (pc[victim[a]] \in Unshut => victim[a] \in cut')
        /\ UNCHANGED <<victim, unit, crashed>> /\ Reached(victim[a])
    BY <1>7, ForceEffect
  <2>2. /\ \A p \in Proc : child'[p] = "none" \/ child'[p] = child[p]
        /\ \A p \in Proc : listed'[p] \subseteq listed[p]
    BY <2>1, ReachEffect
  <2>3. ASSUME NEW q \in Proc PROVE ProvidersOf(q)'
    BY <2>1, <2>2
  <2>4. QED
    BY <2>3
<1>8. ASSUME NEW p \in Proc, WriteFile(p) PROVE Providers'
  BY <1>8 DEF WriteFile, Going
<1>9. ASSUME NEW p \in Proc, Run(p) PROVE Providers'
  BY <1>9 DEF Run, Going
<1>10. ASSUME NEW p \in Proc, Shutdown(p) PROVE Providers'
  BY <1>10 DEF Shutdown, Going, KillAll, Gone
<1>11. ASSUME NEW p \in Proc, Release(p) PROVE Providers'
  BY <1>11 DEF Release, Going, Releases
<1>12. ASSUME NEW p \in Proc, Spawn(p) PROVE Providers'
  BY <1>12 DEF Spawn
<1>13. ASSUME NEW p \in Proc, ProviderEnds(p) PROVE Providers'
  BY <1>13 DEF ProviderEnds, Gone
<1>14. ASSUME NEW p \in Proc, AskRestart(p) PROVE Providers'
  BY <1>14 DEF AskRestart
<1>15. ASSUME NEW p \in Proc, StopPolling(p) PROVE Providers'
  BY <1>15 DEF StopPolling, Going
<1>16. ASSUME NEW p \in Proc, RunReturns(p) PROVE Providers'
  BY <1>16 DEF RunReturns, Going, ExitCode
<1>17. ASSUME NEW p \in Proc, RunFails(p) PROVE Providers'
  BY <1>17 DEF RunFails, Going
<1>18. ASSUME NEW p \in Proc, Crash(p) PROVE Providers'
  BY <1>18 DEF Crash, Going
<1>19. ASSUME NEW c \in Ctl, StopCommand(c) PROVE Providers'
  BY <1>19 DEF StopCommand, Going, Active
<1>20. ASSUME NEW c \in Ctl, CycleCommand(c) PROVE Providers'
  BY <1>20 DEF CycleCommand, Going
<1>21. ASSUME NEW c \in Ctl, NEW from \in {"service", "cycling"}, NEW to \in {"reading", "restart"},
             StopService(c, from, to)
      PROVE  Providers'
  <2>1. CASE Active /\ pc' = [pc EXCEPT ![c] = to, ![unit] = "gone"]
             /\ Gone(unit) /\ unit' = Nobody /\ UNCHANGED <<victim, crashed, cut>>
    <3>1. unit \in Proc /\ unit # c
      BY <2>1 DEF Active
    <3>2. ASSUME NEW q \in Proc PROVE ProvidersOf(q)'
      <4>1. q # unit => pc'[q] = pc[q] /\ child'[q] = child[q] /\ listed'[q] = listed[q]
        BY <2>1, <3>1 DEF Gone
      <4>2. child'[unit] = "none" /\ listed'[unit] = {}
        BY <2>1, <3>1 DEF Gone
      <4>3. QED
        BY <2>1, <3>1, <4>1, <4>2
    <3>3. QED
      BY <3>2
  <2>2. CASE pc' = [pc EXCEPT ![c] = to] /\ UNCHANGED <<child, listed, unit, victim, crashed, cut>>
    BY <2>2
  <2>3. QED
    BY <1>21, <2>1, <2>2 DEF StopService, Going
<1>22. ASSUME NEW c \in Ctl, Unlink(c) PROVE Providers'
  BY <1>22 DEF Unlink, Going
<1>23. ASSUME NEW c \in Ctl, StartAgain(c) PROVE Providers'
  BY <1>23 DEF StartAgain, Going
<1>24. CASE UnitEnds
  BY <1>24 DEF UnitEnds, Going, Gone
<1>25. CASE Reuse
  BY <1>25 DEF Reuse
<1>26. CASE UNCHANGED vars
  BY <1>26 DEF vars
<1>27. QED
  <2> HIDE DEF States, Named, Providers, ProvidersOf, Unshut, ProcState, CtlState, Starting, Killing, Actor, exitVars, childVars
  <2>1. ASSUME NEW p \in Proc,
               \/ Start(p) \/ StartUnit(p) \/ WriteFile(p) \/ Run(p) \/ Shutdown(p)
               \/ Release(p) \/ Spawn(p) \/ ProviderEnds(p) \/ AskRestart(p)
               \/ StopPolling(p) \/ RunReturns(p) \/ RunFails(p) \/ Crash(p)
        PROVE  Providers'
    BY <2>1, <1>1, <1>2, <1>8, <1>9, <1>10, <1>11, <1>12, <1>13, <1>14, <1>15, <1>16,
       <1>17, <1>18
  <2>2. ASSUME NEW a \in Actor, NEW s, After(a, s),
               \/ List(a) \/ Terminate(a) \/ ForceKill(a) \/ KillEnds(a, s)
               \/ pc[a] \in {"checking", "reading"} /\ ReadFile(a, s)
        PROVE  Providers'
    BY <2>2, <1>3, <1>4, <1>5, <1>6, <1>7
  <2>3. ASSUME NEW c \in Ctl, NEW from \in {"service", "cycling"}, NEW to \in {"reading", "restart"},
               \/ StopCommand(c) \/ CycleCommand(c) \/ Unlink(c) \/ StartAgain(c)
               \/ StopService(c, from, to)
        PROVE  Providers'
    BY <2>3, <1>19, <1>20, <1>21, <1>22, <1>23
  <2>4. QED
    BY <2>1, <2>2, <2>3, <1>24, <1>25, <1>26, NextSteps

-----------------------------------------------------------------------------
(* The invariant holds in every reachable state.                             *)
THEOREM Invariance == Spec => []IInv
<1>1. IInv /\ [Next]_vars => IInv'
  BY StatesStep, NamedStep, ExclusiveStep, ProvidersStep DEF IInv
<1>2. QED
  BY InitIInv, <1>1, PTL DEF Spec

(* Type correctness, and the file names a process that got through its       *)
(* start.                                                                    *)
THEOREM TypeCorrect == Spec => []TypeOK
<1>1. IInv => TypeOK
  BY DEF IInv, TypeOK, States, Named, ProcState, CtlState, Starting
<1>2. QED
  BY Invariance, <1>1, PTL

(* Without a race the file names the gateway that runs.                      *)
THEOREM FileIsTrue == Spec => []FileNamesGateway
<1>1. IInv => FileNamesGateway
  BY DEF IInv, Exclusive, FileNamesGateway
<1>2. QED
  BY Invariance, <1>1, PTL

(* Only a race leads to two gateways.                                        *)
THEOREM MutualExclusion == Spec => []TwoOnlyByRace
<1>1. ASSUME IInv, ~raced PROVE ~(Cardinality(Polling) > 1)
  <2>1. Polling \subseteq {file}
    BY <1>1 DEF IInv, Exclusive
  <2>2. Polling = {} \/ Polling = {file}
    BY <2>1
  <2>3. Cardinality(Polling) \in {0, 1}
    BY <2>2, FS_EmptySet, FS_Singleton
  <2>4. QED
    BY <2>3
<1>2. IInv => TwoOnlyByRace
  BY <1>1 DEF TwoOnlyByRace
<1>3. QED
  BY Invariance, <1>2, PTL

(* A gateway leaves no provider it had before its shutdown, unless a signal  *)
(* cut that off and no listing had shown the provider.                       *)
THEOREM OnlyUnseenProvidersStay == Spec => []StopReachesProviders
<1>1. IInv => StopReachesProviders
  BY DEF IInv, Providers, ProvidersOf, StopReachesProviders
<1>2. QED
  BY Invariance, <1>1, PTL

(* Without a race at most one gateway polls, and the file names it.          *)
THEOREM LockCorrect == Spec => []LockHolds
  BY TypeCorrect, MutualExclusion, FileIsTrue, PTL DEF LockHolds

-----------------------------------------------------------------------------
(* Installation for any number of commands and roots: the same service, seen *)
(* by the commands that install it and by the files it reads.                *)

Place == Dialogue \union {"new", "loading", "running", "stopping", "exited", "ended", "died"}
Unsaved == {"new", "asking", "saving"}

Commands ==
    /\ at \in [Command -> Place]
    /\ kind \in [Command -> {"none", "run", "onboarding", "stop", "restart"}]
    /\ told \in [Command -> {"nothing", "failed", "installed"}]
    /\ \A c \in Command : at[c] # "new" => home[c] \in Home

(* One dialogue is held at a time; a run holds one only while its root has   *)
(* no settings of another.                                                   *)
OneDialogue ==
    /\ \A c, d \in Command : at[c] \in Dialogue /\ at[d] \in Dialogue => c = d
    /\ \A c \in Command : at[c] \in {"asking", "saving"} =>
          kind[c] = "onboarding" \/ config[home[c]] \notin Command

(* Settings lie in the root of the command that saved them, and stay there   *)
(* until its dialogue is over, unless someone edits them.                    *)
OwnSettings ==
    /\ \A h \in Home : config[h] \in Command =>
          home[config[h]] = h /\ at[config[h]] \notin Unsaved
    /\ \A c \in Command : at[c] \in Dialogue \ Unsaved =>
          config[home[c]] \in {c, Broken, Edited}

(* What an install wrote and loaded is what it finds when it comes to start  *)
(* the service; a service that is not off was loaded.                        *)
OwnUnit ==
    /\ \A c \in Command :
          /\ at[c] \in {"reloading", "enabling", "starting"} => unitFile = home[c]
          /\ at[c] \in {"enabling", "starting"} => loaded = home[c]
    /\ service.state # "off" => loaded # None

(* While the settings and the unit are those of an install that found the    *)
(* service stopped, systemd has its root loaded, and a service that is not   *)
(* off, whether it runs or is about to, is of that root.                     *)
Settled(c) ==
    /\ loaded = home[c]
    /\ service.state # "off" => service.home = home[c]
    /\ service.state = "running" => service.config = c

Begun ==
    \A c \in begun :
        /\ at[c] = "exited"
        /\ config[home[c]] = c /\ unitFile = home[c] => Settled(c)

SetupIInv ==
    /\ SetupTypeOK /\ Commands
    /\ OneDialogue /\ OwnSettings /\ OwnUnit
    /\ SecretsSettle /\ Begun

LEMMA InitSetupIInv == SetupInit => SetupIInv
<1> SUFFICES ASSUME SetupInit PROVE SetupIInv
  OBVIOUS
<1> USE SettingsAssumption DEF SetupInit, Setting, Dialogue
<1>1. SetupTypeOK
  BY DEF SetupTypeOK
<1>2. Commands /\ OneDialogue /\ OwnSettings
  BY DEF Commands, Place, OneDialogue, OwnSettings, Unsaved
<1>3. OwnUnit /\ SecretsSettle /\ Begun
  BY DEF OwnUnit, Off, SecretsSettle, Begun
<1>4. QED
  BY <1>1, <1>2, <1>3 DEF SetupIInv

(* Every variable keeps its type.                                           *)
LEMMA SetupTypes ==
  ASSUME SetupTypeOK, Commands, OwnUnit, [SetupNext]_setupVars
  PROVE  SetupTypeOK' /\ Commands'
<1> USE SettingsAssumption
<1> USE DEF SetupTypeOK, Commands, Place, OwnUnit, Setting, Dialogue, Goto, files,
            systemd, dialogue
<1>1. ASSUME NEW c \in Command, NEW h \in Home, NEW k \in {"run", "onboarding", "stop", "restart"},
             Invoke(c, k, h)
      PROVE  SetupTypeOK' /\ Commands'
  BY <1>1 DEF Invoke, Configured
<1>2. ASSUME NEW c \in Command, \/ Refuse(c) \/ LeaveGateway(c) \/ Decline(c) \/ NoService(c)
                               \/ Install(c) \/ InstallFails(c) \/ Interrupt(c)
      PROVE  SetupTypeOK' /\ Commands'
  BY <1>2 DEF Refuse, LeaveGateway, Decline, NoService, Install, InstallFails, Interrupt
<1>3. ASSUME NEW c \in Command, RunGateway(c) PROVE SetupTypeOK' /\ Commands'
  BY <1>3 DEF RunGateway, Foreground, EndService, Configured, Off
<1>4. ASSUME NEW c \in Command, Answer(c) PROVE SetupTypeOK' /\ Commands'
  BY <1>4 DEF Answer
<1>5. ASSUME NEW c \in Command, SaveConfig(c) PROVE SetupTypeOK' /\ Commands'
  BY <1>5 DEF SaveConfig
<1>6. ASSUME NEW c \in Command, SaveKey(c) PROVE SetupTypeOK' /\ Commands'
  BY <1>6 DEF SaveKey, WithKey
<1>7. ASSUME NEW c \in Command, WriteUnit(c) PROVE SetupTypeOK' /\ Commands'
  BY <1>7 DEF WriteUnit
<1>8. ASSUME NEW c \in Command, Reload(c) PROVE SetupTypeOK' /\ Commands'
  BY <1>8 DEF Reload, ReloadUnit
<1>9. ASSUME NEW c \in Command, Enable(c) PROVE SetupTypeOK' /\ Commands'
  BY <1>9 DEF Enable
<1>10. ASSUME NEW c \in Command, StartService(c) PROVE SetupTypeOK' /\ Commands'
  BY <1>10 DEF StartService, Started, StartingIn
<1>11. ASSUME NEW c \in Command, StopBot(c) PROVE SetupTypeOK' /\ Commands'
  BY <1>11 DEF StopBot, EndForeground, Foreground, EndService, Off
<1>12. ASSUME NEW c \in Command, RestartService(c) PROVE SetupTypeOK' /\ Commands'
  BY <1>12 DEF RestartService, StartingIn, Off
<1>13. ASSUME NEW c \in Command, ReExec(c) PROVE SetupTypeOK' /\ Commands'
  BY <1>13 DEF ReExec, EndForeground, Foreground
<1>14. CASE ServiceRuns
  BY <1>14 DEF ServiceRuns, Configured, Foreground, Off
<1>15. CASE ServiceFails
  BY <1>15 DEF ServiceFails, StartingIn, Off
<1>16. CASE Boot
  BY <1>16 DEF Boot, StartingIn, Off
<1>17. ASSUME NEW h \in Home, Edit(h) PROVE SetupTypeOK' /\ Commands'
  BY <1>17 DEF Edit
<1>18. CASE UNCHANGED setupVars
  BY <1>18 DEF setupVars
<1>19. QED
  <2> HIDE DEF SetupTypeOK, Commands, Place, OwnUnit, Setting, Dialogue
  <2>1. QED
    BY <1>1, <1>2, <1>3, <1>4, <1>5, <1>6, <1>7, <1>8, <1>9,
       <1>10, <1>11, <1>12, <1>13, <1>14, <1>15, <1>16, <1>17, <1>18 DEF SetupNext

(* One dialogue at a time, and the settings are those of who saved them.     *)
LEMMA SetupDialogue ==
  ASSUME SetupTypeOK, Commands, OneDialogue, OwnSettings, [SetupNext]_setupVars
  PROVE  OneDialogue' /\ OwnSettings'
<1> USE SettingsAssumption
<1> USE DEF SetupTypeOK, Commands, Place, Unsaved, OneDialogue, OwnSettings, Setting,
            Dialogue, Goto, files, systemd, dialogue
<1>1. ASSUME NEW c \in Command, NEW h \in Home, NEW k \in {"run", "onboarding", "stop", "restart"},
             Invoke(c, k, h)
      PROVE  OneDialogue' /\ OwnSettings'
  BY <1>1 DEF Invoke, Configured
<1>2. ASSUME NEW c \in Command, \/ Refuse(c) \/ LeaveGateway(c) \/ Decline(c) \/ NoService(c)
                               \/ Install(c) \/ InstallFails(c) \/ Interrupt(c)
      PROVE  OneDialogue' /\ OwnSettings'
  BY <1>2 DEF Refuse, LeaveGateway, Decline, NoService, Install, InstallFails, Interrupt
<1>3. ASSUME NEW c \in Command, RunGateway(c) PROVE OneDialogue' /\ OwnSettings'
  BY <1>3 DEF RunGateway, Foreground, EndService, Configured, Off
<1>4. ASSUME NEW c \in Command, Answer(c) PROVE OneDialogue' /\ OwnSettings'
  BY <1>4 DEF Answer
<1>5. ASSUME NEW c \in Command, SaveConfig(c) PROVE OneDialogue' /\ OwnSettings'
  BY <1>5 DEF SaveConfig
<1>6. ASSUME NEW c \in Command, SaveKey(c) PROVE OneDialogue' /\ OwnSettings'
  BY <1>6 DEF SaveKey, WithKey
<1>7. ASSUME NEW c \in Command, WriteUnit(c) PROVE OneDialogue' /\ OwnSettings'
  BY <1>7 DEF WriteUnit
<1>8. ASSUME NEW c \in Command, Reload(c) PROVE OneDialogue' /\ OwnSettings'
  BY <1>8 DEF Reload, ReloadUnit
<1>9. ASSUME NEW c \in Command, Enable(c) PROVE OneDialogue' /\ OwnSettings'
  BY <1>9 DEF Enable
<1>10. ASSUME NEW c \in Command, StartService(c) PROVE OneDialogue' /\ OwnSettings'
  BY <1>10 DEF StartService, Started, StartingIn
<1>11. ASSUME NEW c \in Command, StopBot(c) PROVE OneDialogue' /\ OwnSettings'
  BY <1>11 DEF StopBot, EndForeground, Foreground, EndService, Off
<1>12. ASSUME NEW c \in Command, RestartService(c) PROVE OneDialogue' /\ OwnSettings'
  BY <1>12 DEF RestartService, StartingIn, Off
<1>13. ASSUME NEW c \in Command, ReExec(c) PROVE OneDialogue' /\ OwnSettings'
  BY <1>13 DEF ReExec, EndForeground, Foreground
<1>14. CASE ServiceRuns
  BY <1>14 DEF ServiceRuns, Configured, Foreground, Off
<1>15. CASE ServiceFails
  BY <1>15 DEF ServiceFails, StartingIn, Off
<1>16. CASE Boot
  BY <1>16 DEF Boot, StartingIn, Off
<1>17. ASSUME NEW h \in Home, Edit(h) PROVE OneDialogue' /\ OwnSettings'
  BY <1>17 DEF Edit
<1>18. CASE UNCHANGED setupVars
  BY <1>18 DEF setupVars
<1>19. QED
  <2> HIDE DEF SetupTypeOK, Commands, Place, Unsaved, OneDialogue, OwnSettings, Setting,
            Dialogue
  <2>1. QED
    BY <1>1, <1>2, <1>3, <1>4, <1>5, <1>6, <1>7, <1>8, <1>9,
       <1>10, <1>11, <1>12, <1>13, <1>14, <1>15, <1>16, <1>17, <1>18 DEF SetupNext

(* No other command comes between an install and its unit: it is the only    *)
(* one in a dialogue, and a restart loads what is written.                   *)
LEMMA SetupUnit ==
  ASSUME SetupTypeOK, Commands, OneDialogue, OwnUnit, [SetupNext]_setupVars
  PROVE  OwnUnit'
<1> USE SettingsAssumption
<1> USE DEF SetupTypeOK, Commands, Place, OneDialogue, OwnUnit, Setting, Dialogue, Goto,
            files, systemd, dialogue
<1>1. ASSUME NEW c \in Command, NEW h \in Home, NEW k \in {"run", "onboarding", "stop", "restart"},
             Invoke(c, k, h)
      PROVE  OwnUnit'
  BY <1>1 DEF Invoke, Configured
<1>2. ASSUME NEW c \in Command, \/ Refuse(c) \/ LeaveGateway(c) \/ Decline(c) \/ NoService(c)
                               \/ Install(c) \/ InstallFails(c) \/ Interrupt(c)
      PROVE  OwnUnit'
  BY <1>2 DEF Refuse, LeaveGateway, Decline, NoService, Install, InstallFails, Interrupt
<1>3. ASSUME NEW c \in Command, RunGateway(c) PROVE OwnUnit'
  BY <1>3 DEF RunGateway, Foreground, EndService, Configured, Off
<1>4. ASSUME NEW c \in Command, Answer(c) PROVE OwnUnit'
  BY <1>4 DEF Answer
<1>5. ASSUME NEW c \in Command, SaveConfig(c) PROVE OwnUnit'
  BY <1>5 DEF SaveConfig
<1>6. ASSUME NEW c \in Command, SaveKey(c) PROVE OwnUnit'
  BY <1>6 DEF SaveKey, WithKey
<1>7. ASSUME NEW c \in Command, WriteUnit(c) PROVE OwnUnit'
  BY <1>7 DEF WriteUnit
<1>8. ASSUME NEW c \in Command, Reload(c) PROVE OwnUnit'
  BY <1>8 DEF Reload, ReloadUnit
<1>9. ASSUME NEW c \in Command, Enable(c) PROVE OwnUnit'
  BY <1>9 DEF Enable
<1>10. ASSUME NEW c \in Command, StartService(c) PROVE OwnUnit'
  BY <1>10 DEF StartService, Started, StartingIn
<1>11. ASSUME NEW c \in Command, StopBot(c) PROVE OwnUnit'
  BY <1>11 DEF StopBot, EndForeground, Foreground, EndService, Off
<1>12. ASSUME NEW c \in Command, RestartService(c) PROVE OwnUnit'
  BY <1>12 DEF RestartService, StartingIn, Off
<1>13. ASSUME NEW c \in Command, ReExec(c) PROVE OwnUnit'
  BY <1>13 DEF ReExec, EndForeground, Foreground
<1>14. CASE ServiceRuns
  BY <1>14 DEF ServiceRuns, Configured, Foreground, Off
<1>15. CASE ServiceFails
  BY <1>15 DEF ServiceFails, StartingIn, Off
<1>16. CASE Boot
  BY <1>16 DEF Boot, StartingIn, Off
<1>17. ASSUME NEW h \in Home, Edit(h) PROVE OwnUnit'
  BY <1>17 DEF Edit
<1>18. CASE UNCHANGED setupVars
  BY <1>18 DEF setupVars
<1>19. QED
  <2> HIDE DEF SetupTypeOK, Commands, Place, OneDialogue, OwnUnit, Setting, Dialogue
  <2>1. QED
    BY <1>1, <1>2, <1>3, <1>4, <1>5, <1>6, <1>7, <1>8, <1>9,
       <1>10, <1>11, <1>12, <1>13, <1>14, <1>15, <1>16, <1>17, <1>18 DEF SetupNext

(* The key is saved before its dialogue goes on, and no other dialogue of    *)
(* the root has settings meanwhile.                                          *)
LEMMA SetupSecrets ==
  ASSUME SetupTypeOK, Commands, OneDialogue, OwnSettings, SecretsSettle, [SetupNext]_setupVars
  PROVE  SecretsSettle'
<1> USE SettingsAssumption
<1> USE DEF SetupTypeOK, Commands, Place, Unsaved, OneDialogue, OwnSettings,
            SecretsSettle, Setting, Dialogue, Goto, files, systemd, dialogue
<1>1. ASSUME NEW c \in Command, NEW h \in Home, NEW k \in {"run", "onboarding", "stop", "restart"},
             Invoke(c, k, h)
      PROVE  SecretsSettle'
  BY <1>1 DEF Invoke, Configured
<1>2. ASSUME NEW c \in Command, \/ Refuse(c) \/ LeaveGateway(c) \/ Decline(c) \/ NoService(c)
                               \/ Install(c) \/ InstallFails(c) \/ Interrupt(c)
      PROVE  SecretsSettle'
  BY <1>2 DEF Refuse, LeaveGateway, Decline, NoService, Install, InstallFails, Interrupt
<1>3. ASSUME NEW c \in Command, RunGateway(c) PROVE SecretsSettle'
  BY <1>3 DEF RunGateway, Foreground, EndService, Configured, Off
<1>4. ASSUME NEW c \in Command, Answer(c) PROVE SecretsSettle'
  BY <1>4 DEF Answer
<1>5. ASSUME NEW c \in Command, SaveConfig(c) PROVE SecretsSettle'
  BY <1>5 DEF SaveConfig
<1>6. ASSUME NEW c \in Command, SaveKey(c) PROVE SecretsSettle'
  BY <1>6 DEF SaveKey, WithKey
<1>7. ASSUME NEW c \in Command, WriteUnit(c) PROVE SecretsSettle'
  BY <1>7 DEF WriteUnit
<1>8. ASSUME NEW c \in Command, Reload(c) PROVE SecretsSettle'
  BY <1>8 DEF Reload, ReloadUnit
<1>9. ASSUME NEW c \in Command, Enable(c) PROVE SecretsSettle'
  BY <1>9 DEF Enable
<1>10. ASSUME NEW c \in Command, StartService(c) PROVE SecretsSettle'
  BY <1>10 DEF StartService, Started, StartingIn
<1>11. ASSUME NEW c \in Command, StopBot(c) PROVE SecretsSettle'
  BY <1>11 DEF StopBot, EndForeground, Foreground, EndService, Off
<1>12. ASSUME NEW c \in Command, RestartService(c) PROVE SecretsSettle'
  BY <1>12 DEF RestartService, StartingIn, Off
<1>13. ASSUME NEW c \in Command, ReExec(c) PROVE SecretsSettle'
  BY <1>13 DEF ReExec, EndForeground, Foreground
<1>14. CASE ServiceRuns
  BY <1>14 DEF ServiceRuns, Configured, Foreground, Off
<1>15. CASE ServiceFails
  BY <1>15 DEF ServiceFails, StartingIn, Off
<1>16. CASE Boot
  BY <1>16 DEF Boot, StartingIn, Off
<1>17. ASSUME NEW h \in Home, Edit(h) PROVE SecretsSettle'
  BY <1>17 DEF Edit
<1>18. CASE UNCHANGED setupVars
  BY <1>18 DEF setupVars
<1>19. QED
  <2> HIDE DEF SetupTypeOK, Commands, Place, Unsaved, OneDialogue, OwnSettings,
            SecretsSettle, Setting, Dialogue
  <2>1. QED
    BY <1>1, <1>2, <1>3, <1>4, <1>5, <1>6, <1>7, <1>8, <1>9,
       <1>10, <1>11, <1>12, <1>13, <1>14, <1>15, <1>16, <1>17, <1>18 DEF SetupNext

(* The unit can change under the settings of an install only by another      *)
(* dialogue of its root, which has saved settings of its own by then.        *)
LEMMA SetupBegun ==
  ASSUME SetupTypeOK, Commands, OneDialogue, OwnSettings, OwnUnit, Begun, [SetupNext]_setupVars
  PROVE  Begun'
<1> USE SettingsAssumption
<1> USE DEF SetupTypeOK, Commands, Place, Unsaved, OneDialogue, OwnSettings, OwnUnit,
            Begun, Settled, Setting, Dialogue, Goto, files, systemd, dialogue
<1>1. ASSUME NEW c \in Command, NEW h \in Home, NEW k \in {"run", "onboarding", "stop", "restart"},
             Invoke(c, k, h)
      PROVE  Begun'
  BY <1>1 DEF Invoke, Configured
<1>2. ASSUME NEW c \in Command, \/ Refuse(c) \/ LeaveGateway(c) \/ Decline(c) \/ NoService(c)
                               \/ Install(c) \/ InstallFails(c) \/ Interrupt(c)
      PROVE  Begun'
  BY <1>2 DEF Refuse, LeaveGateway, Decline, NoService, Install, InstallFails, Interrupt
<1>3. ASSUME NEW c \in Command, RunGateway(c) PROVE Begun'
  BY <1>3 DEF RunGateway, Foreground, EndService, Configured, Off
<1>4. ASSUME NEW c \in Command, Answer(c) PROVE Begun'
  BY <1>4 DEF Answer
<1>5. ASSUME NEW c \in Command, SaveConfig(c) PROVE Begun'
  BY <1>5 DEF SaveConfig
<1>6. ASSUME NEW c \in Command, SaveKey(c) PROVE Begun'
  BY <1>6 DEF SaveKey, WithKey
<1>7. ASSUME NEW c \in Command, WriteUnit(c) PROVE Begun'
  BY <1>7 DEF WriteUnit
<1>8. ASSUME NEW c \in Command, Reload(c) PROVE Begun'
  BY <1>8 DEF Reload, ReloadUnit
<1>9. ASSUME NEW c \in Command, Enable(c) PROVE Begun'
  BY <1>9 DEF Enable
<1>10. ASSUME NEW c \in Command, StartService(c) PROVE Begun'
  BY <1>10 DEF StartService, Started, StartingIn
<1>11. ASSUME NEW c \in Command, StopBot(c) PROVE Begun'
  BY <1>11 DEF StopBot, EndForeground, Foreground, EndService, Off
<1>12. ASSUME NEW c \in Command, RestartService(c) PROVE Begun'
  BY <1>12 DEF RestartService, StartingIn, Off
<1>13. ASSUME NEW c \in Command, ReExec(c) PROVE Begun'
  BY <1>13 DEF ReExec, EndForeground, Foreground
<1>14. CASE ServiceRuns
  BY <1>14 DEF ServiceRuns, Configured, Foreground, Off
<1>15. CASE ServiceFails
  BY <1>15 DEF ServiceFails, StartingIn, Off
<1>16. CASE Boot
  BY <1>16 DEF Boot, StartingIn, Off
<1>17. ASSUME NEW h \in Home, Edit(h) PROVE Begun'
  BY <1>17 DEF Edit
<1>18. CASE UNCHANGED setupVars
  BY <1>18 DEF setupVars
<1>19. QED
  <2> HIDE DEF SetupTypeOK, Commands, Place, Unsaved, OneDialogue, OwnSettings, OwnUnit,
            Begun, Settled, Setting, Dialogue
  <2>1. QED
    BY <1>1, <1>2, <1>3, <1>4, <1>5, <1>6, <1>7, <1>8, <1>9,
       <1>10, <1>11, <1>12, <1>13, <1>14, <1>15, <1>16, <1>17, <1>18 DEF SetupNext

THEOREM SetupInvariant == SetupSpec => []SetupIInv
<1>1. ASSUME SetupIInv, [SetupNext]_setupVars PROVE SetupIInv'
  BY <1>1, SetupTypes, SetupDialogue, SetupUnit, SetupSecrets, SetupBegun DEF SetupIInv
<1>2. QED
  BY <1>1, InitSetupIInv, PTL DEF SetupSpec

(* An install that found the service stopped leaves it running what its      *)
(* dialogue settled, in its root, until another dialogue or an edit, for any *)
(* number of commands and roots and in any order of restarts, failures and   *)
(* reboots.                                                                  *)
THEOREM InstalledServiceRuns == SetupSpec => []ServiceAsInstalled
<1>1. SetupIInv => ServiceAsInstalled
  BY DEF SetupIInv, Begun, Settled, ServiceAsInstalled
<1>2. QED
  BY <1>1, SetupInvariant, PTL

(* config.json and .env of a root agree with one dialogue, unless it died    *)
(* between the two; the user's lines stay in a .env that could be read.      *)
THEOREM FilesAgree == SetupSpec => []FilesSettle
<1>1. SetupIInv => FilesSettle
  BY DEF SetupIInv, FilesSettle
<1>2. QED
  BY <1>1, SetupInvariant, PTL

(* Saved settings are replaced only by hand or by another `onboarding`: a    *)
(* run that holds a dialogue found none, and no other dialogue has saved any *)
(* since.                                                                    *)
THEOREM SettingsStay == SetupSpec => SettingsKept
<1> DEFINE Kept == \A h \in Home : config[h] \in Command /\ config'[h] \in Command \ {config[h]} =>
                      kind[config'[h]] = "onboarding"
<1>1. ASSUME SetupIInv, [SetupNext]_setupVars PROVE [Kept]_setupVars
  <2> USE SettingsAssumption DEF SetupIInv, SetupTypeOK, Setting
  <2>1. CASE UNCHANGED config
    BY <1>1, <2>1
  <2>2. ASSUME NEW c \in Command, SaveConfig(c) PROVE Kept
    <3>1. config' = [config EXCEPT ![home[c]] = c] /\ at[c] = "saving"
      BY <2>2 DEF SaveConfig
    <3>2. kind[c] = "onboarding" \/ config[home[c]] \notin Command
      BY <1>1, <3>1 DEF OneDialogue
    <3>3. QED
      BY <1>1, <3>1, <3>2
  <2>3. ASSUME NEW h \in Home, Edit(h) PROVE Kept
    BY <1>1, <2>3 DEF Edit
  <2>4. QED
    <3>1. CASE SetupNext
      <4>1. \/ UNCHANGED config
            \/ \E c \in Command : SaveConfig(c)
            \/ \E h \in Home : Edit(h)
        BY <3>1 DEF SetupNext, Invoke, Refuse, RunGateway, LeaveGateway, Decline, Answer, SaveKey,
           NoService, Install, InstallFails, WriteUnit, Reload, Enable, StartService, StopBot,
           RestartService, ReExec, Interrupt, ServiceRuns, ServiceFails, Boot, files
      <4>2. QED
        BY <4>1, <2>1, <2>2, <2>3
    <3>2. QED
      BY <1>1, <3>1
<1>2. QED
  BY <1>1, SetupInvariant, PTL DEF SetupSpec, SettingsKept
=============================================================================
