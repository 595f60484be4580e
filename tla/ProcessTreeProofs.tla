--------------------------- MODULE ProcessTreeProofs ---------------------------
(* ProcessTree for every set of processes, however deep their tree is.       *)
EXTENDS ProcessTree, TLAPS

(* Which caller is where, and who has read ps: the lead is in what it read.  *)
Course ==
    /\ mode = "stop" => pc \notin {"watch", "sweep"}
    /\ mode = "timeout" => pc \in {"kill", "killing", "done"}
    /\ pc = "watch" => mode = "lock"
    /\ before = {} <=> \/ mode = "stop" /\ pc = "term"
                       \/ mode = "timeout" /\ pc = "kill"
                       \/ mode = "lock" /\ pc = "watch"
    /\ before # {} => Lead \in before

(* The tree of another top is killed only when the lead is gone, and while   *)
(* its own tree is killed the lead is still to come or gone.                 *)
LeadLast ==
    /\ top = Lead \/ (Lead \notin alive /\ before # {})
    /\ pc = "killing" => Lead \in todo \/ Lead \notin alive
    /\ pc \in {"sweep", "done"} => Lead \notin alive
    /\ pc \in {"killing", "sweep", "done"} => before # {}

(* The caller is signalled by no list it makes.                              *)
Spared == Self \in alive \ told

(* A stop: who is left of the tree is still to be told, was told, or has     *)
(* outlived the grace.                                                       *)
StopReaches ==
    mode = "stop" =>
        /\ pc = "terminating" => before \intersect alive \subseteq todo \union told \union {Self}
        /\ pc = "grace" => before \intersect alive \subseteq told \union {Self}
        /\ pc \in {"kill", "killing", "done"} =>
             before \intersect alive \subseteq stubborn \union {Self}

TimeoutReaches ==
    mode = "timeout" =>
        /\ pc = "killing" => before \intersect alive \subseteq todo \union {Self}
        /\ pc = "done" => before \intersect alive \subseteq {Self}

(* The PID lock remembers the whole tree, and has swept all of it at the end. *)
LockReaches ==
    mode = "lock" /\ pc # "watch" =>
        /\ before \subseteq watched \union {Lead, Self}
        /\ pc = "done" => before \intersect alive \subseteq {Self}

Reaches == blind \/ (StopReaches /\ TimeoutReaches /\ LockReaches)

IInv == TypeOK /\ Course /\ LeadLast /\ Spared /\ Reaches

-----------------------------------------------------------------------------
(* The tree.                                                                 *)

(* What descends from a process is alive.                                    *)
LEMMA DescendantsAlive == \A p : Descendants(p) \subseteq alive
  BY DEF Descendants

(* A set that is closed from p has all the descendants of p.                 *)
LEMMA ClosedHasAll ==
  ASSUME NEW p, NEW C \in SUBSET alive, Closed(C, p)
  PROVE  Descendants(p) \subseteq C
  BY DEF Descendants

(* The descendants of a process are closed from it.                          *)
LEMMA DescendantsClosed ==
  ASSUME NEW p
  PROVE  Closed(Descendants(p), p)
<1> SUFFICES ASSUME NEW q \in alive, parent[q] \in Descendants(p) \union {p},
                    NEW C \in SUBSET alive, Closed(C, p)
             PROVE  q \in C
  BY DEF Closed, Descendants
<1>1. parent[q] \in C \union {p}
  BY DEF Descendants
<1>2. QED
  BY <1>1 DEF Closed

(* The caller's tree as a table: its type, and no cycle in it.               *)
TableOK == /\ alive \subseteq Process
           /\ parent \in [Process -> alive \union {Nobody}]
           /\ Acyclic

(* The end of a process leaves a table without cycles.                       *)
LEMMA DeathKeepsTable ==
  ASSUME TableOK, NEW p \in alive, Die(p)
  PROVE  TableOK'
<1> USE ConstantsAssumption
<1>1. alive' = alive \ {p}
  BY DEF Die
<1>2. parent' = [q \in Process |-> IF q = p \/ parent[q] = p THEN Nobody ELSE parent[q]]
  BY DEF Die
<1>3. parent' \in [Process -> alive' \union {Nobody}]
  BY <1>1, <1>2 DEF TableOK
<1>4. ASSUME NEW r \in alive' PROVE r \notin Descendants(r)'
  <2>0. PICK C : C = Descendants(r) \ {p}
    OBVIOUS
  <2>1. r \notin C /\ C \in SUBSET alive'
    BY <1>1, <1>4, <2>0, DescendantsAlive DEF TableOK, Acyclic
  <2>2. Closed(C, r)'
    <3> SUFFICES ASSUME NEW q \in alive', parent'[q] \in C \union {r} PROVE q \in C
      BY DEF Closed
    <3>1. q \in alive /\ q # p /\ q \in Process
      BY <1>1 DEF TableOK
    <3>2. parent'[q] \in alive
      BY <1>1, <2>1
    <3>3. parent'[q] = parent[q]
      BY <1>2, <3>1, <3>2 DEF TableOK
    <3>4. q \in Descendants(r)
      BY <2>0, <3>1, <3>3, DescendantsClosed DEF Closed
    <3>5. QED
      BY <2>0, <3>1, <3>4
  <2>3. Descendants(r)' \subseteq C
    BY <2>1, <2>2 DEF Descendants
  <2>4. QED
    BY <2>1, <2>3
<1>5. QED
  BY <1>1, <1>3, <1>4 DEF TableOK, Acyclic

(* So does the birth of one.                                                 *)
LEMMA ForkKeepsTable ==
  ASSUME TableOK, NEW p \in Process, NEW q \in Process, Fork(p, q)
  PROVE  TableOK'
<1> USE ConstantsAssumption
<1>1. /\ p \in alive /\ q \notin alive
      /\ alive' = alive \union {q} /\ parent' = [parent EXCEPT ![q] = p]
  BY DEF Fork
<1>2. parent' \in [Process -> alive' \union {Nobody}]
  BY <1>1 DEF TableOK
<1>3. \A r \in alive : r # q /\ parent'[r] = parent[r] /\ parent[r] # q
  BY <1>1 DEF TableOK
<1>4. ASSUME NEW r \in alive' PROVE r \notin Descendants(r)'
  <2>1. CASE r = q
    <3>0. parent'[q] = p
      BY <1>1 DEF TableOK
    <3>1. Closed({}, q)'
      BY <1>1, <1>3, <3>0 DEF Closed
    <3>2. QED
      BY <2>1, <3>1 DEF Descendants
  <2>2. CASE r # q
    <3>0. PICK C : C = Descendants(r) \union {q}
      OBVIOUS
    <3>1. r \in alive
      BY <1>1, <2>2
    <3>2. r \notin C /\ C \in SUBSET alive'
      BY <1>1, <2>2, <3>0, <3>1, DescendantsAlive DEF TableOK, Acyclic
    <3>3. Closed(C, r)'
      <4> SUFFICES ASSUME NEW s \in alive', parent'[s] \in C \union {r}, s # q PROVE s \in C
        BY <3>0 DEF Closed
      <4>1. s \in alive /\ parent[s] \in Descendants(r) \union {r}
        BY <1>1, <1>3, <3>0
      <4>2. QED
        BY <3>0, <4>1, DescendantsClosed DEF Closed
    <3>4. Descendants(r)' \subseteq C
      BY <3>2, <3>3 DEF Descendants
    <3>5. QED
      BY <3>2, <3>4
  <2>3. QED
    BY <2>1, <2>2
<1>5. QED
  BY <1>1, <1>2, <1>4 DEF TableOK, Acyclic
-----------------------------------------------------------------------------
(* The initial states.                                                       *)
LEMMA InitIInv == Init => IInv
<1> SUFFICES ASSUME Init PROVE IInv
  OBVIOUS
<1> USE ConstantsAssumption
<1>1. alive \subseteq Process /\ Lead \in alive /\ Self \in alive
  BY DEF Init
<1>2. PICK above \in [alive \ {Lead} -> (alive \ {Self}) \union {Nobody}] :
        parent = [p \in Process |-> IF p \in alive \ {Lead} THEN above[p] ELSE Nobody]
  BY DEF Init
<1>3. parent \in [Process -> alive \union {Nobody}]
  BY <1>2
<1>4. \/ mode = "stop" /\ pc = "term"
      \/ mode = "timeout" /\ pc = "kill"
      \/ mode = "lock" /\ pc = "watch"
  BY DEF Init
<1>5. TypeOK
  BY <1>1, <1>3, <1>4 DEF Init, TypeOK
<1>6. Course
  BY <1>4 DEF Init, Course
<1>7. LeadLast /\ Spared
  BY <1>1, <1>4 DEF Init, LeadLast, Spared
<1>8. Reaches
  BY <1>4 DEF Init, Reaches, StopReaches, TimeoutReaches, LockReaches
<1>9. QED
  BY <1>5, <1>6, <1>7, <1>8 DEF IInv

-----------------------------------------------------------------------------
(* The processes.                                                            *)

(* While the caller stands still, an end of a process other than the caller  *)
(* disturbs nothing.                                                         *)
LEMMA DeathStep ==
  ASSUME IInv, NEW p \in alive \ {Self}, Die(p), UNCHANGED <<stubborn, told, caller, before>>
  PROVE  IInv'
<1> USE ConstantsAssumption DEF caller
<1>1. TableOK'
  BY DeathKeepsTable DEF IInv, TypeOK, TableOK
<1>2. alive' = alive \ {p}
  BY DEF Die
<1>3. TypeOK'
  BY <1>1 DEF IInv, TypeOK, TableOK
<1>4. Course' /\ LeadLast' /\ Spared'
  BY <1>2 DEF IInv, Course, LeadLast, Spared
<1>5. Reaches'
  BY <1>2 DEF IInv, Reaches, StopReaches, TimeoutReaches, LockReaches
<1>6. QED
  BY <1>3, <1>4, <1>5 DEF IInv

(* A process that is forked is none of those the caller has read of.         *)
LEMMA ForkStep ==
  ASSUME IInv, NEW p \in Process, NEW q \in Process, Fork(p, q)
  PROVE  IInv'
<1> USE ConstantsAssumption DEF caller
<1>1. TableOK'
  BY ForkKeepsTable DEF IInv, TypeOK, TableOK
<1>2. /\ alive' = alive \union {q} /\ q \notin alive /\ q \notin before
      /\ told' = told \ {q}
      /\ stubborn' \in {stubborn \ {q}, stubborn \union {q}}
      /\ UNCHANGED <<mode, pc, top, todo, watched, blind, before>>
  BY DEF Fork
<1>3. TypeOK'
  BY <1>1, <1>2 DEF IInv, TypeOK, TableOK
<1>4. Course' /\ LeadLast' /\ Spared'
  BY <1>2 DEF IInv, Course, LeadLast, Spared
<1>5. Reaches'
  <2>1. before' \intersect alive' = before \intersect alive
    BY <1>2
  <2>2. before \intersect alive \intersect told \subseteq told'
    BY <1>2
  <2>3. before \intersect stubborn \subseteq stubborn'
    BY <1>2
  <2>4. QED
    BY <1>2, <2>1, <2>2, <2>3 DEF IInv, Reaches, StopReaches, TimeoutReaches, LockReaches
<1>6. QED
  BY <1>3, <1>4, <1>5 DEF IInv

-----------------------------------------------------------------------------
(* The caller.                                                               *)

(* What a reading of ps gives the caller.                                    *)
LEMMA Reading ==
  ASSUME TypeOK, Course, NEW p \in Process, NEW found, Listed(p, found)
  PROVE  /\ before' \subseteq Process /\ before' # {} /\ blind' \in BOOLEAN
         /\ before # {} => before' = before
         /\ before = {} => before' = {p} \union Descendants(p)
         /\ blind => blind'
         /\ ~blind' => found = Descendants(p)
  BY DescendantsAlive DEF Listed, TypeOK

LEMMA WatchStep == IInv /\ Watch => IInv'
<1> SUFFICES ASSUME IInv, Watch PROVE IInv'
  OBVIOUS
<1> USE ConstantsAssumption DEF tree
<1>1. PICK found \in SUBSET Process : Listed(Lead, found) /\ watched' = Others(found)
  BY DEF Watch
<1>2. /\ pc = "watch" /\ pc' = "term" /\ mode = "lock"
      /\ UNCHANGED <<tree, told, mode, top, todo>>
  BY DEF Watch, IInv, Course
<1>3. /\ before' \subseteq Process /\ Lead \in before' /\ blind' \in BOOLEAN
      /\ ~blind' => before' \subseteq found \union {Lead}
  BY <1>1, <1>2, Reading DEF IInv, Course, TypeOK, LeadLast
<1>4. TypeOK'
  BY <1>1, <1>2, <1>3 DEF IInv, TypeOK, Others, Acyclic, Descendants, Closed
<1>5. Course' /\ LeadLast' /\ Spared'
  BY <1>2, <1>3 DEF IInv, Course, LeadLast, Spared
<1>6. Reaches'
  BY <1>1, <1>2, <1>3 DEF IInv, Reaches, StopReaches, TimeoutReaches, LockReaches, Others
<1>7. QED
  BY <1>4, <1>5, <1>6 DEF IInv
(* terminate_process_tree.                                                   *)
LEMMA TermStep == IInv /\ (BeginTerm \/ \E p \in Process : Terminate(p)) => IInv'
<1> USE ConstantsAssumption DEF tree
<1>1. ASSUME IInv, BeginTerm PROVE IInv'
  <2>1. PICK found \in SUBSET Process : Listed(Lead, found) /\ todo' = TermTargets(found)
    BY <1>1 DEF BeginTerm
  <2>2. /\ pc = "term" /\ pc' = "terminating" /\ mode # "timeout"
        /\ UNCHANGED <<tree, told, mode, top, watched>>
    BY <1>1 DEF BeginTerm, IInv, Course
  <2>3. /\ before' \subseteq Process /\ Lead \in before' /\ blind' \in BOOLEAN
        /\ mode = "stop" /\ ~blind' => before' \subseteq found \union {Lead}
        /\ mode = "lock" => before' = before
        /\ blind => blind'
    BY <1>1, <2>1, <2>2, Reading DEF IInv, Course
  <2>4. todo' = ({Lead} \union found) \ {Self}
    BY <2>1 DEF TermTargets, Others
  <2>5. TypeOK'
    BY <1>1, <2>2, <2>3, <2>4 DEF IInv, TypeOK, Acyclic, Descendants, Closed
  <2>6. Course' /\ LeadLast' /\ Spared'
    BY <1>1, <2>2, <2>3 DEF IInv, Course, LeadLast, Spared
  <2>7. Reaches'
    BY <1>1, <2>2, <2>3, <2>4 DEF IInv, Reaches, StopReaches, TimeoutReaches, LockReaches
  <2>8. QED
    BY <2>5, <2>6, <2>7 DEF IInv
<1>2. ASSUME IInv, NEW p \in Process, Terminate(p) PROVE IInv'
  <2>1. /\ pc = "terminating" /\ p \in todo /\ todo' = todo \ {p}
        /\ told' = (IF p \in alive THEN told \union {p} ELSE told)
        /\ pc' = (IF todo' = {} THEN "grace" ELSE pc)
        /\ UNCHANGED <<tree, mode, top, watched, before, blind>>
    BY <1>2 DEF Terminate, Term
  <2>2. TypeOK'
    BY <1>2, <2>1 DEF IInv, TypeOK, Acyclic, Descendants, Closed
  <2>3. Course' /\ LeadLast' /\ Spared'
    BY <1>2, <2>1 DEF IInv, TypeOK, Course, LeadLast, Spared
  <2>4. Reaches'
    BY <1>2, <2>1 DEF IInv, Reaches, StopReaches, TimeoutReaches, LockReaches
  <2>5. QED
    BY <2>2, <2>3, <2>4 DEF IInv
<1>3. QED
  BY <1>1, <1>2

(* The wait after the SIGTERMs.                                              *)
LEMMA GraceStep == IInv /\ Grace => IInv'
<1> SUFFICES ASSUME IInv, Grace PROVE IInv'
  OBVIOUS
<1> USE ConstantsAssumption DEF tree
<1>1. /\ pc = "grace" /\ (GraceOver \/ mode = "lock")
      /\ pc' = (IF Lead \notin alive THEN AfterLead ELSE "kill")
      /\ UNCHANGED <<tree, told, mode, top, todo, watched, before, blind>>
  BY DEF Grace, LeadEnded
<1>2. TypeOK'
  BY <1>1 DEF IInv, TypeOK, Acyclic, Descendants, Closed, AfterLead
<1>3. Course' /\ LeadLast' /\ Spared'
  BY <1>1 DEF IInv, TypeOK, Course, LeadLast, Spared, AfterLead
<1>4. Reaches'
  BY <1>1 DEF IInv, TypeOK, Course, Reaches, StopReaches, TimeoutReaches, LockReaches, AfterLead,
    GraceOver
<1>5. QED
  BY <1>2, <1>3, <1>4 DEF IInv

(* force_kill_process_tree.                                                  *)
LEMMA KillStep == IInv /\ (BeginKill \/ \E p \in Process : ForceKill(p)) => IInv'
<1> USE ConstantsAssumption DEF tree
<1>1. ASSUME IInv, BeginKill PROVE IInv'
  <2>1. PICK found \in SUBSET Process : Listed(top, found) /\ todo' = KillTargets(found)
    BY <1>1 DEF BeginKill
  <2>2. /\ pc = "kill" /\ pc' = "killing"
        /\ UNCHANGED <<tree, told, mode, top, watched>>
    BY <1>1 DEF BeginKill
  <2>3. mode = "timeout" => top = Lead /\ before = {}
    BY <1>1, <2>2 DEF IInv, Course, LeadLast
  <2>4. /\ before' \subseteq Process /\ Lead \in before' /\ blind' \in BOOLEAN
        /\ mode = "timeout" /\ ~blind' => before' \subseteq found \union {top}
        /\ mode # "timeout" => before' = before
        /\ blind => blind'
    BY <1>1, <2>1, <2>2, <2>3, Reading DEF IInv, Course, TypeOK
  <2>5. todo' = ({top} \union found) \ {Self}
    BY <2>1 DEF KillTargets, Others
  <2>6. TypeOK'
    BY <1>1, <2>2, <2>4, <2>5 DEF IInv, TypeOK, Acyclic, Descendants, Closed
  <2>7. Course' /\ LeadLast' /\ Spared'
    BY <1>1, <2>2, <2>4, <2>5 DEF IInv, Course, LeadLast, Spared
  <2>8. Reaches'
    BY <1>1, <2>2, <2>4, <2>5 DEF IInv, Reaches, StopReaches, TimeoutReaches, LockReaches
  <2>9. QED
    BY <2>6, <2>7, <2>8 DEF IInv
<1>2. ASSUME IInv, NEW p \in Process, ForceKill(p) PROVE IInv'
  <2>1. /\ pc = "killing" /\ p \in todo /\ todo' = todo \ {p}
        /\ pc' = (IF todo' = {} THEN AfterLead ELSE pc)
        /\ UNCHANGED <<stubborn, told, mode, top, watched, before, blind>>
    BY <1>2 DEF ForceKill, Kill
  <2>2. alive' = alive \ {p} /\ TableOK'
    <3>1. CASE p \in alive
      <4>1. Die(p)
        BY <1>2, <3>1 DEF ForceKill, Kill
      <4>2. QED
        BY <1>2, <3>1, <4>1, DeathKeepsTable DEF Die, IInv, TypeOK, TableOK
    <3>2. CASE p \notin alive
      BY <1>2, <3>2 DEF ForceKill, Kill, IInv, TypeOK, TableOK, Acyclic, Descendants, Closed
    <3>3. QED
      BY <3>1, <3>2
  <2>3. p # Self /\ (Lead \in todo' \/ Lead \notin alive')
    BY <1>2, <2>1, <2>2 DEF IInv, TypeOK, LeadLast
  <2>4. TypeOK'
    BY <1>2, <2>1, <2>2 DEF IInv, TypeOK, TableOK, AfterLead
  <2>5. Course' /\ LeadLast' /\ Spared'
    BY <1>2, <2>1, <2>2, <2>3 DEF IInv, TypeOK, Course, LeadLast, Spared, AfterLead
  <2>6. Reaches'
    BY <1>2, <2>1, <2>2 DEF IInv, TypeOK, Course, Reaches, StopReaches, TimeoutReaches,
      LockReaches, AfterLead
  <2>7. QED
    BY <2>4, <2>5, <2>6 DEF IInv
<1>3. QED
  BY <1>1, <1>2

(* _kill_and_wait's descendants.                                             *)
LEMMA SweepStep == IInv /\ Sweep => IInv'
<1> SUFFICES ASSUME IInv, Sweep PROVE IInv'
  OBVIOUS
<1> USE ConstantsAssumption DEF tree
<1>1. /\ pc = "sweep" /\ mode = "lock" /\ Lead \notin alive /\ before # {}
      /\ UNCHANGED <<tree, told, mode, todo, watched, before, blind>>
  BY DEF Sweep, IInv, TypeOK, Course, LeadLast
<1>2. \/ watched \intersect alive = {} /\ pc' = "done" /\ top' = top
      \/ pc' = "kill" /\ top' \in watched \intersect alive
  BY DEF Sweep
<1>3. TypeOK'
  BY <1>1, <1>2 DEF IInv, TypeOK, Acyclic, Descendants, Closed
<1>4. Course' /\ LeadLast' /\ Spared'
  BY <1>1, <1>2 DEF IInv, Course, LeadLast, Spared
<1>5. Reaches'
  BY <1>1, <1>2 DEF IInv, Reaches, StopReaches, TimeoutReaches, LockReaches
<1>6. QED
  BY <1>3, <1>4, <1>5 DEF IInv

(* The invariant is inductive.                                               *)
LEMMA StepIInv == IInv /\ [Next]_vars => IInv'
<1> SUFFICES ASSUME IInv, [Next]_vars PROVE IInv'
  OBVIOUS
<1>1. CASE CallerStep
  BY <1>1, WatchStep, TermStep, GraceStep, KillStep, SweepStep DEF CallerStep
<1>2. ASSUME NEW p \in Process, Exit(p) PROVE IInv'
  BY <1>2, DeathStep DEF Exit
<1>3. ASSUME NEW p \in Process, Obey(p) PROVE IInv'
  BY <1>3, DeathStep DEF Obey, IInv, Spared
<1>4. ASSUME NEW p \in Process, NEW q \in Process, Fork(p, q) PROVE IInv'
  BY <1>4, ForkStep
<1>5. CASE UNCHANGED vars
  BY <1>5 DEF vars, tree, caller, IInv, TypeOK, Acyclic, Descendants, Closed, Course, LeadLast,
    Spared, Reaches, StopReaches, TimeoutReaches, LockReaches
<1>6. QED
  BY <1>1, <1>2, <1>3, <1>4, <1>5 DEF Next

LEMMA Invariance == Spec => []IInv
  BY InitIInv, StepIInv, PTL DEF Spec
-----------------------------------------------------------------------------
(* Type correctness; the table of the processes stays a forest.              *)
THEOREM TypeCorrect == Spec => []TypeOK
<1>1. IInv => TypeOK
  BY DEF IInv
<1>2. QED
  BY Invariance, <1>1, PTL

(* The caller returns only when the lead is gone, and is itself never killed. *)
THEOREM LeadEndsCallerStays == Spec => [](LeadGone /\ CallerSurvives)
<1>1. IInv => LeadGone /\ CallerSurvives
  BY DEF IInv, LeadLast, Spared, LeadGone, CallerSurvives
<1>2. QED
  BY Invariance, <1>1, PTL

(* Whoever is left of the tree has a reason, in each of the three modes.     *)
THEOREM NoneEscapes == Spec => []SurvivorsAccounted
<1>1. ASSUME IInv PROVE SurvivorsAccounted
  <2> SUFFICES ASSUME pc = "done", NEW p \in before \intersect alive, p # Self, ~blind
               PROVE  mode = "stop" /\ p \in stubborn
    BY DEF SurvivorsAccounted
  <2>1. StopReaches /\ TimeoutReaches /\ LockReaches /\ mode \in {"stop", "timeout", "lock"}
    BY <1>1 DEF IInv, Reaches, TypeOK
  <2>2. QED
    BY <2>1 DEF StopReaches, TimeoutReaches, LockReaches
<1>2. QED
  BY Invariance, <1>1, PTL

(* A tree is brought down, however many processes it has, whatever they fork *)
(* and lose meanwhile.                                                       *)
THEOREM TreeBroughtDown == Spec => []BroughtDown
<1>1. QED
  BY TypeCorrect, LeadEndsCallerStays, NoneEscapes, PTL DEF BroughtDown
=============================================================================
