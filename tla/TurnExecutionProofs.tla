-------------------------- MODULE TurnExecutionProofs --------------------------
(* Theorems about TurnExecution, for any number of turns, resets, topics and  *)
(* chats, and at the end those about StreamOutcome, for any number of lines.  *)
EXTENDS TurnExecution, StreamOutcome, SequenceTheorems, FiniteSetTheorems, TLAPS

-----------------------------------------------------------------------------
(* The turn lock: its holder is the first of the queue.                       *)

TurnLockType == turnLock \in [Key -> Seq(Task)]

LEMMA QueueKeepsType ==
  ASSUME TurnLockType, NEW x \in Task, Queue(x)
  PROVE  TurnLockType'
  BY ConstantsAssumption DEF TurnLockType, Queue

LEMMA QueueKeepsHolder ==
  ASSUME TurnLockType, NEW x \in Task, Queue(x), NEW y \in Task, HoldsLock(y)
  PROVE  HoldsLock(y)'
<1> DEFINE q == turnLock[KeyOf[y]]
<1>1. KeyOf[y] \in Key /\ KeyOf[x] \in Key /\ q \in Seq(Task) /\ q # << >>
  BY ConstantsAssumption DEF TurnLockType, HoldsLock
<1>2. turnLock'[KeyOf[y]] \in {q, Append(q, x)}
  BY <1>1 DEF Queue, TurnLockType
<1>3. Append(q, x) # << >> /\ Head(Append(q, x)) = Head(q)
  BY <1>1
<1> QED
  BY <1>1, <1>2, <1>3 DEF HoldsLock

LEMMA LeaveKeepsType ==
  ASSUME TurnLockType, NEW x \in Task, HoldsLock(x), Leave(x)
  PROVE  TurnLockType'
<1>1. KeyOf[x] \in Key /\ turnLock[KeyOf[x]] \in Seq(Task)
  BY ConstantsAssumption DEF TurnLockType
<1>2. Tail(turnLock[KeyOf[x]]) \in Seq(Task)
  BY <1>1 DEF HoldsLock
<1> QED
  BY <1>1, <1>2 DEF TurnLockType, Leave

LEMMA LeaveKeepsOtherHolder ==
  ASSUME TurnLockType, NEW x \in Task, Leave(x),
         NEW y \in Task, KeyOf[y] # KeyOf[x], HoldsLock(y)
  PROVE  HoldsLock(y)'
  BY ConstantsAssumption DEF TurnLockType, Leave, HoldsLock

LEMMA OneHolder ==
  ASSUME NEW x \in Task, NEW y \in Task,
         HoldsLock(x), HoldsLock(y), KeyOf[x] = KeyOf[y]
  PROVE  x = y
  BY DEF HoldsLock

LEMMA SameLockSameHolder ==
  ASSUME UNCHANGED turnLock, NEW x \in Task, HoldsLock(x)
  PROVE  HoldsLock(x)'
  BY DEF HoldsLock

-----------------------------------------------------------------------------
(* Types, and who owns the turn lock: a turn that executes holds the lock of  *)
(* its topic.  The two are inductive together only, since leaving a lock      *)
(* takes the first of a queue that has to be there.                           *)

LockOwned == \A t \in Turn : Executing(t) => HoldsLock(t)

LEMMA TurnsAreTasks == /\ Turn \subseteq Task /\ Reset \subseteq Task
                       /\ \A t \in Turn : t \notin Reset
                       /\ KeyOf \in [Task -> Key] /\ NoId \notin Turn
  BY ConstantsAssumption DEF Task

(* The step that ends a turn keeps both.                                      *)
LEMMA ConcludeKeepsOwners ==
  ASSUME TypeOK, LockOwned, NEW t \in Turn, HoldsLock(t), NEW out,
         Conclude(t, out)
  PROVE  LockOwned'
<1> SUFFICES ASSUME NEW u \in Turn, Executing(u)' PROVE HoldsLock(u)'
  BY DEF LockOwned
<1>1. u # t /\ Executing(u)
  BY TurnsAreTasks DEF Conclude, Executing, ExecutePc, TypeOK
<1>2. HoldsLock(u)
  BY <1>1 DEF LockOwned
<1>3. KeyOf[u] # KeyOf[t]
  BY <1>1, <1>2, OneHolder, TurnsAreTasks
<1> QED
  BY <1>2, <1>3, LeaveKeepsOtherHolder, TurnsAreTasks DEF Conclude, TypeOK, TurnLockType

Outcomes == {"text", "silent", "failed", "timed_out", "raised", "cancelled"}

LEMMA ConcludeKeepsTypes ==
  ASSUME TypeOK, NEW t \in Turn, HoldsLock(t), NEW out \in Outcomes,
         Conclude(t, out)
  PROVE  /\ pc' \in [Task -> {"new", "aborting", "waiting", "done"}
                               \union ExecutePc]
         /\ turnLock' \in [Key -> Seq(Task)]
         /\ outcome' \in [Turn -> Outcomes \union {"none"}]
         /\ abortedTopics' \subseteq Key
         /\ unread' \in [Turn -> 0 .. MaxUnread]
<1>1. turnLock' \in [Key -> Seq(Task)]
  BY LeaveKeepsType, TurnsAreTasks DEF TypeOK, TurnLockType, Conclude
<1>2. 0 \in 0 .. MaxUnread
  BY ConstantsAssumption
<1> QED
  BY <1>1, <1>2, TurnsAreTasks DEF TypeOK, Conclude, ClearTopicAbort, Outcomes

LEMMA PersistKeepsType ==
  ASSUME TypeOK, NEW t \in Turn, Persist(t)
  PROVE  sessions' \in [Key -> SessionId]
  BY TurnsAreTasks DEF TypeOK, Persist

LEMMA KillKeepsTypes ==
  ASSUME TypeOK, NEW targets \in SUBSET Turn, Kill(targets)
  PROVE  /\ abortedTopics' \subseteq Key /\ registered' \subseteq Turn
         /\ doomed' \subseteq Turn /\ hit' \subseteq Turn
  BY TurnsAreTasks DEF TypeOK, Kill, Flag, Unlist, Doom

TypeInv == TypeOK /\ LockOwned

LEMMA TypeInit == Init => TypeInv
  BY ConstantsAssumption
     DEF Init, TypeInv, TypeOK, LockOwned, Executing, ExecutePc, SessionId, Task

(* An action that leaves the locks alone, and lets only the lock's holder     *)
(* begin, keeps every executing turn the owner of its lock.                   *)
LEMMA SameLocksKeepOwners ==
  ASSUME LockOwned, UNCHANGED turnLock,
         \A u \in Turn : Executing(u)' => Executing(u) \/ HoldsLock(u)
  PROVE  LockOwned'
  BY SameLockSameHolder, TurnsAreTasks DEF LockOwned

LEMMA QueueKeepsOwners ==
  ASSUME TypeOK, LockOwned, NEW x \in Task, Queue(x),
         \A u \in Turn : Executing(u)' => Executing(u)
  PROVE  LockOwned'
  BY QueueKeepsHolder, TurnsAreTasks DEF LockOwned, TypeOK, TurnLockType

LEMMA StartKeepsTypes ==
  ASSUME TypeInv, NEW t \in Turn, Start(t)
  PROVE  TypeInv'
<1> USE TurnsAreTasks
<1>1. CASE Begin(t)
  <2>1. TypeOK'
    BY <1>1 DEF TypeInv, TypeOK, Begin, ClearTopicAbort, ExecutePc, historyVars
  <2>2. LockOwned'
    BY <1>1, SameLocksKeepOwners DEF TypeInv, TypeOK, Begin, Executing
  <2> QED
    BY <2>1, <2>2 DEF TypeInv
<1>2. CASE BeginFails(t)
  <2>1. TypeOK'
    BY <1>2, ConcludeKeepsTypes
       DEF TypeInv, TypeOK, BeginFails, Outcomes, historyVars
  <2>2. LockOwned'
    BY <1>2, ConcludeKeepsOwners DEF TypeInv, BeginFails
  <2> QED
    BY <2>1, <2>2 DEF TypeInv
<1> QED
  BY <1>1, <1>2 DEF Start

LEMMA SpawnKeepsTypes ==
  ASSUME TypeInv, NEW t \in Turn, Spawn(t)
  PROVE  TypeInv'
<1> USE TurnsAreTasks
<1>1. CASE Spawned(t)
  <2>1. TypeOK'
    BY <1>1 DEF TypeInv, TypeOK, Spawned, ExecutePc, streamVars, historyVars
  <2>2. LockOwned'
    BY <1>1, SameLocksKeepOwners DEF TypeInv, TypeOK, Spawned, Executing, ExecutePc
  <2> QED
    BY <2>1, <2>2 DEF TypeInv
<1>2. CASE SpawnFails(t)
  <2>0. HoldsLock(t)
    BY <1>2 DEF TypeInv, LockOwned, SpawnFails, Executing, ExecutePc
  <2>1. TypeOK'
    BY <1>2, <2>0, ConcludeKeepsTypes
       DEF TypeInv, TypeOK, SpawnFails, Outcomes, historyVars
  <2>2. LockOwned'
    BY <1>2, <2>0, ConcludeKeepsOwners DEF TypeInv, SpawnFails
  <2> QED
    BY <2>1, <2>2 DEF TypeInv
<1> QED
  BY <1>1, <1>2 DEF Spawn

LEMMA ReadLineKeepsType ==
  ASSUME TypeOK, NEW t \in Turn, ReadLine(t)
  PROVE  unread' \in [Turn -> 0 .. MaxUnread]
<1>1. unread[t] \in 0 .. MaxUnread /\ MaxUnread \in Nat
  BY ConstantsAssumption DEF TypeOK
<1>2. unread[t] - 1 \in 0 .. MaxUnread
  BY <1>1 DEF ReadLine
<1> QED
  BY <1>2 DEF TypeOK, ReadLine

LEMMA WriteKeepsType ==
  ASSUME TypeOK, NEW t \in Turn, Write(t)
  PROVE  unread' \in [Turn -> 0 .. MaxUnread]
<1>1. unread[t] \in 0 .. MaxUnread /\ MaxUnread \in Nat
  BY ConstantsAssumption DEF TypeOK
<1>2. unread[t] + 1 \in 0 .. MaxUnread
  BY <1>1 DEF Write
<1> QED
  BY <1>2 DEF TypeOK, Write

LEMMA ReadKeepsTypes ==
  ASSUME TypeInv, NEW t \in Turn, Read(t)
  PROVE  TypeInv'
<1> USE TurnsAreTasks
<1>1. CASE ReadAborted(t)
  <2>0. HoldsLock(t)
    BY <1>1 DEF TypeInv, LockOwned, ReadAborted, Executing, ExecutePc
  <2>1. TypeOK'
    BY <1>1, <2>0, ConcludeKeepsTypes, PersistKeepsType
       DEF TypeInv, TypeOK, ReadAborted, Answer, Blank, Outcomes, historyVars
  <2>2. LockOwned'
    BY <1>1, <2>0, ConcludeKeepsOwners DEF TypeInv, ReadAborted, Answer
  <2> QED
    BY <2>1, <2>2 DEF TypeInv
<1>2. CASE ReadSessionId(t)
  <2>1. TypeOK'
    <3>1. {resume[t], t} \ {NoId} \subseteq SessionId
      BY DEF TypeInv, TypeOK, SessionId
    <3>2. seen' \in [Turn -> SessionId]
      BY <1>2, <3>1 DEF TypeInv, TypeOK, ReadSessionId
    <3> QED
      BY <1>2, <3>2, ReadLineKeepsType
         DEF TypeInv, TypeOK, ReadSessionId, handlerVars, registryVars,
             historyVars
  <2>2. LockOwned'
    BY <1>2, SameLocksKeepOwners
       DEF TypeInv, TypeOK, ReadSessionId, Executing, ExecutePc, handlerVars, ReadLine
  <2> QED
    BY <2>1, <2>2 DEF TypeInv
<1>3. CASE ReadCallbackEvent(t)
  <2>1. TypeOK'
    BY <1>3, ReadLineKeepsType
       DEF TypeInv, TypeOK, ReadCallbackEvent, ExecutePc, ReadLine, registryVars, historyVars
  <2>2. LockOwned'
    BY <1>3, SameLocksKeepOwners
       DEF TypeInv, TypeOK, ReadCallbackEvent, Executing, ExecutePc, handlerVars, ReadLine
  <2> QED
    BY <2>1, <2>2 DEF TypeInv
<1>4. CASE ReadOther(t)
  <2>1. TypeOK'
    BY <1>4, ReadLineKeepsType
       DEF TypeInv, TypeOK, ReadOther, ExecutePc, ReadLine, handlerVars, registryVars, historyVars
  <2>2. LockOwned'
    BY <1>4, SameLocksKeepOwners
       DEF TypeInv, TypeOK, ReadOther, Executing, ExecutePc, handlerVars, ReadLine
  <2> QED
    BY <2>1, <2>2 DEF TypeInv
<1>5. CASE StreamFails(t)
  <2>0. HoldsLock(t)
    BY <1>5 DEF TypeInv, LockOwned, StreamFails, Executing, ExecutePc
  <2>1. TypeOK'
    BY <1>5, <2>0, ConcludeKeepsTypes, PersistKeepsType
       DEF TypeInv, TypeOK, StreamFails, Answer, Blank, Outcomes, Unregister, historyVars
  <2>2. LockOwned'
    BY <1>5, <2>0, ConcludeKeepsOwners DEF TypeInv, StreamFails, Answer
  <2> QED
    BY <2>1, <2>2 DEF TypeInv
<1>6. CASE ReadEof(t)
  <2>1. TypeOK'
    BY <1>6 DEF TypeInv, TypeOK, ReadEof, ExecutePc, registryVars, streamVars, historyVars
  <2>2. LockOwned'
    BY <1>6, SameLocksKeepOwners
       DEF TypeInv, TypeOK, ReadEof, Executing, ExecutePc, handlerVars
  <2> QED
    BY <2>1, <2>2 DEF TypeInv
<1> QED
  BY <1>1, <1>2, <1>3, <1>4, <1>5, <1>6 DEF Read

LEMMA CallbackKeepsTypes ==
  ASSUME TypeInv, NEW t \in Turn, Callback(t)
  PROVE  TypeInv'
<1> USE TurnsAreTasks
<1>1. CASE CallbackReturns(t)
  <2>1. TypeOK'
    BY <1>1 DEF TypeInv, TypeOK, CallbackReturns, ExecutePc, registryVars, streamVars, historyVars
  <2>2. LockOwned'
    BY <1>1, SameLocksKeepOwners
       DEF TypeInv, TypeOK, CallbackReturns, Executing, ExecutePc, handlerVars
  <2> QED
    BY <2>1, <2>2 DEF TypeInv
<1>2. CASE CallbackRaises(t)
  <2>0. HoldsLock(t)
    BY <1>2 DEF TypeInv, LockOwned, CallbackRaises, Executing, ExecutePc
  <2>1. TypeOK'
    BY <1>2, <2>0, ConcludeKeepsTypes
       DEF TypeInv, TypeOK, CallbackRaises, Outcomes, historyVars
  <2>2. LockOwned'
    BY <1>2, <2>0, ConcludeKeepsOwners DEF TypeInv, CallbackRaises
  <2> QED
    BY <2>1, <2>2 DEF TypeInv
<1> QED
  BY <1>1, <1>2 DEF Callback

LEMMA DeadlineKeepsTypes ==
  ASSUME TypeInv, NEW t \in Turn, Deadline(t)
  PROVE  TypeInv'
<1> USE TurnsAreTasks
<1>1. CASE DeadlineInRead(t)
  <2>1. TypeOK'
    BY <1>1 DEF TypeInv, TypeOK, DeadlineInRead, ExecutePc, Doom, registryVars, streamVars, historyVars
  <2>2. LockOwned'
    BY <1>1, SameLocksKeepOwners
       DEF TypeInv, TypeOK, DeadlineInRead, Executing, ExecutePc, handlerVars
  <2> QED
    BY <2>1, <2>2 DEF TypeInv
<1>2. CASE DeadlineInCallback(t)
  <2>0. HoldsLock(t)
    BY <1>2 DEF TypeInv, LockOwned, DeadlineInCallback, Executing, ExecutePc
  <2>1. TypeOK'
    BY <1>2, <2>0, ConcludeKeepsTypes
       DEF TypeInv, TypeOK, DeadlineInCallback, Outcomes, historyVars
  <2>2. LockOwned'
    BY <1>2, <2>0, ConcludeKeepsOwners DEF TypeInv, DeadlineInCallback
  <2> QED
    BY <2>1, <2>2 DEF TypeInv
<1> QED
  BY <1>1, <1>2 DEF Deadline

LEMMA EndingKeepsTypes ==
  ASSUME TypeInv, NEW t \in Turn, Ending(t)
  PROVE  TypeInv'
<1> USE TurnsAreTasks
<1>1. CASE Drained(t)
  <2>1. TypeOK'
    BY <1>1
       DEF TypeInv, TypeOK, Drained, ExecutePc, Unregister, streamVars, historyVars
  <2>2. LockOwned'
    BY <1>1, SameLocksKeepOwners
       DEF TypeInv, TypeOK, Drained, Executing, ExecutePc, handlerVars
  <2> QED
    BY <2>1, <2>2 DEF TypeInv
<1>2. CASE Reaped(t)
  <2>0. HoldsLock(t)
    BY <1>2 DEF TypeInv, LockOwned, Reaped, Executing, ExecutePc
  <2>1. TypeOK'
    BY <1>2, <2>0, ConcludeKeepsTypes, PersistKeepsType
       DEF TypeInv, TypeOK, Reaped, Answer, Blank, Outcomes, historyVars
  <2>2. LockOwned'
    BY <1>2, <2>0, ConcludeKeepsOwners DEF TypeInv, Reaped, Answer
  <2> QED
    BY <2>1, <2>2 DEF TypeInv
<1>3. CASE TimeoutEvent(t) /\ Aborted(t)
  <2>0. HoldsLock(t)
    BY <1>3 DEF TypeInv, LockOwned, TimeoutEvent, Executing, ExecutePc
  <2>1. Answer(t, "silent") /\ UNCHANGED <<resume, seen, registered, historyVars, proc, doomed>>
    BY <1>3 DEF TimeoutEvent
  <2>2. TypeOK'
    BY <2>0, <2>1, ConcludeKeepsTypes, PersistKeepsType
       DEF TypeInv, TypeOK, Answer, Blank, Outcomes, historyVars
  <2>3. LockOwned'
    BY <2>0, <2>1, ConcludeKeepsOwners DEF TypeInv, Answer
  <2> QED
    BY <2>2, <2>3 DEF TypeInv
<1>4. CASE TimeoutEvent(t) /\ ~Aborted(t)
  <2>1. TypeOK'
    BY <1>4 DEF TypeInv, TypeOK, TimeoutEvent, ExecutePc, streamVars, historyVars
  <2>2. LockOwned'
    BY <1>4, SameLocksKeepOwners
       DEF TypeInv, TypeOK, TimeoutEvent, Executing, ExecutePc
  <2> QED
    BY <2>1, <2>2 DEF TypeInv
<1>5. CASE TimeoutEnds(t)
  <2>0. HoldsLock(t)
    BY <1>5 DEF TypeInv, LockOwned, TimeoutEnds, Executing, ExecutePc
  <2>1. TypeOK'
    BY <1>5, <2>0, ConcludeKeepsTypes, PersistKeepsType
       DEF TypeInv, TypeOK, TimeoutEnds, Answer, Blank, Outcomes, Unregister, historyVars
  <2>2. LockOwned'
    BY <1>5, <2>0, ConcludeKeepsOwners DEF TypeInv, TimeoutEnds, Answer
  <2> QED
    BY <2>1, <2>2 DEF TypeInv
<1> QED
  BY <1>1, <1>2, <1>3, <1>4, <1>5 DEF Ending

LEMMA ProcessKeepsTypes ==
  ASSUME TypeInv, NEW t \in Turn, Process(t) \/ FinalizeGenerator(t)
  PROVE  TypeInv'
<1> USE TurnsAreTasks
<1>1. CASE Write(t)
  <2>1. TypeOK'
    BY <1>1, WriteKeepsType
       DEF TypeInv, TypeOK, Write, ExecutePc, handlerVars, registryVars, historyVars
  <2>2. LockOwned'
    BY <1>1, SameLocksKeepOwners
       DEF TypeInv, TypeOK, Write, Executing, ExecutePc, handlerVars
  <2> QED
    BY <2>1, <2>2 DEF TypeInv
<1>2. CASE CloseStdout(t)
  <2>1. TypeOK'
    BY <1>2
       DEF TypeInv, TypeOK, CloseStdout, ExecutePc, handlerVars, registryVars, streamVars, historyVars
  <2>2. LockOwned'
    BY <1>2, SameLocksKeepOwners
       DEF TypeInv, TypeOK, CloseStdout, Executing, ExecutePc, handlerVars
  <2> QED
    BY <2>1, <2>2 DEF TypeInv
<1>3. CASE Exit(t)
  <2>1. TypeOK'
    BY <1>3
       DEF TypeInv, TypeOK, Exit, ExecutePc, handlerVars, registryVars, streamVars, historyVars
  <2>2. LockOwned'
    BY <1>3, SameLocksKeepOwners
       DEF TypeInv, TypeOK, Exit, Executing, ExecutePc, handlerVars
  <2> QED
    BY <2>1, <2>2 DEF TypeInv
<1>4. CASE FinalizeGenerator(t)
  <2>1. TypeOK'
    BY <1>4
       DEF TypeInv, TypeOK, FinalizeGenerator, ExecutePc, Unregister, handlerVars, streamVars, historyVars
  <2>2. LockOwned'
    BY <1>4, SameLocksKeepOwners
       DEF TypeInv, TypeOK, FinalizeGenerator, Executing, ExecutePc, handlerVars
  <2> QED
    BY <2>1, <2>2 DEF TypeInv
<1> QED
  BY <1>1, <1>2, <1>3, <1>4 DEF Process

LEMMA CommandKeepsTypes ==
  ASSUME TypeInv, Command
  PROVE  TypeInv'
<1> USE TurnsAreTasks
<1>1. CASE \E k \in Key : Stop(k)
  <2>1. PICK k \in Key : Stop(k)
    BY <1>1
  <2>2. InTopic(k) \in SUBSET Turn
    BY DEF InTopic, TypeInv, TypeOK
  <2>3. TypeOK'
    BY <2>1, <2>2, KillKeepsTypes
       DEF TypeInv, TypeOK, Stop, Asked, handlerVars, streamVars
  <2>4. LockOwned'
    BY <2>1, SameLocksKeepOwners DEF TypeInv, Stop, Executing, handlerVars
  <2> QED
    BY <2>3, <2>4 DEF TypeInv
<1>2. CASE StopAll
  <2>1. TypeOK'
    BY <1>2, KillKeepsTypes
       DEF TypeInv, TypeOK, StopAll, Asked, handlerVars, streamVars
  <2>2. LockOwned'
    BY <1>2, SameLocksKeepOwners DEF TypeInv, StopAll, Executing, handlerVars
  <2> QED
    BY <2>1, <2>2 DEF TypeInv
<1>3. CASE \E c \in Chat : Interrupt(c)
  <2>1. PICK c \in Chat : Interrupt(c)
    BY <1>3
  <2>2. TypeOK'
    BY <2>1 DEF TypeInv, TypeOK, Interrupt, Flag, Asked, handlerVars, streamVars
  <2>3. LockOwned'
    BY <2>1, SameLocksKeepOwners DEF TypeInv, Interrupt, Executing, handlerVars
  <2> QED
    BY <2>2, <2>3 DEF TypeInv
<1> QED
  BY <1>1, <1>2, <1>3 DEF Command

LEMMA ArriveKeepsTypes ==
  ASSUME TypeInv, NEW t \in Turn, Arrive(t)
  PROVE  TypeInv'
<1>1. TypeOK'
  BY QueueKeepsType, TurnsAreTasks
     DEF TypeInv, TypeOK, TurnLockType, Arrive, registryVars, streamVars,
         historyVars
<1>2. LockOwned'
  BY QueueKeepsOwners, TurnsAreTasks
     DEF TypeInv, TypeOK, Arrive, Executing, ExecutePc
<1> QED
  BY <1>1, <1>2 DEF TypeInv

LEMMA ResettingKeepsTypes ==
  ASSUME TypeInv, NEW r \in Reset, Resetting(r)
  PROVE  TypeInv'
<1> USE TurnsAreTasks
<1>1. CASE ResetAbort(r)
  <2>1. InTopic(KeyOf[r]) \in SUBSET Turn
    BY DEF InTopic, TypeInv, TypeOK
  <2>2. pc' \in [Task -> {"new", "aborting", "waiting", "done"} \union ExecutePc]
    <3>1. \E x \in {"aborting", "waiting"} : pc' = [pc EXCEPT ![r] = x]
      BY <1>1, Zenon DEF ResetAbort
    <3>2. pc \in [Task -> {"new", "aborting", "waiting", "done"} \union ExecutePc]
      BY DEF TypeInv, TypeOK
    <3>3. QED
      BY <3>1, <3>2
  <2>3. turnLock' \in [Key -> Seq(Task)]
    BY <1>1, QueueKeepsType DEF ResetAbort, TypeInv, TypeOK, TurnLockType
  <2>4. TypeOK'
    <3>1. Kill(InTopic(KeyOf[r])) /\ TypeOK
      BY <1>1 DEF ResetAbort, TypeInv
    <3>2. /\ abortedTopics' \subseteq Key /\ registered' \subseteq Turn
          /\ doomed' \subseteq Turn /\ hit' \subseteq Turn
      BY <2>1, <3>1, KillKeepsTypes
    <3>3. asked' \subseteq Turn
      BY <1>1 DEF TypeInv, TypeOK, ResetAbort, Asked
    <3>4. UNCHANGED <<outcome, streamVars, retired, sessions, proc>>
      BY <1>1 DEF ResetAbort
    <3>5. QED
      BY <2>2, <2>3, <3>1, <3>2, <3>3, <3>4 DEF TypeOK, streamVars
  <2>5. \A u \in Turn : Executing(u)' => Executing(u)
    BY <1>1 DEF ResetAbort, Executing, TypeInv, TypeOK
  <2>6. LockOwned'
    BY <1>1, <2>5, SameLocksKeepOwners, QueueKeepsOwners
       DEF ResetAbort, TypeInv
  <2> QED
    BY <2>4, <2>6 DEF TypeInv
<1>2. CASE ResetKilled(r)
  <2>1. TypeOK'
    BY <1>2, QueueKeepsType
       DEF TypeInv, TypeOK, TurnLockType, ResetKilled, registryVars,
           streamVars, historyVars
  <2>2. LockOwned'
    BY <1>2, QueueKeepsOwners DEF TypeInv, TypeOK, ResetKilled, Executing
  <2> QED
    BY <2>1, <2>2 DEF TypeInv
<1>3. CASE ResetStore(r)
  <2>1. NoId \in SessionId
    BY DEF SessionId
  <2>2. TypeOK'
    BY <1>3, <2>1, LeaveKeepsType
       DEF TypeInv, TypeOK, TurnLockType, ResetStore, registryVars, streamVars
  <2>3. \A u \in Turn : Executing(u)' => Executing(u) /\ KeyOf[u] # KeyOf[r]
    BY <1>3, OneHolder DEF ResetStore, Executing, TypeInv, TypeOK, LockOwned
  <2>4. LockOwned'
    BY <1>3, <2>3, LeaveKeepsOtherHolder
       DEF ResetStore, TypeInv, TypeOK, TurnLockType, LockOwned
  <2> QED
    BY <2>2, <2>4 DEF TypeInv
<1> QED
  BY <1>1, <1>2, <1>3 DEF Resetting

LEMMA StutterKeepsTypes == TypeInv /\ UNCHANGED vars => TypeInv'
<1> SUFFICES ASSUME TypeInv, UNCHANGED vars PROVE TypeInv'
  OBVIOUS
<1>1. TypeOK'
  BY DEF vars, handlerVars, registryVars, streamVars, historyVars, TypeInv, TypeOK
<1>2. LockOwned'
  BY SameLocksKeepOwners DEF vars, handlerVars, TypeInv, Executing
<1> QED
  BY <1>1, <1>2 DEF TypeInv

(* Every state is well typed, and every executing turn owns the lock of its   *)
(* topic (code: the `async with` of handle_message).                          *)
THEOREM TypeCorrect == Spec => [](TypeOK /\ LockOwned)
<1>1. TypeInv /\ [Next]_vars => TypeInv'
  <2> SUFFICES ASSUME TypeInv, [Next]_vars PROVE TypeInv'
    OBVIOUS
  <2>1. ASSUME NEW t \in Turn, Handler(t) PROVE TypeInv'
    BY <2>1, ArriveKeepsTypes, StartKeepsTypes, SpawnKeepsTypes, ReadKeepsTypes,
       CallbackKeepsTypes, DeadlineKeepsTypes, EndingKeepsTypes,
       ProcessKeepsTypes DEF Handler
  <2>2. ASSUME NEW t \in Turn, Process(t) PROVE TypeInv'
    BY <2>2, ProcessKeepsTypes
  <2> QED
    BY <2>1, <2>2, ResettingKeepsTypes, CommandKeepsTypes, StutterKeepsTypes
       DEF Next
<1> QED
  BY <1>1, TypeInit, PTL DEF Spec, TypeInv

-----------------------------------------------------------------------------
(* Sessions.  The lineage of a running turn, the retired ids and the ids a    *)
(* turn may hold are inductive together: what a turn stores when it leaves is *)
(* its own id or the one it resumed, the topic still holds the one it         *)
(* resumed, and no reset can have run since.                                  *)

NotBegun(t) == pc[t] \in {"new", "waiting"}

SessionInv ==
    /\ SessionLineage
    /\ SessionsOfTopic
    /\ NoResurrection
    /\ \A t \in Turn : seen[t] \in {NoId, t, resume[t]}
    /\ \A t \in Turn : NotBegun(t) => seen[t] = NoId /\ t \notin retired
    /\ \A t \in Turn : Executing(t) => t \notin retired

LEMMA SessionInit == Init => SessionInv
  BY TurnsAreTasks, ConstantsAssumption
     DEF Init, SessionInv, SessionLineage, SessionsOfTopic, NoResurrection,
         NotBegun, Executing, ExecutePc

(* Steps that touch no session and start no turn.                             *)
LEMMA SameSessions ==
  ASSUME SessionInv, UNCHANGED <<sessions, resume, seen, retired>>,
         \A u \in Turn : Executing(u)' => Executing(u),
         \A u \in Turn : NotBegun(u)' => NotBegun(u)
  PROVE  SessionInv'
  BY DEF SessionInv, SessionLineage, SessionsOfTopic, NoResurrection

(* The last step of an executing turn.                                        *)
LEMMA ConcludeKeepsSessions ==
  ASSUME TypeInv, SessionInv, NEW t \in Turn, Executing(t), NEW out,
         Conclude(t, out), Persist(t) \/ UNCHANGED sessions,
         UNCHANGED <<resume, seen, retired>>
  PROVE  SessionInv'
<1> USE TurnsAreTasks
<1>1. \A u \in Turn : /\ Executing(u)' => Executing(u) /\ u # t
                      /\ NotBegun(u)' => NotBegun(u)
  BY DEF Conclude, Executing, NotBegun, ExecutePc, TypeInv, TypeOK
<1>2. CASE UNCHANGED sessions \/ seen[t] = NoId
  <2>1. UNCHANGED sessions
    BY <1>2 DEF Persist
  <2> QED
    BY <1>1, <2>1, SameSessions
<1>3. CASE Persist(t) /\ seen[t] # NoId
  <2> DEFINE k == KeyOf[t]
  <2>1. k \in Key /\ sessions \in [Key -> SessionId]
    BY DEF TypeInv, TypeOK
  <2>2. sessions' = [sessions EXCEPT ![k] = seen[t]]
    BY <1>3 DEF Persist
  <2>3. seen[t] \in {t, sessions[k]} /\ t \notin retired
    BY <1>3 DEF SessionInv, SessionLineage
  <2>4. \A u \in Turn : Executing(u)' => KeyOf[u] # k
    BY <1>1, OneHolder DEF TypeInv, LockOwned
  <2>5. SessionLineage'
    BY <1>1, <2>1, <2>2, <2>4 DEF SessionInv, SessionLineage
  <2>6. SessionsOfTopic' /\ NoResurrection'
    BY <1>3, <2>1, <2>2, <2>3 DEF SessionInv, SessionsOfTopic, NoResurrection
  <2> QED
    BY <1>1, <2>5, <2>6 DEF SessionInv
<1> QED
  BY <1>2, <1>3

LEMMA StartKeepsSessions ==
  ASSUME TypeInv, SessionInv, NEW t \in Turn, Start(t)
  PROVE  SessionInv'
<1> USE TurnsAreTasks
<1>1. /\ resume' = [resume EXCEPT ![t] = sessions[KeyOf[t]]]
      /\ UNCHANGED <<sessions, seen, retired>>
      /\ NotBegun(t)
  BY DEF Start, Begin, BeginFails, NotBegun, historyVars
<1>2. \A u \in Turn : /\ Executing(u)' => Executing(u) \/ u = t
                      /\ NotBegun(u)' => NotBegun(u)
  BY DEF Start, Begin, BeginFails, Conclude, Executing, NotBegun, ExecutePc,
         TypeInv, TypeOK
<1>3. SessionLineage'
  BY <1>1, <1>2 DEF SessionInv, SessionLineage, TypeInv, TypeOK
<1>4. SessionsOfTopic' /\ NoResurrection'
  BY <1>1 DEF SessionInv, SessionsOfTopic, NoResurrection
<1>5. \A u \in Turn : seen[u]' \in {NoId, u, resume[u]'}
  BY <1>1 DEF SessionInv, TypeInv, TypeOK
<1> QED
  BY <1>1, <1>2, <1>3, <1>4, <1>5 DEF SessionInv

LEMMA ReadKeepsSessions ==
  ASSUME TypeInv, SessionInv, NEW t \in Turn, Read(t)
  PROVE  SessionInv'
<1> USE TurnsAreTasks
<1>1. CASE ReadAborted(t)
  BY <1>1, ConcludeKeepsSessions
     DEF ReadAborted, Answer, Executing, ExecutePc, historyVars
<1>2. CASE ReadSessionId(t)
  <2>1. seen[t]' \in {t, resume[t]} /\ \A u \in Turn \ {t} : seen[u]' = seen[u]
    BY <1>2 DEF ReadSessionId, TypeInv, TypeOK
  <2>2. ~NotBegun(t)
    BY <1>2 DEF ReadSessionId, ReadLine, NotBegun
  <2>3. UNCHANGED <<sessions, resume, retired, pc>>
    BY <1>2 DEF ReadSessionId, handlerVars, historyVars
  <2> QED
    BY <2>1, <2>2, <2>3
       DEF SessionInv, SessionLineage, SessionsOfTopic, NoResurrection,
           NotBegun, Executing
<1>3. CASE ReadCallbackEvent(t) \/ ReadEof(t)
  BY <1>3, SameSessions
     DEF ReadCallbackEvent, ReadEof, ReadLine, Executing, NotBegun, ExecutePc,
         TypeInv, TypeOK, historyVars, streamVars
<1>4. CASE ReadOther(t)
  BY <1>4, SameSessions
     DEF ReadOther, Executing, NotBegun, handlerVars, historyVars
<1>5. CASE StreamFails(t)
  BY <1>5, ConcludeKeepsSessions
     DEF StreamFails, Executing, ExecutePc, historyVars
<1> QED
  BY <1>1, <1>2, <1>3, <1>4, <1>5 DEF Read

LEMMA OtherHandlerStepsKeepSessions ==
  ASSUME TypeInv, SessionInv, NEW t \in Turn,
         \/ Arrive(t) \/ Spawn(t) \/ Callback(t) \/ Deadline(t) \/ Ending(t)
         \/ FinalizeGenerator(t) \/ Process(t)
  PROVE  SessionInv'
<1> USE TurnsAreTasks
<1>1. CASE Arrive(t) \/ Spawned(t) \/ CallbackReturns(t)
  BY <1>1, SameSessions
     DEF Arrive, Spawned, CallbackReturns, Executing, NotBegun, ExecutePc,
         TypeInv, TypeOK, historyVars, streamVars
<1>2. CASE DeadlineInRead(t) \/ Drained(t)
  BY <1>2, SameSessions
     DEF DeadlineInRead, Drained, Executing, NotBegun, ExecutePc, TypeInv,
         TypeOK, historyVars, streamVars
<1>3. CASE SpawnFails(t) \/ CallbackRaises(t) \/ DeadlineInCallback(t)
  BY <1>3, ConcludeKeepsSessions
     DEF SpawnFails, CallbackRaises, DeadlineInCallback, Executing, ExecutePc,
         historyVars
<1>4. CASE Reaped(t) \/ TimeoutEnds(t)
  BY <1>4, ConcludeKeepsSessions
     DEF Reaped, TimeoutEnds, Answer, Executing, ExecutePc, historyVars
<1>5. CASE TimeoutEvent(t) /\ Aborted(t)
  BY <1>5, ConcludeKeepsSessions
     DEF TimeoutEvent, Answer, Executing, ExecutePc, historyVars
<1>6. CASE TimeoutEvent(t) /\ ~Aborted(t)
  BY <1>6, SameSessions
     DEF TimeoutEvent, Executing, NotBegun, ExecutePc, TypeInv, TypeOK,
         historyVars, streamVars
<1>7. CASE FinalizeGenerator(t) \/ Process(t)
  BY <1>7, SameSessions
     DEF FinalizeGenerator, Process, Write, CloseStdout, Exit, Executing,
         NotBegun, handlerVars, historyVars, streamVars
<1> QED
  BY <1>1, <1>2, <1>3, <1>4, <1>5, <1>6, <1>7
     DEF Spawn, Callback, Deadline, Ending

LEMMA CommandKeepsSessions ==
  ASSUME SessionInv, Command
  PROVE  SessionInv'
  BY SameSessions
     DEF Command, Stop, StopAll, Interrupt, Executing, NotBegun, handlerVars,
         streamVars

LEMMA ResettingKeepsSessions ==
  ASSUME TypeInv, SessionInv, NEW r \in Reset, Resetting(r)
  PROVE  SessionInv'
<1> USE TurnsAreTasks
<1>1. CASE ResetAbort(r) \/ ResetKilled(r)
  BY <1>1, SameSessions
     DEF ResetAbort, ResetKilled, Executing, NotBegun, TypeInv, TypeOK,
         streamVars, historyVars
<1>2. CASE ResetStore(r)
  <2> DEFINE k == KeyOf[r]
  <2>1. /\ k \in Key /\ sessions' = [sessions EXCEPT ![k] = NoId]
        /\ sessions \in [Key -> SessionId] /\ retired \subseteq Turn
        /\ UNCHANGED <<resume, seen>>
    BY <1>2 DEF ResetStore, TypeInv, TypeOK, streamVars
  <2>2. \A u \in Turn : /\ Executing(u)' => Executing(u) /\ KeyOf[u] # k
                        /\ NotBegun(u)' => NotBegun(u)
    BY <1>2, OneHolder
       DEF ResetStore, Executing, NotBegun, TypeInv, TypeOK, LockOwned
  <2>3. \A u \in retired' : u \in retired \/ (KeyOf[u] = k /\ ~NotBegun(u))
    BY <1>2 DEF ResetStore, NotBegun
  <2>4. SessionLineage'
    BY <2>1, <2>2 DEF SessionInv, SessionLineage
  <2>5. SessionsOfTopic'
    BY <2>1 DEF SessionInv, SessionsOfTopic
  <2>6. NoResurrection'
    <3>1. NoId \notin retired'
      BY <1>2, <2>1 DEF ResetStore
    <3> QED
      BY <2>1, <2>3, <3>1 DEF SessionInv, NoResurrection, SessionsOfTopic
  <2> QED
    BY <2>1, <2>2, <2>3, <2>4, <2>5, <2>6 DEF SessionInv
<1> QED
  BY <1>1, <1>2 DEF Resetting

LEMMA SessionInvInvariant == Spec => []SessionInv
<1>1. TypeInv /\ SessionInv /\ [Next]_vars => SessionInv'
  <2> SUFFICES ASSUME TypeInv, SessionInv, [Next]_vars PROVE SessionInv'
    OBVIOUS
  <2>1. CASE UNCHANGED vars
    BY <2>1, SameSessions
       DEF vars, handlerVars, streamVars, historyVars, Executing, NotBegun
  <2>2. ASSUME NEW t \in Turn, Handler(t) \/ Process(t) PROVE SessionInv'
    BY <2>2, StartKeepsSessions, ReadKeepsSessions,
       OtherHandlerStepsKeepSessions DEF Handler
  <2> QED
    BY <2>1, <2>2, ResettingKeepsSessions, CommandKeepsSessions DEF Next
<1> QED
  BY <1>1, SessionInit, TypeCorrect, PTL DEF Spec, TypeInv

(* While a turn executes, its topic holds the session it resumed: the read of *)
(* resolve_session and the write of _persist_response are one transaction.    *)
THEOREM LineageHolds == Spec => []SessionLineage
  BY SessionInvInvariant, PTL DEF SessionInv

(* No session discarded by /new is ever stored again, although reset_session  *)
(* aborts the running turn before, and not while, it holds the turn lock.     *)
THEOREM DiscardedStaysDiscarded == Spec => []NoResurrection
  BY SessionInvInvariant, PTL DEF SessionInv

(* A topic only ever holds ids of its own turns.                              *)
THEOREM TopicsKeepApart == Spec => []SessionsOfTopic
  BY SessionInvInvariant, PTL DEF SessionInv

-----------------------------------------------------------------------------
(* The gateway implements TopicTurns.                                         *)

LEMMA PhaseValue ==
  ASSUME NEW t \in Turn
  PROVE  /\ phase[t] = "over" <=> pc[t] = "done"
         /\ phase[t] = "active" <=> Executing(t)
         /\ phase[t] = "idle" <=> pc[t] # "done" /\ ~Executing(t)
  BY DEF phase, Executing, ExecutePc

LEMMA SamePhase ==
  ASSUME \A u \in Turn : /\ Executing(u)' <=> Executing(u)
                         /\ pc'[u] = "done" <=> pc[u] = "done"
  PROVE  UNCHANGED phase
  BY DEF phase, Executing

(* A key whose lock someone who is not an executing turn holds is free.       *)
LEMMA HolderFrees ==
  ASSUME TypeInv, NEW x \in Task, HoldsLock(x),
         x \in Turn => ~Executing(x)
  PROVE  Topics!Free(KeyOf[x])
  BY OneHolder, TurnsAreTasks, PhaseValue DEF TypeInv, LockOwned, Topics!Free

LEMMA ConcludeIsFinish ==
  ASSUME TypeInv, SessionInv, NEW t \in Turn, Executing(t), NEW out,
         Conclude(t, out), Persist(t) \/ UNCHANGED sessions, UNCHANGED resume
  PROVE  Topics!Finish(t)
<1> USE TurnsAreTasks
<1>1. phase[t] = "active" /\ phase' = [phase EXCEPT ![t] = "over"]
  <2>1. pc' = [pc EXCEPT ![t] = "done"] /\ pc \in [Task -> {"new", "aborting", "waiting", "done"} \union ExecutePc]
    BY DEF Conclude, TypeInv, TypeOK
  <2> QED
    BY <2>1 DEF phase, Executing, ExecutePc
<1>2. seen[t] \in {NoId, t, resume[t]} /\ resume[t] = sessions[KeyOf[t]]
  BY DEF SessionInv, SessionLineage
<1>3. sessions \in [Key -> SessionId] /\ KeyOf[t] \in Key
  BY DEF TypeInv, TypeOK
<1>4. \E id \in {resume[t], t} : sessions' = [sessions EXCEPT ![KeyOf[t]] = id]
  <2>1. CASE UNCHANGED sessions \/ seen[t] = NoId
    <3>1. sessions' = [sessions EXCEPT ![KeyOf[t]] = resume[t]]
      BY <1>2, <1>3, <2>1 DEF Persist
    <3> QED
      BY <3>1
  <2>2. CASE Persist(t) /\ seen[t] # NoId
    BY <1>2, <2>2 DEF Persist
  <2> QED
    BY <2>1, <2>2
<1> QED
  BY <1>1, <1>4 DEF Topics!Finish

LEMMA StartImplements ==
  ASSUME TypeInv, NEW t \in Turn, Start(t)
  PROVE  Topics!Start(t) \/ Topics!Refuse(t)
<1> USE TurnsAreTasks
<1>1. phase[t] = "idle" /\ Topics!Free(KeyOf[t])
  BY HolderFrees DEF Start, Begin, BeginFails, phase, Executing, ExecutePc
<1>2. resume' = [resume EXCEPT ![t] = sessions[KeyOf[t]]] /\ UNCHANGED sessions
  BY DEF Start, Begin, BeginFails
<1>3. phase' \in {[phase EXCEPT ![t] = "active"], [phase EXCEPT ![t] = "over"]}
  <2>1. pc \in [Task -> {"new", "aborting", "waiting", "done"} \union ExecutePc]
    BY DEF TypeInv, TypeOK
  <2>2. CASE Begin(t)
    BY <2>1, <2>2 DEF Begin, phase, Executing, ExecutePc
  <2>3. CASE BeginFails(t)
    BY <2>1, <2>3 DEF BeginFails, Conclude, phase, Executing, ExecutePc
  <2> QED
    BY <2>2, <2>3 DEF Start
<1> QED
  BY <1>1, <1>2, <1>3
     DEF Topics!Start, Topics!Refuse, Topics!TakeSession

LEMMA ResettingImplements ==
  ASSUME TypeInv, NEW r \in Reset, Resetting(r)
  PROVE  \/ Topics!Fresh(KeyOf[r])
         \/ UNCHANGED <<sessions, phase, resume>>
<1> USE TurnsAreTasks
<1>1. UNCHANGED phase
  <2>1. r \notin Turn /\ pc \in [Task -> {"new", "aborting", "waiting", "done"} \union ExecutePc]
    BY DEF TypeInv, TypeOK
  <2>2. \A u \in Turn : pc'[u] = pc[u]
    BY <2>1 DEF Resetting, ResetAbort, ResetKilled, ResetStore
  <2> QED
    BY <2>2, SamePhase DEF Executing
<1>2. CASE ResetStore(r)
  <2>1. Topics!Free(KeyOf[r])
    BY <1>2, HolderFrees DEF ResetStore
  <2> QED
    BY <1>1, <1>2, <2>1 DEF ResetStore, Topics!Fresh, streamVars
<1>3. CASE ResetAbort(r) \/ ResetKilled(r)
  BY <1>1, <1>3 DEF ResetAbort, ResetKilled, streamVars
<1> QED
  BY <1>2, <1>3 DEF Resetting

LEMMA StepImplements ==
  ASSUME TypeInv, SessionInv, NEW t \in Turn, Handler(t) \/ Process(t)
  PROVE  \/ Topics!Start(t) \/ Topics!Refuse(t) \/ Topics!Finish(t)
         \/ UNCHANGED <<sessions, phase, resume>>
<1> USE TurnsAreTasks
<1>1. CASE Start(t)
  BY <1>1, StartImplements
<1>2. CASE SpawnFails(t) \/ CallbackRaises(t) \/ DeadlineInCallback(t)
  BY <1>2, ConcludeIsFinish
     DEF SpawnFails, CallbackRaises, DeadlineInCallback, Executing, ExecutePc
<1>3. CASE ReadAborted(t) \/ StreamFails(t) \/ Reaped(t) \/ TimeoutEnds(t)
  BY <1>3, ConcludeIsFinish
     DEF ReadAborted, StreamFails, Reaped, TimeoutEnds, Answer, Executing,
         ExecutePc
<1>4. CASE TimeoutEvent(t) /\ Aborted(t)
  BY <1>4, ConcludeIsFinish DEF TimeoutEvent, Answer, Executing, ExecutePc
<1>5. CASE Arrive(t) \/ Spawned(t) \/ ReadCallbackEvent(t) \/ ReadEof(t)
           \/ CallbackReturns(t)
  BY <1>5, SamePhase
     DEF Arrive, Spawned, ReadCallbackEvent, ReadEof, ReadLine,
         CallbackReturns, Executing, ExecutePc, TypeInv, TypeOK, streamVars
<1>6. CASE DeadlineInRead(t) \/ Drained(t) \/ (TimeoutEvent(t) /\ ~Aborted(t))
  BY <1>6, SamePhase
     DEF DeadlineInRead, Drained, TimeoutEvent, Executing, ExecutePc, TypeInv,
         TypeOK, streamVars
<1>7. CASE ReadSessionId(t) \/ ReadOther(t) \/ FinalizeGenerator(t) \/ Process(t)
  BY <1>7, SamePhase
     DEF ReadSessionId, ReadOther, FinalizeGenerator, Process, Write,
         CloseStdout, Exit, Executing, handlerVars, streamVars
<1> QED
  BY <1>1, <1>2, <1>3, <1>4, <1>5, <1>6, <1>7
     DEF Handler, Read, Spawn, Callback, Deadline, Ending

(* Seen from a topic, all the code does is run its turns one after the other, *)
(* each from the session its predecessor left: every step of the gateway is   *)
(* a step of TopicTurns or leaves the topics alone.                           *)
THEOREM GatewayImplementsTopicTurns == Spec => ImplementsTopicTurns
<1>1. Init => Topics!Init
  BY TurnsAreTasks DEF Init, Topics!Init, phase, Executing, ExecutePc
<1>2. TypeInv /\ SessionInv /\ [Next]_vars => [Topics!Next]_(Topics!vars)
  <2> SUFFICES ASSUME TypeInv, SessionInv, [Next]_vars
               PROVE  Topics!Next \/ UNCHANGED <<sessions, phase, resume>>
    BY DEF Topics!vars
  <2>1. CASE UNCHANGED vars
    BY <2>1, SamePhase DEF vars, handlerVars, streamVars, Executing
  <2>2. CASE Command
    BY <2>2, SamePhase
       DEF Command, Stop, StopAll, Interrupt, handlerVars, streamVars, Executing
  <2>3. ASSUME NEW t \in Turn, Handler(t) \/ Process(t)
        PROVE  Topics!Next \/ UNCHANGED <<sessions, phase, resume>>
    BY <2>3, StepImplements DEF Topics!Next
  <2>4. ASSUME NEW r \in Reset, Resetting(r)
        PROVE  Topics!Next \/ UNCHANGED <<sessions, phase, resume>>
    BY <2>4, ResettingImplements, TurnsAreTasks DEF Topics!Next
  <2> QED
    BY <2>1, <2>2, <2>3, <2>4 DEF Next
<1> QED
  BY <1>1, <1>2, TypeCorrect, SessionInvInvariant, PTL
     DEF Spec, TypeInv, ImplementsTopicTurns, Topics!Spec

-----------------------------------------------------------------------------
(* Aborts.  Between Begin and the step that ends a turn the flag of its topic *)
(* means "this turn was aborted": it is down at Begin, an abort that finds    *)
(* the turn's process raises it, and nobody else can clear it, because only   *)
(* the holder of the turn lock clears flags.                                  *)

AbortInv ==
    /\ SilenceIsAsked
    /\ StoppedStaysSilent
    /\ ReachableByAbort
    /\ \A t \in Turn : Executing(t) /\ Aborted(t) => t \in asked
    /\ \A t \in hit : ~NotBegun(t) /\ (Executing(t) => Aborted(t))
    /\ \A t \in registered : /\ ~NotBegun(t)
                             /\ pc[t] \notin {"spawning", "reaping"}
                             /\ outcome[t] \notin {"text", "timed_out"}
    /\ \A t \in Turn : pc[t] # "done" => outcome[t] = "none"
    /\ \A t \in Turn : pc[t] = "spawning" => seen[t] = NoId

LEMMA AbortInit == Init => AbortInv
  BY TurnsAreTasks
     DEF Init, AbortInv, SilenceIsAsked, StoppedStaysSilent, ReachableByAbort,
         Executing, ExecutePc, NotBegun, Live

LEMMA StartKeepsAborts ==
  ASSUME TypeInv, SessionInv, AbortInv, NEW t \in Turn, Start(t)
  PROVE  AbortInv'
<1> USE TurnsAreTasks
<1>1. \A u \in Turn : Executing(u) => KeyOf[u] # KeyOf[t]
  BY OneHolder
     DEF Start, Begin, BeginFails, Executing, ExecutePc, TypeInv, LockOwned
<1>2. CASE Begin(t)
  BY <1>1, <1>2
     DEF Begin, ClearTopicAbort, AbortInv, SessionInv, SilenceIsAsked,
         StoppedStaysSilent, ReachableByAbort, Executing, ExecutePc, NotBegun,
         Live, Aborted, TypeInv, TypeOK, historyVars
<1>3. CASE BeginFails(t)
  BY <1>1, <1>3
     DEF BeginFails, Conclude, ClearTopicAbort, AbortInv, SilenceIsAsked,
         StoppedStaysSilent, ReachableByAbort, Executing, ExecutePc, NotBegun,
         Live, Aborted, TypeInv, TypeOK, historyVars
<1> QED
  BY <1>2, <1>3 DEF Start

(* The last step of an executing turn, whatever its outcome.                  *)
LEMMA ConcludeKeepsAborts ==
  ASSUME TypeInv, AbortInv, NEW t \in Turn, Executing(t), NEW out \in Outcomes,
         Conclude(t, out),
         out = "silent" => Aborted(t),
         out \in {"text", "timed_out"} => ~Aborted(t) /\ t \notin registered',
         Unregister(t) \/ UNCHANGED registered,
         UNCHANGED <<seen, proc, doomed, asked, hit>>
  PROVE  AbortInv'
<1> USE TurnsAreTasks
<1>1. /\ pc' = [pc EXCEPT ![t] = "done"]
      /\ outcome' = [outcome EXCEPT ![t] = out]
      /\ abortedTopics' = abortedTopics \ {KeyOf[t]}
  BY DEF Conclude, ClearTopicAbort
<1>2. \A u \in Turn : Executing(u) /\ u # t => KeyOf[u] # KeyOf[t]
  BY OneHolder DEF TypeInv, LockOwned
<1>3. \A u \in Turn : /\ u # t => pc'[u] = pc[u] /\ outcome'[u] = outcome[u]
                      /\ Live(u)' <=> Live(u)
  BY <1>1 DEF TypeInv, TypeOK, Live
<1>4. pc'[t] = "done" /\ outcome'[t] = out /\ registered' \subseteq registered
  BY <1>1 DEF TypeInv, TypeOK, Unregister
<1>5. \A u \in Turn : u # t => (u \in registered' <=> u \in registered)
  BY DEF Unregister
<1>6. SilenceIsAsked'
  BY <1>3, <1>4 DEF AbortInv, SilenceIsAsked
<1>7. StoppedStaysSilent'
  BY <1>3, <1>4 DEF AbortInv, StoppedStaysSilent, TypeInv, TypeOK
<1>8. ReachableByAbort'
  BY <1>3, <1>4, <1>5 DEF AbortInv, ReachableByAbort
<1>9. \A u \in Turn : Executing(u)' => /\ u # t /\ Executing(u)
                                       /\ Aborted(u)' <=> Aborted(u)
  BY <1>1, <1>2, <1>3, <1>4 DEF Executing, ExecutePc, Aborted
<1>10. \A u \in registered' : /\ ~NotBegun(u)'
                              /\ pc'[u] \notin {"spawning", "reaping"}
                              /\ outcome'[u] \notin {"text", "timed_out"}
  BY <1>3, <1>4 DEF AbortInv, NotBegun, TypeInv, TypeOK
<1>11. \A u \in hit' : ~NotBegun(u)' /\ (Executing(u)' => Aborted(u)')
  BY <1>3, <1>4, <1>9 DEF AbortInv, NotBegun, TypeInv, TypeOK
<1> QED
  BY <1>3, <1>4, <1>5, <1>6, <1>7, <1>8, <1>9, <1>10, <1>11
     DEF AbortInv, NotBegun

LEMMA ReadKeepsAborts ==
  ASSUME TypeInv, AbortInv, NEW t \in Turn, Read(t)
  PROVE  AbortInv'
<1> USE TurnsAreTasks
<1>1. CASE ReadAborted(t)
  BY <1>1, ConcludeKeepsAborts
     DEF ReadAborted, Answer, Blank, Outcomes, Executing, ExecutePc, historyVars
<1>2. CASE ReadSessionId(t)
  BY <1>2
     DEF ReadSessionId, ReadLine, handlerVars, registryVars, historyVars, AbortInv, SilenceIsAsked, StoppedStaysSilent,
         ReachableByAbort, Executing, ExecutePc, NotBegun, Live, Aborted,
         TypeInv, TypeOK
<1>3. CASE ReadCallbackEvent(t)
  BY <1>3
     DEF ReadCallbackEvent, ReadLine, registryVars, historyVars, AbortInv, SilenceIsAsked, StoppedStaysSilent,
         ReachableByAbort, Executing, ExecutePc, NotBegun, Live, Aborted,
         TypeInv, TypeOK
<1>4. CASE ReadOther(t)
  BY <1>4
     DEF ReadOther, ReadLine, handlerVars, registryVars, historyVars, AbortInv, SilenceIsAsked, StoppedStaysSilent,
         ReachableByAbort, Executing, ExecutePc, NotBegun, Live, Aborted,
         TypeInv, TypeOK
<1>5. CASE StreamFails(t)
  BY <1>5, ConcludeKeepsAborts
     DEF StreamFails, Outcomes, Executing, ExecutePc, historyVars
<1>6. CASE ReadEof(t)
  BY <1>6
     DEF ReadEof, registryVars, streamVars, historyVars, AbortInv, SilenceIsAsked, StoppedStaysSilent,
         ReachableByAbort, Executing, ExecutePc, NotBegun, Live, Aborted,
         TypeInv, TypeOK
<1> QED
  BY <1>1, <1>2, <1>3, <1>4, <1>5, <1>6 DEF Read

LEMMA OtherHandlerStepsKeepAborts ==
  ASSUME TypeInv, AbortInv, NEW t \in Turn,
         \/ Arrive(t) \/ Spawn(t) \/ Callback(t) \/ Deadline(t) \/ Ending(t)
         \/ FinalizeGenerator(t) \/ Process(t)
  PROVE  AbortInv'
<1> USE TurnsAreTasks
<1>1. CASE Arrive(t)
  BY <1>1
     DEF Arrive, registryVars, streamVars, historyVars, AbortInv, SilenceIsAsked, StoppedStaysSilent,
         ReachableByAbort, Executing, ExecutePc, NotBegun, Live, Aborted,
         TypeInv, TypeOK
<1>2. CASE Spawned(t)
  <2>1. /\ pc[t] = "spawning" /\ pc' = [pc EXCEPT ![t] = "streaming"]
        /\ registered' = registered \union {t}
        /\ proc' = [proc EXCEPT ![t] = "running"]
        /\ UNCHANGED <<abortedTopics, outcome, seen, asked, hit, doomed>>
    BY <1>2 DEF Spawned, streamVars, historyVars
  <2>2. SilenceIsAsked' /\ StoppedStaysSilent' /\ ReachableByAbort'
    BY <2>1
       DEF AbortInv, SilenceIsAsked, StoppedStaysSilent, ReachableByAbort, Live,
           TypeInv, TypeOK
  <2>3. outcome[t] = "none"
    BY <2>1 DEF AbortInv
  <2> QED
    BY <2>1, <2>2, <2>3
       DEF AbortInv, Executing, ExecutePc, NotBegun, Aborted, TypeInv, TypeOK
<1>3. CASE SpawnFails(t)
  BY <1>3, ConcludeKeepsAborts
     DEF SpawnFails, Outcomes, Executing, ExecutePc, historyVars
<1>4. CASE CallbackReturns(t)
  BY <1>4
     DEF CallbackReturns, registryVars, streamVars, historyVars, AbortInv, SilenceIsAsked, StoppedStaysSilent,
         ReachableByAbort, Executing, ExecutePc, NotBegun, Live, Aborted,
         TypeInv, TypeOK
<1>5. CASE CallbackRaises(t)
  BY <1>5, ConcludeKeepsAborts
     DEF CallbackRaises, Outcomes, Executing, ExecutePc, historyVars
<1>6. CASE DeadlineInRead(t)
  BY <1>6
     DEF DeadlineInRead, Doom, registryVars, streamVars, historyVars, AbortInv, SilenceIsAsked, StoppedStaysSilent,
         ReachableByAbort, Executing, ExecutePc, NotBegun, Live, Aborted,
         TypeInv, TypeOK
<1>7. CASE DeadlineInCallback(t)
  BY <1>7, ConcludeKeepsAborts
     DEF DeadlineInCallback, Outcomes, Executing, ExecutePc, historyVars
<1>8. CASE Drained(t)
  BY <1>8
     DEF Drained, Unregister, streamVars, historyVars, AbortInv, SilenceIsAsked, StoppedStaysSilent,
         ReachableByAbort, Executing, ExecutePc, NotBegun, Live, Aborted,
         TypeInv, TypeOK
<1>9. CASE Reaped(t)
  <2>1. t \notin registered
    BY <1>9 DEF Reaped, AbortInv
  <2> QED
    BY <1>9, <2>1, ConcludeKeepsAborts
       DEF Reaped, Answer, Blank, Outcomes, Executing, ExecutePc, historyVars
<1>10. CASE TimeoutEvent(t) /\ Aborted(t)
  BY <1>10, ConcludeKeepsAborts
     DEF TimeoutEvent, Answer, Blank, Outcomes, Executing, ExecutePc, historyVars
<1>11. CASE TimeoutEvent(t) /\ ~Aborted(t)
  BY <1>11
     DEF TimeoutEvent, streamVars, historyVars, AbortInv, SilenceIsAsked,
         StoppedStaysSilent, ReachableByAbort, Executing, ExecutePc, NotBegun,
         Live, Aborted, TypeInv, TypeOK
<1>12. CASE TimeoutEnds(t)
  BY <1>12, ConcludeKeepsAborts
     DEF TimeoutEnds, Answer, Blank, Unregister, Outcomes, Executing, ExecutePc, historyVars
<1>13. CASE FinalizeGenerator(t)
  BY <1>13
     DEF FinalizeGenerator, Unregister, handlerVars, streamVars, historyVars, AbortInv, SilenceIsAsked, StoppedStaysSilent,
         ReachableByAbort, Executing, ExecutePc, NotBegun, Live, Aborted,
         TypeInv, TypeOK
<1>14. CASE Write(t)
  BY <1>14
     DEF Write, handlerVars, registryVars, historyVars, AbortInv, SilenceIsAsked, StoppedStaysSilent,
         ReachableByAbort, Executing, ExecutePc, NotBegun, Live, Aborted,
         TypeInv, TypeOK
<1>15. CASE CloseStdout(t)
  BY <1>15
     DEF CloseStdout, handlerVars, registryVars, streamVars, historyVars, AbortInv, SilenceIsAsked, StoppedStaysSilent,
         ReachableByAbort, Executing, ExecutePc, NotBegun, Live, Aborted,
         TypeInv, TypeOK
<1>16. CASE Exit(t)
  BY <1>16
     DEF Exit, handlerVars, registryVars, streamVars, historyVars, AbortInv, SilenceIsAsked, StoppedStaysSilent,
         ReachableByAbort, Executing, ExecutePc, NotBegun, Live, Aborted,
         TypeInv, TypeOK
<1> QED
  BY <1>1, <1>2, <1>3, <1>4, <1>5, <1>6, <1>7, <1>8, <1>9, <1>10, <1>11, <1>12,
     <1>13, <1>14, <1>15, <1>16
     DEF Spawn, Callback, Deadline, Ending, Process

(* An abort of some topics that finds `targets` in the registry.              *)
LEMMA KillKeepsAborts ==
  ASSUME TypeInv, AbortInv, NEW targets \in SUBSET registered, NEW keys,
         \A t \in targets : KeyOf[t] \in keys,
         Kill(targets), Asked(keys), UNCHANGED <<proc, seen, outcome>>,
         \A u \in Turn : pc'[u] = pc[u]
  PROVE  AbortInv'
  BY TurnsAreTasks
     DEF Kill, Flag, Unlist, Doom, Asked, AbortInv, SilenceIsAsked,
         StoppedStaysSilent, ReachableByAbort, Executing, NotBegun, Live,
         Aborted, TypeInv, TypeOK

LEMMA CommandKeepsAborts ==
  ASSUME TypeInv, AbortInv, Command
  PROVE  AbortInv'
<1> USE TurnsAreTasks
<1>1. ASSUME NEW k \in Key, Stop(k) PROVE AbortInv'
  BY <1>1, KillKeepsAborts DEF Stop, InTopic, handlerVars, streamVars
<1>2. CASE StopAll
  <2>1. \A t \in registered : KeyOf[t] \in Key
    BY DEF TypeInv, TypeOK
  <2> QED
    BY <1>2, <2>1, KillKeepsAborts DEF StopAll, handlerVars, streamVars
<1>3. ASSUME NEW c \in Chat, Interrupt(c) PROVE AbortInv'
  BY <1>3
     DEF Interrupt, Flag, Asked, AbortInv, SilenceIsAsked, StoppedStaysSilent,
         ReachableByAbort, Executing, NotBegun, Live, Aborted, TypeInv, TypeOK,
         handlerVars, streamVars
<1> QED
  BY <1>1, <1>2, <1>3 DEF Command

LEMMA ResettingKeepsAborts ==
  ASSUME TypeInv, AbortInv, NEW r \in Reset, Resetting(r)
  PROVE  AbortInv'
<1> USE TurnsAreTasks
<1>1. \A u \in Turn : pc'[u] = pc[u]
  BY DEF Resetting, ResetAbort, ResetKilled, ResetStore, TypeInv, TypeOK
<1>2. CASE ResetAbort(r)
  BY <1>1, <1>2, KillKeepsAborts DEF ResetAbort, InTopic, streamVars
<1>3. CASE ResetKilled(r) \/ ResetStore(r)
  BY <1>1, <1>3
     DEF ResetKilled, ResetStore, AbortInv, SilenceIsAsked, StoppedStaysSilent,
         ReachableByAbort, Executing, NotBegun, Live, Aborted, TypeInv, TypeOK,
         registryVars, streamVars, historyVars
<1> QED
  BY <1>2, <1>3 DEF Resetting

LEMMA AbortInvInvariant == Spec => []AbortInv
<1>1. TypeInv /\ SessionInv /\ AbortInv /\ [Next]_vars => AbortInv'
  <2> SUFFICES ASSUME TypeInv, SessionInv, AbortInv, [Next]_vars
               PROVE  AbortInv'
    OBVIOUS
  <2>1. CASE UNCHANGED vars
    BY <2>1
       DEF vars, handlerVars, registryVars, streamVars, historyVars, AbortInv,
           SilenceIsAsked, StoppedStaysSilent, ReachableByAbort, Executing,
           NotBegun, Live, Aborted
  <2>2. ASSUME NEW t \in Turn, Handler(t) \/ Process(t) PROVE AbortInv'
    BY <2>2, StartKeepsAborts, ReadKeepsAborts, OtherHandlerStepsKeepAborts
       DEF Handler
  <2> QED
    BY <2>1, <2>2, ResettingKeepsAborts, CommandKeepsAborts DEF Next
<1> QED
  BY <1>1, AbortInit, TypeCorrect, SessionInvInvariant, PTL DEF Spec, TypeInv

(* No answer is blanked by a flag that an earlier turn, another topic or an   *)
(* abort before the turn's Begin left behind.                                 *)
THEOREM OnlyAskedSilence == Spec => []SilenceIsAsked
  BY AbortInvInvariant, PTL DEF AbortInv

(* A turn whose process was targeted by /stop, /stop_all, /interrupt or /new  *)
(* never answers and never reports a timeout.                                 *)
THEOREM StoppedNeverAnswers == Spec => []StoppedStaysSilent
  BY AbortInvInvariant, PTL DEF AbortInv

(* Whatever a turn is reading from can be killed by /stop, or is being killed.*)
THEOREM ReadersCanBeStopped == Spec => []ReachableByAbort
  BY AbortInvInvariant, PTL DEF AbortInv

-----------------------------------------------------------------------------
(* The session id a process announced.                                        *)

LEMMA EndStores ==
  ASSUME TypeInv, SessionInv, AbortInv, NEW t \in Turn, NEW u \in Turn,
         Handler(u) \/ Process(u),
         outcome[t] = "none", seen[t] # NoId,
         outcome'[t] \in {"text", "silent", "failed", "timed_out"}
  PROVE  sessions'[KeyOf[t]] = seen[t]
<1> USE TurnsAreTasks
<1>1. u = t
  BY DEF Handler, Process, Arrive, Start, Begin, BeginFails, Spawn, Spawned,
         SpawnFails, Read, ReadAborted, ReadSessionId, ReadCallbackEvent,
         ReadOther, ReadLine, StreamFails, ReadEof, Callback, CallbackReturns,
         CallbackRaises, Deadline, DeadlineInRead, DeadlineInCallback, Ending,
         Drained, Reaped, TimeoutEvent, TimeoutEnds, FinalizeGenerator, Write,
         CloseStdout, Exit, Answer, Conclude, handlerVars, TypeInv, TypeOK
<1>2. Persist(t)
  <2>1. ~Start(t) /\ ~SpawnFails(t)
    BY DEF Start, Begin, BeginFails, SpawnFails, SessionInv, AbortInv, NotBegun
  <2>2. ~CallbackRaises(t) /\ ~DeadlineInCallback(t)
    BY DEF CallbackRaises, DeadlineInCallback, Conclude, TypeInv, TypeOK
  <2> QED
    BY <1>1, <2>1, <2>2
       DEF Handler, Process, Arrive, Spawn, Spawned, Read, ReadAborted,
           ReadSessionId, ReadCallbackEvent, ReadOther, StreamFails, ReadEof,
           Callback, CallbackReturns, Deadline, DeadlineInRead, Ending, Drained,
           Reaped, TimeoutEvent, TimeoutEnds, FinalizeGenerator, Write,
           CloseStdout, Exit, Answer, handlerVars
<1> QED
  BY <1>2 DEF Persist, TypeInv, TypeOK

(* A turn that ends in an answer, a timeout report, a failure or the silence  *)
(* of an abort leaves the id its process announced in the store.              *)
THEOREM AnnouncedIdIsStored == Spec => ObservedIdKept
<1> DEFINE Kept == \A t \in Turn :
                     /\ outcome[t] = "none"
                     /\ outcome'[t] \in {"text", "silent", "failed", "timed_out"}
                     /\ seen[t] # NoId
                     => sessions'[KeyOf[t]] = seen[t]
<1>1. TypeInv /\ SessionInv /\ AbortInv /\ [Next]_vars => [Kept]_vars
  <2> SUFFICES ASSUME TypeInv, SessionInv, AbortInv, Next PROVE Kept
    OBVIOUS
  <2>1. CASE \E u \in Turn : Handler(u) \/ Process(u)
    BY <2>1, EndStores
  <2>2. CASE Command \/ \E r \in Reset : Resetting(r)
    BY <2>2
       DEF Command, Stop, StopAll, Interrupt, Resetting, ResetAbort,
           ResetKilled, ResetStore, handlerVars
  <2> QED
    BY <2>1, <2>2 DEF Next
<1> QED
  BY <1>1, TypeCorrect, SessionInvInvariant, AbortInvInvariant, PTL
     DEF Spec, TypeInv, ObservedIdKept

(* The sessions of every topic form one chain of its own turns.              *)
THEOREM SessionsAreChains == Spec => []SessionsChain
  BY TypeCorrect, LineageHolds, TopicsKeepApart, PTL DEF SessionsChain

(* Only a turn that was asked to is silent, and a stopped one never answers. *)
THEOREM SilenceIsExact == Spec => []SilencedOnRequest
  BY OnlyAskedSilence, StoppedNeverAnswers, PTL DEF SilencedOnRequest

-----------------------------------------------------------------------------
(* StreamOutcome, for every number of lines.  Its folds go over the events   *)
(* of one line, two at most: what they come to is read off their recursion.  *)

LEMMA SmallSets ==
  /\ Max({1}) = 1 /\ Max({2}) = 2 /\ Max({1, 2}) = 2
  /\ {1} \ {1} = {} /\ {2} \ {2} = {} /\ {1, 2} \ {2} = {1}
  /\ {1} # {} /\ {2} # {} /\ {1, 2} # {}
  /\ {1} # {2} /\ {1, 2} # {1} /\ {1, 2} # {2}
  /\ \A S \in SUBSET {1} : S = {} \/ S = {1}
  /\ \A S \in SUBSET {1, 2} : S = {} \/ S = {1} \/ S = {2} \/ S = {1, 2}
<1>1. Max({1}) = 1 /\ Max({2}) = 2
  BY DEF Max
<1>2. Max({1, 2}) = 2
  <2>1. \A x, y \in {1, 2} : x >= y <=> (x = 2 \/ y = 1)
    OBVIOUS
  <2>2. QED
    BY <2>1 DEF Max
<1>3. {1} \ {1} = {} /\ {2} \ {2} = {} /\ {1, 2} \ {2} = {1}
  OBVIOUS
<1>4. {1} # {} /\ {2} # {} /\ {1, 2} # {} /\ {1} # {2} /\ {1, 2} # {1} /\ {1, 2} # {2}
  OBVIOUS
<1>5. \A S \in SUBSET {1} : S = {} \/ S = {1}
  OBVIOUS
<1>6. \A S \in SUBSET {1, 2} : S = {} \/ S = {1} \/ S = {2} \/ S = {1, 2}
  OBVIOUS
<1>7. QED
  BY <1>1, <1>2, <1>3, <1>4, <1>5, <1>6

LEMMA SmallSeqs ==
  ASSUME NEW e, NEW f
  PROVE  /\ DOMAIN <<e>> = {1} /\ <<e>>[1] = e
         /\ DOMAIN <<e, f>> = {1, 2} /\ <<e, f>>[1] = e /\ <<e, f>>[2] = f
<1>1. DOMAIN <<e>> = {1}
  OBVIOUS
<1>2. DOMAIN <<e, f>> = {1, 2}
  OBVIOUS
<1>3. QED
  BY <1>1, <1>2

(* What execute has heard after the events of a line.                        *)
AllHeard(acc, events) == FoldLeft(Heard, acc, events)

LEMMA HeardFold ==
  ASSUME NEW acc
  PROVE  /\ AllHeard(acc, << >>) = acc
         /\ \A e : AllHeard(acc, <<e>>) = Heard(acc, e)
         /\ \A e, f, seq : seq = <<e, f>> => AllHeard(acc, seq) = Heard(Heard(acc, e), f)
<1> DEFINE Step(seq, g, S) == IF S = {} THEN acc ELSE Heard(g[S \ {Max(S)}], seq[Max(S)])
           Fold(seq, g) == g = [S \in SUBSET DOMAIN seq |-> Step(seq, g, S)]
<1>1. ASSUME NEW seq, NEW h, h = [S \in SUBSET DOMAIN seq |-> h[S]],
             \A S \in SUBSET DOMAIN seq : h[S] = Step(seq, h, S)
      PROVE  \E g : /\ \A S \in SUBSET DOMAIN seq : g[S] = Step(seq, g, S)
                    /\ AllHeard(acc, seq) = g[DOMAIN seq]
  <2> DEFINE g == CHOOSE g : Fold(seq, g)
  <2>1. AllHeard(acc, seq) = g[DOMAIN seq]
    BY DEF AllHeard, FoldLeft, MapThenFoldSet
  <2> HIDE DEF Step
  <2>2. Fold(seq, h)
    BY <1>1
  <2>3. Fold(seq, g)
    <3> HIDE DEF Fold
    <3>1. QED
      BY <2>2
  <2> HIDE DEF g
  <2>4. QED
    BY <2>1, <2>3
<1>2. ASSUME NEW e PROVE AllHeard(acc, <<e>>) = Heard(acc, e)
  <2>1. DOMAIN <<e>> = {1} /\ <<e>>[1] = e
    BY SmallSeqs
  <2>2. Max({1}) = 1 /\ {1} \ {1} = {} /\ {1} # {} /\ \A S \in SUBSET {1} : S = {} \/ S = {1}
    BY SmallSets
  <2>3. ASSUME NEW g PROVE Step(<<e>>, g, {}) = acc /\ Step(<<e>>, g, {1}) = Heard(g[{}], e)
    <3>1. {1} \ {Max({1})} = {} /\ <<e>>[Max({1})] = e
      BY <2>1, <2>2
    <3>2. Heard(g[{1} \ {Max({1})}], <<e>>[Max({1})]) = Heard(g[{}], e)
      BY <3>1
    <3>3. QED
      BY <2>2, <3>2, Zenon
  <2> DEFINE h == [S \in SUBSET DOMAIN <<e>> |-> IF S = {} THEN acc ELSE Heard(acc, e)]
  <2>4. h[{}] = acc /\ h[{1}] = Heard(acc, e) /\ h = [S \in SUBSET DOMAIN <<e>> |-> h[S]]
    BY <2>1, <2>2
  <2> HIDE DEF h, Step
  <2>5. \A S \in SUBSET DOMAIN <<e>> : h[S] = Step(<<e>>, h, S)
    <3>1. h[{}] = Step(<<e>>, h, {}) /\ h[{1}] = Step(<<e>>, h, {1})
      BY <2>3, <2>4
    <3>2. QED
      BY <2>1, <2>2, <3>1
  <2>6. PICK g : /\ \A S \in SUBSET DOMAIN <<e>> : g[S] = Step(<<e>>, g, S)
                 /\ AllHeard(acc, <<e>>) = g[DOMAIN <<e>>]
    BY <1>1, <2>4, <2>5
  <2>7. g[{}] = acc /\ g[{1}] = Heard(g[{}], e)
    BY <2>1, <2>3, <2>6
  <2>8. QED
    BY <2>1, <2>6, <2>7
<1>3. ASSUME NEW e, NEW f PROVE AllHeard(acc, <<e, f>>) = Heard(Heard(acc, e), f)
  <2>1. DOMAIN <<e, f>> = {1, 2} /\ <<e, f>>[1] = e /\ <<e, f>>[2] = f
    BY SmallSeqs
  <2>2. /\ Max({1}) = 1 /\ Max({2}) = 2 /\ Max({1, 2}) = 2
        /\ {1} \ {1} = {} /\ {2} \ {2} = {} /\ {1, 2} \ {2} = {1}
        /\ {1} # {} /\ {2} # {} /\ {1, 2} # {} /\ {1} # {2} /\ {1, 2} # {1} /\ {1, 2} # {2}
        /\ \A S \in SUBSET {1, 2} : S = {} \/ S = {1} \/ S = {2} \/ S = {1, 2}
    BY SmallSets
  <2>3. ASSUME NEW g
        PROVE  /\ Step(<<e, f>>, g, {}) = acc /\ Step(<<e, f>>, g, {1}) = Heard(g[{}], e)
               /\ Step(<<e, f>>, g, {2}) = Heard(g[{}], f)
               /\ Step(<<e, f>>, g, {1, 2}) = Heard(g[{1}], f)
    <3>1. /\ {1} \ {Max({1})} = {} /\ <<e, f>>[Max({1})] = e
          /\ {2} \ {Max({2})} = {} /\ <<e, f>>[Max({2})] = f
          /\ {1, 2} \ {Max({1, 2})} = {1} /\ <<e, f>>[Max({1, 2})] = f
      BY <2>1, <2>2
    <3>2. /\ Heard(g[{1} \ {Max({1})}], <<e, f>>[Max({1})]) = Heard(g[{}], e)
          /\ Heard(g[{2} \ {Max({2})}], <<e, f>>[Max({2})]) = Heard(g[{}], f)
          /\ Heard(g[{1, 2} \ {Max({1, 2})}], <<e, f>>[Max({1, 2})]) = Heard(g[{1}], f)
      BY <3>1
    <3>3. QED
      BY <2>2, <3>2, Zenon
  <2> DEFINE h == [S \in SUBSET DOMAIN <<e, f>> |->
                     IF S = {} THEN acc ELSE IF S = {1} THEN Heard(acc, e)
                     ELSE IF S = {2} THEN Heard(acc, f) ELSE Heard(Heard(acc, e), f)]
  <2>4. /\ h[{}] = acc /\ h[{1}] = Heard(acc, e) /\ h[{2}] = Heard(acc, f)
        /\ h[{1, 2}] = Heard(Heard(acc, e), f) /\ h = [S \in SUBSET DOMAIN <<e, f>> |-> h[S]]
    BY <2>1, <2>2
  <2> HIDE DEF h, Step
  <2>5. \A S \in SUBSET DOMAIN <<e, f>> : h[S] = Step(<<e, f>>, h, S)
    BY <2>1, <2>2, <2>3, <2>4
  <2>6. PICK g : /\ \A S \in SUBSET DOMAIN <<e, f>> : g[S] = Step(<<e, f>>, g, S)
                 /\ AllHeard(acc, <<e, f>>) = g[DOMAIN <<e, f>>]
    BY <1>1, <2>4, <2>5
  <2>7. g[{}] = acc /\ g[{1}] = Heard(g[{}], e) /\ g[{1, 2}] = Heard(g[{1}], f)
    BY <2>1, <2>3, <2>6
  <2>8. QED
    BY <2>1, <2>6, <2>7
<1>4. AllHeard(acc, << >>) = acc
  <2> DEFINE h == [S \in SUBSET DOMAIN << >> |-> acc]
  <2>1. \A S \in SUBSET DOMAIN << >> : S = {}
    OBVIOUS
  <2>2. h = [S \in SUBSET DOMAIN << >> |-> h[S]] /\ \A S \in SUBSET DOMAIN << >> : h[S] = Step(<< >>, h, S)
    BY <2>1
  <2> HIDE DEF h, Step
  <2>3. PICK g : /\ \A S \in SUBSET DOMAIN << >> : g[S] = Step(<< >>, g, S)
                 /\ AllHeard(acc, << >>) = g[DOMAIN << >>]
    BY <1>1, <2>2
  <2>4. g[{}] = acc
    BY <2>3 DEF Step
  <2>5. QED
    BY <2>1, <2>3, <2>4
<1>5. QED
  BY <1>2, <1>3, <1>4

(* What CodexCLI has tracked after an event, and what the filter passes on.  *)
LEMMA TrackFold ==
  ASSUME NEW t
  PROVE  \A e : FoldLeft(Track, t, <<e>>) = Track(t, e)
<1> DEFINE Step(seq, g, S) == IF S = {} THEN t ELSE Track(g[S \ {Max(S)}], seq[Max(S)])
           Fold(seq, g) == g = [S \in SUBSET DOMAIN seq |-> Step(seq, g, S)]
<1>1. ASSUME NEW seq, NEW h, h = [S \in SUBSET DOMAIN seq |-> h[S]],
             \A S \in SUBSET DOMAIN seq : h[S] = Step(seq, h, S)
      PROVE  \E g : /\ \A S \in SUBSET DOMAIN seq : g[S] = Step(seq, g, S)
                    /\ FoldLeft(Track, t, seq) = g[DOMAIN seq]
  <2> DEFINE g == CHOOSE g : Fold(seq, g)
  <2>1. FoldLeft(Track, t, seq) = g[DOMAIN seq]
    BY DEF FoldLeft, MapThenFoldSet
  <2> HIDE DEF Step
  <2>2. Fold(seq, h)
    BY <1>1
  <2>3. Fold(seq, g)
    <3> HIDE DEF Fold
    <3>1. QED
      BY <2>2
  <2> HIDE DEF g
  <2>4. QED
    BY <2>1, <2>3
<1>2. ASSUME NEW e PROVE FoldLeft(Track, t, <<e>>) = Track(t, e)
  <2>1. DOMAIN <<e>> = {1} /\ <<e>>[1] = e
    BY SmallSeqs
  <2>2. Max({1}) = 1 /\ {1} \ {1} = {} /\ {1} # {} /\ \A S \in SUBSET {1} : S = {} \/ S = {1}
    BY SmallSets
  <2>3. ASSUME NEW g PROVE Step(<<e>>, g, {}) = t /\ Step(<<e>>, g, {1}) = Track(g[{}], e)
    <3>1. {1} \ {Max({1})} = {} /\ <<e>>[Max({1})] = e
      BY <2>1, <2>2
    <3>2. Track(g[{1} \ {Max({1})}], <<e>>[Max({1})]) = Track(g[{}], e)
      BY <3>1
    <3>3. QED
      BY <2>2, <3>2, Zenon
  <2> DEFINE h == [S \in SUBSET DOMAIN <<e>> |-> IF S = {} THEN t ELSE Track(t, e)]
  <2>4. h[{}] = t /\ h[{1}] = Track(t, e) /\ h = [S \in SUBSET DOMAIN <<e>> |-> h[S]]
    BY <2>1, <2>2
  <2> HIDE DEF h, Step
  <2>5. \A S \in SUBSET DOMAIN <<e>> : h[S] = Step(<<e>>, h, S)
    <3>1. h[{}] = Step(<<e>>, h, {}) /\ h[{1}] = Step(<<e>>, h, {1})
      BY <2>3, <2>4
    <3>2. QED
      BY <2>1, <2>2, <3>1
  <2>6. PICK g : /\ \A S \in SUBSET DOMAIN <<e>> : g[S] = Step(<<e>>, g, S)
                 /\ FoldLeft(Track, t, <<e>>) = g[DOMAIN <<e>>]
    BY <1>1, <2>4, <2>5
  <2>7. g[{}] = t /\ g[{1}] = Track(g[{}], e)
    BY <2>1, <2>3, <2>6
  <2>8. QED
    BY <2>1, <2>6, <2>7
<1>3. QED
  BY <1>2

LEMMA FilterFold ==
  ASSUME NEW state
  PROVE  \A e : FoldLeft(Filter, state, <<e>>) = Filter(state, e)
<1> DEFINE Step(seq, g, S) == IF S = {} THEN state ELSE Filter(g[S \ {Max(S)}], seq[Max(S)])
           Fold(seq, g) == g = [S \in SUBSET DOMAIN seq |-> Step(seq, g, S)]
<1>1. ASSUME NEW seq, NEW h, h = [S \in SUBSET DOMAIN seq |-> h[S]],
             \A S \in SUBSET DOMAIN seq : h[S] = Step(seq, h, S)
      PROVE  \E g : /\ \A S \in SUBSET DOMAIN seq : g[S] = Step(seq, g, S)
                    /\ FoldLeft(Filter, state, seq) = g[DOMAIN seq]
  <2> DEFINE g == CHOOSE g : Fold(seq, g)
  <2>1. FoldLeft(Filter, state, seq) = g[DOMAIN seq]
    BY DEF FoldLeft, MapThenFoldSet
  <2> HIDE DEF Step
  <2>2. Fold(seq, h)
    BY <1>1
  <2>3. Fold(seq, g)
    <3> HIDE DEF Fold
    <3>1. QED
      BY <2>2
  <2> HIDE DEF g
  <2>4. QED
    BY <2>1, <2>3
<1>2. ASSUME NEW e PROVE FoldLeft(Filter, state, <<e>>) = Filter(state, e)
  <2>1. DOMAIN <<e>> = {1} /\ <<e>>[1] = e
    BY SmallSeqs
  <2>2. Max({1}) = 1 /\ {1} \ {1} = {} /\ {1} # {} /\ \A S \in SUBSET {1} : S = {} \/ S = {1}
    BY SmallSets
  <2>3. ASSUME NEW g PROVE Step(<<e>>, g, {}) = state /\ Step(<<e>>, g, {1}) = Filter(g[{}], e)
    <3>1. {1} \ {Max({1})} = {} /\ <<e>>[Max({1})] = e
      BY <2>1, <2>2
    <3>2. Filter(g[{1} \ {Max({1})}], <<e>>[Max({1})]) = Filter(g[{}], e)
      BY <3>1
    <3>3. QED
      BY <2>2, <3>2, Zenon
  <2> DEFINE h == [S \in SUBSET DOMAIN <<e>> |-> IF S = {} THEN state ELSE Filter(state, e)]
  <2>4. h[{}] = state /\ h[{1}] = Filter(state, e) /\ h = [S \in SUBSET DOMAIN <<e>> |-> h[S]]
    BY <2>1, <2>2
  <2> HIDE DEF h, Step
  <2>5. \A S \in SUBSET DOMAIN <<e>> : h[S] = Step(<<e>>, h, S)
    <3>1. h[{}] = Step(<<e>>, h, {}) /\ h[{1}] = Step(<<e>>, h, {1})
      BY <2>3, <2>4
    <3>2. QED
      BY <2>1, <2>2, <3>1
  <2>6. PICK g : /\ \A S \in SUBSET DOMAIN <<e>> : g[S] = Step(<<e>>, g, S)
                 /\ FoldLeft(Filter, state, <<e>>) = g[DOMAIN <<e>>]
    BY <1>1, <2>4, <2>5
  <2>7. g[{}] = state /\ g[{1}] = Filter(g[{}], e)
    BY <2>1, <2>3, <2>6
  <2>8. QED
    BY <2>1, <2>6, <2>7
<1>3. QED
  BY <1>2

-----------------------------------------------------------------------------
(* What a line says, by its kind.                                            *)

CodexKinds == {"thread", "status", "progress", "tool", "message", "completed"}
Announces(l) == l.kind \in {"thread", "init", "result"} /\ l.id

(* At most one activity comes of a line.                                     *)
Activity(l) ==
    \/ l.kind = "assistant" /\ l.blocks # <<"text">>
    \/ l.kind \in ActivityKinds

Shown == [kind : ActivityKinds, n : Nat, id : {0}, result : {None}]

ResultOf(l, n) == IF l.kind = "result" THEN Result("text", OrEmpty(l, n), l.error)
                  ELSE IF l.kind = "completed" THEN Result("text", << >>, FALSE)
                  ELSE result

(* What the events of a line leave, for both providers.                      *)
Leaves(l, n) ==
    /\ session' = (IF Announces(l) THEN n ELSE session)
    /\ result' = ResultOf(l, n)
    /\ \/ ~Activity(l) /\ shown' = shown
       \/ Activity(l) /\ \E e \in Shown : e.n = n /\ shown' = Append(shown, e)

LEMMA ConsumeNone ==
  ASSUME Consume(<< >>)
  PROVE  session' = session /\ result' = result /\ shown' = shown
<1> DEFINE acc == [session |-> session, result |-> result, shown |-> shown]
<1>1. AllHeard(acc, << >>) = acc
  BY HeardFold
<1> DEFINE all == AllHeard(acc, << >>)
<1>2. session' = all.session /\ result' = all.result /\ shown' = all.shown
  BY DEF Consume, AllHeard
<1>3. QED
  <2> HIDE DEF all
  <2>1. all = acc
    BY <1>1 DEF all
  <2>2. QED
    BY <1>2, <2>1

LEMMA ConsumeOne ==
  ASSUME NEW kind, NEW n, NEW id, NEW res, Consume(<<Event(kind, n, id, res)>>)
  PROVE  /\ session' = IF kind \in {"init", "result"} THEN Known(id, session) ELSE session
         /\ result' = IF kind = "result" THEN res ELSE result
         /\ shown' = IF kind \in ActivityKinds THEN Append(shown, Event(kind, n, id, res)) ELSE shown
<1> DEFINE acc == [session |-> session, result |-> result, shown |-> shown]
           e == Event(kind, n, id, res)
<1>1. AllHeard(acc, <<e>>) = Heard(acc, e)
  BY HeardFold
<1>2. e.kind = kind /\ e.id = id /\ e.result = res
  BY DEF Event
<1> HIDE DEF e
<1>3. Consume(<<e>>)
  BY DEF e
<1>4. /\ Heard(acc, e).session = IF kind \in {"init", "result"} THEN Known(id, session) ELSE session
      /\ Heard(acc, e).result = IF kind = "result" THEN res ELSE result
      /\ Heard(acc, e).shown = IF kind \in ActivityKinds THEN Append(shown, e) ELSE shown
  BY <1>2 DEF Heard
<1>5. /\ session' = Heard(acc, e).session /\ result' = Heard(acc, e).result
      /\ shown' = Heard(acc, e).shown
  BY <1>1, <1>3 DEF Consume, AllHeard
<1>6. QED
  BY <1>4, <1>5 DEF e

(* A text before the call of a tool is not passed on.                        *)
LEMMA ConsumeTextTool ==
  ASSUME NEW n, Consume(<<Event("text", n, 0, None), Event("tool", n, 0, None)>>)
  PROVE  session' = session /\ result' = result /\ shown' = Append(shown, Event("tool", n, 0, None))
<1> DEFINE acc == [session |-> session, result |-> result, shown |-> shown]
           e == Event("text", n, 0, None)
           f == Event("tool", n, 0, None)
           all == AllHeard(acc, <<e, f>>)
<1>1. session' = all.session /\ result' = all.result /\ shown' = all.shown
  BY DEF Consume, AllHeard
<1>2. e.kind = "text" /\ f.kind = "tool"
  BY DEF Event
<1>3. all = Heard(Heard(acc, e), f)
  <2> HIDE DEF acc, e, f
  <2>1. PICK seq : seq = <<e, f>>
    OBVIOUS
  <2>2. AllHeard(acc, seq) = Heard(Heard(acc, e), f)
    BY <2>1, HeardFold
  <2>3. QED
    BY <2>1, <2>2
<1> HIDE DEF e, f
<1>4. Heard(acc, e) = acc
  BY <1>2 DEF Heard, ActivityKinds
<1>5. Heard(acc, f) = [session |-> session, result |-> result, shown |-> Append(shown, f)]
  BY <1>2 DEF Heard, ActivityKinds
<1> HIDE DEF all
<1>6. all = [session |-> session, result |-> result, shown |-> Append(shown, f)]
  BY <1>3, <1>4, <1>5
<1>7. QED
  BY <1>1, <1>6 DEF f

-----------------------------------------------------------------------------
(* The filter holds nothing back over the end of a line, and of one event    *)
(* makes that event.                                                         *)
LEMMA FilterPasses ==
  ASSUME NEW e, NEW state, state = [held |-> << >>, out |-> << >>]
  PROVE  Flush(Filter(state, e)) = <<e>>
<1>1. state.held = << >> /\ state.out = << >>
  OBVIOUS
<1>2. Append(<< >>, e) = <<e>> /\ << >> \o <<e>> = <<e>> /\ << >> \o << >> = << >> /\ <<e>> \o << >> = <<e>>
  OBVIOUS
<1> SUFFICES \/ Filter(state, e).out = << >> /\ Filter(state, e).held = <<e>>
             \/ Filter(state, e).out = <<e>> /\ Filter(state, e).held = << >>
  BY <1>2, Zenon DEF Flush
<1>3. CASE e.kind = "text"
  <2>1. Filter(state, e) = [held |-> Append(<< >>, e), out |-> << >>]
    BY <1>3 DEF Filter
  <2>2. Filter(state, e).held = Append(<< >>, e) /\ Filter(state, e).out = << >>
    BY <2>1
  <2>3. QED
    BY <1>2, <2>2, Zenon
<1>4. CASE e.kind \in {"tool", "thinking"}
  <2>1. Filter(state, e) = [held |-> << >>, out |-> Append(<< >>, e)]
    <3>1. CASE e.kind = "tool"
      BY <3>1 DEF Filter
    <3>2. CASE e.kind = "thinking"
      BY <3>2 DEF Filter
    <3>3. QED
      BY <1>4, <3>1, <3>2
  <2>2. Filter(state, e).held = << >> /\ Filter(state, e).out = Append(<< >>, e)
    BY <2>1
  <2>3. QED
    BY <1>2, <2>2, Zenon
<1>5. CASE e.kind \notin {"text", "tool", "thinking"}
  <2>1. Filter(state, e) = [held |-> << >>, out |-> (<< >> \o << >>) \o <<e>>]
    BY <1>1, <1>5 DEF Filter
  <2>2. Filter(state, e).held = << >> /\ Filter(state, e).out = (<< >> \o << >>) \o <<e>>
    BY <2>1
  <2>3. (<< >> \o << >>) \o <<e>> = <<e>>
    BY <1>2, Zenon
  <2>4. QED
    BY <2>2, <2>3, Zenon
<1>6. QED
  BY <1>3, <1>4, <1>5

(* A line of the bridge.                                                     *)
KindOf(l) == IF l.kind = "thread" THEN "init" ELSE IF l.kind = "message" THEN "text"
             ELSE IF l.kind = "completed" THEN "result" ELSE l.kind
EventOf(l, n) == Event(KindOf(l), n, IF l.kind = "thread" THEN n ELSE 0,
                       IF l.kind = "completed" THEN Result("text", << >>, FALSE) ELSE None)

LEMMA CodexOneEvent ==
  ASSUME NEW l, NEW n
  PROVE  CodexEvents(l, n) = <<EventOf(l, n)>>
<1>1. CASE l.kind = "thread"
  BY <1>1 DEF CodexEvents, EventOf, KindOf
<1>2. CASE l.kind = "message"
  BY <1>2 DEF CodexEvents, EventOf, KindOf
<1>3. CASE l.kind = "completed"
  BY <1>3 DEF CodexEvents, EventOf, KindOf
<1>4. CASE l.kind \notin {"thread", "message", "completed"}
  BY <1>4 DEF CodexEvents, EventOf, KindOf
<1>5. QED
  BY <1>1, <1>2, <1>3, <1>4

LEMMA CodexPasses ==
  ASSUME NEW l, NEW n, provider = "codex", buffered = << >>
  PROVE  Flush(Filtered(l, n)) = <<EventOf(l, n)>>
<1>1. PICK e : e = EventOf(l, n)
  OBVIOUS
<1>2. PICK state : state = [held |-> << >>, out |-> << >>]
  OBVIOUS
<1>3. Filtered(l, n) = FoldLeft(Filter, [held |-> << >>, out |-> << >>], CodexEvents(l, n))
  BY DEF Filtered
<1>4. CodexEvents(l, n) = <<e>>
  BY <1>1, CodexOneEvent
<1>5. Filtered(l, n) = FoldLeft(Filter, state, <<e>>)
  BY <1>2, <1>3, <1>4
<1>6. Filtered(l, n) = Filter(state, e)
  BY <1>5, FilterFold
<1>7. QED
  BY <1>1, <1>2, <1>6, FilterPasses

-----------------------------------------------------------------------------
(* One line, of either provider.                                             *)
Tracks(l, n) ==
    IF provider # "codex" THEN tracked' = tracked
    ELSE IF l.kind = "thread" THEN tracked' = [tracked EXCEPT !.thread = n]
    ELSE IF l.kind = "message" THEN tracked' = [tracked EXCEPT !.text = Append(tracked.text, n)]
    ELSE tracked' = tracked

LEMMA CodexLine ==
  ASSUME provider = "codex", buffered = << >>, NEW l, l.kind \in CodexKinds, l.id = TRUE,
         NEW n \in Nat \ {0}, Consume(Flush(Filtered(l, n))),
         tracked' = FoldLeft(Track, tracked, Flush(Filtered(l, n)))
  PROVE  Leaves(l, n) /\ Tracks(l, n)
<1> DEFINE id == IF l.kind = "thread" THEN n ELSE 0
           res == IF l.kind = "completed" THEN Result("text", << >>, FALSE) ELSE None
           e == Event(KindOf(l), n, id, res)
<1>1. Flush(Filtered(l, n)) = <<e>>
  BY CodexPasses DEF EventOf
<1>2. Consume(<<e>>)
  BY <1>1
<1>3. /\ session' = IF KindOf(l) \in {"init", "result"} THEN Known(id, session) ELSE session
      /\ result' = IF KindOf(l) = "result" THEN res ELSE result
      /\ shown' = IF KindOf(l) \in ActivityKinds THEN Append(shown, e) ELSE shown
  BY <1>2, ConsumeOne
<1>4. Tracks(l, n)
  <2>1. PICK f : f = e
    OBVIOUS
  <2>2. f.kind = KindOf(l) /\ f.n = n /\ f.id = id
    BY <2>1 DEF Event
  <2>3. tracked' = FoldLeft(Track, tracked, <<f>>)
    BY <1>1, <2>1
  <2>4. tracked' = Track(tracked, f)
    BY <2>3, TrackFold
  <2>5. CASE l.kind = "thread"
    BY <2>2, <2>4, <2>5 DEF Track, Tracks, KindOf
  <2>6. CASE l.kind = "message"
    BY <2>2, <2>4, <2>6 DEF Track, Tracks, KindOf
  <2>7. CASE l.kind \notin {"thread", "message"}
    BY <2>2, <2>4, <2>7 DEF Track, Tracks, KindOf, CodexKinds
  <2>8. QED
    BY <2>5, <2>6, <2>7
<1>5. CASE l.kind = "thread"
  BY <1>3, <1>4, <1>5 DEF KindOf, Leaves, Announces, Activity, ResultOf, Known, ActivityKinds
<1>6. CASE l.kind = "message"
  BY <1>3, <1>4, <1>6 DEF KindOf, Leaves, Announces, Activity, ResultOf, ActivityKinds
<1>7. CASE l.kind = "completed"
  BY <1>3, <1>4, <1>7 DEF KindOf, Leaves, Announces, Activity, ResultOf, Known, ActivityKinds
<1>8. CASE l.kind \in {"status", "progress", "tool"}
  <2>1. e \in Shown /\ e.n = n
    BY <1>8 DEF Event, Shown, KindOf, ActivityKinds
  <2>2. session' = session /\ result' = result /\ shown' = Append(shown, e)
    BY <1>3, <1>8 DEF KindOf, ActivityKinds
  <2>3. ~Announces(l) /\ ResultOf(l, n) = result /\ Activity(l)
    BY <1>8 DEF Announces, ResultOf, Activity, ActivityKinds
  <2>4. QED
    BY <1>4, <2>1, <2>2, <2>3 DEF Leaves
<1>9. QED
  BY <1>5, <1>6, <1>7, <1>8 DEF CodexKinds

(* The lines of Claude Code.                                                 *)
ClaudeLine(l) ==
    \/ \E k \in {"init", "junk", "status"} : l = Plain(k)
    \/ l \in AssistantLines
    \/ l \in ResultLines

LEMMA ClaudeLineLeaves ==
  ASSUME NEW l, ClaudeLine(l), NEW n \in Nat \ {0}, Consume(ClaudeEvents(l, n))
  PROVE  Leaves(l, n)
<1>1. CASE l = Plain("init")
  <2>1. l.kind = "init" /\ l.id = TRUE
    BY <1>1 DEF Plain
  <2>2. ClaudeEvents(l, n) = <<Event("init", n, n, None)>>
    BY <2>1 DEF ClaudeEvents
  <2>3. Consume(<<Event("init", n, n, None)>>)
    BY <2>2
  <2>4. session' = Known(n, session) /\ result' = result /\ shown' = shown
    BY <2>3, ConsumeOne DEF ActivityKinds
  <2>5. QED
    BY <2>1, <2>4 DEF Leaves, Announces, Activity, ResultOf, Known, ActivityKinds
<1>2. CASE l = Plain("junk")
  <2>1. l.kind = "junk"
    BY <1>2 DEF Plain
  <2>2. ClaudeEvents(l, n) = << >>
    BY <2>1 DEF ClaudeEvents
  <2>3. Consume(<< >>)
    BY <2>2
  <2>4. session' = session /\ result' = result /\ shown' = shown
    BY <2>3, ConsumeNone
  <2>5. QED
    BY <2>1, <2>4 DEF Leaves, Announces, Activity, ResultOf, ActivityKinds
<1>3. CASE l = Plain("status")
  <2>1. l.kind = "status"
    BY <1>3 DEF Plain
  <2>2. ClaudeEvents(l, n) = <<Event("status", n, 0, None)>>
    BY <2>1 DEF ClaudeEvents
  <2>3. Consume(<<Event("status", n, 0, None)>>)
    BY <2>2
  <2>4. session' = session /\ result' = result /\ shown' = Append(shown, Event("status", n, 0, None))
    BY <2>3, ConsumeOne DEF ActivityKinds
  <2>5. Event("status", n, 0, None) \in Shown /\ Event("status", n, 0, None).n = n
    BY DEF Event, Shown, ActivityKinds
  <2>6. ~Announces(l) /\ ResultOf(l, n) = result /\ Activity(l)
    BY <2>1 DEF Announces, ResultOf, Activity, ActivityKinds
  <2>7. QED
    BY <2>4, <2>5, <2>6 DEF Leaves
<1>4. CASE l \in AssistantLines
  <2> DEFINE b == l.blocks
  <2>1. l.kind = "assistant" /\ b \in Blocks
    BY <1>4 DEF AssistantLines
  <2> HIDE DEF b
  <2>2. ClaudeEvents(l, n) = [i \in DOMAIN b |-> Event(b[i], n, 0, None)]
    BY <2>1 DEF ClaudeEvents, b
  <2>3. ~Announces(l) /\ ResultOf(l, n) = result /\ (Activity(l) <=> b # <<"text">>)
    BY <2>1 DEF b, Announces, ResultOf, Activity, ActivityKinds
  <2>4. ASSUME NEW kind \in {"text", "tool", "thinking"}, b = <<kind>>
        PROVE  Leaves(l, n)
    <3>1. ClaudeEvents(l, n) = <<Event(kind, n, 0, None)>>
      <4>1. PICK e : e = Event(kind, n, 0, None)
        OBVIOUS
      <4>2. ClaudeEvents(l, n) = [i \in {1} |-> e]
        BY <2>2, <2>4, <4>1
      <4>3. <<e>> = [i \in {1} |-> e]
        OBVIOUS
      <4>4. QED
        BY <4>1, <4>2, <4>3
    <3>2. Consume(<<Event(kind, n, 0, None)>>)
      BY <3>1
    <3>3. /\ session' = session /\ result' = result
          /\ shown' = IF kind \in ActivityKinds THEN Append(shown, Event(kind, n, 0, None)) ELSE shown
      BY <3>2, ConsumeOne
    <3>4. CASE kind = "text"
      BY <2>3, <2>4, <3>3, <3>4 DEF Leaves, ActivityKinds
    <3>5. CASE kind # "text"
      <4>1. <<kind>> # <<"text">>
        BY <3>5
      <4>2. Event(kind, n, 0, None) \in Shown /\ Event(kind, n, 0, None).n = n
        BY <3>5 DEF Event, Shown, ActivityKinds
      <4>3. kind \in ActivityKinds
        BY <3>5 DEF ActivityKinds
      <4>4. QED
        BY <2>3, <2>4, <3>3, <4>1, <4>2, <4>3 DEF Leaves
    <3>6. QED
      BY <3>4, <3>5
  <2>5. CASE b = <<"text", "tool">>
    <3>1. ClaudeEvents(l, n) = <<Event("text", n, 0, None), Event("tool", n, 0, None)>>
      <4>1. PICK e, f : e = Event("text", n, 0, None) /\ f = Event("tool", n, 0, None)
        OBVIOUS
      <4>2. ClaudeEvents(l, n) = [i \in {1, 2} |-> IF i = 1 THEN e ELSE f]
        BY <2>2, <2>5, <4>1
      <4>3. <<e, f>> = [i \in {1, 2} |-> IF i = 1 THEN e ELSE f]
        OBVIOUS
      <4>4. QED
        BY <4>1, <4>2, <4>3
    <3>2. Consume(<<Event("text", n, 0, None), Event("tool", n, 0, None)>>)
      BY <3>1
    <3>3. session' = session /\ result' = result /\ shown' = Append(shown, Event("tool", n, 0, None))
      BY <3>2, ConsumeTextTool
    <3>4. Event("tool", n, 0, None) \in Shown /\ Event("tool", n, 0, None).n = n
      BY DEF Event, Shown, ActivityKinds
    <3>5. <<"text", "tool">> # <<"text">>
      OBVIOUS
    <3>6. QED
      BY <2>3, <2>5, <3>3, <3>4, <3>5 DEF Leaves
  <2>6. QED
    BY <2>1, <2>4, <2>5 DEF Blocks
<1>5. CASE l \in ResultLines
  <2>1. l.kind = "result" /\ l.id \in BOOLEAN
    BY <1>5 DEF ResultLines
  <2> DEFINE res == Result("text", OrEmpty(l, n), l.error)
             s == IF l.id THEN n ELSE 0
  <2>2. ClaudeEvents(l, n) = <<Event("result", n, s, res)>>
    BY <2>1 DEF ClaudeEvents
  <2>3. Consume(<<Event("result", n, s, res)>>)
    BY <2>2
  <2> HIDE DEF res
  <2>4. session' = Known(s, session) /\ result' = res /\ shown' = shown
    BY <2>3, ConsumeOne DEF ActivityKinds
  <2>5. ResultOf(l, n) = res
    BY <2>1 DEF ResultOf, res
  <2>6. QED
    BY <2>1, <2>4, <2>5 DEF Leaves, Announces, Activity, Known, ActivityKinds
<1>6. QED
  BY <1>1, <1>2, <1>3, <1>4, <1>5 DEF ClaudeLine

LEMMA ClaudeEventsSeq ==
  ASSUME NEW l, NEW n, ClaudeLine(l)
  PROVE  \E S : ClaudeEvents(l, n) \in Seq(S)
<1>1. ASSUME NEW k \in {"init", "junk", "status"}, l = Plain(k)
      PROVE  \E S : ClaudeEvents(l, n) \in Seq(S)
  <2>1. l.kind = k
    BY <1>1 DEF Plain
  <2>2. \E e : ClaudeEvents(l, n) = << >> \/ ClaudeEvents(l, n) = <<e>>
    BY <2>1 DEF ClaudeEvents
  <2>3. \A e : << >> \in Seq({e}) /\ <<e>> \in Seq({e})
    OBVIOUS
  <2>4. QED
    BY <2>2, <2>3
<1>2. CASE l \in AssistantLines
  <2> DEFINE b == l.blocks
  <2>1. ClaudeEvents(l, n) = [i \in DOMAIN b |-> Event(b[i], n, 0, None)]
    BY <1>2 DEF ClaudeEvents, AssistantLines
  <2>2. PICK m \in Nat : DOMAIN b = 1 .. m
    <3>1. b \in Blocks
      BY <1>2 DEF AssistantLines
    <3>2. CASE b = <<"text", "tool">>
      <4>1. DOMAIN b = 1 .. 2
        BY <3>2
      <4>2. QED
        BY <4>1
    <3>3. ASSUME NEW kind \in {"text", "tool", "thinking"}, b = <<kind>>
          PROVE  DOMAIN b = 1 .. 1
      BY <3>3
    <3>4. QED
      BY <3>1, <3>2, <3>3 DEF Blocks
  <2> HIDE DEF b
  <2> DEFINE S == {Event(b[i], n, 0, None) : i \in 1 .. m}
  <2>3. \A i \in 1 .. m : Event(b[i], n, 0, None) \in S
    OBVIOUS
  <2>4. ClaudeEvents(l, n) \in [1 .. m -> S]
    <3> HIDE DEF S
    <3>1. QED
      BY <2>1, <2>2, <2>3
  <2>5. ClaudeEvents(l, n) \in Seq(S)
    <3> HIDE DEF S
    <3>1. QED
      BY <2>4, SeqDef
  <2>6. QED
    BY <2>5
<1>3. CASE l \in ResultLines
  <2>1. \E e : ClaudeEvents(l, n) = <<e>>
    BY <1>3 DEF ClaudeEvents, ResultLines
  <2>2. \A e : <<e>> \in Seq({e})
    OBVIOUS
  <2>3. QED
    BY <2>1, <2>2
<1>4. QED
  BY <1>1, <1>2, <1>3 DEF ClaudeLine

-----------------------------------------------------------------------------
(* The inductive invariant of StreamOutcome.                                 *)

LineKinds == {"thread", "status", "progress", "tool", "message",
              "completed", "init", "junk", "assistant", "result"}
LineType == [kind : LineKinds, id : BOOLEAN, blocks : Blocks \union {<< >>},
             empty : BOOLEAN, error : BOOLEAN]

(* A codex process prints plain lines, a Claude process those of ClaudeLine; *)
(* the bridge prints the answer once, and the end of the turn after it;      *)
(* Claude Code prints one result.                                            *)
CodexLineOK(l) == l.kind \in CodexKinds /\ l.id /\ ~l.empty /\ ~l.error
Dialect ==
    /\ provider \in {"codex", "claude"}
    /\ lines \in Seq(LineType)
    /\ \A i \in DOMAIN lines : IF provider = "codex" THEN CodexLineOK(lines[i])
                               ELSE ClaudeLine(lines[i])
    /\ \A i, j \in Answering : i = j
    /\ (\E i \in DOMAIN lines : lines[i].kind = "completed") =>
          \E i \in DOMAIN lines : lines[i].kind = "message"

SessionLatest ==
    /\ session \in 0 .. Len(lines)
    /\ session # 0 => Announces(lines[session])
    /\ \A i \in DOMAIN lines : Announces(lines[i]) => i <= session

(* The tracker of the codex adapter has the thread and the answer.           *)
Tracked ==
    /\ buffered = << >>
    /\ tracked \in [text : Seq(Nat), thread : Nat]
    /\ IF provider = "codex"
         THEN /\ tracked.thread = session
              /\ \A i \in DOMAIN lines : lines[i].kind = "message" => tracked.text = <<i>>
              /\ tracked.text # << >> =>
                    \E i \in DOMAIN lines : lines[i].kind = "message" /\ tracked.text = <<i>>
         ELSE tracked.thread = 0 /\ tracked.text = << >>

(* The result of Claude Code is what its result line says, until the end of  *)
(* the stream; a result speaks of lines that were printed.                   *)
ResultSays(r) ==
    /\ r.of \in {"none", "text", "stderr", "no final response", "no response"}
    /\ \A i \in DOMAIN r.texts : r.texts[i] \in 1 .. Len(lines)
ResultKept ==
    /\ ResultSays(result) /\ ResultSays(response)
    /\ provider = "claude" /\ response = None =>
          \A i \in DOMAIN lines : lines[i].kind = "result" =>
             result = Result("text", OrEmpty(lines[i], i), lines[i].error)

(* One activity is shown for each line that has one, in the order of the     *)
(* lines.                                                                    *)
ShownOnce ==
    /\ shown \in Seq(Shown)
    /\ \A k \in DOMAIN shown : shown[k].n \in DOMAIN lines /\ Activity(lines[shown[k].n])
    /\ \A i \in DOMAIN lines : Activity(lines[i]) => \E k \in DOMAIN shown : shown[k].n = i
    /\ \A j, k \in DOMAIN shown : j < k => shown[j].n < shown[k].n

OutcomeInv ==
    Dialect /\ SessionLatest /\ Tracked /\ ResultKept /\ ShownOnce /\ CodexFailureTold

LEMMA BridgeLine ==
  ASSUME NEW l \in BridgeLines
  PROVE  /\ l \in LineType /\ CodexLineOK(l)
         /\ l.kind = "message" => "message" \notin Printed
         /\ l.kind = "completed" => "message" \in Printed
<1>1. \A k : /\ Plain(k).kind = k /\ Plain(k).id = TRUE /\ Plain(k).empty = FALSE
             /\ Plain(k).error = FALSE
             /\ k \in LineKinds => Plain(k) \in LineType
  BY DEF Plain, LineType
<1>2. PICK k \in CodexKinds : /\ l = Plain(k)
                              /\ k = "message" => "message" \notin Printed
                              /\ k = "completed" => "message" \in Printed
  <2>1. CASE lines = << >>
    BY <2>1 DEF BridgeLines, CodexKinds
  <2>2. CASE lines # << >> /\ "message" \in Printed
    <3>1. l = Plain("completed")
      BY <2>2 DEF BridgeLines
    <3>2. QED
      BY <2>2, <3>1 DEF CodexKinds
  <2>3. CASE lines # << >> /\ "message" \notin Printed
    <3>1. PICK k \in {"status", "progress", "tool", "message"} : l = Plain(k)
      BY <2>3 DEF BridgeLines
    <3>2. QED
      BY <2>3, <3>1 DEF CodexKinds
  <2>4. QED
    BY <2>1, <2>2, <2>3
<1>3. k \in LineKinds
  BY DEF CodexKinds, LineKinds
<1>4. l.kind = k /\ l.id = TRUE /\ l.empty = FALSE /\ l.error = FALSE /\ l \in LineType
  BY <1>1, <1>2, <1>3
<1>5. QED
  BY <1>2, <1>4 DEF CodexLineOK

LEMMA ClaudeLineMay ==
  ASSUME NEW l \in ClaudeLines
  PROVE  /\ l \in LineType /\ ClaudeLine(l)
         /\ l.kind = "result" => "result" \notin Printed
<1>1. CASE l \in {Plain("init"), Plain("junk"), Plain("status")}
  <2>1. PICK k \in {"init", "junk", "status"} : l = Plain(k)
    BY <1>1
  <2>2. l \in LineType /\ l.kind = k
    BY <2>1 DEF Plain, LineType, LineKinds
  <2>3. QED
    BY <2>1, <2>2 DEF ClaudeLine
<1>2. CASE l \in AssistantLines
  <2>1. l \in LineType /\ l.kind = "assistant"
    BY <1>2 DEF AssistantLines, LineType, LineKinds
  <2>2. QED
    BY <1>2, <2>1 DEF ClaudeLine
<1>3. CASE "result" \notin Printed /\ l \in ResultLines
  <2>1. l \in LineType
    BY <1>3 DEF ResultLines, LineType, LineKinds
  <2>2. QED
    BY <1>3, <2>1 DEF ClaudeLine
<1>4. QED
  BY <1>1, <1>2, <1>3 DEF ClaudeLines

(* What the loop of execute makes of the next line.                          *)
LineTaken(l) ==
    /\ lines' = Append(lines, l) /\ l \in LineType
    /\ IF provider = "codex" THEN l \in BridgeLines ELSE l \in ClaudeLines
    /\ Leaves(l, Len(lines) + 1) /\ Tracks(l, Len(lines) + 1)
    /\ buffered' = << >> /\ provider' = provider
    /\ response = None /\ response' = response

LEMMA TakeLineLeaves ==
  ASSUME Dialect, buffered = << >>, TakeLine
  PROVE  \E l : LineTaken(l)
<1> DEFINE n == Len(lines) + 1
<1>1. n \in Nat \ {0}
  BY DEF Dialect
<1>2. PICK l : /\ IF provider = "codex" THEN l \in BridgeLines ELSE l \in ClaudeLines
               /\ lines' = Append(lines, l)
               /\ tracked' = IF provider = "codex"
                               THEN FoldLeft(Track, tracked, Flush(Filtered(l, n)))
                               ELSE tracked
               /\ Consume(Flush(Filtered(l, n)))
               /\ buffered' = HeldAfter(Filtered(l, n))
  <2> HIDE DEF Dialect
  <2>1. PICK l \in (IF provider = "codex" THEN BridgeLines ELSE ClaudeLines) :
               LET state == Filtered(l, Len(lines) + 1)
                   events == Flush(state)
               IN /\ lines' = Append(lines, l)
                  /\ tracked' = IF provider = "codex" THEN FoldLeft(Track, tracked, events)
                                                      ELSE tracked
                  /\ Consume(events)
                  /\ buffered' = HeldAfter(state)
    BY Zenon DEF TakeLine
  <2>2. IF provider = "codex" THEN l \in BridgeLines ELSE l \in ClaudeLines
    BY <2>1
  <2>3. QED
    BY <2>1, <2>2, Zenon
<1>3. buffered' = << >> /\ provider' = provider /\ response = None /\ response' = response
  BY <1>2 DEF TakeLine, HeldAfter
<1> HIDE DEF n
<1>4. CASE provider = "codex"
  <2>1. l \in BridgeLines
    BY <1>2, <1>4
  <2>2. l \in LineType /\ CodexLineOK(l)
    BY <2>1, BridgeLine
  <2>3. tracked' = FoldLeft(Track, tracked, Flush(Filtered(l, n)))
    BY <1>2, <1>4, Zenon
  <2>4. Leaves(l, n) /\ Tracks(l, n)
    <3>1. l.kind \in CodexKinds /\ l.id = TRUE
      BY <2>2 DEF CodexLineOK, LineType
    <3>2. QED
      BY <1>1, <1>2, <1>4, <2>3, <3>1, CodexLine, Zenon
  <2>5. QED
    BY <1>2, <1>3, <1>4, <2>1, <2>2, <2>4 DEF LineTaken, n
<1>5. CASE provider # "codex"
  <2>1. l \in ClaudeLines
    BY <1>2, <1>5
  <2>2. l \in LineType /\ ClaudeLine(l)
    BY <2>1, ClaudeLineMay
  <2>3. Flush(Filtered(l, n)) = ClaudeEvents(l, n)
    <3>1. Filtered(l, n) = [held |-> << >>, out |-> ClaudeEvents(l, n)]
      BY <1>5 DEF Filtered
    <3>2. PICK S : ClaudeEvents(l, n) \in Seq(S)
      BY <2>2, ClaudeEventsSeq
    <3>3. ClaudeEvents(l, n) \o << >> = ClaudeEvents(l, n)
      BY <3>2
    <3>4. Flush(Filtered(l, n)) = ClaudeEvents(l, n) \o << >>
      BY <3>1 DEF Flush
    <3>5. QED
      BY <3>3, <3>4
  <2>4. tracked' = tracked
    BY <1>2, <1>5, Zenon
  <2>5. Leaves(l, n)
    <3>1. Consume(ClaudeEvents(l, n))
      BY <1>2, <2>3
    <3>2. QED
      BY <1>1, <2>2, <3>1, ClaudeLineLeaves
  <2>6. QED
    BY <1>2, <1>3, <1>5, <2>1, <2>2, <2>4, <2>5 DEF LineTaken, Tracks, n
<1>6. QED
  BY <1>4, <1>5

-----------------------------------------------------------------------------
(* A line keeps the invariant, part by part.                                 *)

LEMMA OneLineMore ==
  ASSUME lines \in Seq(LineType), NEW l, LineTaken(l)
  PROVE  /\ Len(lines) \in Nat /\ Len(lines') = Len(lines) + 1 /\ lines' \in Seq(LineType)
         /\ DOMAIN lines = 1 .. Len(lines) /\ DOMAIN lines' = 1 .. Len(lines) + 1
         /\ DOMAIN lines' = DOMAIN lines \union {Len(lines) + 1}
         /\ Len(lines) + 1 \notin DOMAIN lines
         /\ \A i \in DOMAIN lines : lines'[i] = lines[i]
         /\ lines'[Len(lines) + 1] = l
<1>1. lines' = Append(lines, l) /\ l \in LineType
  BY DEF LineTaken
<1> HIDE DEF LineTaken
<1>2. QED
  BY <1>1

LEMMA ClaudeKinds ==
  ASSUME NEW l, ClaudeLine(l)
  PROVE  l.kind \in {"init", "junk", "status", "assistant", "result"}
<1>1. \A k : Plain(k).kind = k
  BY DEF Plain
<1>2. l \in AssistantLines => l.kind = "assistant"
  BY DEF AssistantLines
<1>3. l \in ResultLines => l.kind = "result"
  BY DEF ResultLines
<1>4. QED
  BY <1>1, <1>2, <1>3 DEF ClaudeLine

LEMMA LineSpoken ==
  ASSUME Dialect, NEW l, LineTaken(l)
  PROVE  /\ provider = "codex" => CodexLineOK(l)
         /\ provider # "codex" => ClaudeLine(l)
         /\ l.kind \in {"message", "result"} => Answering = {}
         /\ l.kind = "completed" => \E i \in DOMAIN lines : lines[i].kind = "message"
<1>1. CASE provider = "codex"
  <2>1. /\ CodexLineOK(l)
        /\ l.kind = "message" => "message" \notin Printed
        /\ l.kind = "completed" => "message" \in Printed
    BY <1>1, BridgeLine DEF LineTaken
  <2>2. l.kind # "result" /\ \A i \in DOMAIN lines : lines[i].kind # "result"
    BY <1>1, <2>1 DEF Dialect, CodexLineOK, CodexKinds
  <2>3. QED
    BY <1>1, <2>1, <2>2 DEF Answering, Printed
<1>2. CASE provider # "codex"
  <2>1. ClaudeLine(l) /\ (l.kind = "result" => "result" \notin Printed)
    BY <1>2, ClaudeLineMay DEF LineTaken
  <2>2. \A k : ClaudeLine(k) => k.kind \in {"init", "junk", "status", "assistant", "result"}
    BY ClaudeKinds
  <2>3. \A i \in DOMAIN lines : lines[i].kind # "message"
    BY <1>2, <2>2 DEF Dialect
  <2>4. l.kind \notin {"message", "completed"}
    BY <2>1, <2>2
  <2>5. l.kind \in {"message", "result"} => Answering = {}
    BY <2>1, <2>3, <2>4 DEF Answering, Printed
  <2>6. QED
    BY <1>2, <2>1, <2>4, <2>5
<1>3. QED
  BY <1>1, <1>2

LEMMA DialectKept ==
  ASSUME Dialect, NEW l, LineTaken(l)
  PROVE  Dialect'
<1>1. lines \in Seq(LineType)
  BY DEF Dialect
<1> DEFINE n == Len(lines) + 1
<1>2. /\ lines' \in Seq(LineType) /\ DOMAIN lines' = DOMAIN lines \union {n}
      /\ \A i \in DOMAIN lines : lines'[i] = lines[i]
      /\ lines'[n] = l
  BY <1>1, OneLineMore
<1> HIDE DEF n
<1>3. provider' = provider
  BY DEF LineTaken
<1>4. /\ provider = "codex" => CodexLineOK(l)
      /\ provider # "codex" => ClaudeLine(l)
      /\ l.kind \in {"message", "result"} => Answering = {}
      /\ l.kind = "completed" => \E i \in DOMAIN lines : lines[i].kind = "message"
  BY LineSpoken
<1>5. provider \in {"codex", "claude"}
  BY DEF Dialect
<1>6. \A i \in DOMAIN lines' : IF provider = "codex" THEN CodexLineOK(lines'[i])
                               ELSE ClaudeLine(lines'[i])
  <2>1. \A i \in DOMAIN lines : IF provider = "codex" THEN CodexLineOK(lines[i])
                                ELSE ClaudeLine(lines[i])
    BY DEF Dialect
  <2>2. QED
    BY <1>2, <1>4, <2>1
<1>7. \A i, j \in Answering' : i = j
  <2>1. \A i, j \in Answering : i = j
    BY DEF Dialect
  <2>2. Answering' \ {n} \subseteq Answering
    BY <1>2 DEF Answering
  <2>3. n \in Answering' => Answering = {}
    BY <1>2, <1>4 DEF Answering
  <2>4. QED
    BY <2>1, <2>2, <2>3
<1>8. (\E i \in DOMAIN lines' : lines'[i].kind = "completed") =>
         \E i \in DOMAIN lines' : lines'[i].kind = "message"
  <2>1. (\E i \in DOMAIN lines : lines[i].kind = "completed") =>
           \E i \in DOMAIN lines : lines[i].kind = "message"
    BY DEF Dialect
  <2>2. QED
    BY <1>2, <1>4, <2>1
<1>9. QED
  BY <1>2, <1>3, <1>5, <1>6, <1>7, <1>8 DEF Dialect

LEMMA SessionLatestKept ==
  ASSUME Dialect, SessionLatest, NEW l, LineTaken(l)
  PROVE  SessionLatest'
<1>1. lines \in Seq(LineType)
  BY DEF Dialect
<1> DEFINE n == Len(lines) + 1
<1>2. /\ Len(lines) \in Nat /\ Len(lines') = n
      /\ DOMAIN lines = 1 .. Len(lines) /\ DOMAIN lines' = DOMAIN lines \union {n}
      /\ \A i \in DOMAIN lines : lines'[i] = lines[i]
      /\ lines'[n] = l
  BY <1>1, OneLineMore
<1>3. session' = (IF Announces(l) THEN n ELSE session)
  BY DEF LineTaken, Leaves
<1>4. CASE Announces(l)
  <2>1. session' = n /\ n \in 0 .. Len(lines')
    BY <1>2, <1>3, <1>4
  <2>2. \A i \in DOMAIN lines' : i <= n
    BY <1>2
  <2>3. QED
    BY <1>2, <1>4, <2>1, <2>2 DEF SessionLatest
<1>5. CASE ~Announces(l)
  <2>1. session' = session /\ session \in 0 .. Len(lines') /\ (session # 0 => session \in DOMAIN lines)
    BY <1>2, <1>3, <1>5 DEF SessionLatest
  <2>2. session # 0 => Announces(lines'[session])
    BY <1>2, <2>1 DEF SessionLatest
  <2>3. ASSUME NEW i \in DOMAIN lines', Announces(lines'[i])
        PROVE  i <= session
    <3>1. i \in DOMAIN lines /\ Announces(lines[i])
      BY <1>2, <1>5, <2>3
    <3>2. QED
      BY <3>1 DEF SessionLatest
  <2>4. QED
    BY <2>1, <2>2, <2>3 DEF SessionLatest
<1>6. QED
  BY <1>4, <1>5

LEMMA TrackedKept ==
  ASSUME Dialect, Tracked, NEW l, LineTaken(l)
  PROVE  Tracked'
<1>1. lines \in Seq(LineType)
  BY DEF Dialect
<1> DEFINE n == Len(lines) + 1
<1>2. /\ Len(lines) \in Nat /\ DOMAIN lines' = DOMAIN lines \union {n} /\ n \notin DOMAIN lines
      /\ \A i \in DOMAIN lines : lines'[i] = lines[i]
      /\ lines'[n] = l
  BY <1>1, OneLineMore
<1>3. /\ session' = (IF Announces(l) THEN n ELSE session)
      /\ Tracks(l, n) /\ buffered' = << >> /\ provider' = provider
  BY DEF LineTaken, Leaves
<1>0. n \in Nat
  BY <1>2
<1> HIDE DEF n
<1>4. tracked \in [text : Seq(Nat), thread : Nat]
  BY DEF Tracked
<1>5. CASE provider # "codex"
  <2>1. tracked' = tracked /\ tracked.thread = 0 /\ tracked.text = << >>
    BY <1>3, <1>5 DEF Tracks, Tracked
  <2>2. QED
    BY <1>3, <1>4, <1>5, <2>1 DEF Tracked
<1>6. CASE provider = "codex"
  <2>1. CodexLineOK(l) /\ (l.kind = "message" => Answering = {})
    BY <1>6, LineSpoken
  <2>2. /\ tracked.thread = session
        /\ \A i \in DOMAIN lines : lines[i].kind = "message" => tracked.text = <<i>>
        /\ tracked.text # << >> => \E i \in DOMAIN lines : lines[i].kind = "message" /\ tracked.text = <<i>>
    BY <1>6 DEF Tracked
  <2>3. Announces(l) <=> l.kind = "thread"
    BY <2>1 DEF Announces, CodexLineOK, CodexKinds
  <2>4. CASE l.kind = "thread"
    <3>1. tracked' = [tracked EXCEPT !.thread = n] /\ session' = n
      BY <1>3, <1>6, <2>3, <2>4 DEF Tracks
    <3>2. /\ tracked'.thread = n /\ tracked'.text = tracked.text
          /\ tracked' \in [text : Seq(Nat), thread : Nat]
      BY <1>0, <1>4, <3>1
    <3>3. \A i \in DOMAIN lines' : lines'[i].kind = "message" => tracked'.text = <<i>>
      BY <1>2, <2>2, <2>4, <3>2
    <3>4. tracked'.text # << >> => \E i \in DOMAIN lines' : lines'[i].kind = "message" /\ tracked'.text = <<i>>
      BY <1>2, <2>2, <3>2
    <3>5. QED
      BY <1>3, <1>6, <3>1, <3>2, <3>3, <3>4 DEF Tracked
  <2>5. CASE l.kind = "message"
    <3>1. \A i \in DOMAIN lines : lines[i].kind # "message"
      BY <2>1, <2>5 DEF Answering
    <3>2. tracked.text = << >>
      BY <2>2, <3>1
    <3>3. tracked' = [tracked EXCEPT !.text = Append(tracked.text, n)] /\ session' = session
      BY <1>3, <1>6, <2>3, <2>5 DEF Tracks
    <3>4. Append(tracked.text, n) = <<n>>
      BY <3>2
    <3>5. tracked'.thread = tracked.thread /\ tracked'.text = <<n>>
      BY <1>4, <3>3, <3>4
    <3>6. tracked' \in [text : Seq(Nat), thread : Nat]
      <4>1. <<n>> \in Seq(Nat)
        BY <1>0
      <4>2. tracked' = [tracked EXCEPT !.text = <<n>>]
        BY <3>3, <3>4
      <4>3. QED
        BY <1>4, <4>1, <4>2
    <3>7. \A i \in DOMAIN lines' : lines'[i].kind = "message" => tracked'.text = <<i>>
      BY <1>2, <3>1, <3>5
    <3>8. \E i \in DOMAIN lines' : lines'[i].kind = "message" /\ tracked'.text = <<i>>
      BY <1>2, <2>5, <3>5
    <3>9. QED
      BY <1>3, <1>6, <2>2, <3>3, <3>5, <3>6, <3>7, <3>8 DEF Tracked
  <2>6. CASE l.kind \notin {"thread", "message"}
    <3>1. tracked' = tracked /\ session' = session
      BY <1>3, <1>6, <2>3, <2>6 DEF Tracks
    <3>2. \A i \in DOMAIN lines' : lines'[i].kind = "message" => tracked.text = <<i>>
      BY <1>2, <2>2, <2>6
    <3>3. tracked.text # << >> => \E i \in DOMAIN lines' : lines'[i].kind = "message" /\ tracked.text = <<i>>
      BY <1>2, <2>2
    <3>4. QED
      BY <1>3, <1>4, <1>6, <2>2, <3>1, <3>2, <3>3 DEF Tracked
  <2>7. QED
    BY <2>4, <2>5, <2>6
<1>7. QED
  BY <1>5, <1>6

LEMMA ResultKeptByLine ==
  ASSUME Dialect, ResultKept, NEW l, LineTaken(l)
  PROVE  ResultKept'
<1>1. lines \in Seq(LineType)
  BY DEF Dialect
<1> DEFINE n == Len(lines) + 1
<1>2. /\ Len(lines) \in Nat /\ Len(lines') = n
      /\ DOMAIN lines' = DOMAIN lines \union {n} /\ n \notin DOMAIN lines
      /\ \A i \in DOMAIN lines : lines'[i] = lines[i]
      /\ lines'[n] = l
  BY <1>1, OneLineMore
<1>3. \A m \in 1 .. Len(lines) : m \in 1 .. Len(lines')
  BY <1>2
<1>4. n \in 1 .. Len(lines')
  BY <1>2
<1>5. /\ result' = ResultOf(l, n) /\ response = None /\ response' = response /\ provider' = provider
  BY DEF LineTaken, Leaves
<1> HIDE DEF n
<1>6. ASSUME NEW r, ResultSays(r), NEW s, s = r
      PROVE  /\ s.of \in {"none", "text", "stderr", "no final response", "no response"}
             /\ \A i \in DOMAIN s.texts : s.texts[i] \in 1 .. Len(lines')
  BY <1>3, <1>6 DEF ResultSays
<1>7. ResultSays(response)'
  BY <1>5, <1>6 DEF ResultKept, ResultSays
<1>8. ResultSays(result)'
  <2>1. CASE l.kind = "result"
    <3>1. result' = Result("text", OrEmpty(l, n), l.error)
      BY <1>5, <2>1 DEF ResultOf
    <3>2. result'.of = "text" /\ result'.texts = OrEmpty(l, n)
      BY <3>1 DEF Result
    <3>3. \A i \in DOMAIN OrEmpty(l, n) : OrEmpty(l, n)[i] = n
      BY DEF OrEmpty
    <3>4. QED
      BY <1>4, <3>2, <3>3 DEF ResultSays
  <2>2. CASE l.kind = "completed"
    <3>1. result' = Result("text", << >>, FALSE)
      BY <1>5, <2>2 DEF ResultOf
    <3>2. result'.of = "text" /\ DOMAIN result'.texts = {}
      BY <3>1 DEF Result
    <3>3. QED
      BY <3>2 DEF ResultSays
  <2>3. CASE l.kind \notin {"result", "completed"}
    <3>1. result' = result
      BY <1>5, <2>3 DEF ResultOf
    <3>2. QED
      BY <1>6, <3>1 DEF ResultKept, ResultSays
  <2>4. QED
    BY <2>1, <2>2, <2>3
<1>9. ASSUME provider = "claude", NEW i \in DOMAIN lines', lines'[i].kind = "result"
      PROVE  result' = Result("text", OrEmpty(lines'[i], i), lines'[i].error)
  <2>1. CASE i = n
    BY <1>2, <1>5, <1>9, <2>1 DEF ResultOf
  <2>2. CASE i # n
    <3>1. i \in DOMAIN lines /\ lines[i].kind = "result" /\ lines'[i] = lines[i]
      BY <1>2, <1>9, <2>2
    <3>2. l.kind \notin {"message", "result"}
      BY <3>1, LineSpoken DEF Answering
    <3>3. provider # "codex"
      BY <1>9
    <3>4. l.kind # "completed"
      BY <3>3, LineSpoken, ClaudeKinds
    <3>5. result' = result
      BY <1>5, <3>2, <3>4 DEF ResultOf
    <3>6. result = Result("text", OrEmpty(lines[i], i), lines[i].error)
      BY <1>5, <1>9, <3>1 DEF ResultKept
    <3>7. QED
      BY <3>1, <3>5, <3>6
  <2>3. QED
    BY <2>1, <2>2
<1>10. QED
  BY <1>5, <1>7, <1>8, <1>9 DEF ResultKept

LEMMA ShownOnceByLine ==
  ASSUME Dialect, ShownOnce, NEW l, LineTaken(l)
  PROVE  ShownOnce'
<1>1. lines \in Seq(LineType) /\ shown \in Seq(Shown)
  BY DEF Dialect, ShownOnce
<1> DEFINE n == Len(lines) + 1
<1>2. /\ Len(lines) \in Nat /\ Len(lines') = n /\ DOMAIN lines = 1 .. Len(lines)
      /\ DOMAIN lines' = DOMAIN lines \union {n} /\ n \notin DOMAIN lines
      /\ \A i \in DOMAIN lines : lines'[i] = lines[i]
      /\ lines'[n] = l
  BY <1>1, OneLineMore
<1>3. \A i \in DOMAIN lines : i < n
  BY <1>2
<1>4. \/ ~Activity(l) /\ shown' = shown
      \/ Activity(l) /\ \E e \in Shown : e.n = n /\ shown' = Append(shown, e)
  BY DEF LineTaken, Leaves
<1> HIDE DEF n
<1>5. /\ \A k \in DOMAIN shown : shown[k].n \in DOMAIN lines /\ Activity(lines[shown[k].n])
      /\ \A i \in DOMAIN lines : Activity(lines[i]) => \E k \in DOMAIN shown : shown[k].n = i
      /\ \A j, k \in DOMAIN shown : j < k => shown[j].n < shown[k].n
  BY DEF ShownOnce
<1>6. CASE ~Activity(l) /\ shown' = shown
  <2>1. \A k \in DOMAIN shown' : shown'[k].n \in DOMAIN lines' /\ Activity(lines'[shown'[k].n])
    BY <1>2, <1>5, <1>6
  <2>2. \A i \in DOMAIN lines' : Activity(lines'[i]) => \E k \in DOMAIN shown' : shown'[k].n = i
    BY <1>2, <1>5, <1>6
  <2>3. QED
    BY <1>1, <1>5, <1>6, <2>1, <2>2 DEF ShownOnce
<1>7. ASSUME NEW e \in Shown, Activity(l), e.n = n, shown' = Append(shown, e)
      PROVE  ShownOnce'
  <2> DEFINE m == Len(shown) + 1
  <2>1. /\ shown' \in Seq(Shown) /\ DOMAIN shown' = DOMAIN shown \union {m}
        /\ \A k \in DOMAIN shown : shown'[k] = shown[k]
        /\ shown'[m] = e
    BY <1>1, <1>7
  <2>2. \A k \in DOMAIN shown : k \in Nat /\ k < m
    BY <1>1
  <2>3. m \in Nat
    BY <1>1
  <2> HIDE DEF m
  <2>4. \A k \in DOMAIN shown' : shown'[k].n \in DOMAIN lines' /\ Activity(lines'[shown'[k].n])
    BY <1>2, <1>5, <1>7, <2>1
  <2>5. ASSUME NEW i \in DOMAIN lines', Activity(lines'[i])
        PROVE  \E k \in DOMAIN shown' : shown'[k].n = i
    <3>1. CASE i = n
      BY <1>7, <2>1, <3>1
    <3>2. CASE i # n
      BY <1>2, <1>5, <2>1, <2>5, <3>2
    <3>3. QED
      BY <3>1, <3>2
  <2>6. ASSUME NEW j \in DOMAIN shown', NEW k \in DOMAIN shown', j < k
        PROVE  shown'[j].n < shown'[k].n
    <3>1. CASE k = m
      <4>1. j # m
        BY <2>3, <2>6, <3>1
      <4>2. j \in DOMAIN shown
        BY <2>1, <4>1
      <4>3. shown'[j].n = shown[j].n /\ shown[j].n \in DOMAIN lines /\ shown'[k].n = n
        BY <1>5, <1>7, <2>1, <3>1, <4>2
      <4>4. QED
        BY <1>3, <4>3
    <3>2. CASE k # m
      <4>1. k \in DOMAIN shown
        BY <2>1, <3>2
      <4>2. j # m
        BY <2>2, <2>3, <2>6, <4>1
      <4>3. j \in DOMAIN shown
        BY <2>1, <4>2
      <4>4. QED
        BY <1>5, <2>1, <2>6, <4>1, <4>3
    <3>3. QED
      BY <3>1, <3>2
  <2>7. QED
    BY <2>1, <2>4, <2>5, <2>6 DEF ShownOnce
<1>8. QED
  BY <1>4, <1>6, <1>7

-----------------------------------------------------------------------------
(* The end of the stream: the result is the last event of the handlers.      *)
LEMMA EndsResult ==
  ASSUME Tracked, NEW code, NEW stderr, Ends(code, stderr)
  PROVE  /\ session' = session /\ shown' = shown
         /\ response' = Respond(result')
         /\ result' = IF provider = "codex"
                        THEN IF code # 0 THEN Explained(stderr) ELSE Result("text", tracked.text, FALSE)
                      ELSE IF code = 0 THEN result
                      ELSE Result(IF stderr THEN "stderr" ELSE "text", << >>, TRUE)
<1>1. /\ Consume(IF provider = "codex" THEN CodexPost(code, stderr) ELSE DefaultPost(code, stderr))
      /\ response' = Respond(result')
  BY DEF Ends
<1>2. CASE provider = "codex"
  <2> DEFINE res == IF code # 0 THEN Explained(stderr) ELSE Result("text", tracked.text, FALSE)
  <2>1. Consume(<<Event("result", 0, tracked.thread, res)>>)
    BY <1>1, <1>2 DEF CodexPost
  <2> HIDE DEF res
  <2>2. session' = Known(tracked.thread, session) /\ result' = res /\ shown' = shown
    BY <2>1, ConsumeOne DEF ActivityKinds
  <2>3. session' = session
    BY <1>2, <2>2 DEF Tracked, Known
  <2>4. QED
    BY <1>1, <1>2, <2>2, <2>3 DEF res
<1>3. CASE provider # "codex" /\ code = 0
  <2>1. Consume(<< >>)
    BY <1>1, <1>3 DEF DefaultPost
  <2>2. session' = session /\ result' = result /\ shown' = shown
    BY <2>1, ConsumeNone
  <2>3. QED
    BY <1>1, <1>3, <2>2
<1>4. CASE provider # "codex" /\ code # 0
  <2> DEFINE res == Result(IF stderr THEN "stderr" ELSE "text", << >>, TRUE)
  <2>1. Consume(<<Event("result", 0, 0, res)>>)
    BY <1>1, <1>4 DEF DefaultPost
  <2> HIDE DEF res
  <2>2. session' = Known(0, session) /\ result' = res /\ shown' = shown
    BY <2>1, ConsumeOne DEF ActivityKinds
  <2>3. session' = session
    BY <2>2 DEF Known
  <2>4. QED
    BY <1>1, <1>4, <2>2, <2>3 DEF res
<1>5. QED
  BY <1>2, <1>3, <1>4

LEMMA TextsPrinted ==
  ASSUME Dialect, Tracked
  PROVE  \A i \in DOMAIN tracked.text : tracked.text[i] \in 1 .. Len(lines)
<1>1. CASE provider # "codex"
  <2>1. DOMAIN tracked.text = {}
    BY <1>1 DEF Tracked
  <2>2. QED
    BY <2>1
<1>2. CASE provider = "codex" /\ tracked.text # << >>
  <2>1. PICK i \in DOMAIN lines : tracked.text = <<i>>
    BY <1>2 DEF Tracked
  <2>2. i \in 1 .. Len(lines)
    BY DEF Dialect
  <2>3. QED
    BY <2>1, <2>2
<1>3. CASE tracked.text = << >>
  BY <1>3
<1>4. QED
  BY <1>1, <1>2, <1>3

LEMMA ExplainedFails ==
  ASSUME NEW stderr
  PROVE  /\ Explained(stderr).of \in {"text", "stderr", "no final response"}
         /\ Explained(stderr).error = TRUE
         /\ Explained(stderr).of = "text" => tracked.text # << >>
         /\ Explained(stderr).texts = tracked.text
<1>1. CASE tracked.text # << >>
  BY <1>1 DEF Explained, Result
<1>2. CASE tracked.text = << >> /\ stderr
  BY <1>2 DEF Explained, Result
<1>3. CASE tracked.text = << >> /\ ~stderr
  BY <1>3 DEF Explained, Result
<1>4. QED
  BY <1>1, <1>2, <1>3

LEMMA EndKeeps ==
  ASSUME OutcomeInv, StreamEnds
  PROVE  OutcomeInv'
<1>1. response = None /\ UNCHANGED <<provider, lines, buffered, tracked>>
  BY DEF StreamEnds
<1>2. PICK e \in Endings : Ends(e[1], e[2])
  BY DEF StreamEnds
<1> DEFINE res == IF provider = "codex"
                    THEN IF e[1] # 0 THEN Explained(e[2]) ELSE Result("text", tracked.text, FALSE)
                  ELSE IF e[1] = 0 THEN result
                  ELSE Result(IF e[2] THEN "stderr" ELSE "text", << >>, TRUE)
<1>3. session' = session /\ shown' = shown /\ response' = Respond(result') /\ result' = res
  BY <1>2, EndsResult DEF OutcomeInv
<1>4. Dialect' /\ SessionLatest' /\ Tracked' /\ ShownOnce'
  BY <1>1, <1>3 DEF OutcomeInv, Dialect, SessionLatest, Tracked, ShownOnce, Answering
<1>6. /\ res.of \in {"none", "text", "stderr", "no final response", "no response"}
      /\ \A i \in DOMAIN res.texts : res.texts[i] \in 1 .. Len(lines)
  <2>1. CASE provider = "codex" /\ e[1] # 0
    BY <2>1, ExplainedFails, TextsPrinted DEF OutcomeInv
  <2>2. CASE provider = "codex" /\ e[1] = 0
    BY <2>2, TextsPrinted DEF OutcomeInv, Result
  <2>3. CASE provider # "codex" /\ e[1] = 0
    BY <2>3 DEF OutcomeInv, ResultKept, ResultSays
  <2>4. CASE provider # "codex" /\ e[1] # 0
    BY <2>4 DEF Result
  <2>5. QED
    BY <2>1, <2>2, <2>3, <2>4
<1> HIDE DEF res
<1>7. ResultSays(result)'
  <2>1. /\ result'.of \in {"none", "text", "stderr", "no final response", "no response"}
        /\ \A i \in DOMAIN result'.texts : result'.texts[i] \in 1 .. Len(lines)
    BY <1>3, <1>6
  <2>2. QED
    BY <1>1, <2>1 DEF ResultSays
<1>8. response' = result' \/ response' = Result("no response", << >>, TRUE)
  BY <1>3 DEF Respond
<1>9. ResultSays(response)'
  <2>1. CASE response' = result'
    BY <1>7, <2>1 DEF ResultSays
  <2>2. CASE response' = Result("no response", << >>, TRUE)
    <3>1. response'.of = "no response" /\ response'.texts = << >>
      BY <2>2 DEF Result
    <3>2. << >> \in Seq({}) /\ DOMAIN << >> = {}
      OBVIOUS
    <3>3. DOMAIN response'.texts = {}
      BY <3>1, <3>2, Zenon
    <3>4. QED
      BY <3>1, <3>3 DEF ResultSays
  <2>3. QED
    BY <1>8, <2>1, <2>2
<1>10. response' # None
  <2>1. Result("no response", << >>, TRUE) # None
    BY DEF Result, None
  <2>2. QED
    BY <1>3, <2>1 DEF Respond
<1>11. ResultKept'
  BY <1>7, <1>9, <1>10 DEF ResultKept
<1>12. CodexFailureTold'
  <2> SUFFICES ASSUME provider = "codex", "completed" \notin Printed
               PROVE  response'.error /\ (response'.of = "text" => response'.texts # << >>)
    BY <1>1 DEF CodexFailureTold, Printed
  <2>1. e[1] # 0
    <3>1. e \in {<<1, TRUE>>, <<9, FALSE>>}
      BY DEF Endings
    <3>2. <<1, TRUE>>[1] = 1 /\ <<9, FALSE>>[1] = 9
      OBVIOUS
    <3>3. e[1] = 1 \/ e[1] = 9
      BY <3>1, <3>2, Zenon
    <3>4. QED
      BY <3>3
  <2>2. result' = Explained(e[2])
    BY <1>3, <2>1 DEF res
  <2>3. result'.error /\ (result'.of = "text" => result'.texts # << >>)
    BY <2>2, ExplainedFails
  <2>4. CASE response' = result'
    BY <2>3, <2>4
  <2>5. CASE response' = Result("no response", << >>, TRUE)
    BY <2>5 DEF Result
  <2>6. QED
    BY <1>8, <2>4, <2>5
<1>13. QED
  BY <1>4, <1>11, <1>12 DEF OutcomeInv

LEMMA LineKeeps ==
  ASSUME OutcomeInv, TakeLine
  PROVE  OutcomeInv'
<1>1. Dialect /\ SessionLatest /\ Tracked /\ ResultKept /\ ShownOnce
  BY DEF OutcomeInv
<1>2. buffered = << >>
  BY <1>1 DEF Tracked
<1>3. PICK l : LineTaken(l)
  BY <1>1, <1>2, TakeLineLeaves
<1>4. Dialect' /\ SessionLatest' /\ Tracked' /\ ResultKept' /\ ShownOnce'
  BY <1>1, <1>3, DialectKept, SessionLatestKept, TrackedKept, ResultKeptByLine, ShownOnceByLine
<1>5. response' = None
  BY <1>3 DEF LineTaken
<1>6. CodexFailureTold'
  BY <1>5 DEF CodexFailureTold
<1>7. QED
  BY <1>4, <1>6 DEF OutcomeInv

LEMMA OutcomeInitInv ==
  ASSUME OutcomeInit
  PROVE  OutcomeInv
<1>1. /\ provider \in {"codex", "claude"} /\ lines = << >> /\ buffered = << >> /\ shown = << >>
      /\ tracked = [text |-> << >>, thread |-> 0] /\ session = 0 /\ result = None /\ response = None
  BY DEF OutcomeInit
<1>2. lines \in Seq(LineType) /\ DOMAIN lines = {} /\ Len(lines) = 0
  BY <1>1
<1>3. shown \in Seq(Shown) /\ DOMAIN shown = {}
  BY <1>1
<1>4. Dialect
  BY <1>1, <1>2 DEF Dialect, Answering
<1>5. SessionLatest
  BY <1>1, <1>2 DEF SessionLatest
<1>6. Tracked
  <2>1. tracked \in [text : Seq(Nat), thread : Nat] /\ tracked.thread = 0 /\ tracked.text = << >>
    BY <1>1
  <2>2. QED
    BY <1>1, <1>2, <2>1 DEF Tracked
<1>7. ResultKept
  <2>1. None.of = "none" /\ DOMAIN None.texts = {}
    BY DEF None
  <2>2. QED
    BY <1>1, <1>2, <2>1 DEF ResultKept, ResultSays
<1>8. ShownOnce
  BY <1>2, <1>3 DEF ShownOnce
<1>9. CodexFailureTold
  BY <1>1 DEF CodexFailureTold
<1>10. QED
  BY <1>4, <1>5, <1>6, <1>7, <1>8, <1>9 DEF OutcomeInv

LEMMA OutcomeStep ==
  ASSUME OutcomeInv, [OutcomeNext]_outcomeVars
  PROVE  OutcomeInv'
<1>1. CASE TakeLine
  BY <1>1, LineKeeps
<1>2. CASE StreamEnds
  BY <1>2, EndKeeps
<1>3. CASE UNCHANGED outcomeVars
  <2>1. UNCHANGED <<provider, lines, buffered, tracked, shown, session, result, response>>
    BY <1>3 DEF outcomeVars
  <2>2. Dialect' /\ SessionLatest' /\ Tracked' /\ ShownOnce'
    BY <2>1 DEF OutcomeInv, Dialect, Answering, SessionLatest, Tracked, ShownOnce
  <2>3. ResultKept'
    BY <2>1 DEF OutcomeInv, ResultKept, ResultSays
  <2>4. CodexFailureTold'
    BY <2>1 DEF OutcomeInv, CodexFailureTold, Printed
  <2>5. QED
    BY <2>2, <2>3, <2>4 DEF OutcomeInv
<1>4. QED
  BY <1>1, <1>2, <1>3 DEF OutcomeNext

(* StreamOutcome: whatever either process prints and however it ends, what   *)
(* was heard of it is what it printed so far.                                *)
THEOREM OutcomeInvariant == OutcomeSpec => []OutcomeInv
<1>1. OutcomeInit => OutcomeInv
  BY OutcomeInitInv
<1>2. OutcomeInv /\ [OutcomeNext]_outcomeVars => OutcomeInv'
  BY OutcomeStep
<1>3. QED
  BY <1>1, <1>2, PTL DEF OutcomeSpec

-----------------------------------------------------------------------------
(* A Codex turn that fails at whatever point is reported, as an error and    *)
(* with a text.                                                              *)
THEOREM FailureTold == OutcomeSpec => []CodexFailureTold
<1>1. OutcomeInv => CodexFailureTold
  BY DEF OutcomeInv
<1>2. QED
  BY <1>1, OutcomeInvariant, PTL

LEMMA OutcomeTyped ==
  ASSUME OutcomeInv
  PROVE  OutcomeTypeOK
<1>1. lines \in Seq(LineType) /\ buffered = << >> /\ session \in 0 .. Len(lines)
  BY DEF OutcomeInv, Dialect, Tracked, SessionLatest
<1>2. tracked.thread \in 0 .. Len(lines)
  <2>1. Len(lines) \in Nat
    BY <1>1
  <2>2. tracked.thread = session \/ tracked.thread = 0
    BY DEF OutcomeInv, Tracked
  <2>3. QED
    BY <1>1, <2>1, <2>2
<1>3. ResultSays(result) /\ ResultSays(response)
  BY DEF OutcomeInv, ResultKept
<1>4. QED
  BY <1>1, <1>2, <1>3 DEF OutcomeTypeOK, LineType, LineKinds, ResultSays

LEMMA LatestAnnounced ==
  ASSUME OutcomeInv
  PROVE  SessionIsAnnounced
<1>1. lines \in Seq(LineType) /\ SessionLatest
  BY DEF OutcomeInv, Dialect
<1>2. Announcing = {i \in DOMAIN lines : Announces(lines[i])}
  BY DEF Announcing, Announces
<1>3. /\ session \in Nat /\ (session # 0 => session \in DOMAIN lines /\ Announces(lines[session]))
      /\ \A i \in DOMAIN lines : i \in Nat \ {0} /\ (Announces(lines[i]) => i <= session)
  BY <1>1 DEF SessionLatest
<1>4. CASE Announcing = {}
  <2>1. session = 0
    BY <1>2, <1>3, <1>4
  <2>2. QED
    BY <1>4, <2>1 DEF SessionIsAnnounced
<1>5. CASE Announcing # {}
  <2>1. session \in Announcing /\ \A j \in Announcing : j <= session
    <3>1. PICK i \in Announcing : TRUE
      BY <1>5
    <3>2. session # 0
      BY <1>2, <1>3, <3>1
    <3>3. QED
      BY <1>2, <1>3, <3>2
  <2>2. ASSUME NEW i \in Announcing, \A j \in Announcing : j <= i
        PROVE  i = session
    <3>1. i <= session /\ session <= i /\ i \in Nat /\ session \in Nat
      BY <1>2, <1>3, <2>1, <2>2
    <3>2. QED
      BY <3>1
  <2>3. session = CHOOSE i \in Announcing : \A j \in Announcing : j <= i
    BY <2>1, <2>2
  <2>4. QED
    BY <1>5, <2>3 DEF SessionIsAnnounced
<1>6. QED
  BY <1>4, <1>5

LEMMA ActivitiesOne ==
  ASSUME OutcomeInv, NEW i \in DOMAIN lines
  PROVE  Activities(i) = IF Activity(lines[i]) THEN 1 ELSE 0
<1>1. CASE lines[i].kind # "assistant"
  BY <1>1 DEF Activities, Activity
<1>2. CASE lines[i].kind = "assistant"
  <2>1. ClaudeLine(lines[i])
    BY <1>2 DEF OutcomeInv, Dialect, CodexLineOK, CodexKinds
  <2>2. lines[i] \in AssistantLines
    BY <1>2, <2>1 DEF ClaudeLine, Plain, ResultLines
  <2> DEFINE b == lines[i].blocks
             Act == {j \in DOMAIN b : b[j] \in ActivityKinds}
  <2>3. b \in Blocks
    BY <2>2 DEF AssistantLines
  <2>4. Activities(i) = Cardinality(Act)
    BY <1>2 DEF Activities
  <2>5. Activity(lines[i]) <=> b # <<"text">>
    BY <1>2 DEF Activity, ActivityKinds
  <2> HIDE DEF b
  <2>6. CASE b = <<"text">>
    <3>1. Act = {}
      BY <2>6 DEF ActivityKinds
    <3>2. QED
      BY <2>4, <2>5, <2>6, <3>1, FS_EmptySet
  <2>7. ASSUME NEW kind \in {"tool", "thinking"}, b = <<kind>>
        PROVE  Cardinality(Act) = 1 /\ b # <<"text">>
    <3>1. DOMAIN b = {1} /\ b[1] = kind
      BY <2>7, SmallSeqs
    <3>2. Act = {1}
      BY <3>1 DEF ActivityKinds
    <3>3. <<"text">>[1] = "text"
      OBVIOUS
    <3>4. QED
      BY <3>1, <3>2, <3>3, FS_Singleton
  <2>8. CASE b = <<"text", "tool">>
    <3>1. DOMAIN b = {1, 2} /\ b[1] = "text" /\ b[2] = "tool"
      BY <2>8, SmallSeqs
    <3>2. Act = {2}
      BY <3>1 DEF ActivityKinds
    <3>3. DOMAIN <<"text">> = {1}
      OBVIOUS
    <3>4. b # <<"text">>
      BY <3>1, <3>3
    <3>5. QED
      BY <2>4, <2>5, <3>2, <3>4, FS_Singleton
  <2>9. QED
    BY <2>3, <2>4, <2>5, <2>6, <2>7, <2>8 DEF Blocks
<1>3. QED
  BY <1>1, <1>2

LEMMA EachShown ==
  ASSUME OutcomeInv
  PROVE  ActivityShown
<1>1. /\ lines \in Seq(LineType) /\ shown \in Seq(Shown)
      /\ \A k \in DOMAIN shown : shown[k].n \in DOMAIN lines /\ Activity(lines[shown[k].n])
      /\ \A i \in DOMAIN lines : Activity(lines[i]) => \E k \in DOMAIN shown : shown[k].n = i
      /\ \A j, k \in DOMAIN shown : j < k => shown[j].n < shown[k].n
  BY DEF OutcomeInv, Dialect, ShownOnce
<1>2. \A k \in DOMAIN shown : k \in Nat /\ shown[k].n \in Nat
  BY <1>1 DEF Shown
<1>3. ASSUME NEW i \in DOMAIN lines
      PROVE  Cardinality({k \in DOMAIN shown : shown[k].n = i}) = Activities(i)
  <2> DEFINE K == {k \in DOMAIN shown : shown[k].n = i}
  <2>1. CASE Activity(lines[i])
    <3>1. PICK k \in DOMAIN shown : shown[k].n = i
      BY <1>1, <2>1
    <3>2. ASSUME NEW j \in DOMAIN shown, shown[j].n = i
          PROVE  j = k
      <4>1. ~(j < k) /\ ~(k < j)
        BY <1>1, <1>2, <3>1, <3>2
      <4>2. QED
        BY <1>2, <4>1
    <3>3. K = {k}
      BY <3>1, <3>2
    <3>4. QED
      BY <2>1, <3>3, ActivitiesOne, FS_Singleton
  <2>2. CASE ~Activity(lines[i])
    <3>1. K = {}
      BY <1>1, <2>2
    <3>2. QED
      BY <2>2, <3>1, ActivitiesOne, FS_EmptySet
  <2>3. QED
    BY <2>1, <2>2
<1>4. ASSUME NEW j \in DOMAIN shown, NEW k \in DOMAIN shown, j < k
      PROVE  shown[j].n <= shown[k].n
  <2>1. shown[j].n < shown[k].n
    BY <1>1, <1>4
  <2>2. QED
    BY <1>2, <2>1
<1>5. QED
  BY <1>3, <1>4 DEF ActivityShown

(* What execute learns and passes on while the stream runs is what the       *)
(* process printed: the session is the last one announced, and every         *)
(* activity was shown, once and in order.                                    *)
THEOREM EventsPassedOn == OutcomeSpec => []PassedOn
<1>1. OutcomeInv => PassedOn
  BY OutcomeTyped, LatestAnnounced, EachShown DEF PassedOn
<1>2. QED
  BY <1>1, OutcomeInvariant, PTL

LEMMA AnswerSurvives ==
  ASSUME OutcomeInv, Succeeds, NEW i \in Answering
  PROVE  /\ response'.texts = (IF lines[i].empty THEN << >> ELSE <<i>>)
         /\ response'.error = lines[i].error
<1>1. PICK e \in Endings : e[1] = 0 /\ Ends(e[1], e[2])
  BY DEF Succeeds
<1>2. response = None
  BY DEF Succeeds, StreamEnds
<1>3. /\ response' = Respond(result')
      /\ result' = IF provider = "codex" THEN Result("text", tracked.text, FALSE) ELSE result
  BY <1>1, EndsResult DEF OutcomeInv
<1>4. i \in DOMAIN lines /\ lines[i].kind \in {"message", "result"} /\ lines[i] \in LineType
  BY DEF Answering, OutcomeInv, Dialect
<1>5. ASSUME NEW r, r.of = "text"
      PROVE  Respond(r) = r
  <2>1. None.of = "none"
    BY DEF None
  <2>2. r # None
    BY <1>5, <2>1
  <2>3. QED
    BY <2>2 DEF Respond
<1>6. CASE provider = "codex"
  <2>1. CodexLineOK(lines[i])
    BY <1>4, <1>6 DEF OutcomeInv, Dialect
  <2>2. lines[i].kind = "message" /\ ~lines[i].empty /\ ~lines[i].error
    BY <1>4, <2>1 DEF CodexLineOK, CodexKinds
  <2>3. tracked.text = <<i>>
    BY <1>4, <1>6, <2>2 DEF OutcomeInv, Tracked
  <2>4. result' = Result("text", <<i>>, FALSE)
    BY <1>3, <1>6, <2>3
  <2>5. result'.of = "text" /\ result'.texts = <<i>> /\ result'.error = FALSE
    BY <2>4 DEF Result
  <2>6. response' = result'
    BY <1>3, <1>5, <2>5
  <2>7. lines[i].error = FALSE
    BY <1>4, <2>2 DEF LineType
  <2>8. QED
    BY <2>2, <2>5, <2>6, <2>7
<1>7. CASE provider # "codex"
  <2>1. provider = "claude"
    BY <1>7 DEF OutcomeInv, Dialect
  <2>2. lines[i].kind = "result"
    BY <1>4, <1>7, ClaudeKinds DEF OutcomeInv, Dialect
  <2>3. result = Result("text", OrEmpty(lines[i], i), lines[i].error)
    BY <1>2, <1>4, <2>1, <2>2 DEF OutcomeInv, ResultKept
  <2>4. result.of = "text" /\ result.texts = OrEmpty(lines[i], i) /\ result.error = lines[i].error
    BY <2>3 DEF Result
  <2>5. response' = result
    BY <1>3, <1>5, <1>7, <2>4
  <2>6. QED
    BY <2>4, <2>5 DEF OrEmpty
<1>8. QED
  BY <1>6, <1>7

(* An answer that was printed before the process ended well is the response, *)
(* whole and nothing else.                                                   *)
THEOREM AnswerIsKept == OutcomeSpec => AnswerKept
<1> DEFINE Kept == Succeeds => \A i \in Answering :
                      /\ response'.texts = (IF lines[i].empty THEN << >> ELSE <<i>>)
                      /\ response'.error = lines[i].error
<1>1. OutcomeInv => Kept
  BY AnswerSurvives
<1>2. OutcomeInv /\ [OutcomeNext]_outcomeVars => [Kept]_outcomeVars
  BY <1>1
<1>3. QED
  BY <1>2, OutcomeInvariant, PTL DEF OutcomeSpec, AnswerKept
===============================================================================
