------------------------- MODULE SessionLifeProofs -------------------------
(* SessionLife for every set of messages and topics.                         *)
EXTENDS SessionLife, TLAPS

(* A message is executed by one gateway run only, so its process starts once *)
(* and submits its text once.                                                *)
OneStart ==
    \A u \in Update :
      /\ handler[u] \in {"unsent", "waiting"} => process[u] = "none"
      /\ handler[u] = "pending" /\ up /\ u \in kept => process[u] = "none"
      /\ handler[u] = "executing" => up
      /\ process[u] \in {"none", "started", "open"} => submissions[u] = 0
      /\ submissions[u] <= 1

(* A process talks to a server of the provider its turn was resolved for,    *)
(* which is the provider of this run while the turn executes.                *)
OwnServer ==
    \A u \in Update :
      /\ process[u] # "none" =>
           /\ server[u] \in Server
           /\ request[u].provider = IF server[u] = "claude" THEN "claude" ELSE "codex"
      /\ handler[u] = "executing" =>
           /\ process[u] # "none"
           /\ request[u].provider = provider

(* An id was created by the server s, in a topic k.                          *)
Created(id, s, k) ==
    /\ id \in Update
    /\ s \in Server
    /\ origin[id] = s
    /\ KeyOf[id] = k

(* Wherever an id is kept, the server that created it is kept beside it.     *)
Traced ==
    /\ \A k \in Key :
         stored[k].id # NoId => Created(stored[k].id, Owner(stored[k]), k)
    /\ \A u \in Update :
         /\ request[u].id # NoId =>
              Created(request[u].id, Owner(request[u]), KeyOf[u])
         /\ thread[u] # NoId => Created(thread[u], server[u], KeyOf[u])
         /\ announced[u] => thread[u] # NoId
         /\ process[u] \in {"none", "started"} =>
              origin[u] = "none" /\ thread[u] = NoId
    /\ \A r \in resumes : Created(r[2], r[3], KeyOf[r[1]])

(* One turn of a topic executes, and the file holds what it resolved, unless *)
(* a save for another topic has lost it.                                     *)
Undisturbed ==
    /\ \A u, v \in Update :
         handler[u] = "executing" /\ handler[v] = "executing" /\ KeyOf[u] = KeyOf[v]
         => u = v
    /\ \A u \in Update :
         handler[u] = "executing" => stored[KeyOf[u]] \in {request[u], Absent}

IInv == TypeOK /\ OneStart /\ OwnServer /\ Traced /\ Undisturbed

-----------------------------------------------------------------------------
(* The initial states satisfy the invariant.                                 *)
LEMMA InitIInv == Init => IInv
<1> SUFFICES ASSUME Init PROVE IInv
  OBVIOUS
<1>1. TypeOK
  BY ConstantsAssumption DEF Init, TypeOK, Record, Absent, SessionId
<1>2. \A u \in Update :
        process[u] = "none" /\ handler[u] = "unsent" /\ submissions[u] = 0
  BY DEF Init
<1>3. OneStart /\ OwnServer
  BY <1>2 DEF OneStart, OwnServer
<1>4. Traced
  BY DEF Init, Traced, Absent
<1>5. Undisturbed
  BY DEF Init, Undisturbed
<1>6. QED
  BY <1>1, <1>2, <1>3, <1>4, <1>5 DEF IInv

(* What a resolve leaves is a record of this run's provider; it has an id    *)
(* only if it is the stored record.                                          *)
LEMMA ResolvedRecord ==
  ASSUME provider \in Provider, NEW rec \in Record
  PROVE  /\ Fresh(rec) \in Record
         /\ Fresh(rec).id = NoId
         /\ Resolved(rec) \in Record
         /\ Resolved(rec).provider = provider
         /\ Resolved(rec).id # NoId => Resolved(rec) = rec
  BY DEF Record, Absent, Fresh, Resolved, Usable, SessionId, Provider, Transport

(* What a turn saves is a record, owned by the server it talked to.          *)
LEMMA UpdatedRecord ==
  ASSUME provider \in Provider, NEW rec, NEW u \in Update,
         thread[u] \in SessionId, server[u] \in Server,
         provider = IF server[u] = "claude" THEN "claude" ELSE "codex"
  PROVE  /\ Updated(rec, u) \in Record
         /\ Updated(rec, u).id = thread[u]
         /\ Owner(Updated(rec, u)) = server[u]
  BY DEF Record, Updated, Backend, Owner, Server, Provider, Transport

(* A file that is read is the one that was saved, or looks empty.            *)
LEMMA LoadedFile ==
  ASSUME TypeOK, NEW file \in Files
  PROVE  /\ file \in [Key -> Record]
         /\ file = stored \/ file = [k \in Key |-> Absent]
  BY DEF TypeOK, Files, Unread, Record

(* What is written follows a read that fails or gives what was saved.        *)
LEMMA LoadedOrMisread ==
  ASSUME TypeOK, NEW file, Load(file)
  PROVE  /\ misread' \in BOOLEAN
         /\ ~misread' => file = stored
  BY DEF TypeOK, Load

-----------------------------------------------------------------------------
(* Every step preserves the invariant, part by part.                         *)

(* Every step keeps the types.                                               *)
LEMMA TypeStep ==
  ASSUME IInv, [Next]_vars
  PROVE  TypeOK'
<1> USE DEF gatewayVars, telegramVars, storeVars, processVars, historyVars
<1>1. ASSUME NEW u \in Update, Send(u) PROVE TypeOK'
  BY <1>1 DEF Send, IInv, TypeOK
<1>2. ASSUME NEW u \in Update, Poll(u) PROVE TypeOK'
  BY <1>2 DEF Poll, IInv, TypeOK
<1>3. ASSUME NEW u \in Update, Confirm(u) PROVE TypeOK'
  BY <1>3 DEF Confirm, IInv, TypeOK
<1>4. ASSUME NEW u \in Update, Begin(u) PROVE TypeOK'
  <2>1. PICK file \in Files :
          LET rec == Resolved(file[KeyOf[u]]) IN
          /\ request' = [request EXCEPT ![u] = Request(rec)]
          /\ stored' = IF rec = file[KeyOf[u]]
                         THEN stored
                         ELSE [file EXCEPT ![KeyOf[u]] = rec]
    BY <1>4 DEF Begin
  <2>2. file \in [Key -> Record] /\ KeyOf[u] \in Key
    BY LoadedFile, ConstantsAssumption DEF IInv
  <2>3. Resolved(file[KeyOf[u]]) \in Record
    BY <2>2, ResolvedRecord DEF IInv, TypeOK
  <2>4. request' \in [Update -> Record] /\ stored' \in [Key -> Record]
    BY <2>1, <2>2, <2>3 DEF IInv, TypeOK, Request
  <2>5. Chosen \in Server
    BY DEF Chosen, Server, Transport
  <2>6. misread' \in BOOLEAN
    BY <1>4 DEF Begin, Load
  <2>7. QED
    BY <1>4, <2>4, <2>5, <2>6 DEF Begin, IInv, TypeOK, SessionId
<1>5. ASSUME NEW u \in Update, ReadThread(u) PROVE TypeOK'
  BY <1>5 DEF ReadThread, IInv, TypeOK
<1>6. ASSUME NEW u \in Update, Finish(u) PROVE TypeOK'
  <2>1. server[u] \in Server
        /\ provider = IF server[u] = "claude" THEN "claude" ELSE "codex"
    BY <1>6 DEF Finish, Executing, IInv, OwnServer
  <2>2. \A rec : Updated(rec, u) \in Record
    BY <2>1, UpdatedRecord DEF IInv, TypeOK
  <2>3. \A file \in Files : file \in [Key -> Record]
    BY LoadedFile DEF IInv
  <2>4. stored' \in [Key -> Record]
    BY <1>6, <2>2, <2>3 DEF Finish, IInv, TypeOK
  <2>5. misread' \in BOOLEAN
    BY <1>6 DEF Finish, Load, IInv, TypeOK
  <2>6. QED
    BY <1>6, <2>4, <2>5 DEF Finish, Over, IInv, TypeOK
<1>7. ASSUME NEW u \in Update, Abandon(u) PROVE TypeOK'
  BY <1>7 DEF Abandon, Over, IInv, TypeOK
<1>8. ASSUME NEW u \in Update, StartThread(u) PROVE TypeOK'
  <2>1. server[u] \in Server
    BY <1>8 DEF StartThread, IInv, OwnServer
  <2>2. resumes' \subseteq Update \X Update \X Server
    <3>1. CASE Fits(u)
      <4>1. request[u].id \in Update
        BY <3>1 DEF Fits, IInv, TypeOK, Record, Absent, SessionId
      <4>2. QED
        BY <1>8, <2>1, <3>1, <4>1 DEF StartThread, IInv, TypeOK
    <3>2. CASE ~Fits(u)
      BY <1>8, <3>2 DEF StartThread, IInv, TypeOK
    <3>3. QED
      BY <3>1, <3>2
  <2>3. QED
    BY <1>8, <2>1, <2>2 DEF StartThread, Opens, IInv, TypeOK, SessionId
<1>9. ASSUME NEW u \in Update, ResumeThread(u) PROVE TypeOK'
  <2>1. server[u] \in Server
    BY <1>9 DEF ResumeThread, IInv, OwnServer
  <2>2. request[u].id \in Update
    BY <1>9 DEF ResumeThread, Fits, IInv, TypeOK, Record, Absent, SessionId
  <2>3. QED
    BY <1>9, <2>1, <2>2 DEF ResumeThread, Opens, IInv, TypeOK, SessionId
<1>10. ASSUME NEW u \in Update, Submit(u) PROVE TypeOK'
  BY <1>10 DEF Submit, IInv, TypeOK
<1>11. ASSUME NEW u \in Update, End(u) PROVE TypeOK'
  BY <1>11 DEF End, IInv, TypeOK
<1>12. ASSUME NEW k \in Key, Reset(k) PROVE TypeOK'
  <2>1. \A file \in Files : file \in [Key -> Record]
    BY LoadedFile DEF IInv
  <2>2. \A rec \in Record : Fresh(rec) \in Record
    BY ResolvedRecord DEF IInv, TypeOK
  <2>3. stored' \in [Key -> Record]
    BY <1>12, <2>1, <2>2 DEF Reset
  <2>4. misread' \in BOOLEAN
    BY <1>12 DEF Reset, Load
  <2>5. QED
    BY <1>12, <2>3, <2>4 DEF Reset, IInv, TypeOK
<1>13. CASE Crash
  BY <1>13 DEF Crash, IInv, TypeOK
<1>14. CASE Start
  BY <1>14 DEF Start, DropPending, IInv, TypeOK
<1>15. CASE SocketChanges
  BY <1>15 DEF SocketChanges, IInv, TypeOK
<1>16. CASE UNCHANGED vars
  BY <1>16 DEF vars, IInv, TypeOK
<1>17. QED
  BY <1>1, <1>2, <1>3, <1>4, <1>5, <1>6, <1>7, <1>8, <1>9, <1>10, <1>11,
     <1>12, <1>13, <1>14, <1>15, <1>16
  DEF Next, Turn, Process

(* Only Begin starts a process, and it takes a message that has none.        *)
LEMMA OneStartStep ==
  ASSUME IInv, [Next]_vars
  PROVE  OneStart'
<1> USE DEF gatewayVars, telegramVars, storeVars, processVars, historyVars
<1>1. ASSUME NEW u \in Update, Send(u) PROVE OneStart'
  BY <1>1 DEF Send, IInv, TypeOK, OneStart
<1>2. ASSUME NEW u \in Update, Poll(u) PROVE OneStart'
  BY <1>2 DEF Poll, IInv, TypeOK, OneStart
<1>3. ASSUME NEW u \in Update, Confirm(u) PROVE OneStart'
  BY <1>3 DEF Confirm, IInv, TypeOK, OneStart
<1>4. ASSUME NEW u \in Update, Begin(u) PROVE OneStart'
  BY <1>4 DEF Begin, IInv, TypeOK, OneStart
<1>5. ASSUME NEW u \in Update, ReadThread(u) PROVE OneStart'
  BY <1>5 DEF ReadThread, Executing, IInv, TypeOK, OneStart
<1>6. ASSUME NEW u \in Update, Finish(u) PROVE OneStart'
  BY <1>6 DEF Finish, Over, Executing, IInv, TypeOK, OneStart
<1>7. ASSUME NEW u \in Update, Abandon(u) PROVE OneStart'
  BY <1>7 DEF Abandon, Over, Executing, IInv, TypeOK, OneStart
<1>8. ASSUME NEW u \in Update, StartThread(u) PROVE OneStart'
  BY <1>8 DEF StartThread, Opens, IInv, TypeOK, OneStart
<1>9. ASSUME NEW u \in Update, ResumeThread(u) PROVE OneStart'
  BY <1>9 DEF ResumeThread, Opens, IInv, TypeOK, OneStart
<1>10. ASSUME NEW u \in Update, Submit(u) PROVE OneStart'
  BY <1>10 DEF Submit, IInv, TypeOK, OneStart
<1>11. ASSUME NEW u \in Update, End(u) PROVE OneStart'
  BY <1>11 DEF End, IInv, TypeOK, OneStart
<1>12. ASSUME NEW k \in Key, Reset(k) PROVE OneStart'
  BY <1>12 DEF Reset, IInv, TypeOK, OneStart
<1>13. CASE Crash
  BY <1>13 DEF Crash, IInv, TypeOK, OneStart
<1>14. CASE Start
  BY <1>14 DEF Start, DropPending, IInv, TypeOK, OneStart
<1>15. CASE SocketChanges
  BY <1>15 DEF SocketChanges, IInv, TypeOK, OneStart
<1>16. CASE UNCHANGED vars
  BY <1>16 DEF vars, IInv, TypeOK, OneStart
<1>17. QED
  BY <1>1, <1>2, <1>3, <1>4, <1>5, <1>6, <1>7, <1>8, <1>9, <1>10, <1>11,
     <1>12, <1>13, <1>14, <1>15, <1>16
  DEF Next, Turn, Process

(* The provider only changes while no turn executes.                         *)
LEMMA OwnServerStep ==
  ASSUME IInv, [Next]_vars
  PROVE  OwnServer'
<1> USE DEF gatewayVars, telegramVars, storeVars, processVars, historyVars
<1>1. ASSUME NEW u \in Update, Send(u) PROVE OwnServer'
  BY <1>1 DEF Send, IInv, TypeOK, OneStart, OwnServer
<1>2. ASSUME NEW u \in Update, Poll(u) PROVE OwnServer'
  BY <1>2 DEF Poll, IInv, TypeOK, OneStart, OwnServer
<1>3. ASSUME NEW u \in Update, Confirm(u) PROVE OwnServer'
  BY <1>3 DEF Confirm, IInv, TypeOK, OneStart, OwnServer
<1>4. ASSUME NEW u \in Update, Begin(u) PROVE OwnServer'
  <2>1. PICK file \in Files :
          request' = [request EXCEPT ![u] = Resolved(file[KeyOf[u]])]
    BY <1>4 DEF Begin, Request
  <2>2. file \in [Key -> Record] /\ KeyOf[u] \in Key
    BY LoadedFile, ConstantsAssumption DEF IInv
  <2>3. Resolved(file[KeyOf[u]]).provider = provider
    BY <2>2, ResolvedRecord DEF IInv, TypeOK
  <2>4. Chosen \in Server
        /\ provider = IF Chosen = "claude" THEN "claude" ELSE "codex"
    BY DEF Chosen, Server, Transport, IInv, TypeOK, Provider
  <2>5. QED
    BY <1>4, <2>1, <2>3, <2>4 DEF Begin, IInv, TypeOK, OwnServer
<1>5. ASSUME NEW u \in Update, ReadThread(u) PROVE OwnServer'
  BY <1>5 DEF ReadThread, IInv, TypeOK, OneStart, OwnServer
<1>6. ASSUME NEW u \in Update, Finish(u) PROVE OwnServer'
  BY <1>6 DEF Finish, Over, IInv, TypeOK, OneStart, OwnServer
<1>7. ASSUME NEW u \in Update, Abandon(u) PROVE OwnServer'
  BY <1>7 DEF Abandon, Over, IInv, TypeOK, OneStart, OwnServer
<1>8. ASSUME NEW u \in Update, StartThread(u) PROVE OwnServer'
  BY <1>8 DEF StartThread, Opens, IInv, TypeOK, OneStart, OwnServer
<1>9. ASSUME NEW u \in Update, ResumeThread(u) PROVE OwnServer'
  BY <1>9 DEF ResumeThread, Opens, IInv, TypeOK, OneStart, OwnServer
<1>10. ASSUME NEW u \in Update, Submit(u) PROVE OwnServer'
  BY <1>10 DEF Submit, IInv, TypeOK, OneStart, OwnServer
<1>11. ASSUME NEW u \in Update, End(u) PROVE OwnServer'
  BY <1>11 DEF End, IInv, TypeOK, OneStart, OwnServer
<1>12. ASSUME NEW k \in Key, Reset(k) PROVE OwnServer'
  BY <1>12 DEF Reset, IInv, TypeOK, OneStart, OwnServer
<1>13. CASE Crash
  BY <1>13 DEF Crash, IInv, TypeOK, OneStart, OwnServer
<1>14. CASE Start
  BY <1>14 DEF Start, IInv, TypeOK, OneStart, OwnServer
<1>15. CASE SocketChanges
  BY <1>15 DEF SocketChanges, IInv, TypeOK, OneStart, OwnServer
<1>16. CASE UNCHANGED vars
  BY <1>16 DEF vars, IInv, TypeOK, OneStart, OwnServer
<1>17. QED
  BY <1>1, <1>2, <1>3, <1>4, <1>5, <1>6, <1>7, <1>8, <1>9, <1>10, <1>11,
     <1>12, <1>13, <1>14, <1>15, <1>16
  DEF Next, Turn, Process

(* An id is written beside its server; origin is set once, before any use. *)
LEMMA TracedStep ==
  ASSUME IInv, [Next]_vars
  PROVE  Traced'
<1> USE DEF gatewayVars, telegramVars, storeVars, processVars, historyVars
<1>1. ASSUME NEW u \in Update, Send(u) PROVE Traced'
  BY <1>1 DEF Send, IInv, TypeOK, Traced, Created
<1>2. ASSUME NEW u \in Update, Poll(u) PROVE Traced'
  BY <1>2 DEF Poll, IInv, TypeOK, Traced, Created
<1>3. ASSUME NEW u \in Update, Confirm(u) PROVE Traced'
  BY <1>3 DEF Confirm, IInv, TypeOK, Traced, Created
<1>4. ASSUME NEW u \in Update, Begin(u) PROVE Traced'
  <2> DEFINE rec(file) == Resolved(file[KeyOf[u]])
  <2>1. PICK file \in Files :
          /\ request' = [request EXCEPT ![u] = rec(file)]
          /\ stored' = IF rec(file) = file[KeyOf[u]]
                         THEN stored
                         ELSE [file EXCEPT ![KeyOf[u]] = rec(file)]
    BY <1>4 DEF Begin, Request
  <2>2. /\ KeyOf[u] \in Key
        /\ file \in [Key -> Record]
        /\ file = stored \/ file = [k \in Key |-> Absent]
    BY LoadedFile, ConstantsAssumption DEF IInv
  <2>3. \A k \in Key : file[k].id # NoId =>
          Created(file[k].id, Owner(file[k]), k)
    BY <2>2 DEF IInv, Traced, Absent
  <2>4. rec(file).id # NoId => rec(file) = file[KeyOf[u]]
    BY <2>2, ResolvedRecord DEF IInv, TypeOK
  <2>5. rec(file).id # NoId => Created(rec(file).id, Owner(rec(file)), KeyOf[u])
    BY <2>2, <2>3, <2>4
  <2> HIDE DEF rec
  <2>6. origin' = origin /\ resumes' = resumes
    BY <1>4 DEF Begin
  <2>7. \A k \in Key : stored'[k].id # NoId =>
          Created(stored'[k].id, Owner(stored'[k]), k)
    BY <2>1, <2>2, <2>3, <2>5 DEF IInv, TypeOK, Traced
  <2>8. \A v \in Update : request'[v].id # NoId =>
          Created(request'[v].id, Owner(request'[v]), KeyOf[v])
    BY <2>1, <2>5 DEF IInv, TypeOK, Traced
  <2>9. process[u] = "none"
    BY <1>4 DEF Begin, IInv, OneStart
  <2>10. \A v \in Update :
           /\ thread'[v] # NoId => Created(thread'[v], server'[v], KeyOf[v])
           /\ announced'[v] => thread'[v] # NoId
           /\ process'[v] \in {"none", "started"} =>
                origin[v] = "none" /\ thread'[v] = NoId
    BY <1>4, <2>9 DEF Begin, IInv, TypeOK, Traced
  <2>11. QED
    BY <2>6, <2>7, <2>8, <2>10 DEF Traced, Created, Owner, IInv
<1>5. ASSUME NEW u \in Update, ReadThread(u) PROVE Traced'
  BY <1>5 DEF ReadThread, Executing, IInv, TypeOK, Traced, Created
<1>6. ASSUME NEW u \in Update, Finish(u) PROVE Traced'
  <2>1. /\ server[u] \in Server
        /\ provider = IF server[u] = "claude" THEN "claude" ELSE "codex"
    BY <1>6 DEF Finish, Executing, IInv, OwnServer
  <2>2. \A rec : /\ Updated(rec, u).id = thread[u]
                /\ Owner(Updated(rec, u)) = server[u]
    BY <2>1, UpdatedRecord DEF IInv, TypeOK
  <2>3. \A k \in Key : stored'[k].id # NoId =>
          Created(stored'[k].id, Owner(stored'[k]), k)
    <3>1. CASE announced[u]
      <4>1. PICK file \in Files :
              \E rec : stored' = [file EXCEPT ![KeyOf[u]] = Updated(rec, u)]
        BY <1>6, <3>1 DEF Finish
      <4>2. /\ file \in [Key -> Record]
            /\ file = stored \/ file = [k \in Key |-> Absent]
        BY LoadedFile DEF IInv
      <4>3. Created(thread[u], server[u], KeyOf[u])
        BY <3>1 DEF IInv, Traced
      <4>4. \A k \in Key : k # KeyOf[u] /\ stored'[k].id # NoId =>
              Created(stored'[k].id, Owner(stored'[k]), k)
        BY <4>1, <4>2 DEF IInv, Traced, Absent
      <4>5. KeyOf[u] \in Key =>
              /\ stored'[KeyOf[u]].id = thread[u]
              /\ Owner(stored'[KeyOf[u]]) = server[u]
        BY <2>2, <4>1, <4>2
      <4>6. QED
        BY <4>3, <4>4, <4>5
    <3>2. CASE ~announced[u]
      BY <1>6, <3>2 DEF Finish, IInv, Traced
    <3>3. QED
      BY <3>1, <3>2
  <2>4. QED
    BY <1>6, <2>3 DEF Finish, IInv, Traced, Created, Owner
<1>7. ASSUME NEW u \in Update, Abandon(u) PROVE Traced'
  BY <1>7 DEF Abandon, Over, Owner, IInv, TypeOK, Traced, Created
<1>8. ASSUME NEW u \in Update, StartThread(u) PROVE Traced'
  <2>1. process[u] = "started" /\ origin[u] = "none" /\ server[u] \in Server
    BY <1>8 DEF StartThread, IInv, OwnServer, Traced
  <2>2. origin' = [origin EXCEPT ![u] = server[u]]
    BY <1>8 DEF StartThread
  <2>3. \A id, s, k : Created(id, s, k) => Created(id, s, k)'
    BY <2>1, <2>2 DEF Created, IInv, TypeOK, Server, Transport
  <2>4. Created(u, server[u], KeyOf[u])'
    BY <1>8, <2>1, <2>2 DEF StartThread, Opens, Created, IInv, TypeOK
  <2>5. Fits(u) => server[u] = "claude" /\ request[u].provider = "claude"
    BY <1>8, <2>1 DEF StartThread, IInv, OwnServer
  <2>6. Fits(u) => Created(request[u].id, server[u], KeyOf[u])
    BY <2>5 DEF Fits, Owner, IInv, Traced
  <2>7. \A r \in resumes' : Created(r[2], r[3], KeyOf[r[1]])
    <3>1. CASE Fits(u)
      BY <1>8, <2>6, <3>1 DEF StartThread, IInv, Traced
    <3>2. CASE ~Fits(u)
      BY <1>8, <3>2 DEF StartThread, IInv, Traced
    <3>3. QED
      BY <3>1, <3>2
  <2>8. \A r \in resumes' : Created(r[2], r[3], KeyOf[r[1]])'
    BY <2>3, <2>7
  <2>9. /\ stored' = stored /\ request' = request
        /\ server' = server /\ announced' = announced
        /\ thread' = [thread EXCEPT ![u] = u]
        /\ process' = [process EXCEPT ![u] = "open"]
    BY <1>8 DEF StartThread, Opens
  <2>10. \A k \in Key : stored[k].id # NoId =>
           Created(stored[k].id, Owner(stored[k]), k)'
    BY <2>3, <2>9 DEF IInv, Traced, Owner
  <2>11. \A v \in Update : request[v].id # NoId =>
           Created(request[v].id, Owner(request[v]), KeyOf[v])'
    BY <2>3, <2>9 DEF IInv, Traced, Owner
  <2>12. \A v \in Update : thread'[v] # NoId =>
           Created(thread[v], server[v], KeyOf[v])'
    BY <2>3, <2>4, <2>9 DEF IInv, TypeOK, Traced
  <2>13. \A v \in Update :
           /\ announced'[v] => thread'[v] # NoId
           /\ process'[v] \in {"none", "started"} =>
                origin'[v] = "none" /\ thread'[v] = NoId
    BY <2>2, <2>9, ConstantsAssumption DEF IInv, TypeOK, Traced
  <2>14. QED
    BY <2>8, <2>9, <2>10, <2>11, <2>12, <2>13 DEF Traced
<1>9. ASSUME NEW u \in Update, ResumeThread(u) PROVE Traced'
  <2>1. process[u] = "started" /\ server[u] \in Server /\ Fits(u)
    BY <1>9 DEF ResumeThread, IInv, OwnServer
  <2>2. Owner(request[u]) = server[u]
    BY <2>1 DEF Fits, Owner, Server, Transport, Record, Absent, IInv, TypeOK,
                OwnServer
  <2>3. Created(request[u].id, server[u], KeyOf[u])
    BY <2>1, <2>2 DEF Fits, IInv, Traced
  <2>4. /\ resumes' = resumes \union {<<u, request[u].id, server[u]>>}
        /\ origin' = origin /\ stored' = stored /\ request' = request
        /\ server' = server /\ announced' = announced
        /\ thread' = [thread EXCEPT ![u] = request[u].id]
        /\ process' = [process EXCEPT ![u] = "open"]
    BY <1>9 DEF ResumeThread, Opens
  <2>5. \A r \in resumes' : Created(r[2], r[3], KeyOf[r[1]])
    BY <2>3, <2>4 DEF IInv, Traced
  <2>6. \A v \in Update :
          /\ thread'[v] # NoId => Created(thread'[v], server[v], KeyOf[v])
          /\ announced[v] => thread'[v] # NoId
          /\ process'[v] \in {"none", "started"} =>
               origin[v] = "none" /\ thread'[v] = NoId
    BY <2>1, <2>3, <2>4, ConstantsAssumption DEF Fits, IInv, TypeOK, Traced
  <2>7. QED
    BY <2>4, <2>5, <2>6 DEF IInv, Traced, Created, Owner
<1>10. ASSUME NEW u \in Update, Submit(u) PROVE Traced'
  BY <1>10 DEF Submit, IInv, TypeOK, Traced, Created
<1>11. ASSUME NEW u \in Update, End(u) PROVE Traced'
  BY <1>11 DEF End, IInv, TypeOK, Traced, Created
<1>12. ASSUME NEW k \in Key, Reset(k) PROVE Traced'
  <2>1. PICK file \in Files : stored' = [file EXCEPT ![k] = Fresh(file[k])]
    BY <1>12 DEF Reset
  <2>2. /\ file \in [Key -> Record]
        /\ file = stored \/ file = [j \in Key |-> Absent]
    BY LoadedFile DEF IInv
  <2>3. Fresh(file[k]).id = NoId
    BY DEF Fresh
  <2>4. \A j \in Key : stored'[j].id # NoId =>
          Created(stored'[j].id, Owner(stored'[j]), j)
    BY <2>1, <2>2, <2>3 DEF IInv, Traced, Absent
  <2>5. QED
    BY <1>12, <2>4 DEF Reset, IInv, Traced, Created, Owner
<1>13. CASE Crash
  BY <1>13 DEF Crash, IInv, TypeOK, Traced, Created
<1>14. CASE Start
  BY <1>14 DEF Start, IInv, TypeOK, Traced, Created
<1>15. CASE SocketChanges
  BY <1>15 DEF SocketChanges, IInv, TypeOK, Traced, Created
<1>16. CASE UNCHANGED vars
  BY <1>16 DEF vars, IInv, TypeOK, Traced, Created
<1>17. QED
  BY <1>1, <1>2, <1>3, <1>4, <1>5, <1>6, <1>7, <1>8, <1>9, <1>10, <1>11,
     <1>12, <1>13, <1>14, <1>15, <1>16
  DEF Next, Turn, Process

(* A record changes only by its topic's turn, or a reset that waited for it. *)
LEMMA UndisturbedStep ==
  ASSUME IInv, [Next]_vars
  PROVE  Undisturbed'
<1> USE DEF gatewayVars, telegramVars, storeVars, processVars, historyVars
<1>1. ASSUME NEW u \in Update, Send(u) PROVE Undisturbed'
  BY <1>1 DEF Send, IInv, TypeOK, Undisturbed
<1>2. ASSUME NEW u \in Update, Poll(u) PROVE Undisturbed'
  BY <1>2 DEF Poll, IInv, TypeOK, Undisturbed
<1>3. ASSUME NEW u \in Update, Confirm(u) PROVE Undisturbed'
  BY <1>3 DEF Confirm, IInv, TypeOK, Undisturbed
<1>4. ASSUME NEW u \in Update, Begin(u) PROVE Undisturbed'
  <2>1. /\ up
        /\ TopicFree(KeyOf[u])
        /\ handler' = [handler EXCEPT ![u] = "executing"]
    BY <1>4 DEF Begin
  <2>2. \A v \in Update : handler[v] = "executing" => KeyOf[v] # KeyOf[u]
    BY <2>1 DEF TopicFree, Executing
  <2>3. PICK file \in Files :
          LET rec == Resolved(file[KeyOf[u]]) IN
          /\ request' = [request EXCEPT ![u] = rec]
          /\ stored' = IF rec = file[KeyOf[u]]
                         THEN stored
                         ELSE [file EXCEPT ![KeyOf[u]] = rec]
    BY <1>4 DEF Begin, Request
  <2>4. /\ \A v \in Update : KeyOf[v] \in Key
        /\ file \in [Key -> Record]
        /\ file = stored \/ file = [k \in Key |-> Absent]
    BY LoadedFile, ConstantsAssumption DEF IInv
  <2>5. Resolved(file[KeyOf[u]]) = file[KeyOf[u]] => file = stored
    <3>1. Resolved(file[KeyOf[u]]).provider \in Provider
      BY <2>4, ResolvedRecord DEF IInv, TypeOK
    <3>2. Absent.provider \notin Provider
      BY DEF Absent, Provider
    <3>3. QED
      BY <2>4, <3>1, <3>2
  <2>6. stored'[KeyOf[u]] = request'[u]
    BY <2>3, <2>4, <2>5 DEF IInv, TypeOK
  <2>7. \A k \in Key \ {KeyOf[u]} : stored'[k] \in {stored[k], Absent}
    BY <2>3, <2>4 DEF IInv, TypeOK
  <2>8. \A v \in Update \ {u} : request'[v] = request[v]
    BY <2>3 DEF IInv, TypeOK
  <2>9. \A v \in Update : handler'[v] = "executing" =>
          stored'[KeyOf[v]] \in {request'[v], Absent}
    BY <2>1, <2>2, <2>4, <2>6, <2>7, <2>8 DEF IInv, TypeOK, Undisturbed
  <2>10. QED
    BY <2>1, <2>2, <2>9 DEF IInv, TypeOK, Undisturbed
<1>5. ASSUME NEW u \in Update, ReadThread(u) PROVE Undisturbed'
  BY <1>5 DEF ReadThread, IInv, TypeOK, Undisturbed
<1>6. ASSUME NEW u \in Update, Finish(u) PROVE Undisturbed'
  <2>1. /\ handler[u] = "executing"
        /\ handler' = [handler EXCEPT ![u] = "over"]
        /\ request' = request
    BY <1>6 DEF Finish, Over, Executing
  <2>2. \A k \in Key \ {KeyOf[u]} : stored'[k] \in {stored[k], Absent}
    <3>1. CASE announced[u]
      <4>1. PICK file \in Files :
              \E rec : stored' = [file EXCEPT ![KeyOf[u]] = rec]
        BY <1>6, <3>1 DEF Finish
      <4>2. /\ file \in [Key -> Record]
            /\ file = stored \/ file = [k \in Key |-> Absent]
        BY LoadedFile DEF IInv
      <4>3. QED
        BY <4>1, <4>2
    <3>2. CASE ~announced[u]
      BY <1>6, <3>2 DEF Finish
    <3>3. QED
      BY <3>1, <3>2
  <2>3. QED
    BY <2>1, <2>2, ConstantsAssumption DEF IInv, TypeOK, Undisturbed
<1>7. ASSUME NEW u \in Update, Abandon(u) PROVE Undisturbed'
  BY <1>7 DEF Abandon, Over, IInv, TypeOK, Undisturbed
<1>8. ASSUME NEW u \in Update, StartThread(u) PROVE Undisturbed'
  BY <1>8 DEF StartThread, Opens, IInv, TypeOK, Undisturbed
<1>9. ASSUME NEW u \in Update, ResumeThread(u) PROVE Undisturbed'
  BY <1>9 DEF ResumeThread, Opens, IInv, TypeOK, Undisturbed
<1>10. ASSUME NEW u \in Update, Submit(u) PROVE Undisturbed'
  BY <1>10 DEF Submit, IInv, TypeOK, Undisturbed
<1>11. ASSUME NEW u \in Update, End(u) PROVE Undisturbed'
  BY <1>11 DEF End, IInv, TypeOK, Undisturbed
<1>12. ASSUME NEW k \in Key, Reset(k) PROVE Undisturbed'
  <2>1. /\ TopicFree(k) /\ up
        /\ handler' = handler /\ request' = request
    BY <1>12 DEF Reset
  <2>2. \A j \in Key \ {k} : stored'[j] \in {stored[j], Absent}
    <3>1. PICK file \in Files : stored' = [file EXCEPT ![k] = Fresh(file[k])]
      BY <1>12 DEF Reset
    <3>2. /\ file \in [Key -> Record]
          /\ file = stored \/ file = [j \in Key |-> Absent]
      BY LoadedFile DEF IInv
    <3>3. QED
      BY <3>1, <3>2
  <2>3. \A v \in Update : handler[v] = "executing" => KeyOf[v] # k
    BY <2>1 DEF TopicFree, Executing
  <2>4. QED
    BY <2>1, <2>2, <2>3, ConstantsAssumption DEF IInv, Undisturbed
<1>13. CASE Crash
  BY <1>13 DEF Crash, IInv, TypeOK, Undisturbed
<1>14. CASE Start
  BY <1>14 DEF Start, IInv, TypeOK, Undisturbed
<1>15. CASE SocketChanges
  BY <1>15 DEF SocketChanges, IInv, TypeOK, Undisturbed
<1>16. CASE UNCHANGED vars
  BY <1>16 DEF vars, IInv, TypeOK, Undisturbed
<1>17. QED
  BY <1>1, <1>2, <1>3, <1>4, <1>5, <1>6, <1>7, <1>8, <1>9, <1>10, <1>11,
     <1>12, <1>13, <1>14, <1>15, <1>16
  DEF Next, Turn, Process

-----------------------------------------------------------------------------
(* The theorems.                                                             *)

(* The strengthened invariant holds in every reachable state.                *)
THEOREM Invariance == Spec => []IInv
<1>1. IInv /\ [Next]_vars => IInv'
  BY TypeStep, OneStartStep, OwnServerStep, TracedStep, UndisturbedStep
  DEF IInv
<1>2. QED
  BY InitIInv, <1>1, PTL DEF Spec

(* Every reachable state has its types: what is saved can be loaded again.   *)
THEOREM TypeCorrect == Spec => []TypeOK
<1>1. IInv => TypeOK
  BY DEF IInv
<1>2. QED
  BY <1>1, Invariance, PTL

(* A stored session belongs to the provider and transport of its record and  *)
(* to its topic, for any number of turns, gateway runs and unreadable files. *)
THEOREM OwnershipHolds == Spec => []OwnershipRecorded
<1>1. IInv => OwnershipRecorded
  BY DEF IInv, Traced, Created, OwnershipRecorded
<1>2. QED
  BY <1>1, Invariance, PTL

(* No process resumes a session that another server or topic created.        *)
THEOREM ResumesFit == Spec => []ResumeFits
<1>1. IInv => ResumeFits
  BY DEF IInv, Traced, Created, ResumeFits
<1>2. QED
  BY <1>1, Invariance, PTL

(* No message is submitted to a provider twice, whenever the gateway crashes.*)
THEOREM NeverReplayed == Spec => []SubmittedOnce
<1>1. IInv => SubmittedOnce
  BY DEF IInv, OneStart, SubmittedOnce
<1>2. QED
  BY <1>1, Invariance, PTL

(* The step property behind ContinuesSession: a process that opens a session *)
(* of its own was given none that fits, and the file still says so.          *)
LEMMA NewIsUnfit ==
  ASSUME IInv, [Next]_vars, NEW u \in Update, Executing(u),
         server[u] # "claude", process[u] = "started", thread'[u] = u
  PROVE  stored[KeyOf[u]].id = NoId \/ origin[stored[KeyOf[u]].id] # server[u]
<1>1. thread[u] = NoId /\ origin[u] = "none" /\ u # NoId
  BY ConstantsAssumption DEF IInv, Traced
<1>2. /\ stored[KeyOf[u]] \in {request[u], Absent}
      /\ request[u].id # NoId => Created(request[u].id, Owner(request[u]), KeyOf[u])
      /\ request[u].provider = "codex"
  BY DEF Executing, IInv, OwnServer, Traced, Undisturbed
<1>3. StartThread(u) => request[u].id = NoId \/ request[u].backend # server[u]
  BY DEF StartThread, Fits
<1>4. StartThread(u) \/ ResumeThread(u)
  <2>1. thread' # thread
    BY <1>1
  <2>2. PICK v \in Update : Begin(v) \/ StartThread(v) \/ ResumeThread(v)
    BY <2>1 DEF Next, Turn, Process, vars, gatewayVars, telegramVars,
                storeVars, processVars, historyVars, Send, Poll, Confirm, ReadThread,
                Finish, Abandon, Submit, End, Reset, Crash, Start, SocketChanges
  <2>3. v = u
    BY <1>1, <2>2 DEF Begin, StartThread, ResumeThread, Opens, IInv, TypeOK
  <2>4. ~Begin(u)
    BY DEF Begin, Executing
  <2>5. QED
    BY <2>2, <2>3, <2>4
<1>5. ~ResumeThread(u)
  <2>1. SUFFICES ASSUME ResumeThread(u) PROVE FALSE
    OBVIOUS
  <2>2. request[u].id = u
    BY <2>1 DEF ResumeThread, Opens, IInv, TypeOK
  <2>3. QED
    BY <1>1, <1>2, <2>2 DEF Created, Server, Transport
<1>6. QED
  BY <1>2, <1>3, <1>4, <1>5 DEF Created, Owner, Absent

(* While its turn is in the gateway, a process that could resume the topic's *)
(* session does.                                                             *)
THEOREM ContinuesSession == Spec => NewOnlyIfUnfit
<1>1. IInv /\ [Next]_vars =>
        [\A u \in Update :
           /\ Executing(u) /\ server[u] # "claude"
           /\ process[u] = "started" /\ thread'[u] = u
           => \/ stored[KeyOf[u]].id = NoId
              \/ origin[stored[KeyOf[u]].id] # server[u]]_vars
  BY NewIsUnfit
<1>2. QED
  BY <1>1, Invariance, PTL DEF Spec, NewOnlyIfUnfit

(* Only Begin, Finish and Reset write the file.  If it was read, Begin       *)
(* forgets the record of another provider; Finish stores an id in any case.  *)
LEMMA ForgetsOnPurpose ==
  ASSUME IInv, [Next]_vars, NEW k \in Key,
         stored[k].id # NoId, stored'[k].id = NoId
  PROVE  \/ Reset(k)
         \/ stored[k].provider # provider
         \/ misread' /\ \A u \in Update : Finish(u) => KeyOf[u] # k
<1>1. \/ \E u \in Update : Begin(u) \/ Finish(u)
      \/ \E j \in Key : Reset(j)
  BY DEF Next, Turn, Process, vars, gatewayVars, telegramVars, storeVars,
         processVars, historyVars, Send, Poll, Confirm, ReadThread, Abandon,
         StartThread, ResumeThread, Opens, Submit, End, Crash, Start,
         SocketChanges
<1>2. ASSUME NEW u \in Update, Finish(u) PROVE KeyOf[u] # k /\ misread'
  <2>1. announced[u] /\ thread[u] # NoId
    BY <1>2 DEF Finish, IInv, Traced
  <2>2. PICK file \in Files :
          /\ Load(file)
          /\ \E rec : stored' = [file EXCEPT ![KeyOf[u]] = Updated(rec, u)]
    BY <1>2, <2>1 DEF Finish
  <2>3. PICK rec : stored' = [file EXCEPT ![KeyOf[u]] = Updated(rec, u)]
    BY <2>2
  <2>4. file \in [Key -> Record] /\ misread' \in BOOLEAN
        /\ (~misread' => file = stored)
    BY <2>2, LoadedFile, LoadedOrMisread DEF IInv
  <2>5. Updated(rec, u).id # NoId
    BY <2>1 DEF Updated
  <2>6. KeyOf[u] # k
    BY <2>3, <2>4, <2>5
  <2>7. QED
    BY <2>3, <2>4, <2>6
<1>3. ASSUME NEW u \in Update, Begin(u), ~misread'
      PROVE  stored[k].provider # provider
  <2>1. \/ stored' = stored
        \/ stored' = [stored EXCEPT ![KeyOf[u]] = Resolved(stored[KeyOf[u]])]
    BY <1>3, LoadedOrMisread DEF Begin, IInv
  <2>2. KeyOf[u] = k /\ Resolved(stored[k]) # stored[k]
    BY <2>1 DEF IInv, TypeOK
  <2>3. QED
    BY <2>2 DEF Resolved, Usable
<1>4. ASSUME NEW j \in Key, Reset(j), ~misread' PROVE j = k
  BY <1>4, LoadedOrMisread DEF Reset, IInv, TypeOK
<1>5. misread' \in BOOLEAN
  BY TypeStep DEF TypeOK
<1>6. QED
  BY <1>1, <1>2, <1>3, <1>4, <1>5

(* A topic's session is forgotten only by its own /new, for another provider *)
(* or after a read of sessions.json that failed; the end of a turn of the    *)
(* topic never does.                                                         *)
THEOREM KeptUnlessForgotten == Spec => ForgottenOnPurpose
<1>1. IInv /\ [Next]_vars =>
        [\A k \in Key :
           stored[k].id # NoId /\ stored'[k].id = NoId
           => \/ Reset(k)
              \/ stored[k].provider # provider
              \/ misread' /\ \A u \in Update : Finish(u) => KeyOf[u] # k]_vars
  BY ForgetsOnPurpose
<1>2. QED
  BY <1>1, Invariance, PTL DEF Spec, ForgottenOnPurpose

(* Stored and resumed sessions fit the provider they are given to.           *)
THEOREM AllFit == Spec => []SessionsFit
  BY TypeCorrect, OwnershipHolds, ResumesFit, PTL DEF SessionsFit
=============================================================================
