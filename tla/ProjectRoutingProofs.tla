-------------------------- MODULE ProjectRoutingProofs --------------------------
(* ProjectRouting for every set of topics, names and turns and every mapping.*)
EXTENDS ProjectRouting, TLAPS

(* A name in the cache is the last one told; a record has the name that the  *)
(* last turn or /new ran under, and so has the session of a running turn.    *)
Named ==
    /\ \A t \in Topic : cached[t] # None => cached[t] = told[t]
    /\ \A t \in Topic : used[t] # None => file[t].name = used[t]
    /\ \A m \in Turn : pc[m] = "running" /\ used[TopicOf[m]] # None =>
                          named[m] = used[TopicOf[m]]

IInv == TypeOK /\ Named

-----------------------------------------------------------------------------
(* There are two keys, and the first that is mapped is found.                *)
Hits(t, name) == {key \in {name, t} : key \in DOMAIN Roots}

LEMMA ProjectOfTopic ==
  ASSUME NEW t \in Topic, NEW name
  PROVE  /\ Hits(t, name) = {} => Project(t, name) = Default
         /\ Hits(t, name) # {} => \E key \in Hits(t, name) :
               Project(t, name) = IF Roots[key] \in missing THEN Refused ELSE Roots[key]
<1> DEFINE keys == Keys(t, name)
           hits == {i \in 1..2 : keys[i] \in DOMAIN Roots}
           least == CHOOSE i \in hits : \A j \in hits : i <= j
<1>1. keys[1] = name /\ keys[2] = t
  BY DEF Keys
<1>2. Project(t, name) = IF hits = {} THEN Default
                         ELSE IF Roots[keys[least]] \in missing THEN Refused ELSE Roots[keys[least]]
  BY DEF Project, Unmapped
<1> HIDE DEF keys
<1>3. hits = {} <=> Hits(t, name) = {}
  BY <1>1 DEF Hits
<1>4. ASSUME hits # {} PROVE keys[least] \in Hits(t, name)
  <2>1. \E i \in hits : \A j \in hits : i <= j
    <3>1. CASE 1 \in hits
      BY <3>1
    <3>2. CASE 1 \notin hits
      <4>1. hits = {2}
        BY <3>2, <1>4
      <4>2. QED
        BY <4>1
    <3>3. QED
      BY <3>1, <3>2
  <2>2. least \in hits
    BY <2>1
  <2>3. least = 1 \/ least = 2
    BY <2>2
  <2>4. QED
    BY <1>1, <2>2, <2>3 DEF Hits
<1> HIDE DEF hits, least
<1>5. QED
  BY <1>2, <1>3, <1>4

(* A project is a mapped directory that exists, the default or a refusal; it *)
(* is the default when nothing is mapped.                                    *)
LEMMA ProjectType ==
  ASSUME NEW t \in Topic, NEW name
  PROVE  /\ Project(t, name) \in Directory \union {Default, Refused}
         /\ Project(t, name) # None /\ Project(t, name) \notin missing \ {Default, Refused}
         /\ Project(t, name) = Default <=> Hits(t, name) = {}
<1>1. \A key \in Hits(t, name) : key \in DOMAIN Roots
  BY DEF Hits
<1>2. CASE Hits(t, name) = {}
  <2>1. Project(t, name) = Default
    BY <1>2, ProjectOfTopic
  <2>2. QED
    BY <1>2, <2>1, ConstantsAssumption
<1>3. CASE Hits(t, name) # {}
  <2>1. PICK key \in Hits(t, name) :
            Project(t, name) = IF Roots[key] \in missing THEN Refused ELSE Roots[key]
    BY <1>3, ProjectOfTopic
  <2>2. key \in DOMAIN Roots /\ Roots[key] \in Directory /\ Roots[key] \notin {Default, Refused, None}
    BY <1>1, ConstantsAssumption DEF Directory
  <2>3. Refused \notin {Default, None}
    BY ConstantsAssumption DEF Refused, Default
  <2>4. QED
    BY <1>3, <2>1, <2>2, <2>3
<1>4. QED
  BY <1>2, <1>3

(* What a read gives has the type of the file; the name a topic is known by  *)
(* is a name.                                                                *)
LEMMA ReadType ==
  ASSUME TypeOK, NEW sessions \in Reads, NEW t \in Topic
  PROVE  /\ sessions \in [Topic -> [provider : {"none", "own", "other"}, name : Name \union {None}]]
         /\ KnownName(t, sessions) \in Name \union {None}
         /\ sessions = file \/ \A o \in Topic : sessions[o] = Absent
  BY DEF TypeOK, KnownName, Reads, Unread, Absent

(* Saving a record, of whichever provider, keeps the name.                   *)
LEMMA SaveKeepsName ==
  ASSUME TypeOK, Named, NEW t \in Topic, NEW sessions \in Reads, NEW name,
         name = NameKept(t, sessions), Save(t, sessions, name)
  PROVE  /\ \A o \in Topic : used'[o] # None => file'[o].name = used'[o]
         /\ \A o \in Topic \ {t} : used'[o] \in {None, used[o]}
         /\ used' \in [Topic -> Name \union {None}]
         /\ file' \in [Topic -> [provider : {"none", "own", "other"}, name : Name \union {None}]]
         /\ name \in Name \union {None} /\ used'[t] = name /\ file'[t].name = name
<1>1. name = KnownName(t, sessions) /\ name \in Name \union {None}
  BY ReadType DEF NameKept
<1>2. sessions \in [Topic -> [provider : {"none", "own", "other"}, name : Name \union {None}]]
  BY ReadType
<1>3. /\ file' = [sessions EXCEPT ![t] = [provider |-> "own", name |-> name]]
      /\ used' = [o \in Topic |-> IF o = t THEN name
                                   ELSE IF sessions = file THEN used[o] ELSE None]
  BY <1>1 DEF Save
<1>4. file'[t].name = name /\ used'[t] = name
  BY <1>2, <1>3
<1>5. \A o \in Topic \ {t} : file'[o] = sessions[o]
                            /\ used'[o] = IF sessions = file THEN used[o] ELSE None
  BY <1>2, <1>3
<1>6. \A o \in Topic : used'[o] # None => file'[o].name = used'[o]
  BY <1>4, <1>5 DEF Named
<1>7. used' \in [Topic -> Name \union {None}]
  BY <1>1, <1>3 DEF TypeOK
<1>8. file' \in [Topic -> [provider : {"none", "own", "other"}, name : Name \union {None}]]
  BY <1>1, <1>2, <1>3
<1>9. QED
  BY <1>1, <1>4, <1>5, <1>6, <1>7, <1>8

(* update_session finds the name that the turn's session has, or it is lost. *)
LEMMA PersistKeepsName ==
  ASSUME TypeOK, Named, NEW m \in Turn, pc[m] = "running", Persist(m)
  PROVE  /\ \A o \in Topic : used'[o] # None => file'[o].name = used'[o]
         /\ \A o \in Topic : used'[o] \in {None, used[o]}
         /\ used' \in [Topic -> Name \union {None}]
         /\ file' \in [Topic -> [provider : {"none", "own", "other"}, name : Name \union {None}]]
<1> DEFINE t == TopicOf[m]
           Now(sessions) == IF sessions[t] = Absent THEN named[m] ELSE sessions[t].name
<1>1. t \in Topic
  BY ConstantsAssumption
<1>2. PICK sessions \in Reads :
        /\ file' = [sessions EXCEPT ![t] = [provider |-> "own", name |-> Now(sessions)]]
        /\ used' = [o \in Topic |-> IF o = t \/ sessions = file THEN used[o] ELSE None]
  BY DEF Persist
<1>3. /\ sessions \in [Topic -> [provider : {"none", "own", "other"}, name : Name \union {None}]]
      /\ sessions = file \/ \A o \in Topic : sessions[o] = Absent
  BY <1>1, ReadType
<1>4. Now(sessions) \in Name \union {None}
  BY <1>1, <1>3 DEF TypeOK
<1>5. used[t] # None => Now(sessions) = used[t]
  BY <1>1, <1>3 DEF Named, Absent
<1> HIDE DEF Now
<1>6. file'[t].name = Now(sessions) /\ used'[t] = used[t]
  BY <1>1, <1>2, <1>3
<1>7. \A o \in Topic \ {t} : file'[o] = sessions[o]
                            /\ used'[o] = IF sessions = file THEN used[o] ELSE None
  BY <1>1, <1>2, <1>3
<1>8. \A o \in Topic : used'[o] # None => file'[o].name = used'[o]
  BY <1>5, <1>6, <1>7 DEF Named
<1>9. used' \in [Topic -> Name \union {None}]
  BY <1>2 DEF TypeOK
<1>10. file' \in [Topic -> [provider : {"none", "own", "other"}, name : Name \union {None}]]
  BY <1>2, <1>3, <1>4
<1>11. QED
  BY <1>6, <1>7, <1>8, <1>9, <1>10

-----------------------------------------------------------------------------
(* The initial state satisfies the invariant.                                *)
LEMMA InitIInv == Init => IInv
<1>1. ASSUME Init PROVE TypeOK
  BY <1>1, ConstantsAssumption DEF Init, TypeOK, Directory, Unread, Absent
<1>2. ASSUME Init PROVE Named
  <2>1. \A m \in Turn : pc[m] # "running"
    BY <1>2 DEF Init
  <2>2. \A t \in Topic : used[t] = None /\ cached[t] = None
    BY <1>2 DEF Init
  <2>3. QED
    BY <2>1, <2>2 DEF Named
<1>3. QED
  BY <1>1, <1>2 DEF IInv

(* The invariant is inductive.                                               *)
LEMMA StepIInv ==
  ASSUME IInv, [Next]_vars
  PROVE  IInv'
<1> USE ConstantsAssumption DEF IInv, TypeOK, Named, turnVars
<1>1. ASSUME NEW t \in Topic, Reset(t) PROVE IInv'
  <2>1. PICK sessions \in Reads : Save(t, sessions, NameKept(t, sessions))
    BY <1>1 DEF Reset
  <2>2. PICK name : name = NameKept(t, sessions)
    OBVIOUS
  <2>3. Save(t, sessions, name)
    BY <2>1, <2>2
  <2>4. /\ \A o \in Topic : used'[o] # None => file'[o].name = used'[o]
        /\ \A o \in Topic \ {t} : used'[o] \in {None, used[o]}
        /\ used' \in [Topic -> Name \union {None}]
        /\ file' \in [Topic -> [provider : {"none", "own", "other"}, name : Name \union {None}]]
    BY <2>2, <2>3, SaveKeepsName
  <2>5. \A m \in Turn : pc[m] = "running" => TopicOf[m] \in Topic \ {t}
    BY <1>1 DEF Reset
  <2>6. UNCHANGED <<up, cached, missing, turnVars, misread, told>>
    BY <1>1 DEF Reset
  <2>7. TypeOK'
    BY <2>4, <2>6
  <2>8. Named'
    BY <2>4, <2>5, <2>6
  <2>9. QED
    BY <2>7, <2>8
<1>2. ASSUME NEW t \in Topic, NEW n \in Name, Rename(t, n) PROVE IInv'
  BY <1>2 DEF Rename
<1>3. ASSUME NEW d \in Directory, ChangeDirectory(d) PROVE IInv'
  BY <1>3 DEF ChangeDirectory
<1>4. ASSUME NEW m \in Turn, Accept(m) PROVE IInv'
  <2>1. TopicOf[m] \in Topic
    OBVIOUS
  <2>2. PICK sessions \in Reads :
            roots' = [roots EXCEPT ![m] = Project(TopicOf[m], KnownName(TopicOf[m], sessions))]
    BY <1>4 DEF Accept
  <2>3. /\ pc' = [pc EXCEPT ![m] = IF roots'[m] = Refused THEN "refused" ELSE "waiting"]
        /\ UNCHANGED <<up, cached, file, missing, cwd, named, misread, told, used>>
    BY <1>4 DEF Accept
  <2>4. roots' \in [Turn -> Directory \union {Default, Refused, None}] /\ roots'[m] # None
    BY <2>1, <2>2, ProjectType
  <2>5. \A o \in Turn : pc'[o] \in {"waiting", "running", "sent"} => roots'[o] \notin {None, Refused}
    BY <2>2, <2>3, <2>4
  <2>6. QED
    BY <2>3, <2>4, <2>5
<1>5. ASSUME NEW m \in Turn, Execute(m) PROVE IInv'
  <2> DEFINE t == TopicOf[m]
  <2>1. t \in Topic
    OBVIOUS
  <2>2. PICK sessions \in Reads :
          /\ named' = [named EXCEPT ![m] = NameKept(t, sessions)]
          /\ Save(t, sessions, named'[m])
          /\ \E again \in {file', Unread} :
               /\ cwd' = [cwd EXCEPT ![m] = Project(t, KnownName(t, again))]
               /\ misread' = (sessions # file \/ again # file')
    BY <1>5 DEF Execute
  <2>3. PICK name : name = NameKept(t, sessions)
    OBVIOUS
  <2>4. named' = [named EXCEPT ![m] = name] /\ Save(t, sessions, name)
    BY <2>2, <2>3
  <2>5. /\ \A o \in Topic : used'[o] # None => file'[o].name = used'[o]
        /\ \A o \in Topic \ {t} : used'[o] \in {None, used[o]}
        /\ used' \in [Topic -> Name \union {None}]
        /\ file' \in [Topic -> [provider : {"none", "own", "other"}, name : Name \union {None}]]
        /\ name \in Name \union {None} /\ used'[t] = name
    BY <2>1, <2>3, <2>4, SaveKeepsName
  <2>6. cwd' \in [Turn -> Directory \union {Default, Refused, None}] /\ misread' \in BOOLEAN
    <3>1. PICK again : /\ cwd' = [cwd EXCEPT ![m] = Project(t, KnownName(t, again))]
                       /\ misread' = (sessions # file \/ again # file')
      BY <2>2
    <3>2. Project(t, KnownName(t, again)) \in Directory \union {Default, Refused}
      BY <2>1, ProjectType
    <3>3. QED
      BY <3>1, <3>2
  <2>7. /\ pc[m] = "waiting"
        /\ \A o \in Turn : pc[o] = "running" => TopicOf[o] # t
        /\ pc' = [pc EXCEPT ![m] = IF cwd'[m] = Refused THEN "refused" ELSE "running"]
        /\ UNCHANGED <<up, cached, missing, roots, told>>
    BY <1>5 DEF Execute
  <2>8. \A o \in Turn : pc'[o] \in {"waiting", "running", "sent"} => roots'[o] \notin {None, Refused}
    BY <2>7
  <2>9. pc' \in [Turn -> {"off", "waiting", "running", "sent", "refused", "lost"}]
    BY <2>7
  <2>10. TypeOK'
    BY <2>4, <2>5, <2>6, <2>7, <2>8, <2>9
  <2>11. ASSUME NEW o \in Turn, pc'[o] = "running", used'[TopicOf[o]] # None
         PROVE  named'[o] = used'[TopicOf[o]]
    <3>1. CASE o = m
      BY <3>1, <2>4, <2>5
    <3>2. CASE o # m
      <4>1. pc[o] = "running" /\ TopicOf[o] \in Topic \ {t} /\ named'[o] = named[o]
        BY <3>2, <2>4, <2>7, <2>11
      <4>2. QED
        BY <4>1, <2>5, <2>11
    <3>3. QED
      BY <3>1, <3>2
  <2>12. Named'
    BY <2>5, <2>7, <2>11
  <2>13. QED
    BY <2>10, <2>12
<1>6. ASSUME NEW m \in Turn, Finish(m) PROVE IInv'
  <2>1. /\ pc[m] = "running" /\ pc' = [pc EXCEPT ![m] = "sent"]
        /\ named' = [named EXCEPT ![m] = None]
        /\ UNCHANGED <<up, cached, missing, roots, cwd, misread, told>>
    BY <1>6 DEF Finish
  <2>2. /\ \A o \in Topic : used'[o] # None => file'[o].name = used'[o]
        /\ \A o \in Topic : used'[o] \in {None, used[o]}
        /\ used' \in [Topic -> Name \union {None}]
        /\ file' \in [Topic -> [provider : {"none", "own", "other"}, name : Name \union {None}]]
    <3>1. CASE Persist(m)
      BY <2>1, <3>1, PersistKeepsName
    <3>2. CASE UNCHANGED <<file, used>>
      BY <3>2
    <3>3. QED
      BY <1>6, <3>1, <3>2 DEF Finish
  <2>3. TypeOK'
    BY <2>1, <2>2
  <2>4. \A o \in Turn : pc'[o] = "running" => o # m /\ pc[o] = "running" /\ named'[o] = named[o]
    BY <2>1
  <2>5. \A o \in Turn : TopicOf[o] \in Topic
    OBVIOUS
  <2>6. Named'
    BY <2>1, <2>2, <2>4, <2>5
  <2>7. QED
    BY <2>3, <2>6
<1>7. CASE Stop
  BY <1>7 DEF Stop
<1>8. CASE Start
  <2>1. \A t \in Topic : file'[t].name = file[t].name
                        /\ file'[t].provider \in {file[t].provider, "other"}
    BY <1>8 DEF Start, OfAnother
  <2>2. file' \in [Topic -> [provider : {"none", "own", "other"}, name : Name \union {None}]]
    BY <1>8 DEF Start, OfAnother
  <2>3. QED
    BY <1>8, <2>1, <2>2 DEF Start
<1>9. CASE UNCHANGED vars
  BY <1>9 DEF vars
<1>10. QED
  BY <1>1, <1>2, <1>3, <1>4, <1>5, <1>6, <1>7, <1>8, <1>9 DEF Next

-----------------------------------------------------------------------------
(* Type correctness, and a turn that goes on has a project.                  *)
THEOREM TypeCorrect == Spec => []TypeOK
<1>1. IInv /\ [Next]_vars => IInv'
  BY StepIInv
<1>2. IInv => TypeOK
  BY DEF IInv
<1>3. QED
  BY InitIInv, <1>1, <1>2, PTL DEF Spec

(* A name lasts over restarts and provider changes until another is told.    *)
THEOREM NamesLast == Spec => []NameLasts
<1>1. IInv /\ [Next]_vars => IInv'
  BY StepIInv
<1>2. IInv => NameLasts
  BY DEF IInv, TypeOK, Named, NameLasts, KnownName
<1>3. QED
  BY InitIInv, <1>1, <1>2, PTL DEF Spec

(* A mapped topic runs neither in a directory that is missing nor in the     *)
(* default project, but for one that is known by a name only when a read of  *)
(* it fails.                                                                 *)
THEOREM NoFallback == Spec => NeverFallsBack
<1> USE DEF turnVars
<1>1. IInv /\ [Next]_vars => IInv'
  BY StepIInv
<1>2. ASSUME IInv, [Next]_vars, NEW m \in Turn, pc[m] = "waiting", pc'[m] = "running"
      PROVE  InItsProject(m)
  <2> DEFINE t == TopicOf[m]
             unknown == misread' /\ cached[t] = None /\ t \notin DOMAIN Roots
  <2>1. Execute(m)
    <3> USE <1>2 DEF IInv, TypeOK
    <3>1. ~(\E o \in Topic : Reset(o) \/ \E n \in Name : Rename(o, n))
      BY DEF Reset, Rename
    <3>2. ~(\E d \in Directory : ChangeDirectory(d))
      BY DEF ChangeDirectory
    <3>3. ~(\E o \in Turn : Accept(o) \/ Finish(o))
      BY DEF Accept, Finish
    <3>4. ~Stop /\ ~Start /\ ~UNCHANGED vars
      BY DEF Stop, Start, vars
    <3>5. \A o \in Turn : Execute(o) => o = m
      BY DEF Execute
    <3>6. QED
      BY <3>1, <3>2, <3>3, <3>4, <3>5 DEF Next
  <2>2. t \in Topic
    BY ConstantsAssumption
  <2>3. PICK sessions \in Reads :
          /\ Save(t, sessions, NameKept(t, sessions))
          /\ \E again \in {file', Unread} :
               /\ cwd' = [cwd EXCEPT ![m] = Project(t, KnownName(t, again))]
               /\ misread' = (sessions # file \/ again # file')
    <3>1. PICK sessions \in Reads :
            /\ named' = [named EXCEPT ![m] = NameKept(t, sessions)]
            /\ Save(t, sessions, named'[m])
            /\ \E again \in {file', Unread} :
                 /\ cwd' = [cwd EXCEPT ![m] = Project(t, KnownName(t, again))]
                 /\ misread' = (sessions # file \/ again # file')
      BY <2>1 DEF Execute
    <3>2. named'[m] = NameKept(t, sessions)
      BY <1>2, <3>1 DEF IInv, TypeOK
    <3>3. Save(t, sessions, NameKept(t, sessions))
      BY <3>1, <3>2
    <3>4. QED
      BY <3>1, <3>3
  <2>4. PICK again \in {file', Unread} :
          /\ cwd' = [cwd EXCEPT ![m] = Project(t, KnownName(t, again))]
          /\ misread' = (sessions # file \/ again # file')
    BY <2>3
  <2>5. PICK name : name = KnownName(t, again)
    OBVIOUS
  <2>6. cwd'[m] = Project(t, name) /\ cwd'[m] # Refused
    <3>1. cwd'[m] = Project(t, name)
      BY <1>2, <2>4, <2>5 DEF IInv, TypeOK
    <3>2. pc' = [pc EXCEPT ![m] = IF cwd'[m] = Refused THEN "refused" ELSE "running"]
      BY <2>1 DEF Execute
    <3>3. QED
      BY <1>2, <3>1, <3>2 DEF IInv, TypeOK
  <2>7. missing \subseteq Directory /\ Default \notin Directory
    BY <1>2, ConstantsAssumption DEF IInv, TypeOK, Directory
  <2>8. cwd'[m] \notin missing /\ (cwd'[m] = Default <=> Hits(t, name) = {})
    BY <2>2, <2>6, <2>7, ProjectType
  <2>9. Hits(t, name) = {} <=> Mapped(t) = {} \/ unknown
    <3>1. None \notin DOMAIN Roots
      BY ConstantsAssumption
    <3>2. PICK saved : saved = NameKept(t, sessions)
      OBVIOUS
    <3>3. file'[t].name = KnownName(t, sessions)
      <4>1. Save(t, sessions, saved)
        BY <2>3, <3>2
      <4>2. QED
        BY <1>2, <2>2, <3>2, <4>1, SaveKeepsName DEF IInv, NameKept
    <3>4. cached[t] # None => name = KnownName(t, file)
      BY <2>5 DEF KnownName
    <3>5. cached[t] = None /\ ~misread' => name = KnownName(t, file)
      BY <2>4, <2>5, <3>3 DEF KnownName
    <3>6. cached[t] = None /\ misread' => name = None
      <4>1. CASE again = Unread
        BY <2>2, <2>5, <4>1 DEF KnownName, Unread, Absent
      <4>2. CASE again = file' /\ sessions = Unread
        BY <2>2, <2>5, <3>3, <4>2 DEF KnownName, Unread, Absent
      <4>3. QED
        BY <2>4, <4>1, <4>2 DEF Reads
    <3>7. misread' \in BOOLEAN
      BY <2>4
    <3>8. ASSUME name = KnownName(t, file), ~unknown PROVE Hits(t, name) = Mapped(t)
      BY <3>8 DEF Hits, Mapped
    <3>9. ASSUME name = None PROVE Hits(t, name) = {} <=> t \notin DOMAIN Roots
      BY <3>1, <3>9 DEF Hits
    <3>10. t \in DOMAIN Roots => Mapped(t) # {}
      BY DEF Mapped
    <3>11. unknown => Hits(t, name) = {}
      BY <3>6, <3>9
    <3>12. name = KnownName(t, file) => Hits(t, name) = Mapped(t)
      BY DEF Hits, Mapped
    <3>13. QED
      BY <3>4, <3>5, <3>6, <3>7, <3>9, <3>10, <3>11, <3>12
  <2>10. QED
    BY <2>8, <2>9 DEF InItsProject
<1>3. IInv /\ [Next]_vars =>
        [\A m \in Turn : pc[m] = "waiting" /\ pc'[m] = "running" => InItsProject(m)]_vars
  BY <1>2
<1>4. QED
  BY InitIInv, <1>1, <1>3, PTL DEF Spec, NeverFallsBack
=============================================================================
