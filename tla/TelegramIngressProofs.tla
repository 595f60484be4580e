-------------------------- MODULE TelegramIngressProofs --------------------------
(* TelegramIngress for any number of messages, of any traits.                *)
EXTENDS TelegramIngress, FiniteSetTheorems, WellFoundedInduction, TLAPS

InFlight == {"storing", "fetching", "transcribing", "turn", "submitted", "told", "failed"}

Allowed(m) ==
    /\ is[m].chat \in {"group", "channel"} => is[m].listed
    /\ is[m].chat \in {"group", "private"} => is[m].user
    /\ is[m].chat = "group" => is[m].addressed # "another"
    /\ is[m].kind # "nothing"

(* The traits of a message and the configuration never change.               *)
Traits ==
    /\ is \in [Message -> Trait]
    /\ config \in [mentionOnly : BOOLEAN, audio : BOOLEAN, provider : {"codex", "claude"}]
    /\ path \in [Message -> Path \union {NoPath}]
    /\ files \in [Path -> {{}, {"part"}} \union {{m} : m \in Message}]

(* Only an allowed message goes on; media is stored first.                   *)
Entered == \A m \in Message :
    /\ pc[m] \in InFlight => Allowed(m)
    /\ pc[m] \in {"storing", "fetching", "transcribing"} => HasMedia(m)
    /\ pc[m] = "fetching" => path[m] \in Path

(* A payload is made once, and an error is the end of its message.           *)
OneOutcome == \A m \in Message :
    /\ payload[m] = IF pc[m] = "submitted" THEN Parts(m) ELSE {}
    /\ answered[m] # "nowhere" => pc[m] = "told"

(* A file belongs to a message that has been given its path.                 *)
Occupied == \A p \in Path : files[p] # {} =>
    \E o \in Message : path[o] = p /\ pc[o] \in InFlight \ {"storing"}

(* A path that was chosen alone is its message's own, before and after the   *)
(* file is there.                                                            *)
OwnPath == \A m \in Message \ overlapped :
    /\ pc[m] = "fetching" => files[path[m]] = {}
    /\ pc[m] \in {"transcribing", "turn", "submitted"} /\ HasMedia(m) =>
          path[m] \in Path /\ files[path[m]] = {m}
    /\ pc[m] \in {"fetching", "transcribing", "turn", "submitted"} /\ HasMedia(m) =>
          \A o \in Message \ {m} : pc[o] = "fetching" => path[o] # path[m]

States == pc \in [Message -> {"sent", "dropped"} \union InFlight]
Columns == payload \in [Message -> SUBSET {"text", "caption", "transcript", "quote", "image", "line"}]
           /\ answered \in [Message -> {"nowhere", "chat", "topic"}]

IInv == States /\ Columns /\ Traits /\ Entered /\ OneOutcome /\ Occupied /\ OwnPath

-----------------------------------------------------------------------------
(* Counters and names.                                                       *)

(* A nonempty set of numbers has a least one, which Min chooses.             *)
LEMMA MinExists ==
  ASSUME NEW S \in SUBSET Nat, S # {}
  PROVE  Min(S) \in S
<1>1. IsWellFoundedOn({ss \in Nat \X Nat : ss[1] < ss[2]}, Nat)
  BY NatLessThanWellFounded DEF OpToRel
<1>2. \E x \in S : \A y \in S : ~(<<y, x>> \in {ss \in Nat \X Nat : ss[1] < ss[2]})
  BY <1>1, WFMin
<1>3. PICK x \in S : \A y \in S : ~(<<y, x>> \in {ss \in Nat \X Nat : ss[1] < ss[2]})
  BY <1>2
<1>4. \A y \in S : x <= y
  <2>1. TAKE y \in S
  <2>2. x \in Nat /\ y \in Nat
    OBVIOUS
  <2>3. ~(y < x)
    BY <1>3, <2>2
  <2>4. QED
    BY <2>2, <2>3
<1>5. QED
  BY <1>4 DEF Min

(* The counters are one more than the messages.                              *)
LEMMA CounterSize ==
  /\ IsFiniteSet(Counter) /\ IsFiniteSet(Message)
  /\ Counter \subseteq Nat
  /\ Cardinality(Counter) = Cardinality(Message) + 1
  /\ Cardinality(Message) \in Nat
<1>1. IsFiniteSet(Message) /\ Cardinality(Message) \in Nat
  BY TraitsAssumption, FS_CardinalityType
<1>2. QED
  BY <1>1, FS_Interval DEF Counter

(* A name with a counter is a path, and another counter another path.        *)
LEMMA NamedPath ==
  ASSUME NEW m \in Message, NEW k \in Counter
  PROVE  /\ Named(m, k) \in Path
         /\ \A l \in Counter : Named(m, k) = Named(m, l) => k = l
  BY DEF Named, Path

(* Some counter is free: every occupied path is another message's.           *)
LEMMA CounterFree ==
  ASSUME Traits, Occupied, NEW m \in Message, pc[m] \notin InFlight \ {"storing"}
  PROVE  /\ FreeCounter(m) \in Counter
         /\ files[Named(m, FreeCounter(m))] = {}
<1> DEFINE free == {k \in Counter : files[Named(m, k)] = {}}
<1>1. free # {}
  <2>1. SUFFICES ASSUME free = {} PROVE FALSE
    OBVIOUS
  <2> DEFINE owner == [k \in Counter |->
                 CHOOSE o \in Message : path[o] = Named(m, k)]
  <2>2. \A k \in Counter : owner[k] \in Message /\ path[owner[k]] = Named(m, k)
    <3>1. TAKE k \in Counter
    <3>2. files[Named(m, k)] # {} /\ Named(m, k) \in Path
      BY <2>1, NamedPath
    <3>3. \E o \in Message : path[o] = Named(m, k)
      BY <3>2 DEF Occupied
    <3>4. QED
      BY <3>3
  <2>3. owner \in [Counter -> Message]
    BY <2>2
  <2> HIDE DEF owner
  <2>4. \E k, l \in Counter : k # l /\ owner[k] = owner[l]
    <3>1. Cardinality(Message) < Cardinality(Counter)
      BY CounterSize
    <3>2. IsFiniteSet(Counter) /\ IsFiniteSet(Message)
      BY CounterSize
    <3>3. \A f \in [Counter -> Message] : \E k, l \in Counter : k # l /\ f[k] = f[l]
      BY <3>1, <3>2, FS_PigeonHole
    <3>4. QED
      BY <2>3, <3>3
  <2>5. QED
    BY <2>2, <2>4, NamedPath
<1>2. free \in SUBSET Nat
  BY CounterSize
<1>3. Min(free) \in free
  BY <1>1, <1>2, MinExists
<1>4. QED
  BY <1>3 DEF FreeCounter

-----------------------------------------------------------------------------
(* The initial state satisfies the invariant.                                *)
LEMMA InitIInv == Init => IInv
<1> SUFFICES ASSUME Init PROVE IInv
  OBVIOUS
<1>1. is \in [Message -> Trait]
  BY TraitsAssumption DEF Init
<1>2. States /\ Columns /\ Traits
  BY <1>1 DEF Init, States, Columns, Traits, InFlight
<1>3. Entered /\ OneOutcome /\ Occupied /\ OwnPath
  BY DEF Init, Entered, OneOutcome, Occupied, OwnPath, InFlight
<1>4. QED
  BY <1>2, <1>3 DEF IInv
(* A message is in one of its states.                                        *)
LEMMA StatesStep ==
  ASSUME States, [Next]_vars
  PROVE  States'
<1> USE DEF States, InFlight
<1>1. ASSUME NEW m \in Message, Arrive(m) PROVE States'
  BY <1>1 DEF Arrive
<1>2. ASSUME NEW m \in Message, PrepareDestination(m) PROVE States'
  BY <1>2 DEF PrepareDestination
<1>3. ASSUME NEW m \in Message, Downloaded(m) PROVE States'
  BY <1>3 DEF Downloaded
<1>4. ASSUME NEW m \in Message, DownloadFails(m) PROVE States'
  BY <1>4 DEF DownloadFails, Tell
<1>5. ASSUME NEW m \in Message, Transcribed(m) PROVE States'
  BY <1>5 DEF Transcribed
<1>6. ASSUME NEW m \in Message, TranscriptionFails(m) PROVE States'
  BY <1>6 DEF TranscriptionFails, GivesUp, Tell
<1>7. ASSUME NEW m \in Message, Submit(m) PROVE States'
  BY <1>7 DEF Submit
<1>8. CASE UNCHANGED vars
  BY <1>8 DEF vars
<1>9. QED
  BY <1>1, <1>2, <1>3, <1>4, <1>5, <1>6, <1>7, <1>8 DEF Next, Handle

(* A payload has its parts, an answer a place.                               *)
LEMMA ColumnsStep ==
  ASSUME Columns, [Next]_vars
  PROVE  Columns'
<1> USE DEF Columns
<1>1. ASSUME NEW m \in Message, Arrive(m) PROVE Columns'
  BY <1>1 DEF Arrive
<1>2. ASSUME NEW m \in Message, PrepareDestination(m) PROVE Columns'
  BY <1>2 DEF PrepareDestination
<1>3. ASSUME NEW m \in Message, Downloaded(m) PROVE Columns'
  BY <1>3 DEF Downloaded
<1>4. ASSUME NEW m \in Message, DownloadFails(m) PROVE Columns'
  <2>1. payload' = payload
    BY <1>4 DEF DownloadFails
  <2>2. answered' \in [Message -> {"nowhere", "chat", "topic"}]
    BY <1>4 DEF DownloadFails, Tell
  <2>3. QED
    BY <2>1, <2>2
<1>5. ASSUME NEW m \in Message, Transcribed(m) PROVE Columns'
  BY <1>5 DEF Transcribed
<1>6. ASSUME NEW m \in Message, TranscriptionFails(m) PROVE Columns'
  <2>1. payload' = payload
    BY <1>6 DEF TranscriptionFails
  <2>2. answered' \in [Message -> {"nowhere", "chat", "topic"}]
    BY <1>6 DEF TranscriptionFails, GivesUp, Tell, ItsTopic
  <2>3. QED
    BY <2>1, <2>2
<1>7. ASSUME NEW m \in Message, Submit(m) PROVE Columns'
  <2>1. Parts(m) \in SUBSET {"text", "caption", "transcript", "quote", "image", "line"}
    BY DEF Parts
  <2>2. QED
    BY <1>7, <2>1 DEF Submit
<1>8. CASE UNCHANGED vars
  BY <1>8 DEF vars
<1>9. QED
  BY <1>1, <1>2, <1>3, <1>4, <1>5, <1>6, <1>7, <1>8 DEF Next, Handle

(* A path is given with a free counter.                                      *)
LEMMA TraitsStep ==
  ASSUME States, Traits, Occupied, [Next]_vars
  PROVE  Traits'
<1> USE DEF States, Traits, InFlight
<1>1. ASSUME NEW m \in Message, Arrive(m) PROVE Traits'
  BY <1>1 DEF Arrive
<1>2. ASSUME NEW m \in Message, PrepareDestination(m) PROVE Traits'
  <2>1. Named(m, FreeCounter(m)) \in Path
    BY <1>2, CounterFree, NamedPath DEF PrepareDestination
  <2>2. QED
    BY <1>2, <2>1 DEF PrepareDestination
<1>3. ASSUME NEW m \in Message, Downloaded(m) PROVE Traits'
  BY <1>3 DEF Downloaded
<1>4. ASSUME NEW m \in Message, DownloadFails(m) PROVE Traits'
  BY <1>4 DEF DownloadFails
<1>5. ASSUME NEW m \in Message, Transcribed(m) PROVE Traits'
  BY <1>5 DEF Transcribed
<1>6. ASSUME NEW m \in Message, TranscriptionFails(m) PROVE Traits'
  BY <1>6 DEF TranscriptionFails
<1>7. ASSUME NEW m \in Message, Submit(m) PROVE Traits'
  BY <1>7 DEF Submit
<1>8. CASE UNCHANGED vars
  BY <1>8 DEF vars
<1>9. QED
  BY <1>1, <1>2, <1>3, <1>4, <1>5, <1>6, <1>7, <1>8 DEF Next, Handle

(* Authorized and Dropped let only the allowed in.                           *)
LEMMA EnteredStep ==
  ASSUME States, Traits, Occupied, Entered, [Next]_vars
  PROVE  Entered'
<1> USE DEF States, Entered, InFlight, Allowed, HasMedia
<1>1. ASSUME NEW m \in Message, Arrive(m) PROVE Entered'
  <2>1. is[m] \in Trait
    BY DEF Traits
  <2>2. is' = is /\ path' = path /\ \A o \in Message \ {m} : pc'[o] = pc[o]
    BY <1>1 DEF Arrive
  <2>3. pc'[m] \in InFlight => Allowed(m)
    BY <1>1, <2>1 DEF Arrive, Authorized, Dropped, Trait, Chat
  <2>4. pc'[m] \in {"dropped", "storing", "turn"} /\ (pc'[m] = "storing" => HasMedia(m))
    BY <1>1 DEF Arrive
  <2>5. QED
    BY <2>2, <2>3, <2>4
<1>2. ASSUME NEW m \in Message, PrepareDestination(m) PROVE Entered'
  <2>1. Named(m, FreeCounter(m)) \in Path
    BY <1>2, CounterFree, NamedPath DEF PrepareDestination
  <2>2. pc' = [pc EXCEPT ![m] = "fetching"] /\ is' = is /\ pc[m] = "storing"
        /\ path' = [path EXCEPT ![m] = Named(m, FreeCounter(m))]
    BY <1>2 DEF PrepareDestination
  <2>3. path \in [Message -> Path \union {NoPath}]
    BY DEF Traits
  <2>4. QED
    BY <2>1, <2>2, <2>3
<1>3. ASSUME NEW m \in Message, Downloaded(m) PROVE Entered'
  BY <1>3 DEF Downloaded
<1>4. ASSUME NEW m \in Message, DownloadFails(m) PROVE Entered'
  BY <1>4 DEF DownloadFails, Tell
<1>5. ASSUME NEW m \in Message, Transcribed(m) PROVE Entered'
  BY <1>5 DEF Transcribed
<1>6. ASSUME NEW m \in Message, TranscriptionFails(m) PROVE Entered'
  BY <1>6 DEF TranscriptionFails, GivesUp, Tell
<1>7. ASSUME NEW m \in Message, Submit(m) PROVE Entered'
  BY <1>7 DEF Submit
<1>8. CASE UNCHANGED vars
  BY <1>8 DEF vars
<1>9. QED
  BY <1>1, <1>2, <1>3, <1>4, <1>5, <1>6, <1>7, <1>8 DEF Next, Handle

(* An error is told instead of a turn.                                       *)
LEMMA OutcomeStep ==
  ASSUME States, Columns, OneOutcome, [Next]_vars
  PROVE  OneOutcome'
<1> USE DEF States, Columns, OneOutcome, InFlight
<1>1. ASSUME NEW m \in Message, Arrive(m) PROVE OneOutcome'
  <2>1. \A o \in Message : Parts(o)' = Parts(o)
    BY <1>1 DEF Arrive, Parts, AsLine, AsImage, Attached, Transcribes, HasMedia
  <2>2. QED
    BY <1>1, <2>1 DEF Arrive
<1>2. ASSUME NEW m \in Message, PrepareDestination(m) PROVE OneOutcome'
  <2>1. \A o \in Message : Parts(o)' = Parts(o)
    BY <1>2 DEF PrepareDestination, Parts, AsLine, AsImage, Attached, Transcribes, HasMedia
  <2>2. QED
    BY <1>2, <2>1 DEF PrepareDestination
<1>3. ASSUME NEW m \in Message, Downloaded(m) PROVE OneOutcome'
  <2>1. \A o \in Message : Parts(o)' = Parts(o)
    BY <1>3 DEF Downloaded, Parts, AsLine, AsImage, Attached, Transcribes, HasMedia
  <2>2. QED
    BY <1>3, <2>1 DEF Downloaded
<1>4. ASSUME NEW m \in Message, DownloadFails(m) PROVE OneOutcome'
  <2>1. \A o \in Message : Parts(o)' = Parts(o)
    BY <1>4 DEF DownloadFails, Parts, AsLine, AsImage, Attached, Transcribes, HasMedia
  <2>2. QED
    BY <1>4, <2>1 DEF DownloadFails, Tell
<1>5. ASSUME NEW m \in Message, Transcribed(m) PROVE OneOutcome'
  <2>1. \A o \in Message : Parts(o)' = Parts(o)
    BY <1>5 DEF Transcribed, Parts, AsLine, AsImage, Attached, Transcribes, HasMedia
  <2>2. QED
    BY <1>5, <2>1 DEF Transcribed
<1>6. ASSUME NEW m \in Message, TranscriptionFails(m) PROVE OneOutcome'
  <2>1. \A o \in Message : Parts(o)' = Parts(o)
    BY <1>6 DEF TranscriptionFails, Parts, AsLine, AsImage, Attached, Transcribes, HasMedia
  <2>2. QED
    BY <1>6, <2>1 DEF TranscriptionFails, GivesUp, Tell
<1>7. ASSUME NEW m \in Message, Submit(m) PROVE OneOutcome'
  <2>1. \A o \in Message : Parts(o)' = Parts(o)
    BY <1>7 DEF Submit, Parts, AsLine, AsImage, Attached, Transcribes, HasMedia
  <2>2. QED
    BY <1>7, <2>1 DEF Submit
<1>8. CASE UNCHANGED vars
  BY <1>8 DEF vars, Parts, AsLine, AsImage, Attached, Transcribes, HasMedia
<1>9. QED
  BY <1>1, <1>2, <1>3, <1>4, <1>5, <1>6, <1>7, <1>8 DEF Next, Handle

(* A download, whole or in part, creates the file at its message's path.     *)
LEMMA OccupiedStep ==
  ASSUME States, Traits, Occupied, Entered, [Next]_vars
  PROVE  Occupied'
<1> USE DEF States, Traits, Occupied, InFlight
<1>1. ASSUME NEW m \in Message, Arrive(m) PROVE Occupied'
  BY <1>1 DEF Arrive
<1>2. ASSUME NEW m \in Message, PrepareDestination(m) PROVE Occupied'
  <2>1. pc' = [pc EXCEPT ![m] = "fetching"] /\ files' = files /\ pc[m] = "storing"
        /\ \A o \in Message \ {m} : path'[o] = path[o]
    BY <1>2 DEF PrepareDestination
  <2>2. QED
    BY <2>1
<1>3. ASSUME NEW m \in Message, Downloaded(m) PROVE Occupied'
  <2>1. pc[m] = "fetching" /\ path' = path /\ files' = [files EXCEPT ![path[m]] = {m}]
        /\ pc' = [pc EXCEPT ![m] = IF Transcribes(m) THEN "transcribing" ELSE "turn"]
    BY <1>3 DEF Downloaded
  <2>2. \A p \in Path : files'[p] # {} => files[p] # {} \/ p = path[m]
    BY <2>1
  <2>3. QED
    BY <2>1, <2>2
<1>4. ASSUME NEW m \in Message, DownloadFails(m) PROVE Occupied'
  <2>1. pc[m] = "fetching" /\ path' = path
        /\ (files' = files \/ files' = [files EXCEPT ![path[m]] = {"part"}])
        /\ pc'[m] \in {"told", "failed"} /\ \A o \in Message \ {m} : pc'[o] = pc[o]
    BY <1>4 DEF DownloadFails, Tell
  <2>2. \A p \in Path : files'[p] # {} => files[p] # {} \/ p = path[m]
    BY <2>1
  <2>3. QED
    BY <2>1, <2>2
<1>5. ASSUME NEW m \in Message, Transcribed(m) PROVE Occupied'
  BY <1>5 DEF Transcribed
<1>6. ASSUME NEW m \in Message, TranscriptionFails(m) PROVE Occupied'
  BY <1>6 DEF TranscriptionFails, GivesUp, Tell
<1>7. ASSUME NEW m \in Message, Submit(m) PROVE Occupied'
  BY <1>7 DEF Submit
<1>8. CASE UNCHANGED vars
  BY <1>8 DEF vars
<1>9. QED
  BY <1>1, <1>2, <1>3, <1>4, <1>5, <1>6, <1>7, <1>8 DEF Next, Handle

(* A path that another download has chosen meanwhile is overlapped; a file   *)
(* that is there is not chosen.                                              *)
LEMMA OwnPathStep ==
  ASSUME States, Traits, Occupied, Entered, OwnPath, [Next]_vars
  PROVE  OwnPath'
<1> USE DEF States, Traits, Entered, OwnPath, InFlight
<1>1. ASSUME NEW m \in Message, Arrive(m) PROVE OwnPath'
  <2>1. is' = is /\ path' = path /\ files' = files /\ overlapped' = overlapped
    BY <1>1 DEF Arrive
  <2>2. pc'[m] \in {"dropped", "storing"} \/ (pc'[m] = "turn" /\ ~HasMedia(m))
    BY <1>1 DEF Arrive
  <2>3. \A o \in Message \ {m} : pc'[o] = pc[o]
    BY <1>1 DEF Arrive
  <2>4. \A o \in Message : HasMedia(o)' = HasMedia(o)
    BY <2>1 DEF HasMedia
  <2>5. QED
    BY <2>1, <2>2, <2>3, <2>4
<1>2. ASSUME NEW m \in Message, PrepareDestination(m) PROVE OwnPath'
  <2> DEFINE chosen == Named(m, FreeCounter(m))
             others == {o \in Message \ {m} : pc[o] = "fetching" /\ path[o] = chosen}
  <2>1. chosen \in Path /\ files[chosen] = {}
    BY <1>2, CounterFree, NamedPath DEF PrepareDestination
  <2>2. pc' = [pc EXCEPT ![m] = "fetching"] /\ path' = [path EXCEPT ![m] = chosen]
        /\ is' = is /\ files' = files /\ pc[m] = "storing"
    BY <1>2 DEF PrepareDestination
  <2>3. path'[m] = chosen
    BY <2>2
  <2>4. overlapped' = overlapped \union others \union (IF others = {} THEN {} ELSE {m})
    BY <1>2, <2>3 DEF PrepareDestination
  <2>5. \A o \in Message : HasMedia(o)' = HasMedia(o)
    BY <2>2 DEF HasMedia
  <2> HIDE DEF chosen
  <2>6. ASSUME NEW o \in Message \ overlapped', o # m PROVE
          /\ pc'[o] = "fetching" => files'[path'[o]] = {}
          /\ pc'[o] \in {"transcribing", "turn", "submitted"} /\ HasMedia(o) =>
                path'[o] \in Path /\ files'[path'[o]] = {o}
          /\ pc'[o] \in {"fetching", "transcribing", "turn", "submitted"} /\ HasMedia(o) =>
                \A x \in Message \ {o} : pc'[x] = "fetching" => path'[x] # path'[o]
    <3>1. pc'[o] = pc[o] /\ path'[o] = path[o] /\ o \notin overlapped /\ o \notin others
      BY <2>2, <2>4, <2>6
    <3>2. pc[o] \in {"fetching", "transcribing", "turn", "submitted"} /\ HasMedia(o) => path[o] # chosen
      BY <2>1, <2>6, <3>1
    <3>3. QED
      BY <2>2, <2>3, <2>6, <3>1, <3>2
  <2>7. m \notin overlapped' => files'[path'[m]] = {}
          /\ \A x \in Message \ {m} : pc'[x] = "fetching" => path'[x] # path'[m]
    BY <2>1, <2>2, <2>3, <2>4
  <2>8. pc'[m] = "fetching"
    BY <2>2
  <2>9. QED
    BY <2>5, <2>6, <2>7, <2>8
<1>3. ASSUME NEW m \in Message, Downloaded(m) PROVE OwnPath'
  <2>1. pc[m] = "fetching" /\ path' = path /\ is' = is /\ overlapped' = overlapped
        /\ files' = [files EXCEPT ![path[m]] = {m}]
        /\ pc'[m] \in {"transcribing", "turn"} /\ \A o \in Message \ {m} : pc'[o] = pc[o]
    BY <1>3 DEF Downloaded
  <2>2. \A o \in Message : HasMedia(o)' = HasMedia(o)
    BY <2>1 DEF HasMedia
  <2>3. path[m] \in Path /\ HasMedia(m) /\ files'[path[m]] = {m}
    BY <2>1
  <2>4. \A o \in Message \ (overlapped \union {m}) : HasMedia(o)
          /\ pc[o] \in {"fetching", "transcribing", "turn", "submitted"} =>
             path[o] # path[m]
    BY <2>1
  <2>5. ASSUME NEW o \in Message \ overlapped, o # m PROVE
          /\ pc'[o] = "fetching" => files'[path'[o]] = {}
          /\ pc'[o] \in {"transcribing", "turn", "submitted"} /\ HasMedia(o) =>
                path'[o] \in Path /\ files'[path'[o]] = {o}
          /\ pc'[o] \in {"fetching", "transcribing", "turn", "submitted"} /\ HasMedia(o) =>
                \A x \in Message \ {o} : pc'[x] = "fetching" => path'[x] # path'[o]
    BY <2>1, <2>4, <2>5
  <2>6. m \notin overlapped =>
          \A x \in Message \ {m} : pc'[x] = "fetching" => path'[x] # path'[m]
    BY <2>1, <2>3
  <2>7. QED
    BY <2>1, <2>2, <2>3, <2>5, <2>6
<1>4. ASSUME NEW m \in Message, DownloadFails(m) PROVE OwnPath'
  <2>1. pc[m] = "fetching" /\ path' = path /\ is' = is /\ overlapped' = overlapped
        /\ (files' = files \/ files' = [files EXCEPT ![path[m]] = {"part"}])
        /\ pc'[m] \in {"told", "failed"} /\ \A o \in Message \ {m} : pc'[o] = pc[o]
    BY <1>4 DEF DownloadFails, Tell
  <2>2. \A o \in Message : HasMedia(o)' = HasMedia(o)
    BY <2>1 DEF HasMedia
  <2>3. \A o \in Message \ (overlapped \union {m}) : HasMedia(o)
          /\ pc[o] \in {"fetching", "transcribing", "turn", "submitted"} =>
             path[o] # path[m]
    BY <2>1
  <2>4. ASSUME NEW o \in Message \ overlapped, o # m PROVE
          /\ pc'[o] = "fetching" => files'[path'[o]] = {}
          /\ pc'[o] \in {"transcribing", "turn", "submitted"} /\ HasMedia(o) =>
                path'[o] \in Path /\ files'[path'[o]] = {o}
          /\ pc'[o] \in {"fetching", "transcribing", "turn", "submitted"} /\ HasMedia(o) =>
                \A x \in Message \ {o} : pc'[x] = "fetching" => path'[x] # path'[o]
    BY <2>1, <2>3, <2>4
  <2>5. QED
    BY <2>1, <2>2, <2>4
<1>5. ASSUME NEW m \in Message, Transcribed(m) PROVE OwnPath'
  <2>1. \A o \in Message : HasMedia(o)' = HasMedia(o)
    BY <1>5 DEF Transcribed, HasMedia
  <2>2. QED
    BY <1>5, <2>1 DEF Transcribed
<1>6. ASSUME NEW m \in Message, TranscriptionFails(m) PROVE OwnPath'
  <2>1. \A o \in Message : HasMedia(o)' = HasMedia(o)
    BY <1>6 DEF TranscriptionFails, HasMedia
  <2>2. pc'[m] \in {"told", "failed"} /\ \A o \in Message \ {m} : pc'[o] = pc[o]
    BY <1>6 DEF TranscriptionFails, GivesUp, Tell
  <2>3. QED
    BY <1>6, <2>1, <2>2 DEF TranscriptionFails
<1>7. ASSUME NEW m \in Message, Submit(m) PROVE OwnPath'
  <2>1. \A o \in Message : HasMedia(o)' = HasMedia(o)
    BY <1>7 DEF Submit, HasMedia
  <2>2. QED
    BY <1>7, <2>1 DEF Submit
<1>8. CASE UNCHANGED vars
  BY <1>8 DEF vars, HasMedia
<1>9. QED
  BY <1>1, <1>2, <1>3, <1>4, <1>5, <1>6, <1>7, <1>8 DEF Next, Handle

-----------------------------------------------------------------------------
(* The invariant holds in every reachable state.                             *)
THEOREM Invariance == Spec => []IInv
<1>1. IInv /\ [Next]_vars => IInv'
  BY StatesStep, ColumnsStep, TraitsStep, EnteredStep, OutcomeStep, OccupiedStep,
     OwnPathStep DEF IInv
<1>2. QED
  BY InitIInv, <1>1, PTL DEF Spec

(* An attachment is in the payload in one way.                               *)
LEMMA OneWay ==
  ASSUME NEW m \in Message
  PROVE  HasMedia(m) <=>
           Cardinality(Parts(m) \intersect {"image", "line", "transcript"}) = 1
<1> DEFINE ways == Parts(m) \intersect {"image", "line", "transcript"}
<1>1. CASE ~HasMedia(m)
  <2>1. ways = {}
    BY <1>1 DEF Parts, AsLine, AsImage, Attached, Transcribes, HasMedia
  <2>2. Cardinality(ways) = 0
    BY <2>1, FS_EmptySet
  <2>3. QED
    BY <1>1, <2>2 DEF HasMedia
<1>2. CASE HasMedia(m)
  <2>1. ways = {"image"} \/ ways = {"line"} \/ ways = {"transcript"}
    BY <1>2 DEF Parts, AsLine, AsImage, Attached
  <2>2. QED
    BY <1>2, <2>1, FS_Singleton
<1>3. QED
  BY <1>1, <1>2

(* Type correctness, and no payload is empty.                                *)
THEOREM TypeCorrect == Spec => []TypeOK
<1>1. ASSUME IInv, NEW m \in Message, pc[m] = "submitted" PROVE payload[m] \ {"quote"} # {}
  <2>1. payload[m] = Parts(m) /\ is[m] \in Trait /\ is[m].kind # "nothing"
    BY <1>1 DEF IInv, OneOutcome, Traits, Entered, Allowed, InFlight
  <2>2. is[m].kind = "text" \/ HasMedia(m)
    BY <2>1 DEF Trait, Kind, HasMedia
  <2>3. CASE is[m].kind = "text"
    <3>1. "text" \in Parts(m)
      BY <2>3 DEF Parts
    <3>2. QED
      BY <2>1, <3>1
  <2>4. CASE HasMedia(m)
    <3>1. "image" \in Parts(m) \/ "line" \in Parts(m) \/ "transcript" \in Parts(m)
      BY <2>4 DEF Parts, AsLine, AsImage, Attached
    <3>2. CASE "image" \in Parts(m)
      BY <2>1, <3>2
    <3>3. CASE "line" \in Parts(m)
      BY <2>1, <3>3
    <3>4. CASE "transcript" \in Parts(m)
      BY <2>1, <3>4
    <3>5. QED
      BY <3>1, <3>2, <3>3, <3>4
  <2>5. QED
    BY <2>2, <2>3, <2>4
<1>2. IInv => TypeOK
  BY <1>1 DEF IInv, TypeOK, States, Columns, Traits, InFlight
<1>3. QED
  BY Invariance, <1>2, PTL

(* No input from an unlisted chat or person, or meant for another bot,       *)
(* becomes a turn.                                                           *)
THEOREM OnlyAllowed == Spec => []OnlyAllowedIsSubmitted
<1>1. IInv => OnlyAllowedIsSubmitted
  BY DEF IInv, OnlyAllowedIsSubmitted, Entered, Allowed, InFlight
<1>2. QED
  BY Invariance, <1>1, PTL

(* All of a message is in its payload, an attachment in one way.             *)
THEOREM NothingDropped == Spec => []PayloadComplete
<1>1. ASSUME IInv, NEW m \in Message, pc[m] = "submitted"
      PROVE  payload[m] = Parts(m)
  BY <1>1 DEF IInv, OneOutcome
<1>2. \A m \in Message : /\ HasMedia(m) /\ is[m].caption => "caption" \in Parts(m)
                         /\ is[m].reply => "quote" \in Parts(m)
  BY DEF Parts
<1>3. IInv => PayloadComplete
  BY <1>1, <1>2, OneWay DEF PayloadComplete
<1>4. QED
  BY Invariance, <1>3, PTL

(* A turn's attachment is its message's file, unless two downloads of one    *)
(* name began together.                                                      *)
THEOREM OwnAttachment == Spec => []AttachmentIsOwn
<1>1. IInv => AttachmentIsOwn
  BY DEF IInv, AttachmentIsOwn, OwnPath, Attached
<1>2. QED
  BY Invariance, <1>1, PTL

(* A message is answered with an error or becomes a turn, never both.        *)
THEOREM NeverBoth == Spec => []ErrorOrTurn
<1>1. IInv => ErrorOrTurn
  BY DEF IInv, ErrorOrTurn, OneOutcome
<1>2. QED
  BY Invariance, <1>1, PTL

(* What becomes of every message.                                            *)
THEOREM SubmissionRight == Spec => []SubmittedRightly
  BY TypeCorrect, OnlyAllowed, NothingDropped, NeverBoth, PTL DEF SubmittedRightly
=============================================================================
