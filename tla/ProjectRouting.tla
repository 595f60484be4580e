------------------------------ MODULE ProjectRouting ------------------------------
(* Which project a turn runs in and takes its files from: topic names told   *)
(* by Telegram, TopicNameCache, the name in the topic's session record,      *)
(* resolve_project_root, and the two times a turn asks for its project:      *)
(* before it waits for its topic's lock (the roots of files it may send) and *)
(* when it executes (its working directory).                                 *)
(*                                                                           *)
(* A definition that no other one uses is a fault the code could have had in *)
(* place of the definition after it (PROJECT.json, mutants).                 *)
EXTENDS Naturals

CONSTANTS
    Topic,      \* topics of one forum chat
    Name,       \* names a topic may have
    Turn,       \* turns, each in one topic
    TopicOf,    \* the topic of each turn
    Roots,      \* project_roots: a partial function of names and topics
    None        \* no name, no record, no project

Default == "default"
Refused == "refused"

(* A topic stands for its two keys, "chat:topic" and "topic".                *)
ASSUME ConstantsAssumption ==
    /\ Name \intersect Topic = {} /\ None \notin Name \union Topic \union {Default, Refused}
    /\ TopicOf \in [Turn -> Topic]
    /\ DOMAIN Roots \subseteq Name \union Topic
    /\ \A key \in DOMAIN Roots : Roots[key] \notin {Default, Refused, None}

Directory == {Roots[key] : key \in DOMAIN Roots}

VARIABLES
    up,         \* the gateway runs
    cached,     \* TopicNameCache
    file,       \* sessions.json: the provider and the name of a topic's record
    missing,    \* directories that do not exist now
    pc, roots, cwd,     \* a turn: where it is, its file roots, its directory
    named,      \* the name in a turn's session
    misread,    \* history: a read of the last turn to execute has failed
    told,       \* history: the last name the gateway was told of a topic
    used        \* history: the last name a turn or a /new ran under, none once
                \* a file was saved without it

turnVars == <<pc, roots, cwd, named>>
vars == <<up, cached, file, missing, turnVars, misread, told, used>>

(* load_json: a file that cannot be read counts as one without records.      *)
Absent == [provider |-> "none", name |-> None]
Unread == [t \in Topic |-> Absent]
Reads == {file, Unread}

Init ==
    /\ up = TRUE
    /\ cached = [t \in Topic |-> None] /\ file = Unread
    /\ missing = {}
    /\ pc = [m \in Turn |-> "off"] /\ named = [m \in Turn |-> None]
    /\ roots = [m \in Turn |-> None] /\ cwd = [m \in Turn |-> None]
    /\ misread = FALSE
    /\ told = [t \in Topic |-> None] /\ used = [t \in Topic |-> None]

-----------------------------------------------------------------------------
(* Resolution.                                                               *)

(* The cache first, then what was read of the file.                          *)
KnownName(t, sessions) == IF cached[t] # None THEN cached[t] ELSE sessions[t].name

Unmapped == Default

(* The keys tried, in this order, with a missing directory refused or, had   *)
(* the code gone on to the next key, skipped.                                *)
Keys(t, name) == <<name, t>>

SkipMissing(t, name) ==
    LET keys == Keys(t, name)
        hits == {i \in 1..2 : keys[i] \in DOMAIN Roots /\ Roots[keys[i]] \notin missing}
    IN IF hits = {} THEN Default
       ELSE Roots[keys[CHOOSE i \in hits : \A j \in hits : i <= j]]
Project(t, name) ==
    LET keys == Keys(t, name)
        hits == {i \in 1..2 : keys[i] \in DOMAIN Roots}
        first == Roots[keys[CHOOSE i \in hits : \A j \in hits : i <= j]]
    IN IF hits = {} THEN Unmapped ELSE IF first \in missing THEN Refused ELSE first

-----------------------------------------------------------------------------
(* Telegram tells a running gateway that a topic is created or renamed.      *)
Rename(t, n) ==
    /\ up /\ told[t] # n
    /\ cached' = [cached EXCEPT ![t] = n]
    /\ told' = [told EXCEPT ![t] = n]
    /\ UNCHANGED <<up, file, missing, turnVars, misread, used>>

ChangeDirectory(d) ==
    /\ missing' = IF d \in missing THEN missing \ {d} ELSE missing \union {d}
    /\ UNCHANGED <<up, cached, file, turnVars, misread, told, used>>

(* _handle_message asks for the file roots; an error is answered.            *)
Accept(m) ==
    /\ up /\ pc[m] = "off"
    /\ \E sessions \in Reads :
         roots' = [roots EXCEPT ![m] = Project(TopicOf[m], KnownName(TopicOf[m], sessions))]
    /\ pc' = [pc EXCEPT ![m] = IF roots'[m] = Refused THEN "refused" ELSE "waiting"]
    /\ UNCHANGED <<up, cached, file, missing, cwd, named, misread, told, used>>

(* A record takes the cached name and keeps the one it has; a record of      *)
(* another provider is made anew, with the name.                             *)
NameForgotten(t, sessions) ==
    IF sessions[t].provider = "other" THEN cached[t] ELSE KnownName(t, sessions)
NameKept(t, sessions) == KnownName(t, sessions)

(* What was read is written, with the topic's record; what a failed read did *)
(* not give is no longer in the file.                                        *)
Save(t, sessions, name) ==
    /\ file' = [sessions EXCEPT ![t] = [provider |-> "own", name |-> name]]
    /\ used' = [o \in Topic |-> IF o = t THEN KnownName(t, sessions)
                                ELSE IF sessions = file THEN used[o] ELSE None]

(* With its topic's lock: resolve_session, then the working directory, for   *)
(* which the file is read once more.                                         *)
Execute(m) ==
    LET t == TopicOf[m] IN
    /\ up /\ pc[m] = "waiting"
    /\ \A other \in Turn : pc[other] = "running" => TopicOf[other] # t
    /\ \E sessions \in Reads :
         /\ named' = [named EXCEPT ![m] = NameKept(t, sessions)]
         /\ Save(t, sessions, named'[m])
         /\ \E again \in {file', Unread} :
              /\ cwd' = [cwd EXCEPT ![m] = Project(t, KnownName(t, again))]
              /\ misread' = (sessions # file \/ again # file')
    /\ pc' = [pc EXCEPT ![m] = IF cwd'[m] = Refused THEN "refused" ELSE "running"]
    /\ UNCHANGED <<up, cached, missing, roots, told>>

(* update_session: the record as it is by now or, where there is none, that  *)
(* of the turn's session.                                                    *)
Persist(m) ==
    LET t == TopicOf[m]
        Now(sessions) == IF sessions[t] = Absent THEN named[m] ELSE sessions[t].name
    IN \E sessions \in Reads :
         /\ file' = [sessions EXCEPT ![t] = [provider |-> "own", name |-> Now(sessions)]]
         /\ used' = [o \in Topic |-> IF o = t \/ sessions = file THEN used[o] ELSE None]

(* A turn that came to no session id leaves the record alone.                *)
Finish(m) ==
    /\ up /\ pc[m] = "running"
    /\ pc' = [pc EXCEPT ![m] = "sent"]
    /\ Persist(m) \/ UNCHANGED <<file, used>>
    /\ named' = [named EXCEPT ![m] = None]
    /\ UNCHANGED <<up, cached, missing, roots, cwd, misread, told>>

(* /new.                                                                     *)
Reset(t) ==
    /\ up
    /\ \A m \in Turn : pc[m] = "running" => TopicOf[m] # t
    /\ \E sessions \in Reads : Save(t, sessions, NameKept(t, sessions))
    /\ UNCHANGED <<up, cached, missing, turnVars, misread, told>>

(* A crash or a stop; turns end with the process.  The next start may have   *)
(* another provider configured.                                              *)
Stop ==
    /\ up
    /\ up' = FALSE
    /\ cached' = [t \in Topic |-> None]
    /\ pc' = [m \in Turn |-> IF pc[m] \in {"waiting", "running"} THEN "lost" ELSE pc[m]]
    /\ named' = [m \in Turn |-> None] /\ misread' = FALSE
    /\ UNCHANGED <<file, missing, roots, cwd, told, used>>

OfAnother(rec) == IF rec.provider = "own" THEN [rec EXCEPT !.provider = "other"] ELSE rec

Start ==
    /\ ~up
    /\ up' = TRUE
    /\ file' \in {file, [t \in Topic |-> OfAnother(file[t])]}
    /\ UNCHANGED <<cached, missing, turnVars, misread, told, used>>

Next ==
    \/ \E t \in Topic : Reset(t) \/ \E n \in Name : Rename(t, n)
    \/ \E d \in Directory : ChangeDirectory(d)
    \/ \E m \in Turn : Accept(m) \/ Execute(m) \/ Finish(m)
    \/ Stop \/ Start

Spec == Init /\ [][Next]_vars

-----------------------------------------------------------------------------
(* Properties.                                                               *)

(* Type correctness; a turn that goes on has a project.                      *)
TypeOK ==
    /\ up \in BOOLEAN
    /\ \A m \in Turn : pc[m] \in {"waiting", "running", "sent"} => roots[m] \notin {None, Refused}
    /\ cached \in [Topic -> Name \union {None}] /\ named \in [Turn -> Name \union {None}]
    /\ told \in [Topic -> Name \union {None}] /\ used \in [Topic -> Name \union {None}]
    /\ file \in [Topic -> [provider : {"none", "own", "other"}, name : Name \union {None}]]
    /\ misread \in BOOLEAN
    /\ missing \subseteq Directory
    /\ pc \in [Turn -> {"off", "waiting", "running", "sent", "refused", "lost"}]
    /\ roots \in [Turn -> Directory \union {Default, Refused, None}]
    /\ cwd \in [Turn -> Directory \union {Default, Refused, None}]

(* A name a turn or a /new ran under is the one the next turn runs under,    *)
(* over restarts, changes of the provider and failed reads, until the gateway*)
(* is told another or what a failed read left is saved.                      *)
NameLasts == \A t \in Topic :
    used[t] # None => KnownName(t, file) = IF cached[t] # None THEN told[t] ELSE used[t]

Mapped(t) == {key \in {KnownName(t, file), t} : key \in DOMAIN Roots}

(* A turn of a topic that has a mapping never runs in the default project,   *)
(* whichever directory is missing when it runs; only one that is mapped by a *)
(* name which is nowhere but in the file does when a read of it fails.       *)
InItsProject(m) ==
    LET t == TopicOf[m]
        unknown == misread' /\ cached[t] = None /\ t \notin DOMAIN Roots
    IN (cwd'[m] = Default <=> Mapped(t) = {} \/ unknown) /\ cwd'[m] \notin missing
NeverFallsBack ==
    [][\A m \in Turn : pc[m] = "waiting" /\ pc'[m] = "running" => InItsProject(m)]_vars

-----------------------------------------------------------------------------
(* What the documents promise and the code does not keep.                    *)

(* "the mapped absolute project is used consistently": by every path of a    *)
(* turn.                                                                     *)
OneProjectPerTurn == \A m \in Turn : pc[m] \in {"running", "sent"} => roots[m] = cwd[m]

(* "losing topic names": the gateway knows every name it was told.           *)
NamesNotLost == \A t \in Topic : up => KnownName(t, file) = told[t]
=============================================================================
