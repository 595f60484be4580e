------------------------------ MODULE TopicTurns ------------------------------
(* What the gateway promises of a chat topic (FEATURE.md: "The first turn    *)
(* creates a provider-native session and each later turn resumes the ID      *)
(* persisted by its predecessor"): a topic is one register holding a native  *)
(* session id; a turn reads it, owns the topic while it runs and leaves      *)
(* either the id it read or the one it created; /new empties it in between.  *)
CONSTANTS Turn, Key, KeyOf, NoId

VARIABLES
    session,    \* the id each topic holds
    phase,      \* "idle", "active" or "over" for each turn
    used        \* the id each turn was started with

vars == <<session, phase, used>>

Init == /\ session = [k \in Key |-> NoId]
        /\ phase = [t \in Turn |-> "idle"]
        /\ used = [t \in Turn |-> NoId]

Free(k) == \A t \in Turn : KeyOf[t] = k => phase[t] # "active"

TakeSession(t) == used' = [used EXCEPT ![t] = session[KeyOf[t]]]

Start(t) == /\ phase[t] = "idle"
            /\ Free(KeyOf[t])
            /\ TakeSession(t)
            /\ phase' = [phase EXCEPT ![t] = "active"]
            /\ UNCHANGED session

(* A turn for which no provider can be started.                              *)
Refuse(t) == /\ phase[t] = "idle"
             /\ Free(KeyOf[t])
             /\ TakeSession(t)
             /\ phase' = [phase EXCEPT ![t] = "over"]
             /\ UNCHANGED session

Finish(t) == /\ phase[t] = "active"
             /\ phase' = [phase EXCEPT ![t] = "over"]
             /\ \E id \in {used[t], t} :
                  session' = [session EXCEPT ![KeyOf[t]] = id]
             /\ UNCHANGED used

Fresh(k) == /\ Free(k)
            /\ session' = [session EXCEPT ![k] = NoId]
            /\ UNCHANGED <<phase, used>>

Next == \/ \E t \in Turn : Start(t) \/ Refuse(t) \/ Finish(t)
        \/ \E k \in Key : Fresh(k)

Spec == Init /\ [][Next]_vars
=============================================================================
