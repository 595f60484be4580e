------------------------- MODULE AppServerBridgeProofs -------------------------
(* AppServerBridge for all items, threads, turns and phases, any number of   *)
(* parts, ids of the server's requests, and bound on what is under way.      *)
EXTENDS AppServerBridge, SequenceTheorems, TLAPS

(* What the server has sent and the bridge has not handled, in order.        *)
Pending == queued \o fromServer

NoteKind == {"started", "delta", "completed"}
PhaseName == Known \union {"tool", "none"}
Part == Item \X Nat

Responses == [kind : {"response"}, id : 1 .. 3, ok : BOOLEAN]
Asks == [kind : {"ask"}, id : AskId]
Notes == [kind : {"started"}, id : {0}, item : Item, part : PhaseName]
           \union [kind : {"delta"}, id : {0}, item : Item, part : Nat]
           \union [kind : {"completed"}, id : {0}, item : Item, part : {0}]
Ends == [kind : {"turn_done"}, id : {0}, thread : {"mine", "other"}, turn : {"mine", "other"},
         ok : BOOLEAN]
Messages == Responses \union Asks \union Notes \union Ends
Requests == [kind : {"request"}, id : 1 .. 3] \union [kind : {"refusal"}, id : AskId]

Typed ==
    /\ queued \in Seq(Messages) /\ fromServer \in Seq(Messages)
    /\ toServer \in Seq(Requests)
    /\ text \in Seq(Part) /\ progress \in Seq(Part)
    /\ said \in [final : Seq(Part), progress : Seq(Part)]

-----------------------------------------------------------------------------
(* Requests and responses.  At most one request of the bridge is out, as a   *)
(* request, or as a response that is not read; and nothing asks the bridge   *)
(* before it was greeted.                                                    *)
OneOut ==
    /\ \A k \in DOMAIN toServer :
         toServer[k].kind = "request" =>
             /\ Len(toServer) = 1 /\ Len(Pending) <= MaxAhead
             /\ toServer[k].id = RequestId.opening => work = "none"
    /\ Requesting => \A k \in DOMAIN toServer : toServer[k] = Request(RequestId[pc])
    /\ pc = "reading" => \A k \in DOMAIN toServer : toServer[k].kind = "refusal"
    /\ pc = "starting" => work = "none"

ResponseInTurn ==
    \A k \in DOMAIN Pending :
        /\ pc = "starting" => Pending[k].kind # "ask"
        /\ Pending[k].kind = "response" =>
             /\ Pending[k].ok \/ excused
             /\ Requesting => /\ Pending[k].id <= RequestId[pc]
                              /\ Pending[k].id = RequestId[pc] => toServer = << >>

-----------------------------------------------------------------------------
(* Items.                                                                    *)
ItemsIn(s, kinds) ==
    {i \in Item : \E k \in DOMAIN s : s[k].kind \in kinds /\ s[k].item = i}
NotesPending == ItemsIn(Pending, NoteKind)
StartsPending == ItemsIn(Pending, {"started"})
DeltasPending == ItemsIn(Pending, {"delta"})

(* What pends of an item is what the server has come to, in its order.       *)
Fits(m, reached, noPhase) ==
    m.kind \in NoteKind =>
        /\ reached[m.item] # New
        /\ m.kind = "completed" => reached[m.item] >= Done
        /\ m.kind = "started" /\ Mine(m.item) =>
             m.part = IF m.item \in noPhase THEN "none" ELSE Phase[m.item]

Ordered(s) ==
    \A j, k \in DOMAIN s :
        j < k /\ s[j].kind \in NoteKind /\ s[k].kind \in NoteKind /\ s[j].item = s[k].item =>
          s[j].kind # "completed" /\ s[k].kind # "started"

ItemsInOrder ==
    /\ \A k \in DOMAIN Pending : Fits(Pending[k], stage, unnamed)
    /\ Ordered(Pending)

(* The bridge knows the phase of an item when it was named to it.            *)
PhaseKnown ==
    \A i \in Item : Mine(i) =>
        /\ phases[i] \in {"none", Phase[i]}
        /\ stage[i] # New /\ i \notin unnamed /\ Phase[i] \in Known /\ i \notin StartsPending =>
             phases[i] = Phase[i]
        /\ i \in unnamed /\ (stage[i] < Done \/ i \in NotesPending) => phases[i] = "none"
        /\ stage[i] = New => phases[i] = "none" /\ i \notin unnamed

(* A part was streamed: it pends, or the bridge has noted the item.          *)
Streamed == streamed \union {i \in DeltasPending : Mine(i)}
StreamsNoted ==
    \A i \in Item : Mine(i) =>
        /\ stage[i] \in {New, 0} => i \notin Streamed
        /\ stage[i] \in 1 .. Parts => i \in Streamed

-----------------------------------------------------------------------------
(* Texts.  What a message adds to the answer and to the progress when its    *)
(* turn comes.                                                               *)
FinalIn(m, noPhase, parted) ==
    IF m.kind = "delta" /\ Of(m.item, "final_answer") /\ m.item \notin noPhase
      THEN <<<<m.item, m.part>>>>
    ELSE IF m.kind = "completed" /\ Of(m.item, "final_answer") /\ m.item \notin parted
      THEN Text(m.item) ELSE << >>
ProgressIn(m, noPhase) ==
    IF m.kind = "started" /\ Of(m.item, "tool") THEN <<<<m.item, 0>>>>
    ELSE IF m.kind = "delta" /\ Of(m.item, "commentary") /\ m.item \notin noPhase
      THEN <<<<m.item, m.part>>>> ELSE << >>

Finals == [k \in DOMAIN Pending |-> FinalIn(Pending[k], unnamed, Streamed)]
Progresses == [k \in DOMAIN Pending |-> ProgressIn(Pending[k], unnamed)]

EndsTurn(m) == m.kind = "turn_done" /\ OwnTurn(m)
TurnEnds == {k \in DOMAIN Pending : EndsTurn(Pending[k])}

(* The n messages that pend add, one after the other, what `whole` has more  *)
(* than `had`, and nothing from an end of the turn on.                       *)
Accounts(n, adds, ends, whole, had) ==
    \E rest \in [Nat -> Seq(Part)] :
        /\ whole = had \o rest[1]
        /\ rest[n + 1] = << >>
        /\ \A k \in 1 .. n : rest[k] = adds[k] \o rest[k + 1]
        /\ \A k \in ends : rest[k] = << >>

TextAccounted ==
    outcome = "none" =>
        /\ Accounts(Len(Pending), Finals, TurnEnds, said.final, text)
        /\ Accounts(Len(Pending), Progresses, TurnEnds, said.progress, progress)

-----------------------------------------------------------------------------
(* The end.  The turn ends once at the server, with a reason if it failed or *)
(* nothing was said, and says nothing more.                                  *)
Verdict ==
    /\ \A k \in TurnEnds : /\ work = "ended"
                           /\ excused \/ (Pending[k].ok /\ said.final # << >>)
    /\ outcome = "text" => work = "ended" /\ text = said.final /\ progress = said.progress
    /\ outcome = "error" => excused
    /\ ~open /\ pc # "over" => excused

IInv == /\ TypeOK /\ Typed /\ OneOut /\ ResponseInTurn
        /\ ItemsInOrder /\ PhaseKnown /\ StreamsNoted /\ TextAccounted /\ Verdict
-----------------------------------------------------------------------------
(* The accounts, as sequences of parts.                                      *)

Adds(n, adds) == \A k \in 1 .. n : adds[k] \in Seq(Part)

(* Concatenation of texts has a unit and is associative.                     *)
LEMMA PartsConcat ==
  /\ << >> \in Seq(Part)
  /\ \A a, b \in Seq(Part) : a \o b \in Seq(Part)
  /\ \A a \in Seq(Part) : a \o << >> = a /\ << >> \o a = a
  /\ \A a, b, c \in Seq(Part) : (a \o b) \o c = a \o (b \o c)
<1>1. \A a \in Seq(Part) : a \o << >> = a /\ << >> \o a = a
  BY ConcatEmptySeq, Zenon
<1>2. \A a, b \in Seq(Part) : a \o b \in Seq(Part)
  BY ConcatProperties, Zenon
<1>3. ASSUME NEW a \in Seq(Part), NEW b \in Seq(Part), NEW c \in Seq(Part)
      PROVE  (a \o b) \o c = a \o (b \o c)
  BY ConcatAssociative
<1>4. QED
  BY <1>1, <1>2, <1>3, EmptySeq, Zenon

(* Where a place is, and the one behind it, as seen from place j.            *)
LEMMA Below ==
  ASSUME NEW n \in Nat, NEW j \in 1 .. n, NEW k \in 1 .. n - 1
  PROVE  /\ k \in Nat /\ k + 1 \in Nat /\ k \in 1 .. n /\ k + 1 \in 1 .. n
         /\ \/ k < j /\ k + 1 < j
            \/ k < j /\ ~(k + 1 < j) /\ k + 1 = j
            \/ ~(k < j) /\ ~(k + 1 < j)
  OBVIOUS

(* A message at the end: what it adds is added to the whole.                 *)
LEMMA AccountsAppend ==
  ASSUME NEW n \in Nat, NEW adds, NEW ends \in SUBSET (1 .. n),
         NEW whole \in Seq(Part), NEW had \in Seq(Part),
         Adds(n, adds), Accounts(n, adds, ends, whole, had),
         NEW more, Adds(n + 1, more), \A k \in 1 .. n : more[k] = adds[k],
         NEW endsNow, endsNow \subseteq ends \union {n + 1},
         more[n + 1] = << >> \/ endsNow = {}
  PROVE  Accounts(n + 1, more, endsNow, whole \o more[n + 1], had)
<1>1. PICK rest \in [Nat -> Seq(Part)] :
        /\ whole = had \o rest[1]
        /\ rest[n + 1] = << >>
        /\ \A k \in 1 .. n : rest[k] = adds[k] \o rest[k + 1]
        /\ \A k \in ends : rest[k] = << >>
  BY DEF Accounts
<1>2. PICK c \in Seq(Part) : c = more[n + 1]
  <2>1. n + 1 \in 1 .. n + 1
    OBVIOUS
  <2>2. QED
    BY <2>1, Zenon DEF Adds
<1>3. PICK now \in [Nat -> Seq(Part)] :
        \A k \in Nat : now[k] = (IF k <= n + 1 THEN rest[k] \o c ELSE << >>)
  <2> DEFINE f == [k \in Nat |-> IF k <= n + 1 THEN rest[k] \o c ELSE << >>]
  <2>1. ASSUME NEW k \in Nat PROVE (IF k <= n + 1 THEN rest[k] \o c ELSE << >>) \in Seq(Part)
    <3>1. rest[k] \in Seq(Part) /\ << >> \in Seq(Part)
      BY EmptySeq
    <3>2. rest[k] \o c \in Seq(Part)
      BY <3>1, ConcatProperties, Zenon
    <3>3. QED
      BY <3>1, <3>2, Zenon
  <2>2. f \in [Nat -> Seq(Part)]
    BY <2>1, Zenon
  <2>3. QED
    BY <2>2, Zenon
<1>4. \A k \in 1 .. n + 1 : now[k] = rest[k] \o c
  <2> SUFFICES ASSUME NEW k \in 1 .. n + 1 PROVE now[k] = rest[k] \o c
    BY Zenon
  <2>1. k \in Nat /\ k <= n + 1
    OBVIOUS
  <2>2. QED
    BY <1>3, <2>1, Zenon
<1>5. 1 \in Nat /\ 1 \in 1 .. n + 1 /\ n + 1 \in Nat /\ n + 1 \in 1 .. n + 1
  OBVIOUS
<1>6. whole \o c = had \o now[1]
  <2>1. rest[1] \in Seq(Part) /\ now[1] = rest[1] \o c
    BY <1>4, <1>5, Zenon
  <2>2. (had \o rest[1]) \o c = had \o (rest[1] \o c)
    BY <2>1, PartsConcat, ZenonT(60)
  <2>3. QED
    BY <1>1, <2>1, <2>2, Zenon
<1>7. now[n + 1] = c
  <2>1. now[n + 1] = << >> \o c
    BY <1>1, <1>4, <1>5, Zenon
  <2>2. QED
    BY <2>1, ConcatEmptySeq, Zenon
<1>8. now[(n + 1) + 1] = << >>
  <2>1. (n + 1) + 1 \in Nat /\ ~((n + 1) + 1 <= n + 1)
    OBVIOUS
  <2>2. QED
    BY <1>3, <2>1, Zenon
<1>9. ASSUME NEW k \in 1 .. n + 1 PROVE now[k] = more[k] \o now[k + 1]
  <2>1. CASE k = n + 1
    <3>1. c = c \o << >>
      BY ConcatEmptySeq, Zenon
    <3>2. QED
      BY <1>2, <1>7, <1>8, <2>1, <3>1, Zenon
  <2>2. CASE k # n + 1
    <3>1. k \in 1 .. n /\ k + 1 \in 1 .. n + 1 /\ k \in Nat /\ k + 1 \in Nat
      BY <2>2
    <3>2. rest[k] = more[k] \o rest[k + 1]
      BY <1>1, <3>1, Zenon
    <3>3. now[k] = rest[k] \o c /\ now[k + 1] = rest[k + 1] \o c
      BY <1>4, <3>1, Zenon
    <3>4. more[k] \in Seq(Part) /\ rest[k + 1] \in Seq(Part)
      BY <3>1, Zenon DEF Adds
    <3>5. (more[k] \o rest[k + 1]) \o c = more[k] \o (rest[k + 1] \o c)
      <4>1. \A a, b, d \in Seq(Part) : (a \o b) \o d = a \o (b \o d)
        BY PartsConcat, Zenon
      <4>2. c \in Seq(Part)
        BY <1>2
      <4>3. QED
        BY <3>4, <4>1, <4>2, ZenonT(60)
    <3>6. QED
      BY <3>2, <3>3, <3>5, Zenon
  <2>3. QED
    BY <2>1, <2>2, Zenon
<1>10. ASSUME NEW k \in endsNow PROVE now[k] = << >>
  <2>1. c = << >>
    BY <1>2, <1>10, Zenon
  <2>2. CASE k = n + 1
    BY <1>7, <2>1, <2>2, Zenon
  <2>3. CASE k \in ends
    <3>1. k \in 1 .. n + 1
      <4>1. \A x \in 1 .. n : x \in 1 .. n + 1
        OBVIOUS
      <4>2. QED
        BY <2>3, <4>1, Zenon
    <3>2. now[k] = << >> \o c
      BY <1>1, <1>4, <2>3, <3>1, Zenon
    <3>3. QED
      BY <2>1, <3>2, ConcatEmptySeq, Zenon
  <2>4. QED
    BY <1>10, <2>2, <2>3
<1>11. QED
  <2>1. whole \o more[n + 1] = had \o now[1]
    BY <1>2, <1>6, Zenon
  <2>2. QED
    BY <2>1, <1>8, <1>9, <1>10, Zenon DEF Accounts

(* The first message is taken: what it adds is had.                          *)
LEMMA AccountsTake ==
  ASSUME NEW n \in Nat \ {0}, NEW adds, NEW ends, NEW whole, NEW had \in Seq(Part),
         Adds(n, adds), Accounts(n, adds, ends, whole, had),
         NEW less, \A k \in 1 .. n - 1 : less[k] = adds[k + 1],
         NEW endsNow \in SUBSET (1 .. n - 1), \A k \in endsNow : k + 1 \in ends
  PROVE  Accounts(n - 1, less, endsNow, whole, had \o adds[1])
<1>1. PICK rest \in [Nat -> Seq(Part)] :
        /\ whole = had \o rest[1]
        /\ rest[n + 1] = << >>
        /\ \A k \in 1 .. n : rest[k] = adds[k] \o rest[k + 1]
        /\ \A k \in ends : rest[k] = << >>
  BY DEF Accounts
<1>2. PICK now \in [Nat -> Seq(Part)] : \A k \in Nat : now[k] = rest[k + 1]
  <2>1. \A k \in Nat : rest[k + 1] \in Seq(Part)
    OBVIOUS
  <2>2. [k \in Nat |-> rest[k + 1]] \in [Nat -> Seq(Part)]
    BY <2>1, Zenon
  <2>3. QED
    BY <2>2, Zenon
<1>3. 1 \in Nat /\ 1 \in 1 .. n /\ 1 + 1 \in Nat
  OBVIOUS
<1>4. whole = (had \o adds[1]) \o now[1]
  <2>1. rest[1] = adds[1] \o rest[1 + 1] /\ now[1] = rest[1 + 1]
    BY <1>1, <1>2, <1>3, Zenon
  <2>2. adds[1] \in Seq(Part) /\ rest[1 + 1] \in Seq(Part)
    BY <1>3, Zenon DEF Adds
  <2>3. (had \o adds[1]) \o rest[1 + 1] = had \o (adds[1] \o rest[1 + 1])
    <3>1. \A a, b, d \in Seq(Part) : (a \o b) \o d = a \o (b \o d)
      BY PartsConcat, Zenon
    <3>2. QED
      BY <2>2, <3>1, Zenon
  <2>4. QED
    BY <1>1, <2>1, <2>3, Zenon
<1>5. now[(n - 1) + 1] = << >>
  <2>1. (n - 1) + 1 = n /\ n \in Nat
    OBVIOUS
  <2>2. QED
    BY <1>1, <1>2, <2>1, Zenon
<1>6. ASSUME NEW k \in 1 .. n - 1 PROVE now[k] = less[k] \o now[k + 1]
  <2>1. k \in Nat /\ k + 1 \in Nat /\ k + 1 \in 1 .. n
    OBVIOUS
  <2>2. rest[k + 1] = adds[k + 1] \o rest[(k + 1) + 1]
    BY <1>1, <2>1, Zenon
  <2>3. now[k] = rest[k + 1] /\ now[k + 1] = rest[(k + 1) + 1] /\ less[k] = adds[k + 1]
    BY <1>2, <2>1, Zenon
  <2>4. QED
    BY <2>2, <2>3, Zenon
<1>7. ASSUME NEW k \in endsNow PROVE now[k] = << >>
  <2>1. k \in Nat
    OBVIOUS
  <2>2. QED
    BY <1>1, <1>2, <2>1, Zenon
<1>8. QED
  BY <1>4, <1>5, <1>6, <1>7, Zenon DEF Accounts

(* A message that adds nothing is taken, from wherever it is.                *)
LEMMA AccountsSkip ==
  ASSUME NEW n \in Nat, NEW adds, NEW ends, NEW whole, NEW had,
         Adds(n, adds), Accounts(n, adds, ends, whole, had),
         NEW j \in 1 .. n, adds[j] = << >>,
         NEW less, \A k \in 1 .. n - 1 : less[k] = (IF k < j THEN adds[k] ELSE adds[k + 1]),
         NEW endsNow \in SUBSET (1 .. n - 1),
         \A k \in endsNow : (IF k < j THEN k ELSE k + 1) \in ends
  PROVE  Accounts(n - 1, less, endsNow, whole, had)
<1>1. PICK rest \in [Nat -> Seq(Part)] :
        /\ whole = had \o rest[1]
        /\ rest[n + 1] = << >>
        /\ \A k \in 1 .. n : rest[k] = adds[k] \o rest[k + 1]
        /\ \A k \in ends : rest[k] = << >>
  BY DEF Accounts
<1>2. rest[j] = rest[j + 1]
  <2>1. rest[j] = << >> \o rest[j + 1]
    BY <1>1, Zenon
  <2>2. rest[j + 1] \in Seq(Part)
    OBVIOUS
  <2>3. QED
    BY <2>1, <2>2, ConcatEmptySeq, Zenon
<1>3. PICK now \in [Nat -> Seq(Part)] :
        \A k \in Nat : now[k] = (IF k < j THEN rest[k] ELSE rest[k + 1])
  <2>1. \A k \in Nat : rest[k] \in Seq(Part) /\ rest[k + 1] \in Seq(Part)
    OBVIOUS
  <2>2. [k \in Nat |-> IF k < j THEN rest[k] ELSE rest[k + 1]] \in [Nat -> Seq(Part)]
    BY <2>1, Zenon
  <2>3. QED
    BY <2>2, Zenon
<1>4. whole = had \o now[1]
  <2>1. 1 \in Nat /\ (1 < j \/ j = 1)
    OBVIOUS
  <2>2. now[1] = rest[1]
    BY <1>2, <1>3, <2>1, Zenon
  <2>3. QED
    BY <1>1, <2>2, Zenon
<1>5. now[(n - 1) + 1] = << >>
  <2>1. (n - 1) + 1 = n /\ n \in Nat /\ ~(n < j)
    OBVIOUS
  <2>2. QED
    BY <1>1, <1>3, <2>1, Zenon
<1>6. ASSUME NEW k \in 1 .. n - 1 PROVE now[k] = less[k] \o now[k + 1]
  <2>1. k \in Nat /\ k + 1 \in Nat /\ k \in 1 .. n /\ k + 1 \in 1 .. n
    BY Below, Zenon
  <2>2. CASE k < j /\ k + 1 < j
    BY <1>1, <1>3, <2>1, <2>2, Zenon
  <2>3. CASE k < j /\ ~(k + 1 < j) /\ k + 1 = j
    <3>1. now[k] = rest[k] /\ now[k + 1] = rest[(k + 1) + 1] /\ less[k] = adds[k]
      BY <1>3, <2>1, <2>3, Zenon
    <3>2. rest[k] = adds[k] \o rest[k + 1] /\ rest[k + 1] = rest[(k + 1) + 1]
      BY <1>1, <1>2, <2>1, <2>3, Zenon
    <3>3. QED
      BY <3>1, <3>2, Zenon
  <2>4. CASE ~(k < j) /\ ~(k + 1 < j)
    <3>1. now[k] = rest[k + 1] /\ now[k + 1] = rest[(k + 1) + 1] /\ less[k] = adds[k + 1]
      BY <1>3, <2>1, <2>4, Zenon
    <3>2. rest[k + 1] = adds[k + 1] \o rest[(k + 1) + 1]
      BY <1>1, <2>1, Zenon
    <3>3. QED
      BY <3>1, <3>2, Zenon
  <2>5. QED
    BY <2>2, <2>3, <2>4, Below, Zenon
<1>7. ASSUME NEW k \in endsNow PROVE now[k] = << >>
  <2>1. k \in Nat
    OBVIOUS
  <2>2. QED
    BY <1>1, <1>3, <2>1, Zenon
<1>8. QED
  BY <1>4, <1>5, <1>6, <1>7, Zenon DEF Accounts

(* When the first message ends the turn, all is had.                         *)
LEMMA AccountsClosed ==
  ASSUME NEW n, NEW adds, NEW ends, NEW whole, NEW had \in Seq(Part),
         Accounts(n, adds, ends, whole, had), 1 \in ends
  PROVE  had = whole
<1>1. PICK rest \in [Nat -> Seq(Part)] :
        whole = had \o rest[1] /\ (\A k \in ends : rest[k] = << >>)
  BY DEF Accounts
<1>2. had \o << >> = had
  BY ConcatEmptySeq, Zenon
<1>3. QED
  BY <1>1, <1>2, Zenon

-----------------------------------------------------------------------------
(* What pends, as a sequence: a message comes to the end of it, or one goes. *)

Removed(s, j, t) ==
    /\ j \in 1 .. Len(s)
    /\ Len(t) = Len(s) - 1
    /\ \A k \in 1 .. Len(t) : t[k] = s[IF k < j THEN k ELSE k + 1]

(* The tail of a sequence is it without its first element.                   *)
LEMMA RemovedHead ==
  ASSUME NEW s \in Seq(Messages), s # << >>
  PROVE  Tail(s) \in Seq(Messages) /\ Head(s) = s[1] /\ Removed(s, 1, Tail(s))
<1> HIDE DEF Messages
<1>1. Len(s) \in Nat /\ Len(s) > 0
  OBVIOUS
<1>2. Tail(s) \in Seq(Messages) /\ Len(Tail(s)) = Len(s) - 1
        /\ \A k \in 1 .. Len(Tail(s)) : Tail(s)[k] = s[k + 1]
  BY HeadTailProperties
<1>3. QED
  BY <1>1, <1>2 DEF Removed

(* A message taken from the queue goes from the front of what pends.         *)
LEMMA RemovedBefore ==
  ASSUME NEW a \in Seq(Messages), NEW b \in Seq(Messages), a # << >>
  PROVE  /\ Tail(a) \o b \in Seq(Messages)
         /\ (a \o b)[1] = Head(a)
         /\ Removed(a \o b, 1, Tail(a) \o b)
<1>1. /\ Len(a) \in Nat /\ Len(a) > 0 /\ Len(b) \in Nat
      /\ Len(a \o b) = Len(a) + Len(b)
      /\ \A k \in 1 .. Len(a) + Len(b) : (a \o b)[k] = IF k <= Len(a) THEN a[k] ELSE b[k - Len(a)]
  BY ConcatProperties
<1>2. /\ Tail(a) \in Seq(Messages) /\ Len(Tail(a)) = Len(a) - 1
      /\ \A k \in 1 .. Len(Tail(a)) : Tail(a)[k] = a[k + 1]
      /\ Head(a) = a[1]
  BY HeadTailProperties
<1>3. /\ Tail(a) \o b \in Seq(Messages) /\ Len(Tail(a) \o b) = (Len(a) - 1) + Len(b)
      /\ \A k \in 1 .. (Len(a) - 1) + Len(b) :
           (Tail(a) \o b)[k] = IF k <= Len(a) - 1 THEN Tail(a)[k] ELSE b[k - (Len(a) - 1)]
  BY <1>2, ConcatProperties
<1>4. QED
  BY <1>1, <1>2, <1>3 DEF Removed

(* One taken from the stream goes from behind the queue.                     *)
LEMMA RemovedBehind ==
  ASSUME NEW a \in Seq(Messages), NEW b \in Seq(Messages), b # << >>
  PROVE  /\ a \o Tail(b) \in Seq(Messages)
         /\ (a \o b)[Len(a) + 1] = Head(b)
         /\ Removed(a \o b, Len(a) + 1, a \o Tail(b))
<1>1. /\ Len(b) \in Nat /\ Len(b) > 0 /\ Len(a) \in Nat
      /\ Len(a \o b) = Len(a) + Len(b)
      /\ \A k \in 1 .. Len(a) + Len(b) : (a \o b)[k] = IF k <= Len(a) THEN a[k] ELSE b[k - Len(a)]
  BY ConcatProperties
<1>2. /\ Tail(b) \in Seq(Messages) /\ Len(Tail(b)) = Len(b) - 1
      /\ \A k \in 1 .. Len(Tail(b)) : Tail(b)[k] = b[k + 1]
      /\ Head(b) = b[1]
  BY HeadTailProperties
<1>3. /\ a \o Tail(b) \in Seq(Messages) /\ Len(a \o Tail(b)) = Len(a) + (Len(b) - 1)
      /\ \A k \in 1 .. Len(a) + (Len(b) - 1) :
           (a \o Tail(b))[k] = IF k <= Len(a) THEN a[k] ELSE Tail(b)[k - Len(a)]
  BY <1>2, ConcatProperties
<1>4. QED
  BY <1>1, <1>2, <1>3 DEF Removed

(* One put aside stays where it was in what pends.                           *)
LEMMA MovedBetween ==
  ASSUME NEW a \in Seq(Messages), NEW b \in Seq(Messages), b # << >>
  PROVE  Append(a, Head(b)) \o Tail(b) = a \o b
<1>1. b = <<Head(b)>> \o Tail(b) /\ Head(b) \in Messages /\ Tail(b) \in Seq(Messages)
  BY HeadTailProperties
<1>2. Append(a, Head(b)) = a \o <<Head(b)>> /\ <<Head(b)>> \in Seq(Messages)
  BY <1>1, AppendIsConcat
<1>3. (a \o <<Head(b)>>) \o Tail(b) = a \o (<<Head(b)>> \o Tail(b))
  BY <1>1, <1>2, ConcatAssociative
<1>4. QED
  BY <1>1, <1>2, <1>3, Zenon

(* One sent comes to the end of what pends.                                  *)
LEMMA Appended ==
  ASSUME NEW a \in Seq(Messages), NEW b \in Seq(Messages), NEW m \in Messages
  PROVE  /\ a \o Append(b, m) = Append(a \o b, m)
         /\ a \o b \in Seq(Messages)
<1>1. Append(b, m) = b \o <<m>> /\ <<m>> \in Seq(Messages)
  BY AppendIsConcat
<1>2. a \o b \in Seq(Messages)
  BY ConcatProperties
<1>3. Append(a \o b, m) = (a \o b) \o <<m>>
  BY <1>2, AppendIsConcat
<1>4. (a \o b) \o <<m>> = a \o (b \o <<m>>)
  BY <1>1, ConcatAssociative
<1>5. QED
  BY <1>1, <1>2, <1>3, <1>4, Zenon

(* Where the messages of the shorter sequence were.                          *)
LEMMA RemovedPlaces ==
  ASSUME NEW s \in Seq(Messages), NEW t \in Seq(Messages), NEW j, Removed(s, j, t)
  PROVE  /\ j \in DOMAIN s
         /\ \A k \in DOMAIN t : \E l \in DOMAIN s : l # j /\ t[k] = s[l] /\ l = (IF k < j THEN k ELSE k + 1)
         /\ \A k1, k2 \in DOMAIN t : k1 < k2 =>
              \E l1, l2 \in DOMAIN s : l1 < l2 /\ t[k1] = s[l1] /\ t[k2] = s[l2]
         /\ \A l \in DOMAIN s : l # j => \E k \in DOMAIN t : t[k] = s[l]
<1> HIDE DEF Messages
<1>1. /\ Len(s) \in Nat /\ DOMAIN s = 1 .. Len(s) /\ Len(t) \in Nat /\ DOMAIN t = 1 .. Len(t)
  BY LenProperties
<1>2. /\ j \in 1 .. Len(s) /\ Len(t) = Len(s) - 1
      /\ \A k \in 1 .. Len(t) : t[k] = s[IF k < j THEN k ELSE k + 1]
  BY DEF Removed
<1>3. ASSUME NEW k \in DOMAIN t
      PROVE  /\ (IF k < j THEN k ELSE k + 1) \in DOMAIN s
             /\ (IF k < j THEN k ELSE k + 1) # j
             /\ t[k] = s[IF k < j THEN k ELSE k + 1]
  BY <1>1, <1>2
<1>4. ASSUME NEW k1 \in DOMAIN t, NEW k2 \in DOMAIN t, k1 < k2
      PROVE  (IF k1 < j THEN k1 ELSE k1 + 1) < (IF k2 < j THEN k2 ELSE k2 + 1)
  BY <1>1, <1>2, <1>4
<1>5. ASSUME NEW l \in DOMAIN s, l # j PROVE \E k \in DOMAIN t : t[k] = s[l]
  <2>1. CASE l < j
    <3>1. l \in DOMAIN t /\ t[l] = s[l]
      BY <1>1, <1>2, <2>1
    <3>2. QED
      BY <3>1
  <2>2. CASE l > j
    <3>1. l - 1 \in DOMAIN t /\ t[l - 1] = s[l]
      BY <1>1, <1>2, <2>2
    <3>2. QED
      BY <3>1
  <2>3. QED
    BY <1>1, <1>2, <1>5, <2>1, <2>2
<1>6. QED
  BY <1>1, <1>2, <1>3, <1>4, <1>5, Zenon

(* The places of a sequence after an element came to its end.                *)
LEMMA AppendedPlaces ==
  ASSUME NEW s \in Seq(Messages), NEW m \in Messages
  PROVE  /\ Append(s, m) \in Seq(Messages)
         /\ Len(Append(s, m)) = Len(s) + 1
         /\ DOMAIN s = 1 .. Len(s) /\ Len(s) \in Nat
         /\ DOMAIN Append(s, m) = DOMAIN s \union {Len(s) + 1}
         /\ \A k \in DOMAIN s : k < Len(s) + 1 /\ Append(s, m)[k] = s[k]
         /\ Append(s, m)[Len(s) + 1] = m
  OBVIOUS

-----------------------------------------------------------------------------
(* Messages.                                                                 *)

(* The kinds of messages, and what each carries.                             *)
LEMMA MessageKinds ==
  ASSUME NEW m \in Messages
  PROVE  /\ m.kind \in {"response", "ask", "turn_done"} \union NoteKind
         /\ m.kind = "response" => m.id \in 1 .. 3 /\ m.ok \in BOOLEAN
         /\ m.kind = "ask" => m.id \in AskId
         /\ m.kind \in NoteKind => m.item \in Item
         /\ m.kind = "delta" => m.part \in Nat
         /\ m.kind \notin {"response", "ask"} => m.id = 0
         /\ m.kind = "turn_done" => m.ok \in BOOLEAN
<1>1. CASE m \in Responses
  BY <1>1 DEF Responses, NoteKind
<1>2. CASE m \in Asks
  BY <1>2 DEF Asks, NoteKind
<1>3. CASE m \in Notes
  BY <1>3 DEF Notes, NoteKind
<1>4. CASE m \in Ends
  BY <1>4 DEF Ends, NoteKind
<1>5. QED
  BY <1>1, <1>2, <1>3, <1>4 DEF Messages

(* The numbers of the requests, and the order they are made in.              *)
LEMMA RequestIds ==
  /\ DOMAIN RequestId = {"starting", "opening", "submitting"}
  /\ RequestId["starting"] = 1 /\ RequestId["opening"] = 2 /\ RequestId["submitting"] = 3
  /\ RequestId.starting = 1 /\ RequestId.opening = 2 /\ RequestId.submitting = 3
  /\ Following["starting"] = "opening" /\ Following["opening"] = "submitting"
  /\ Following["submitting"] = "reading"
  BY DEF RequestId, Following

(* The stages of an item, as numbers.                                        *)
LEMMA Stages == Parts \in Nat /\ Parts > 0 /\ New = -1 /\ Done = Parts + 1 /\ Reported = Parts + 2
  BY ConstantsAssumption DEF New, Done, Reported

(* What the server sends of an item is a message.                            *)
LEMMA NewNotes ==
  ASSUME NEW i \in Item
  PROVE  /\ \A p \in PhaseName :
              [Note("started", i, 0) EXCEPT !.part = p] \in Messages
         /\ \A n \in Nat : Note("delta", i, n) \in Messages
         /\ Note("completed", i, 0) \in Messages
  BY DEF Messages, Notes, Note, PhaseName

(* And so are responses, requests and ends of turns.                         *)
LEMMA NewOthers ==
  /\ \A id \in 1 .. 3, ok \in BOOLEAN : Response(id, ok) \in Messages
  /\ \A a \in AskId : Ask(a) \in Messages
  /\ \A th, tu \in {"mine", "other"}, ok \in BOOLEAN : Completed(th, tu, ok) \in Messages
  BY DEF Messages, Responses, Asks, Ends, Response, Ask, Completed

-----------------------------------------------------------------------------
(* What the two ends do to what pends.                                       *)

(* What pends are messages.                                                  *)
LEMMA PendingTyped ==
  ASSUME Typed
  PROVE  /\ Pending \in Seq(Messages) /\ DOMAIN Pending = 1 .. Len(Pending)
         /\ Len(Pending) \in Nat /\ Len(Pending) = Len(queued) + Len(fromServer)
         /\ \A k \in DOMAIN Pending : Pending[k] \in Messages
<1>1. Pending \in Seq(Messages) /\ Len(Pending) = Len(queued) + Len(fromServer)
  BY ConcatProperties DEF Typed, Pending
<1>2. DOMAIN Pending = 1 .. Len(Pending) /\ Len(Pending) \in Nat
  BY <1>1, LenProperties
<1>3. ASSUME NEW k \in DOMAIN Pending PROVE Pending[k] \in Messages
  BY <1>1, <1>2, ElementOfSeq
<1>4. QED
  BY <1>1, <1>2, <1>3

(* A message sent pends last.                                                *)
LEMMA Sends ==
  ASSUME Typed, NEW m \in Messages, fromServer' = Append(fromServer, m), queued' = queued
  PROVE  /\ Pending' = Append(Pending, m) /\ Pending' \in Seq(Messages)
         /\ queued' \in Seq(Messages) /\ fromServer' \in Seq(Messages)
         /\ Len(fromServer') = Len(fromServer) + 1
<1>1. fromServer' \in Seq(Messages) /\ Len(fromServer') = Len(fromServer) + 1
  BY DEF Typed
<1>2. Pending' = Append(Pending, m) /\ Pending \in Seq(Messages)
  BY Appended DEF Typed, Pending
<1>3. QED
  BY <1>1, <1>2 DEF Typed

(* next_message takes the first message that pends.                          *)
LEMMA Takes ==
  ASSUME Typed, NextMessage
  PROVE  /\ Removed(Pending, 1, Pending') /\ Pending' \in Seq(Messages)
         /\ Message = Pending[1] /\ Message \in Messages
         /\ queued' \in Seq(Messages) /\ fromServer' \in Seq(Messages)
         /\ Len(queued') + Len(fromServer') <= Len(queued) + Len(fromServer)
<1>1. queued \in Seq(Messages) /\ fromServer \in Seq(Messages)
  BY DEF Typed
<1>2. CASE queued # << >>
  <2>1. Message = Head(queued) /\ queued' = Tail(queued) /\ fromServer' = fromServer
    BY <1>2 DEF NextMessage, Take, Source, Message
  <2>2. Tail(queued) \in Seq(Messages) /\ Len(Tail(queued)) = Len(queued) - 1
          /\ Head(queued) \in Messages /\ Len(queued) \in Nat /\ Len(fromServer) \in Nat
    BY <1>1, <1>2, HeadTailProperties, LenProperties
  <2>3. /\ Tail(queued) \o fromServer \in Seq(Messages)
        /\ (queued \o fromServer)[1] = Head(queued)
        /\ Removed(queued \o fromServer, 1, Tail(queued) \o fromServer)
    BY <1>1, <1>2, RemovedBefore
  <2>4. QED
    BY <1>1, <2>1, <2>2, <2>3 DEF Pending
<1>3. CASE queued = << >>
  <2>1. fromServer # << >> /\ Message = Head(fromServer)
          /\ fromServer' = Tail(fromServer) /\ queued' = << >>
    BY <1>3 DEF NextMessage, Available, Take, Source, Message
  <2>2. /\ Tail(fromServer) \in Seq(Messages) /\ Head(fromServer) = fromServer[1]
        /\ Removed(fromServer, 1, Tail(fromServer))
    BY <1>1, <2>1, RemovedHead
  <2>3. Head(fromServer) \in Messages /\ Len(Tail(fromServer)) = Len(fromServer) - 1
          /\ Len(fromServer) \in Nat
    BY <1>1, <2>1, HeadTailProperties, LenProperties
  <2>4. Pending = fromServer /\ Pending' = Tail(fromServer)
    BY <1>1, <1>3, <2>1, <2>2, ConcatEmptySeq DEF Pending
  <2>5. QED
    BY <1>1, <1>3, <2>1, <2>2, <2>3, <2>4
<1>4. QED
  BY <1>2, <1>3

(* request() takes the first message of the stream, behind the queue.        *)
LEMMA Reads ==
  ASSUME Typed, ReadResponse
  PROVE  /\ Removed(Pending, Len(queued) + 1, Pending') /\ Pending' \in Seq(Messages)
         /\ Head(fromServer) = Pending[Len(queued) + 1] /\ Head(fromServer) \in Messages
         /\ queued' \in Seq(Messages) /\ fromServer' \in Seq(Messages)
         /\ Len(queued') + Len(fromServer') = Len(queued) + Len(fromServer) - 1
<1>1. /\ queued \in Seq(Messages) /\ fromServer \in Seq(Messages)
      /\ fromServer # << >> /\ fromServer' = Tail(fromServer) /\ queued' = queued
  BY DEF Typed, ReadResponse
<1>2. Head(fromServer) \in Messages /\ Tail(fromServer) \in Seq(Messages)
        /\ Len(Tail(fromServer)) = Len(fromServer) - 1
        /\ Len(fromServer) \in Nat /\ Len(queued) \in Nat
  BY <1>1, HeadTailProperties, LenProperties
<1>3. /\ queued \o Tail(fromServer) \in Seq(Messages)
      /\ (queued \o fromServer)[Len(queued) + 1] = Head(fromServer)
      /\ Removed(queued \o fromServer, Len(queued) + 1, queued \o Tail(fromServer))
  BY <1>1, RemovedBehind
<1>4. QED
  BY <1>1, <1>2, <1>3 DEF Pending

(* A message that request() queues pends where it was.                       *)
LEMMA Moves ==
  ASSUME Typed, ReadOther
  PROVE  /\ Pending' = Pending
         /\ queued' \in Seq(Messages) /\ fromServer' \in Seq(Messages)
         /\ Len(queued') + Len(fromServer') = Len(queued) + Len(fromServer)
<1>1. /\ queued \in Seq(Messages) /\ fromServer \in Seq(Messages) /\ fromServer # << >>
      /\ fromServer' = Tail(fromServer) /\ queued' = Append(queued, Head(fromServer))
  BY DEF Typed, ReadOther, QueueAside
<1>2. Head(fromServer) \in Messages /\ Tail(fromServer) \in Seq(Messages)
        /\ Len(Tail(fromServer)) = Len(fromServer) - 1 /\ Len(fromServer) \in Nat
  BY <1>1, HeadTailProperties, LenProperties
<1>3. queued' \in Seq(Messages) /\ Len(queued') = Len(queued) + 1 /\ Len(queued) \in Nat
  BY <1>1, <1>2
<1>4. Pending' = Pending
  BY <1>1, MovedBetween DEF Pending
<1>5. QED
  BY <1>1, <1>2, <1>3, <1>4

(* The items that pend.                                                      *)
LEMMA ItemsAppend ==
  ASSUME NEW s \in Seq(Messages), NEW m \in Messages, NEW kinds \in SUBSET NoteKind
  PROVE  ItemsIn(Append(s, m), kinds) =
             ItemsIn(s, kinds) \union (IF m.kind \in kinds THEN {m.item} ELSE {})
<1>1. m.kind \in kinds => m.item \in Item
  BY MessageKinds
<1>2. QED
  BY <1>1, AppendedPlaces DEF ItemsIn

(* Without one message, no other item pends, and only its own less.          *)
LEMMA ItemsRemoved ==
  ASSUME NEW s \in Seq(Messages), NEW t \in Seq(Messages), NEW j, Removed(s, j, t),
         NEW kinds \in SUBSET NoteKind
  PROVE  /\ ItemsIn(t, kinds) \subseteq ItemsIn(s, kinds)
         /\ \A i \in ItemsIn(s, kinds) :
              i \in ItemsIn(t, kinds) \/ (s[j].kind \in kinds /\ s[j].item = i)
         /\ s[j].kind \notin kinds => ItemsIn(t, kinds) = ItemsIn(s, kinds)
<1>1. \A k \in DOMAIN t : \E l \in DOMAIN s : t[k] = s[l]
  BY RemovedPlaces
<1>2. \A l \in DOMAIN s : l # j => \E k \in DOMAIN t : t[k] = s[l]
  BY RemovedPlaces
<1>3. QED
  BY <1>1, <1>2 DEF ItemsIn

(* Taking a message leaves the others in order.                              *)
LEMMA OrderedRemoved ==
  ASSUME NEW s \in Seq(Messages), NEW t \in Seq(Messages), NEW j, Removed(s, j, t),
         Ordered(s)
  PROVE  Ordered(t)
<1>1. \A k1, k2 \in DOMAIN t : k1 < k2 =>
         \E l1, l2 \in DOMAIN s : l1 < l2 /\ t[k1] = s[l1] /\ t[k2] = s[l2]
  BY RemovedPlaces
<1>2. SUFFICES ASSUME NEW k1 \in DOMAIN t, NEW k2 \in DOMAIN t, k1 < k2,
                      t[k1].kind \in NoteKind, t[k2].kind \in NoteKind, t[k1].item = t[k2].item
               PROVE  t[k1].kind # "completed" /\ t[k2].kind # "started"
  BY Zenon DEF Ordered
<1>3. PICK l1 \in DOMAIN s, l2 \in DOMAIN s : l1 < l2 /\ t[k1] = s[l1] /\ t[k2] = s[l2]
  BY <1>1, <1>2, Zenon
<1>4. QED
  BY <1>2, <1>3, Zenon DEF Ordered

(* So does a message that nothing of its item contradicts.                   *)
LEMMA OrderedAppend ==
  ASSUME NEW s \in Seq(Messages), NEW m \in Messages, Ordered(s),
         m.kind \in NoteKind =>
             \A k \in DOMAIN s : s[k].kind \in NoteKind /\ s[k].item = m.item =>
                 s[k].kind # "completed" /\ m.kind # "started"
  PROVE  Ordered(Append(s, m))
<1> SUFFICES ASSUME NEW j \in DOMAIN Append(s, m), NEW k \in DOMAIN Append(s, m), j < k,
                    Append(s, m)[j].kind \in NoteKind, Append(s, m)[k].kind \in NoteKind,
                    Append(s, m)[j].item = Append(s, m)[k].item
             PROVE  Append(s, m)[j].kind # "completed" /\ Append(s, m)[k].kind # "started"
  BY DEF Ordered
<1>1. j \in DOMAIN s /\ Append(s, m)[j] = s[j]
  BY AppendedPlaces
<1>2. CASE k \in DOMAIN s
  <2>1. Append(s, m)[k] = s[k]
    BY <1>2, AppendedPlaces
  <2>2. QED
    BY <1>1, <1>2, <2>1 DEF Ordered
<1>3. CASE k = Len(s) + 1
  <2>1. Append(s, m)[k] = m
    BY <1>3, AppendedPlaces
  <2>2. QED
    BY <1>1, <2>1
<1>4. QED
  BY <1>2, <1>3, AppendedPlaces

(* Behind a note no start of its item pends, behind a completion nothing.    *)
LEMMA OrderedHead ==
  ASSUME NEW s \in Seq(Messages), NEW t \in Seq(Messages), Removed(s, 1, t), Ordered(s),
         s[1].kind \in NoteKind
  PROVE  /\ s[1].item \notin ItemsIn(t, {"started"})
         /\ s[1].kind = "completed" => s[1].item \notin ItemsIn(t, NoteKind)
<1>1. 1 \in DOMAIN s /\ \A k \in DOMAIN t : \E l \in DOMAIN s : l > 1 /\ t[k] = s[l]
  <2> HIDE DEF Messages
  <2>1. /\ DOMAIN s = 1 .. Len(s) /\ Len(s) \in Nat
        /\ DOMAIN t = 1 .. Len(t) /\ Len(t) \in Nat
    BY LenProperties
  <2>2. 1 \in DOMAIN s
    BY <2>1 DEF Removed
  <2>3. ASSUME NEW k \in DOMAIN t
        PROVE  k + 1 \in DOMAIN s /\ k + 1 > 1 /\ t[k] = s[k + 1]
    BY <2>1 DEF Removed
  <2>4. QED
    BY <2>2, <2>3, Zenon
<1>2. QED
  BY <1>1 DEF Ordered, ItemsIn, NoteKind

-----------------------------------------------------------------------------
(* Types.                                                                    *)

(* The text of an item is a sequence of parts.                               *)
LEMMA TextTyped ==
  ASSUME NEW i \in Item
  PROVE  Text(i) \in Seq(Part)
<1>1. Text(i) \in [1 .. Parts -> Part]
  BY Stages DEF Text, Part
<1>2. QED
  BY <1>1, Stages, SeqDef

(* And so is one part.                                                       *)
LEMMA OnePart ==
  ASSUME NEW i \in Item, NEW n \in Nat
  PROVE  <<i, n>> \in Part /\ << <<i, n>> >> \in Seq(Part)
  BY DEF Part

(* What a message adds are parts.                                            *)
LEMMA AdditionsTyped ==
  ASSUME NEW m \in Messages, NEW noPhase, NEW parted
  PROVE  /\ FinalIn(m, noPhase, parted) \in Seq(Part)
         /\ ProgressIn(m, noPhase) \in Seq(Part)
<1>1. /\ m.kind \in NoteKind => m.item \in Item
      /\ m.kind = "delta" => m.part \in Nat
  BY MessageKinds
<1>2. << >> \in Seq(Part) /\ 0 \in Nat
  BY PartsConcat
<1>3. m.kind = "delta" => << <<m.item, m.part>> >> \in Seq(Part)
  BY <1>1, OnePart, Zenon DEF NoteKind
<1>4. m.kind = "completed" => Text(m.item) \in Seq(Part)
  BY <1>1, TextTyped, Zenon DEF NoteKind
<1>5. m.kind = "started" => << <<m.item, 0>> >> \in Seq(Part)
  BY <1>1, <1>2, OnePart, Zenon DEF NoteKind
<1>6. FinalIn(m, noPhase, parted) \in Seq(Part)
  BY <1>2, <1>3, <1>4, Zenon DEF FinalIn
<1>7. ProgressIn(m, noPhase) \in Seq(Part)
  BY <1>2, <1>3, <1>5, Zenon DEF ProgressIn
<1>8. QED
  BY <1>6, <1>7

(* What the bridge makes of a message are parts.                             *)
LEMMA ReportedTyped ==
  ASSUME NEW m \in Messages
  PROVE  AnswerOf(m) \in Seq(Part) /\ ProgressOf(m) \in Seq(Part)
<1>1. /\ m.kind \in NoteKind => m.item \in Item
      /\ m.kind = "delta" => m.part \in Nat
  BY MessageKinds
<1>2. << >> \in Seq(Part) /\ 0 \in Nat
  BY PartsConcat
<1>3. m.kind = "delta" => << <<m.item, m.part>> >> \in Seq(Part)
  BY <1>1, OnePart, Zenon DEF NoteKind
<1>4. m.kind = "completed" => Text(m.item) \in Seq(Part)
  BY <1>1, TextTyped, Zenon DEF NoteKind
<1>5. m.kind = "started" => << <<m.item, 0>> >> \in Seq(Part)
  BY <1>1, <1>2, OnePart, Zenon DEF NoteKind
<1>6. AnswerOf(m) \in Seq(Part)
  BY <1>2, <1>3, <1>4 DEF AnswerOf
<1>7. ProgressOf(m) \in Seq(Part)
  BY <1>2, <1>3, <1>5 DEF ProgressOf
<1>8. QED
  BY <1>6, <1>7

(* The requests and refusals that are written.                               *)
LEMMA WrittenTyped ==
  /\ \A id \in 1 .. 3 : Request(id) \in Requests
  /\ \A a \in AskId : [kind |-> "refusal", id |-> a] \in Requests
  /\ \A m \in Requests : /\ m.kind \in {"request", "refusal"}
                         /\ m.kind = "request" => m.id \in 1 .. 3 /\ m = Request(m.id)
                         /\ m.kind = "refusal" => m.id \in AskId
  BY DEF Requests, Request

(* Every step keeps messages, requests and texts what they are.              *)
LEMMA TypedStep ==
  ASSUME Typed, TypeOK, OneOut, [Next]_vars
  PROVE  Typed'
<1>1. /\ queued \in Seq(Messages) /\ fromServer \in Seq(Messages) /\ toServer \in Seq(Requests)
      /\ text \in Seq(Part) /\ progress \in Seq(Part)
      /\ said \in [final : Seq(Part), progress : Seq(Part)]
  BY DEF Typed
<1> DEFINE Pipes == queued' \in Seq(Messages) /\ fromServer' \in Seq(Messages)
           Texts == text' \in Seq(Part) /\ progress' \in Seq(Part)
           Said == said' \in [final : Seq(Part), progress : Seq(Part)]
<1>2. ASSUME NEW m \in Messages, Send(m), queued' = queued PROVE Pipes
  BY <1>2, Sends DEF Send
<1>3. ASSUME NextMessage PROVE Pipes /\ Message \in Messages
  BY <1>3, Takes
<1>4. CASE ServerReads
  <2>1. Texts /\ Said
    BY <1>1, <1>4 DEF ServerReads, bridgeVars, turnState
  <2>2. toServer' \in Seq(Requests) /\ Head(toServer) \in Requests
    BY <1>1, <1>4, HeadTailProperties DEF ServerReads
  <2>3. queued' = queued
    BY <1>4 DEF ServerReads, bridgeVars
  <2>4. Pipes
    <3>1. CASE \E ok \in BOOLEAN : Send(Response(Head(toServer).id, ok))
                                     /\ Head(toServer).kind = "request"
      <4>1. PICK ok \in BOOLEAN : Send(Response(Head(toServer).id, ok))
                                    /\ Head(toServer).kind = "request"
        BY <3>1
      <4>2. Response(Head(toServer).id, ok) \in Messages
        BY <2>2, <4>1, WrittenTyped, NewOthers
      <4>3. QED
        BY <1>2, <2>3, <4>1, <4>2
    <3>2. CASE fromServer' = fromServer
      BY <1>1, <2>3, <3>2
    <3>3. QED
      BY <1>4, <3>1, <3>2 DEF ServerReads
  <2>5. QED
    BY <2>1, <2>2, <2>4 DEF Typed
<1>5. CASE BeginsEarly
  BY <1>1, <1>5 DEF BeginsEarly, bridgeVars, turnState, Typed
<1>6. ASSUME NEW i \in Item, StartItem(i) PROVE Typed'
  <2>1. PICK p \in {Phase[i]} \union (IF Mine(i) THEN {"none"} ELSE {}) :
          Emit([Note("started", i, 0) EXCEPT !.part = p])
    BY <1>6 DEF StartItem
  <2>2. p \in PhaseName
    BY ConstantsAssumption DEF PhaseName
  <2>3. Pipes
    <3>1. PICK m \in Messages : m = [Note("started", i, 0) EXCEPT !.part = p]
      BY <2>2, NewNotes, Zenon
    <3>2. Send(m) /\ queued' = queued
      BY <1>6, <2>1, <3>1, Zenon DEF Emit, StartItem, bridgeVars
    <3>3. QED
      BY <1>2, <3>2
  <2>4. Said
    <3>1. <<i, 0>> \in Part
      BY DEF Part
    <3>2. Append(said.progress, <<i, 0>>) \in Seq(Part)
      BY <1>1, <3>1
    <3>3. said' = said \/ said' = [said EXCEPT !.progress = Append(said.progress, <<i, 0>>)]
      BY <1>6 DEF StartItem
    <3>4. QED
      BY <1>1, <3>2, <3>3
  <2>5. QED
    BY <1>1, <1>6, <2>3, <2>4 DEF StartItem, bridgeVars, turnState, Typed
<1>7. ASSUME NEW i \in Item, StreamPart(i) PROVE Typed'
  <2>1. stage[i] + 1 \in Nat
    BY <1>7, Stages DEF StreamPart
  <2>2. Pipes
    <3>1. Note("delta", i, stage[i] + 1) \in Messages
      BY <2>1, NewNotes
    <3>2. Send(Note("delta", i, stage[i] + 1)) /\ queued' = queued
      BY <1>7 DEF Emit, StreamPart, bridgeVars
    <3>3. QED
      BY <1>2, <3>1, <3>2
  <2>3. Said
    <3>1. <<i, stage[i] + 1>> \in Part
      BY <2>1 DEF Part
    <3>2. /\ Append(said.final, <<i, stage[i] + 1>>) \in Seq(Part)
          /\ Append(said.progress, <<i, stage[i] + 1>>) \in Seq(Part)
      BY <1>1, <3>1
    <3>3. \/ said' = said
          \/ said' = [said EXCEPT !.final = Append(said.final, <<i, stage[i] + 1>>)]
          \/ said' = [said EXCEPT !.progress = Append(said.progress, <<i, stage[i] + 1>>)]
      BY <1>7 DEF StreamPart
    <3>4. QED
      BY <1>1, <3>2, <3>3
  <2>4. QED
    BY <1>1, <1>7, <2>2, <2>3 DEF StreamPart, bridgeVars, turnState, Typed
<1>8. ASSUME NEW i \in Item, CompleteItem(i) PROVE Typed'
  <2>1. Pipes
    BY <1>2, <1>8, NewNotes DEF Emit, CompleteItem, bridgeVars
  <2>2. Said
    <3>1. said.final \o Text(i) \in Seq(Part)
      BY <1>1, TextTyped, PartsConcat
    <3>2. said' = said \/ said' = [said EXCEPT !.final = said.final \o Text(i)]
      BY <1>8 DEF CompleteItem
    <3>3. QED
      BY <1>1, <3>1, <3>2
  <2>3. QED
    BY <1>1, <1>8, <2>1, <2>2 DEF CompleteItem, bridgeVars, turnState, Typed
<1>9. CASE CompleteTurn
  <2>1. PICK ok \in BOOLEAN : Emit(Completed("mine", "mine", ok))
    BY <1>9 DEF CompleteTurn
  <2>2. Pipes
    BY <1>2, <1>9, <2>1, NewOthers DEF Emit, CompleteTurn, bridgeVars
  <2>3. QED
    BY <1>1, <1>9, <2>2 DEF CompleteTurn, bridgeVars, turnState, Typed
<1>10. ASSUME NEW i \in Item, OtherTurnEnds(i) PROVE Typed'
  <2>1. Thread[i] \in {"mine", "other"} /\ Turn[i] \in {"mine", "other"}
    BY ConstantsAssumption
  <2>2. Pipes
    BY <1>2, <1>10, <2>1, NewOthers DEF Emit, OtherTurnEnds, bridgeVars
  <2>3. QED
    BY <1>1, <1>10, <2>2 DEF OtherTurnEnds, bridgeVars, turnState, Typed
<1>11. ASSUME NEW a \in AskId, AskApproval(a) PROVE Typed'
  <2>1. Pipes
    BY <1>2, <1>11, NewOthers DEF Emit, AskApproval, bridgeVars
  <2>2. QED
    BY <1>1, <1>11, <2>1 DEF AskApproval, bridgeVars, turnState, Typed
<1>12. CASE ServerDies
  BY <1>1, <1>12 DEF ServerDies, bridgeVars, turnState, Typed
<1>13. CASE ReadResponse
  <2>1. Pipes
    BY <1>13, Reads
  <2>2. toServer' \in Seq(Requests)
    <3>1. CASE toServer' = toServer
      BY <1>1, <3>1
    <3>2. CASE Proceed /\ pc # "submitting"
      <4>1. RequestId[Following[pc]] \in 1 .. 3
        <5>1. pc = "starting" \/ pc = "opening"
          BY <1>13, <3>2, RequestIds DEF ReadResponse, Requesting
        <5>2. QED
          BY <5>1, RequestIds
      <4>2. Request(RequestId[Following[pc]]) \in Requests
        BY <4>1, WrittenTyped
      <4>3. PICK r \in Requests : toServer' = Append(toServer, r)
        BY <3>2, <4>2, Zenon DEF Proceed
      <4>4. QED
        BY <1>1, <4>3
    <3>3. QED
      BY <1>13, <3>1, <3>2 DEF ReadResponse, Proceed
  <2>3. QED
    BY <1>1, <1>13, <2>1, <2>2 DEF ReadResponse, turnState, serverVars, Typed
<1>14. CASE ReadOther
  BY <1>1, <1>14, Moves DEF ReadOther, turnState, serverVars, Typed
<1>15. CASE RefuseRequest
  <2>1. Pipes /\ Message \in Messages
    BY <1>3, <1>15 DEF RefuseRequest
  <2>2. Message.id \in AskId
    BY <1>15, <2>1, MessageKinds DEF RefuseRequest
  <2>3. toServer' \in Seq(Requests)
    BY <1>1, <1>15, <2>2, WrittenTyped DEF RefuseRequest, Refuse
  <2>4. QED
    BY <1>1, <1>15, <2>1, <2>3 DEF RefuseRequest, turnState, serverVars, Typed
<1>16. CASE ConsumeEvent
  <2>1. Pipes /\ Message \in Messages
    BY <1>3, <1>16 DEF ConsumeEvent
  <2>2. AnswerOf(Message) \in Seq(Part) /\ ProgressOf(Message) \in Seq(Part)
    BY <2>1, ReportedTyped
  <2>3. Texts
    BY <1>1, <1>16, <2>2, PartsConcat DEF ConsumeEvent
  <2>4. QED
    BY <1>1, <1>16, <2>1, <2>3 DEF ConsumeEvent, serverVars, Typed
<1>17. CASE IgnoreMessage
  BY <1>1, <1>3, <1>17 DEF IgnoreMessage, turnState, serverVars, Typed
<1>18. CASE TurnCompleted
  BY <1>1, <1>3, <1>18 DEF TurnCompleted, turnState, serverVars, Typed
<1>19. CASE ServerGone
  BY <1>1, <1>19 DEF ServerGone, turnState, serverVars, Typed
<1>20. CASE Close
  BY <1>1, <1>20 DEF Close, turnState, serverVars, Typed
<1>21. CASE UNCHANGED vars
  BY <1>1, <1>21 DEF vars, bridgeVars, turnState, serverVars, Typed
<1>22. QED
  BY <1>4, <1>5, <1>6, <1>7, <1>8, <1>9, <1>10, <1>11, <1>12, <1>13, <1>14, <1>15, <1>16,
     <1>17, <1>18, <1>19, <1>20, <1>21
  DEF Next, Bridge, Server, Owed, Over

-----------------------------------------------------------------------------
(* What a step does to the items, their texts and what pends.                *)

(* Nothing.                                                                  *)
Stays == Pending' = Pending /\ UNCHANGED <<stage, unnamed, turnState, said>>

(* The server sends what is no note of an item.                              *)
Tells ==
    /\ \E m \in Messages : m.kind \notin NoteKind /\ Pending' = Append(Pending, m)
    /\ \A i \in Item : stage'[i] = stage[i] \/ (~Mine(i) /\ stage[i] = Done /\ stage'[i] = Reported)
    /\ UNCHANGED <<unnamed, turnState, said>>

(* The bridge takes what is no note of an item.                              *)
Drops ==
    /\ \E j : Removed(Pending, j, Pending') /\ Pending' \in Seq(Messages)
                /\ Pending[j].kind \notin NoteKind
    /\ UNCHANGED <<stage, unnamed, turnState, said>>

(* The server sends m, a note of item i, which has come to `reached`.        *)
NoteSent(m, i, reached) ==
    /\ m.item = i
    /\ Pending' = Append(Pending, m)
    /\ stage' = [stage EXCEPT ![i] = reached]
    /\ UNCHANGED turnState

(* What StartItem sends, and whether the phase is named in it.               *)
LEMMA StartSent ==
  ASSUME Typed, TypeOK, PhaseKnown, NEW i \in Item, StartItem(i)
  PROVE  /\ \E m \in Messages : /\ m.kind = "started" /\ NoteSent(m, i, 0)
                                /\ Mine(i) => m.part = IF i \in unnamed' THEN "none" ELSE Phase[i]
         /\ stage[i] = New /\ unnamed \subseteq unnamed' /\ unnamed' \subseteq unnamed \union {i}
         /\ ~Mine(i) => unnamed' = unnamed
         /\ said' = IF Of(i, "tool") THEN [said EXCEPT !.progress = Append(said.progress, <<i, 0>>)]
                                     ELSE said
<1>1. PICK p \in {Phase[i]} \union (IF Mine(i) THEN {"none"} ELSE {}) :
        /\ Emit([Note("started", i, 0) EXCEPT !.part = p])
        /\ unnamed' = IF p = "none" THEN unnamed \union {i} ELSE unnamed
  BY DEF StartItem
<1>2. p \in PhaseName /\ Phase[i] # "none"
  BY ConstantsAssumption DEF PhaseName, Known
<1>3. PICK m \in Messages : m = [Note("started", i, 0) EXCEPT !.part = p]
  BY <1>2, NewNotes, Zenon
<1>4. m.kind = "started" /\ m.item = i /\ m.part = p
  BY <1>3 DEF Note
<1>5. /\ stage[i] = New /\ stage' = [stage EXCEPT ![i] = 0] /\ UNCHANGED turnState
      /\ queued' = queued
      /\ said' = IF Of(i, "tool") THEN [said EXCEPT !.progress = Append(said.progress, <<i, 0>>)]
                                  ELSE said
  BY DEF StartItem, bridgeVars
<1>6. fromServer' = Append(fromServer, m)
  BY <1>1, <1>3, Zenon DEF Emit, Send
<1>7. Pending' = Append(Pending, m)
  BY <1>5, <1>6, Sends
<1>8. Mine(i) => i \notin unnamed
  BY <1>5 DEF PhaseKnown
<1>9. Mine(i) => m.part = IF i \in unnamed' THEN "none" ELSE Phase[i]
  BY <1>1, <1>2, <1>4, <1>8
<1>10. /\ unnamed \subseteq unnamed' /\ unnamed' \subseteq unnamed \union {i}
       /\ ~Mine(i) => unnamed' = unnamed
  BY <1>1, <1>2
<1>11. NoteSent(m, i, 0)
  BY <1>4, <1>5, <1>7 DEF NoteSent
<1>12. QED
  BY <1>4, <1>5, <1>9, <1>10, <1>11, Zenon

(* What StreamPart sends, and whose part the server says it is.              *)
LEMMA PartSent ==
  ASSUME Typed, TypeOK, NEW i \in Item, StreamPart(i)
  PROVE  /\ \E m \in Messages : /\ m.kind = "delta" /\ m.part = stage[i] + 1
                                /\ NoteSent(m, i, stage[i] + 1)
         /\ stage[i] \in 0 .. Parts - 1 /\ stage[i] + 1 \in Nat
         /\ said' = IF i \in unnamed THEN said
                    ELSE IF Of(i, "final_answer")
                      THEN [said EXCEPT !.final = Append(said.final, <<i, stage[i] + 1>>)]
                    ELSE IF Of(i, "commentary")
                      THEN [said EXCEPT !.progress = Append(said.progress, <<i, stage[i] + 1>>)]
                    ELSE said
         /\ unnamed' = unnamed
<1>1. /\ stage[i] \in 0 .. Parts - 1 /\ stage' = [stage EXCEPT ![i] = stage[i] + 1]
      /\ UNCHANGED turnState /\ queued' = queued /\ unnamed' = unnamed
      /\ fromServer' = Append(fromServer, Note("delta", i, stage[i] + 1))
  BY DEF StreamPart, bridgeVars, Emit, Send
<1>2. stage[i] + 1 \in Nat
  BY <1>1, Stages
<1>3. PICK m \in Messages : m = Note("delta", i, stage[i] + 1)
  BY <1>2, NewNotes, Zenon
<1>4. m.kind = "delta" /\ m.item = i /\ m.part = stage[i] + 1
  BY <1>3 DEF Note
<1>5. Pending' = Append(Pending, m)
  BY <1>1, <1>3, Sends
<1>6. NoteSent(m, i, stage[i] + 1)
  BY <1>1, <1>4, <1>5, Zenon DEF NoteSent
<1>7. said' = IF i \in unnamed THEN said
                    ELSE IF Of(i, "final_answer")
                      THEN [said EXCEPT !.final = Append(said.final, <<i, stage[i] + 1>>)]
                    ELSE IF Of(i, "commentary")
                      THEN [said EXCEPT !.progress = Append(said.progress, <<i, stage[i] + 1>>)]
                    ELSE said
  BY DEF StreamPart
<1>8. QED
  BY <1>1, <1>2, <1>4, <1>6, <1>7, Zenon

(* What CompleteItem sends, with the text no part was streamed of.           *)
LEMMA CompletionSent ==
  ASSUME Typed, TypeOK, NEW i \in Item, CompleteItem(i)
  PROVE  /\ \E m \in Messages : m.kind = "completed" /\ NoteSent(m, i, Done)
         /\ stage[i] \in {0, Parts}
         /\ said' = IF Of(i, "final_answer") /\ stage[i] = 0
                      THEN [said EXCEPT !.final = said.final \o Text(i)] ELSE said
         /\ unnamed' = unnamed
<1>1. /\ stage[i] \in {0, Parts} /\ stage' = [stage EXCEPT ![i] = Done]
      /\ UNCHANGED turnState /\ queued' = queued /\ unnamed' = unnamed
      /\ fromServer' = Append(fromServer, Note("completed", i, 0))
      /\ said' = IF Of(i, "final_answer") /\ stage[i] = 0
                   THEN [said EXCEPT !.final = said.final \o Text(i)] ELSE said
  BY DEF CompleteItem, bridgeVars, Emit, Send
<1>2. PICK m \in Messages : m = Note("completed", i, 0)
  BY NewNotes, Zenon
<1>3. m.kind = "completed" /\ m.item = i
  BY <1>2 DEF Note
<1>4. Pending' = Append(Pending, m)
  BY <1>1, <1>2, Sends
<1>5. NoteSent(m, i, Done)
  BY <1>1, <1>3, <1>4, Zenon DEF NoteSent
<1>6. QED
  BY <1>1, <1>3, <1>5, Zenon

(* Every other step.                                                         *)
LEMMA OtherSteps ==
  ASSUME Typed, TypeOK, [Next]_vars, ~ConsumeEvent,
         \A i \in Item : ~StartItem(i) /\ ~StreamPart(i) /\ ~CompleteItem(i)
  PROVE  Stays \/ Tells \/ Drops
<1>1. ASSUME NEW m \in Messages, m.kind \notin NoteKind, Send(m), queued' = queued,
             stage' = stage, UNCHANGED <<unnamed, turnState, said>>
      PROVE  Tells
  <2>1. Pending' = Append(Pending, m)
    BY <1>1, Sends DEF Send
  <2>2. QED
    BY <1>1, <2>1 DEF Tells
<1>2. ASSUME queued' = queued, fromServer' = fromServer,
             UNCHANGED <<stage, unnamed, turnState, said>>
      PROVE  Stays
  BY <1>2 DEF Stays, Pending
<1>3. ASSUME NextMessage, Message.kind \notin NoteKind, UNCHANGED <<stage, unnamed, turnState, said>>
      PROVE  Drops
  <2>1. Removed(Pending, 1, Pending') /\ Pending' \in Seq(Messages) /\ Message = Pending[1]
    BY <1>3, Takes
  <2>2. QED
    BY <1>3, <2>1, Zenon DEF Drops
<1>4. CASE ServerReads
  <2>1. /\ queued' = queued /\ UNCHANGED <<stage, unnamed, turnState, said>>
        /\ Head(toServer) \in Requests
    BY <1>4, HeadTailProperties DEF ServerReads, bridgeVars, Typed
  <2>2. CASE \E ok \in BOOLEAN : Send(Response(Head(toServer).id, ok))
                                   /\ Head(toServer).kind = "request"
    <3>1. PICK ok \in BOOLEAN : Send(Response(Head(toServer).id, ok))
                                  /\ Head(toServer).kind = "request"
      BY <2>2
    <3>2. PICK m \in Messages : m = Response(Head(toServer).id, ok)
      BY <2>1, <3>1, WrittenTyped, NewOthers, Zenon
    <3>3. m.kind = "response"
      BY <3>2 DEF Response
    <3>4. QED
      BY <1>1, <2>1, <3>1, <3>2, <3>3 DEF NoteKind
  <2>3. CASE fromServer' = fromServer
    BY <1>2, <2>1, <2>3
  <2>4. QED
    BY <1>4, <2>2, <2>3 DEF ServerReads
<1>5. CASE BeginsEarly
  BY <1>2, <1>5 DEF BeginsEarly, bridgeVars
<1>6. CASE CompleteTurn
  <2>1. PICK ok \in BOOLEAN : Send(Completed("mine", "mine", ok))
    BY <1>6 DEF CompleteTurn, Emit
  <2>2. PICK m \in Messages : m = Completed("mine", "mine", ok)
    BY NewOthers, Zenon
  <2>3. m.kind = "turn_done"
    BY <2>2 DEF Completed
  <2>4. QED
    BY <1>1, <1>6, <2>1, <2>2, <2>3 DEF CompleteTurn, bridgeVars, NoteKind
<1>7. ASSUME NEW i \in Item, OtherTurnEnds(i) PROVE Tells
  <2>1. Thread[i] \in {"mine", "other"} /\ Turn[i] \in {"mine", "other"}
    BY ConstantsAssumption
  <2>2. PICK m \in Messages : m = Completed(Thread[i], Turn[i], TRUE)
    BY <2>1, NewOthers, Zenon
  <2>3. m.kind = "turn_done"
    BY <2>2 DEF Completed
  <2>4. Pending' = Append(Pending, m)
    BY <1>7, <2>2, Sends DEF OtherTurnEnds, Emit, Send, bridgeVars
  <2>5. \A x \in Item : stage'[x] = stage[x] \/ (~Mine(x) /\ stage[x] = Done /\ stage'[x] = Reported)
    BY <1>7 DEF OtherTurnEnds, TypeOK
  <2>6. QED
    BY <1>7, <2>3, <2>4, <2>5 DEF OtherTurnEnds, bridgeVars, Tells, NoteKind
<1>8. ASSUME NEW a \in AskId, AskApproval(a) PROVE Tells
  <2>1. PICK m \in Messages : m = Ask(a)
    BY NewOthers, Zenon
  <2>2. m.kind = "ask"
    BY <2>1 DEF Ask
  <2>3. QED
    BY <1>1, <1>8, <2>1, <2>2 DEF AskApproval, Emit, bridgeVars, NoteKind
<1>9. CASE ServerDies
  BY <1>2, <1>9 DEF ServerDies, bridgeVars
<1>10. CASE ReadResponse
  <2>1. /\ Removed(Pending, Len(queued) + 1, Pending') /\ Pending' \in Seq(Messages)
        /\ Head(fromServer) = Pending[Len(queued) + 1] /\ Head(fromServer) \in Messages
    BY <1>10, Reads
  <2>2. Head(fromServer).id # 0
    BY <1>10, RequestIds DEF ReadResponse, Requesting
  <2>3. Head(fromServer).kind \notin NoteKind
    BY <2>1, <2>2, MessageKinds DEF NoteKind
  <2>4. UNCHANGED <<stage, unnamed, turnState, said>>
    BY <1>10 DEF ReadResponse, serverVars
  <2>5. QED
    BY <2>1, <2>3, <2>4, Zenon DEF Drops
<1>11. CASE ReadOther
  BY <1>11, Moves DEF ReadOther, serverVars, Stays
<1>12. CASE RefuseRequest
  BY <1>3, <1>12 DEF RefuseRequest, serverVars, NoteKind
<1>13. CASE IgnoreMessage
  BY <1>3, <1>13 DEF IgnoreMessage, serverVars, NoteKind
<1>14. CASE TurnCompleted
  BY <1>3, <1>14 DEF TurnCompleted, serverVars, NoteKind
<1>15. CASE ServerGone
  BY <1>2, <1>15 DEF ServerGone, serverVars
<1>16. CASE Close
  BY <1>2, <1>16 DEF Close
<1>17. CASE UNCHANGED vars
  BY <1>2, <1>17 DEF vars, bridgeVars, serverVars
<1>18. QED
  BY <1>4, <1>5, <1>6, <1>7, <1>8, <1>9, <1>10, <1>11, <1>12, <1>13, <1>14, <1>15, <1>16,
     <1>17
  DEF Next, Bridge, Server, Owed, Over

-----------------------------------------------------------------------------
(* The order of what pends.                                                  *)

(* What pends goes on to fit when an item comes further.                     *)
LEMMA FitsAppend ==
  ASSUME NEW s \in Seq(Messages), NEW m \in Messages, NEW reached, NEW noPhase,
         \A k \in DOMAIN s : Fits(s[k], reached, noPhase), Fits(m, reached, noPhase)
  PROVE  \A k \in DOMAIN Append(s, m) : Fits(Append(s, m)[k], reached, noPhase)
<1> SUFFICES ASSUME NEW k \in DOMAIN Append(s, m) PROVE Fits(Append(s, m)[k], reached, noPhase)
  OBVIOUS
<1>1. CASE k \in DOMAIN s
  <2>1. Append(s, m)[k] = s[k]
    BY <1>1, AppendedPlaces
  <2>2. QED
    BY <1>1, <2>1, Zenon
<1>2. CASE k = Len(s) + 1
  <2>1. Append(s, m)[k] = m
    BY <1>2, AppendedPlaces
  <2>2. QED
    BY <2>1, Zenon
<1>3. QED
  BY <1>1, <1>2, AppendedPlaces

(* What pends of an item stays what the server has come to, in order.        *)
LEMMA ItemsInOrderStep ==
  ASSUME Typed, TypeOK, PhaseKnown, ItemsInOrder, [Next]_vars
  PROVE  ItemsInOrder'
<1>1. /\ Pending \in Seq(Messages)
      /\ \A k \in DOMAIN Pending : Pending[k] \in Messages
  BY PendingTyped
<1>2. /\ \A k \in DOMAIN Pending : Fits(Pending[k], stage, unnamed)
      /\ Ordered(Pending)
  BY DEF ItemsInOrder
<1>3. \A k \in DOMAIN Pending : Pending[k].kind \in NoteKind => Pending[k].item \in Item
  BY <1>1, MessageKinds
<1>4. ASSUME NEW m \in Messages, Pending' = Append(Pending, m),
             \A k \in DOMAIN Pending : Fits(Pending[k], stage', unnamed'),
             Fits(m, stage', unnamed'),
             m.kind \in NoteKind =>
                 \A k \in DOMAIN Pending : Pending[k].kind \in NoteKind /\ Pending[k].item = m.item =>
                     Pending[k].kind # "completed" /\ m.kind # "started"
      PROVE  ItemsInOrder'
  <2>1. \A k \in DOMAIN Append(Pending, m) : Fits(Append(Pending, m)[k], stage', unnamed')
    BY <1>1, <1>4, FitsAppend
  <2>2. Ordered(Append(Pending, m))
    BY <1>1, <1>2, <1>4, OrderedAppend
  <2>3. QED
    BY <1>4, <2>1, <2>2, Zenon DEF ItemsInOrder
<1>5. ASSUME NEW j, Removed(Pending, j, Pending'), Pending' \in Seq(Messages),
             UNCHANGED <<stage, unnamed>>
      PROVE  ItemsInOrder'
  <2>1. \A k \in DOMAIN Pending' : \E l \in DOMAIN Pending : Pending'[k] = Pending[l]
    BY <1>1, <1>5, RemovedPlaces
  <2>2. ASSUME NEW k \in DOMAIN Pending' PROVE Fits(Pending'[k], stage', unnamed')
    BY <1>2, <1>5, <2>1, <2>2, Zenon
  <2>3. Ordered(Pending')
    BY <1>1, <1>2, <1>5, OrderedRemoved
  <2>4. QED
    BY <2>2, <2>3, Zenon DEF ItemsInOrder
<1>6. CASE Stays
  <2>1. Pending' = Pending /\ stage' = stage /\ unnamed' = unnamed
    BY <1>6 DEF Stays
  <2>2. QED
    BY <1>2, <2>1, Zenon DEF ItemsInOrder
<1>7. CASE Tells
  <2>1. PICK m \in Messages : m.kind \notin NoteKind /\ Pending' = Append(Pending, m)
    BY <1>7 DEF Tells
  <2>2. unnamed' = unnamed
          /\ \A i \in Item : stage'[i] = stage[i] \/ (stage[i] = Done /\ stage'[i] = Reported)
    BY <1>7 DEF Tells
  <2>3. Fits(m, stage', unnamed')
    BY <2>1 DEF Fits
  <2>4. ASSUME NEW k \in DOMAIN Pending PROVE Fits(Pending[k], stage', unnamed')
    <3>1. Fits(Pending[k], stage, unnamed)
      BY <1>2, <2>4
    <3>2. QED
      BY <1>3, <2>2, <2>4, <3>1, Stages DEF Fits
  <2>5. QED
    BY <1>4, <2>1, <2>3, <2>4
<1>8. CASE Drops
  BY <1>5, <1>8 DEF Drops
<1>9. ASSUME NEW i \in Item, StartItem(i) PROVE ItemsInOrder'
  <2>1. PICK m \in Messages : /\ m.kind = "started" /\ NoteSent(m, i, 0)
                              /\ Mine(i) => m.part = IF i \in unnamed' THEN "none" ELSE Phase[i]
    BY <1>9, StartSent, Zenon
  <2>2. stage[i] = New /\ unnamed \subseteq unnamed' /\ unnamed' \subseteq unnamed \union {i}
    BY <1>9, StartSent, Zenon
  <2>3. m.item = i /\ Pending' = Append(Pending, m) /\ stage' = [stage EXCEPT ![i] = 0]
    BY <2>1 DEF NoteSent
  <2>4. stage'[i] = 0 /\ \A x \in Item : x # i => stage'[x] = stage[x]
    BY <2>3 DEF TypeOK
  <2>5. \A k \in DOMAIN Pending : Pending[k].kind \in NoteKind => Pending[k].item # i
    BY <1>2, <2>2 DEF Fits
  <2>6. Fits(m, stage', unnamed')
    BY <2>1, <2>3, <2>4, Stages DEF Fits
  <2>7. ASSUME NEW k \in DOMAIN Pending PROVE Fits(Pending[k], stage', unnamed')
    <3>1. Fits(Pending[k], stage, unnamed)
      BY <1>2, <2>7
    <3>2. QED
      BY <1>3, <2>2, <2>4, <2>5, <2>7, <3>1 DEF Fits
  <2>8. QED
    BY <1>4, <2>3, <2>5, <2>6, <2>7
<1>10. ASSUME NEW i \in Item, NEW m \in Messages, NEW n, NoteSent(m, i, n), n # New,
              m.kind \in {"delta", "completed"}, m.kind = "completed" => n = Done,
              stage[i] < Done, unnamed' = unnamed
       PROVE  ItemsInOrder'
  <2>1. m.item = i /\ Pending' = Append(Pending, m) /\ stage' = [stage EXCEPT ![i] = n]
    BY <1>10 DEF NoteSent
  <2>2. stage'[i] = n /\ \A x \in Item : x # i => stage'[x] = stage[x]
    BY <2>1 DEF TypeOK
  <2>3. stage[i] \in Int /\ Done \in Int
    BY Stages DEF TypeOK
  <2>4. \A k \in DOMAIN Pending :
          Pending[k].kind \in NoteKind /\ Pending[k].item = i => Pending[k].kind # "completed"
    <3>1. ~(stage[i] >= Done)
      BY <1>10, <2>3
    <3>2. QED
      BY <1>2, <3>1 DEF Fits
  <2>5. Fits(m, stage', unnamed')
    BY <1>10, <2>1, <2>2, Stages DEF Fits
  <2>6. ASSUME NEW k \in DOMAIN Pending PROVE Fits(Pending[k], stage', unnamed')
    <3>1. Fits(Pending[k], stage, unnamed)
      BY <1>2, <2>6
    <3>2. QED
      BY <1>3, <1>10, <2>2, <2>4, <2>6, <3>1 DEF Fits
  <2>7. QED
    BY <1>4, <1>10, <2>1, <2>4, <2>5, <2>6
<1>11. ASSUME NEW i \in Item, StreamPart(i) PROVE ItemsInOrder'
  <2>1. PICK m \in Messages : m.kind = "delta" /\ NoteSent(m, i, stage[i] + 1)
    BY <1>11, PartSent, Zenon
  <2>2. stage[i] \in 0 .. Parts - 1 /\ unnamed' = unnamed
    BY <1>11, PartSent, Zenon
  <2>3. stage[i] + 1 # New /\ stage[i] < Done
    BY <2>2, Stages
  <2>4. QED
    BY <1>10, <2>1, <2>2, <2>3
<1>12. ASSUME NEW i \in Item, CompleteItem(i) PROVE ItemsInOrder'
  <2>1. PICK m \in Messages : m.kind = "completed" /\ NoteSent(m, i, Done)
    BY <1>12, CompletionSent, Zenon
  <2>2. stage[i] \in {0, Parts} /\ unnamed' = unnamed
    BY <1>12, CompletionSent, Zenon
  <2>3. Done # New /\ stage[i] < Done
    BY <2>2, Stages
  <2>4. QED
    BY <1>10, <2>1, <2>2, <2>3
<1>13. CASE ConsumeEvent
  <2>1. Removed(Pending, 1, Pending') /\ Pending' \in Seq(Messages)
    BY <1>13, Takes DEF ConsumeEvent
  <2>2. UNCHANGED <<stage, unnamed>>
    BY <1>13 DEF ConsumeEvent, serverVars
  <2>3. QED
    BY <1>5, <2>1, <2>2
<1>14. QED
  BY <1>6, <1>7, <1>8, <1>9, <1>11, <1>12, <1>13, OtherSteps

-----------------------------------------------------------------------------
(* Which items pend, and which have streamed.                                *)

(* The items that pend when a message is sent,                               *)
LEMMA ItemsTold ==
  ASSUME Typed, NEW m \in Messages, Pending' = Append(Pending, m)
  PROVE  /\ NotesPending' = NotesPending \union (IF m.kind \in NoteKind THEN {m.item} ELSE {})
         /\ StartsPending' = StartsPending \union (IF m.kind = "started" THEN {m.item} ELSE {})
         /\ DeltasPending' = DeltasPending \union (IF m.kind = "delta" THEN {m.item} ELSE {})
<1>1. Pending \in Seq(Messages)
  BY PendingTyped
<1>2. \A kinds \in SUBSET NoteKind :
        ItemsIn(Pending', kinds) =
            ItemsIn(Pending, kinds) \union (IF m.kind \in kinds THEN {m.item} ELSE {})
  BY <1>1, ItemsAppend, ZenonT(60)
<1>3. {"started"} \in SUBSET NoteKind /\ {"delta"} \in SUBSET NoteKind /\ NoteKind \in SUBSET NoteKind
  BY DEF NoteKind
<1>4. /\ m.kind \in {"started"} <=> m.kind = "started"
      /\ m.kind \in {"delta"} <=> m.kind = "delta"
  OBVIOUS
<1>5. QED
  BY <1>2, <1>3, <1>4, Zenon DEF NotesPending, StartsPending, DeltasPending

(* when one is taken,                                                        *)
LEMMA ItemsTaken ==
  ASSUME Typed, NEW j, Removed(Pending, j, Pending'), Pending' \in Seq(Messages)
  PROVE  /\ NotesPending' \subseteq NotesPending
         /\ StartsPending' \subseteq StartsPending /\ DeltasPending' \subseteq DeltasPending
         /\ Pending[j].kind \notin NoteKind =>
              NotesPending' = NotesPending /\ StartsPending' = StartsPending
                /\ DeltasPending' = DeltasPending
         /\ \A i \in StartsPending :
              i \in StartsPending' \/ (Pending[j].kind = "started" /\ Pending[j].item = i)
         /\ \A i \in DeltasPending :
              i \in DeltasPending' \/ (Pending[j].kind = "delta" /\ Pending[j].item = i)
<1>1. Pending \in Seq(Messages)
  BY PendingTyped
<1>2. \A kinds \in SUBSET NoteKind :
         /\ ItemsIn(Pending', kinds) \subseteq ItemsIn(Pending, kinds)
         /\ \A i \in ItemsIn(Pending, kinds) :
              i \in ItemsIn(Pending', kinds) \/ (Pending[j].kind \in kinds /\ Pending[j].item = i)
         /\ Pending[j].kind \notin kinds => ItemsIn(Pending', kinds) = ItemsIn(Pending, kinds)
  BY <1>1, ItemsRemoved, Zenon
<1>3. {"started"} \in SUBSET NoteKind /\ {"delta"} \in SUBSET NoteKind /\ NoteKind \in SUBSET NoteKind
  BY DEF NoteKind
<1>4. /\ Pending[j].kind \in {"started"} <=> Pending[j].kind = "started"
      /\ Pending[j].kind \in {"delta"} <=> Pending[j].kind = "delta"
      /\ Pending[j].kind \notin NoteKind => Pending[j].kind # "started" /\ Pending[j].kind # "delta"
  BY DEF NoteKind
<1>5. /\ NotesPending' \subseteq NotesPending
      /\ Pending[j].kind \notin NoteKind => NotesPending' = NotesPending
  BY <1>2, <1>3, Zenon DEF NotesPending
<1>6. /\ StartsPending' \subseteq StartsPending
      /\ Pending[j].kind # "started" => StartsPending' = StartsPending
      /\ \A i \in StartsPending :
              i \in StartsPending' \/ (Pending[j].kind = "started" /\ Pending[j].item = i)
  BY <1>2, <1>3, <1>4, Zenon DEF StartsPending
<1>7. /\ DeltasPending' \subseteq DeltasPending
      /\ Pending[j].kind # "delta" => DeltasPending' = DeltasPending
      /\ \A i \in DeltasPending :
              i \in DeltasPending' \/ (Pending[j].kind = "delta" /\ Pending[j].item = i)
  BY <1>2, <1>3, <1>4, Zenon DEF DeltasPending
<1>8. QED
  BY <1>4, <1>5, <1>6, <1>7, Zenon

(* and when neither is.                                                      *)
LEMMA ItemsSame ==
  ASSUME Pending' = Pending
  PROVE  NotesPending' = NotesPending /\ StartsPending' = StartsPending
           /\ DeltasPending' = DeltasPending
  BY DEF NotesPending, StartsPending, DeltasPending

(* What the bridge takes and consumes.                                       *)
LEMMA Consumes ==
  ASSUME Typed, ConsumeEvent
  PROVE  /\ Removed(Pending, 1, Pending') /\ Pending' \in Seq(Messages)
         /\ Message = Pending[1] /\ Message \in Messages
         /\ Message.kind \in NoteKind /\ Message.item \in Item
         /\ 1 \in DOMAIN Pending
         /\ Message.item \in NotesPending
         /\ Message.kind = "delta" => Message.item \in DeltasPending
<1>1. /\ Removed(Pending, 1, Pending') /\ Pending' \in Seq(Messages)
      /\ Message = Pending[1] /\ Message \in Messages
  BY Takes DEF ConsumeEvent
<1>2. Message.kind \in NoteKind
  BY DEF ConsumeEvent, NoteKind
<1>3. Message.item \in Item
  BY <1>1, <1>2, MessageKinds
<1>4. 1 \in DOMAIN Pending
  BY <1>1, PendingTyped DEF Removed
<1>5. Message.item \in NotesPending
  BY <1>1, <1>2, <1>3, <1>4 DEF NotesPending, ItemsIn
<1>6. Message.kind = "delta" => Message.item \in DeltasPending
  BY <1>1, <1>2, <1>3, <1>4 DEF DeltasPending, ItemsIn
<1>7. QED
  BY <1>1, <1>2, <1>3, <1>4, <1>5, <1>6

(* Which items have streamed, after the bridge noted one.                    *)
LEMMA StreamedStep ==
  ASSUME Typed, TypeOK, PhaseKnown, [Next]_vars
  PROVE  \/ Streamed' = Streamed
         \/ \E i \in Item : StreamPart(i)
              /\ Streamed' = Streamed \union (IF Mine(i) THEN {i} ELSE {})
<1>1. ASSUME streamed' = streamed, DeltasPending' = DeltasPending PROVE Streamed' = Streamed
  BY <1>1 DEF Streamed
<1>2. CASE Stays
  BY <1>1, <1>2, ItemsSame DEF Stays, turnState
<1>3. CASE Tells
  BY <1>1, <1>3, ItemsTold DEF Tells, turnState, NoteKind
<1>4. CASE Drops
  BY <1>1, <1>4, ItemsTaken DEF Drops, turnState
<1>5. ASSUME NEW i \in Item, StartItem(i) PROVE Streamed' = Streamed
  <2>1. PICK m \in Messages : m.kind = "started" /\ NoteSent(m, i, 0)
    BY <1>5, StartSent, Zenon
  <2>2. QED
    BY <1>1, <2>1, ItemsTold DEF NoteSent, turnState
<1>6. ASSUME NEW i \in Item, StreamPart(i)
      PROVE  Streamed' = Streamed \union (IF Mine(i) THEN {i} ELSE {})
  <2>1. PICK m \in Messages : m.kind = "delta" /\ NoteSent(m, i, stage[i] + 1)
    BY <1>6, PartSent, Zenon
  <2>2. streamed' = streamed /\ DeltasPending' = DeltasPending \union {i}
    BY <2>1, ItemsTold DEF NoteSent, turnState
  <2>3. QED
    BY <2>2 DEF Streamed
<1>7. ASSUME NEW i \in Item, CompleteItem(i) PROVE Streamed' = Streamed
  <2>1. PICK m \in Messages : m.kind = "completed" /\ NoteSent(m, i, Done)
    BY <1>7, CompletionSent, Zenon
  <2>2. QED
    BY <1>1, <2>1, ItemsTold DEF NoteSent, turnState
<1>8. CASE ConsumeEvent
  <2>1. streamed' = IF Mine(Message.item) /\ Message.kind = "delta"
                      THEN streamed \union {Message.item} ELSE streamed
    BY <1>8 DEF ConsumeEvent, Consumed, Mine
  <2>2. /\ DeltasPending' \subseteq DeltasPending
        /\ \A i \in DeltasPending :
             i \in DeltasPending' \/ (Message.kind = "delta" /\ Message.item = i)
        /\ Message.kind = "delta" => Message.item \in DeltasPending
    BY <1>8, Consumes, ItemsTaken
  <2>3. QED
    BY <2>1, <2>2 DEF Streamed
<1>9. CASE \E i \in Item : StreamPart(i)
  BY <1>6, <1>9
<1>10. QED
  BY <1>2, <1>3, <1>4, <1>5, <1>7, <1>8, <1>9, OtherSteps

(* An item of which parts were streamed is noted or pends.                   *)
LEMMA StreamsNotedStep ==
  ASSUME Typed, TypeOK, PhaseKnown, StreamsNoted, [Next]_vars
  PROVE  StreamsNoted'
<1>1. \A i \in Item : Mine(i) => /\ stage[i] \in {New, 0} => i \notin Streamed
                                 /\ stage[i] \in 1 .. Parts => i \in Streamed
  BY DEF StreamsNoted
<1>2. ASSUME Streamed' = Streamed,
             \A i \in Item : Mine(i) =>
                 \/ stage'[i] = stage[i] \/ (stage[i] = New /\ stage'[i] = 0) \/ stage'[i] = Done
      PROVE  StreamsNoted'
  BY <1>1, <1>2, Stages DEF StreamsNoted
<1>3. ASSUME NEW i \in Item, StreamPart(i) PROVE StreamsNoted'
  <2>1. PICK m \in Messages : m.kind = "delta" /\ NoteSent(m, i, stage[i] + 1)
    BY <1>3, PartSent, Zenon
  <2>2. stage[i] \in 0 .. Parts - 1 /\ stage' = [stage EXCEPT ![i] = stage[i] + 1]
    BY <1>3, <2>1, PartSent DEF NoteSent
  <2>3. streamed' = streamed /\ DeltasPending' = DeltasPending \union {i}
    BY <2>1, ItemsTold DEF NoteSent, turnState
  <2>4. Streamed' = Streamed \union (IF Mine(i) THEN {i} ELSE {})
    BY <2>3 DEF Streamed
  <2>5. stage'[i] = stage[i] + 1 /\ \A x \in Item : x # i => stage'[x] = stage[x]
    BY <2>2 DEF TypeOK
  <2>6. stage'[i] \notin {New, 0} /\ stage'[i] \in 1 .. Parts
    BY <2>2, <2>5, Stages
  <2>7. QED
    BY <1>1, <2>4, <2>5, <2>6 DEF StreamsNoted
<1>4. CASE Stays \/ Drops
  BY <1>2, <1>4, <1>3, StreamedStep DEF Stays, Drops
<1>5. CASE Tells
  BY <1>2, <1>5, <1>3, StreamedStep DEF Tells
<1>6. ASSUME NEW i \in Item, StartItem(i) PROVE StreamsNoted'
  <2>1. stage[i] = New /\ stage' = [stage EXCEPT ![i] = 0]
    BY <1>6 DEF StartItem
  <2>2. \A x \in Item : stage'[x] = stage[x] \/ (stage[x] = New /\ stage'[x] = 0)
    BY <2>1 DEF TypeOK
  <2>3. QED
    BY <1>2, <1>3, <2>2, StreamedStep
<1>7. ASSUME NEW i \in Item, CompleteItem(i) PROVE StreamsNoted'
  <2>1. stage' = [stage EXCEPT ![i] = Done]
    BY <1>7 DEF CompleteItem
  <2>2. \A x \in Item : stage'[x] = stage[x] \/ stage'[x] = Done
    BY <2>1 DEF TypeOK
  <2>3. QED
    BY <1>2, <1>3, <2>2, StreamedStep
<1>8. CASE ConsumeEvent
  BY <1>2, <1>3, <1>8, StreamedStep DEF ConsumeEvent, serverVars
<1>9. QED
  BY <1>3, <1>4, <1>5, <1>6, <1>7, <1>8, OtherSteps

-----------------------------------------------------------------------------
(* What the bridge knows of the phases.                                      *)

(* What _record_agent_message_phase does to the phases.                      *)
LEMMA PhaseRecorded ==
  ASSUME Typed, TypeOK, ItemsInOrder, ConsumeEvent
  PROVE  /\ \A i \in Item : phases'[i] =
              IF i = Message.item /\ Mine(i) /\ Message.kind \in {"started", "completed"}
                   /\ PhaseNamed(Message) \in Known
                THEN PhaseNamed(Message) ELSE phases[i]
         /\ Mine(Message.item) /\ Message.kind = "started" =>
              PhaseNamed(Message) = IF Message.item \in unnamed THEN "none" ELSE Phase[Message.item]
         /\ Message.kind = "completed" => PhaseNamed(Message) = Phase[Message.item]
         /\ stage[Message.item] # New
         /\ Message.kind = "completed" => stage[Message.item] >= Done
<1>1. Message = Pending[1] /\ 1 \in DOMAIN Pending /\ Message.kind \in NoteKind
        /\ Message.item \in Item
  BY Consumes
<1>2. Fits(Message, stage, unnamed)
  BY <1>1, Zenon DEF ItemsInOrder
<1>3. RecordPhase(Message)
  BY DEF ConsumeEvent
<1>4. \A i \in Item : phases'[i] =
              IF i = Message.item /\ Mine(i) /\ Message.kind \in {"started", "completed"}
                   /\ PhaseNamed(Message) \in Known
                THEN PhaseNamed(Message) ELSE phases[i]
  BY <1>1, <1>3 DEF RecordPhase, TypeOK
<1>5. QED
  BY <1>1, <1>2, <1>4 DEF Fits, PhaseNamed

(* The bridge goes on to know the phases that were named to it.              *)
LEMMA PhaseKnownStep ==
  ASSUME Typed, TypeOK, ItemsInOrder, PhaseKnown, [Next]_vars
  PROVE  PhaseKnown'
<1> DEFINE Knows(i) ==
             /\ phases[i] \in {"none", Phase[i]}
             /\ stage[i] # New /\ i \notin unnamed /\ Phase[i] \in Known /\ i \notin StartsPending =>
                  phases[i] = Phase[i]
             /\ i \in unnamed /\ (stage[i] < Done \/ i \in NotesPending) => phases[i] = "none"
             /\ stage[i] = New => phases[i] = "none" /\ i \notin unnamed
<1>1. \A i \in Item : Mine(i) => Knows(i)
  BY DEF PhaseKnown
<1>2. SUFFICES ASSUME NEW x \in Item, Mine(x) PROVE Knows(x)'
  BY DEF PhaseKnown
<1>3. Knows(x)
  BY <1>1, <1>2
<1>4. stage[x] \in Int /\ Done \in Int /\ Done > 0 /\ New < 0
  BY Stages DEF TypeOK
<1>5. ASSUME phases' = phases, unnamed' = unnamed, stage'[x] = stage[x],
             NotesPending' = NotesPending, StartsPending' = StartsPending
      PROVE  Knows(x)'
  BY <1>3, <1>5
<1>6. CASE Stays
  BY <1>5, <1>6, ItemsSame DEF Stays, turnState
<1>7. CASE Tells
  BY <1>2, <1>5, <1>7, ItemsTold DEF Tells, turnState, NoteKind
<1>8. CASE Drops
  BY <1>5, <1>8, ItemsTaken DEF Drops, turnState
<1>9. ASSUME NEW i \in Item, StartItem(i) PROVE Knows(x)'
  <2>1. PICK m \in Messages : m.kind = "started" /\ NoteSent(m, i, 0)
    BY <1>9, StartSent, Zenon
  <2>2. stage[i] = New /\ unnamed \subseteq unnamed' /\ unnamed' \subseteq unnamed \union {i}
    BY <1>9, StartSent, Zenon
  <2>3. phases' = phases /\ stage'[i] = 0 /\ \A y \in Item : y # i => stage'[y] = stage[y]
    BY <2>1 DEF NoteSent, turnState, TypeOK
  <2>4. StartsPending' = StartsPending \union {i} /\ NotesPending' = NotesPending \union {i}
    BY <2>1, ItemsTold DEF NoteSent, NoteKind
  <2>5. CASE x = i
    BY <1>3, <1>4, <2>2, <2>3, <2>4, <2>5
  <2>6. CASE x # i
    BY <1>3, <2>2, <2>3, <2>4, <2>6
  <2>7. QED
    BY <2>5, <2>6
<1>10. ASSUME NEW i \in Item, NEW m \in Messages, NEW n, NoteSent(m, i, n), n # New,
              m.kind \in {"delta", "completed"}, stage[i] # New, stage[i] < Done, unnamed' = unnamed
       PROVE  Knows(x)'
  <2>1. phases' = phases /\ stage'[i] = n /\ \A y \in Item : y # i => stage'[y] = stage[y]
    BY <1>10 DEF NoteSent, turnState, TypeOK
  <2>2. StartsPending' = StartsPending /\ NotesPending' = NotesPending \union {i}
    BY <1>10, ItemsTold DEF NoteSent, NoteKind
  <2>3. CASE x = i
    BY <1>3, <1>10, <2>1, <2>2, <2>3
  <2>4. CASE x # i
    BY <1>3, <1>10, <2>1, <2>2, <2>4
  <2>5. QED
    BY <2>3, <2>4
<1>11. ASSUME NEW i \in Item, StreamPart(i) PROVE Knows(x)'
  <2>1. PICK m \in Messages : m.kind = "delta" /\ NoteSent(m, i, stage[i] + 1)
    BY <1>11, PartSent, Zenon
  <2>2. stage[i] \in 0 .. Parts - 1 /\ unnamed' = unnamed
    BY <1>11, PartSent, Zenon
  <2>3. stage[i] + 1 # New /\ stage[i] < Done /\ stage[i] # New
    BY <2>2, Stages
  <2>4. QED
    BY <1>10, <2>1, <2>2, <2>3
<1>12. ASSUME NEW i \in Item, CompleteItem(i) PROVE Knows(x)'
  <2>1. PICK m \in Messages : m.kind = "completed" /\ NoteSent(m, i, Done)
    BY <1>12, CompletionSent, Zenon
  <2>2. stage[i] \in {0, Parts} /\ unnamed' = unnamed
    BY <1>12, CompletionSent, Zenon
  <2>3. Done # New /\ stage[i] < Done /\ stage[i] # New
    BY <2>2, Stages
  <2>4. QED
    BY <1>10, <2>1, <2>2, <2>3
<1>13. CASE ConsumeEvent
  <2> DEFINE m == Message
  <2>1. /\ Removed(Pending, 1, Pending') /\ Pending' \in Seq(Messages) /\ Pending \in Seq(Messages)
        /\ m = Pending[1] /\ m.kind \in NoteKind /\ m.item \in Item
    BY <1>13, Consumes, PendingTyped
  <2>2. stage' = stage /\ unnamed' = unnamed
    BY <1>13 DEF ConsumeEvent, serverVars
  <2>3. /\ NotesPending' \subseteq NotesPending /\ StartsPending' \subseteq StartsPending
        /\ x \in StartsPending => x \in StartsPending' \/ (m.kind = "started" /\ m.item = x)
    BY <2>1, ItemsTaken
  <2>4. m.kind = "completed" => m.item \notin NotesPending'
    BY <2>1, OrderedHead DEF ItemsInOrder, NotesPending
  <2>5. /\ phases'[x] = IF x = m.item /\ m.kind \in {"started", "completed"} /\ PhaseNamed(m) \in Known
                          THEN PhaseNamed(m) ELSE phases[x]
        /\ x = m.item /\ m.kind = "started" => PhaseNamed(m) = IF x \in unnamed THEN "none" ELSE Phase[x]
        /\ m.kind = "completed" => PhaseNamed(m) = Phase[m.item]
        /\ stage[m.item] # New
        /\ m.kind = "completed" => stage[m.item] >= Done
    BY <1>2, <1>13, PhaseRecorded
  <2>6. "none" \notin Known
    BY DEF Known
  <2> HIDE DEF m
  <2>7. CASE x # m.item \/ m.kind \notin {"started", "completed"} \/ PhaseNamed(m) \notin Known
    <3>1. phases'[x] = phases[x]
      BY <2>5, <2>7
    <3>2. x \in StartsPending /\ x \notin StartsPending' /\ x \notin unnamed => Phase[x] \notin Known
      BY <2>3, <2>5, <2>7
    <3>3. QED
      BY <1>3, <2>2, <2>3, <3>1, <3>2
  <2>8. CASE x = m.item /\ m.kind = "started" /\ PhaseNamed(m) \in Known
    <3>1. phases'[x] = Phase[x] /\ x \notin unnamed /\ stage[x] # New
      BY <2>5, <2>6, <2>8
    <3>2. QED
      BY <2>2, <3>1
  <2>9. CASE x = m.item /\ m.kind = "completed" /\ PhaseNamed(m) \in Known
    <3>1. phases'[x] = Phase[x] /\ stage[x] # New /\ ~(stage[x] < Done) /\ x \notin NotesPending'
      BY <1>4, <2>4, <2>5, <2>9
    <3>2. QED
      BY <2>2, <3>1
  <2>10. QED
    BY <2>7, <2>8, <2>9
<1>14. QED
  BY <1>6, <1>7, <1>8, <1>9, <1>11, <1>12, <1>13, OtherSteps

-----------------------------------------------------------------------------
(* The texts.                                                                *)

(* What the bridge makes of a note is what the server meant by it.           *)
LEMMA MeantIsMade ==
  ASSUME Typed, TypeOK, ItemsInOrder, PhaseKnown, ConsumeEvent
  PROVE  /\ AnswerOf(Message) = FinalIn(Message, unnamed, Streamed)
         /\ ProgressOf(Message) = ProgressIn(Message, unnamed)
<1> DEFINE m == Message
<1>1. /\ Removed(Pending, 1, Pending') /\ Pending' \in Seq(Messages) /\ Pending \in Seq(Messages)
      /\ m = Pending[1] /\ m.kind \in NoteKind /\ m.item \in Item /\ m.item \in NotesPending
  BY Consumes, PendingTyped
<1>2. stage[m.item] # New
  BY PhaseRecorded
<1>3. /\ m.item \notin StartsPending'
      /\ m.kind = "completed" => m.item \notin NotesPending'
  BY <1>1, OrderedHead DEF ItemsInOrder, NotesPending, StartsPending
<1>4. m.kind # "started" => m.item \notin StartsPending
  BY <1>1, <1>3, ItemsTaken
<1>5. DeltasPending' \subseteq NotesPending'
  BY DEF DeltasPending, NotesPending, ItemsIn, NoteKind
<1>6. m.kind = "completed" => m.item \notin DeltasPending
  BY <1>1, <1>3, <1>5, ItemsTaken
<1>7. m.kind = "completed" => (m.item \in Streamed <=> m.item \in streamed)
  BY <1>6 DEF Streamed
<1>8. ASSUME m.kind = "delta", Mine(m.item), NEW p \in Known
      PROVE  phases[m.item] = p <=> Phase[m.item] = p /\ m.item \notin unnamed
  <2>1. /\ phases[m.item] \in {"none", Phase[m.item]}
        /\ m.item \notin unnamed /\ Phase[m.item] \in Known => phases[m.item] = Phase[m.item]
        /\ m.item \in unnamed => phases[m.item] = "none"
    BY <1>1, <1>2, <1>4, <1>8 DEF PhaseKnown
  <2>2. p # "none"
    BY DEF Known
  <2>3. QED
    BY <1>8, <2>1, <2>2
<1>9. "final_answer" \in Known /\ "commentary" \in Known
  BY DEF Known
<1>10. m.kind = "delta" => AnswerOf(m) = FinalIn(m, unnamed, Streamed)
  <2> SUFFICES ASSUME m.kind = "delta" PROVE AnswerOf(m) = FinalIn(m, unnamed, Streamed)
    OBVIOUS
  <2>1. AnswerOf(m) = IF Mine(m.item) /\ phases[m.item] = "final_answer"
                        THEN << <<m.item, m.part>> >> ELSE << >>
    BY DEF AnswerOf, Consumed, Mine, Text
  <2>2. FinalIn(m, unnamed, Streamed) =
          IF Mine(m.item) /\ Phase[m.item] = "final_answer" /\ m.item \notin unnamed
            THEN << <<m.item, m.part>> >> ELSE << >>
    BY DEF FinalIn, Of
  <2>3. Mine(m.item) /\ phases[m.item] = "final_answer"
          <=> Mine(m.item) /\ Phase[m.item] = "final_answer" /\ m.item \notin unnamed
    BY <1>8, <1>9
  <2>4. QED
    BY <2>1, <2>2, <2>3
<1>11. m.kind = "delta" => ProgressOf(m) = ProgressIn(m, unnamed)
  BY <1>8, <1>9 DEF ProgressOf, ProgressIn, Of
<1>12. m.kind = "completed" => AnswerOf(m) = FinalIn(m, unnamed, Streamed)
                                 /\ ProgressOf(m) = ProgressIn(m, unnamed)
  <2> SUFFICES ASSUME m.kind = "completed"
               PROVE  AnswerOf(m) = FinalIn(m, unnamed, Streamed)
                        /\ ProgressOf(m) = ProgressIn(m, unnamed)
    OBVIOUS
  <2>1. AnswerOf(m) = IF Mine(m.item) /\ Phase[m.item] = "final_answer" /\ m.item \notin streamed
                        THEN Text(m.item) ELSE << >>
    BY DEF AnswerOf, Consumed, Mine, AlreadyStreamed, Text
  <2>2. FinalIn(m, unnamed, Streamed) =
          IF Mine(m.item) /\ Phase[m.item] = "final_answer" /\ m.item \notin Streamed
            THEN Text(m.item) ELSE << >>
    BY DEF FinalIn, Of
  <2>3. AnswerOf(m) = FinalIn(m, unnamed, Streamed)
    BY <1>7, <2>1, <2>2 DEF Text
  <2>4. ProgressOf(m) = ProgressIn(m, unnamed)
    BY DEF ProgressOf, ProgressIn
  <2>5. QED
    BY <2>3, <2>4
<1>13. m.kind = "started" => AnswerOf(m) = FinalIn(m, unnamed, Streamed)
                               /\ ProgressOf(m) = ProgressIn(m, unnamed)
  BY DEF AnswerOf, FinalIn, ProgressOf, ProgressIn
<1>14. QED
  BY <1>1, <1>10, <1>11, <1>12, <1>13 DEF NoteKind

(* What pends adds parts, message by message.                                *)
LEMMA AddsTyped ==
  ASSUME Typed
  PROVE  /\ Adds(Len(Pending), Finals) /\ Adds(Len(Pending), Progresses)
         /\ TurnEnds \in SUBSET (1 .. Len(Pending)) /\ Len(Pending) \in Nat
         /\ \A k \in DOMAIN Pending : /\ Finals[k] = FinalIn(Pending[k], unnamed, Streamed)
                                      /\ Progresses[k] = ProgressIn(Pending[k], unnamed)
<1>1. /\ DOMAIN Pending = 1 .. Len(Pending) /\ Len(Pending) \in Nat
      /\ \A k \in DOMAIN Pending : Pending[k] \in Messages
  BY PendingTyped
<1>2. \A k \in DOMAIN Pending : /\ Finals[k] = FinalIn(Pending[k], unnamed, Streamed)
                                /\ Progresses[k] = ProgressIn(Pending[k], unnamed)
  BY Zenon DEF Finals, Progresses
<1>3. ASSUME NEW k \in 1 .. Len(Pending) PROVE Finals[k] \in Seq(Part) /\ Progresses[k] \in Seq(Part)
  BY <1>1, <1>2, AdditionsTyped, Zenon
<1>4. Adds(Len(Pending), Finals) /\ Adds(Len(Pending), Progresses)
  BY <1>3, Zenon DEF Adds
<1>5. TurnEnds \in SUBSET (1 .. Len(Pending))
  BY <1>1, Zenon DEF TurnEnds
<1>6. QED
  BY <1>1, <1>2, <1>4, <1>5, Zenon

(* A message is told, and adds something only while the turn has not ended.  *)
LEMMA AccountsTold ==
  ASSUME Typed, Typed', NEW m \in Messages, Pending' = Append(Pending, m),
         \A k \in DOMAIN Pending :
            /\ FinalIn(Pending[k], unnamed', Streamed') = FinalIn(Pending[k], unnamed, Streamed)
            /\ ProgressIn(Pending[k], unnamed') = ProgressIn(Pending[k], unnamed),
         \/ FinalIn(m, unnamed', Streamed') = << >> /\ ProgressIn(m, unnamed') = << >>
         \/ TurnEnds = {} /\ ~EndsTurn(m),
         Accounts(Len(Pending), Finals, TurnEnds, said.final, text),
         Accounts(Len(Pending), Progresses, TurnEnds, said.progress, progress)
  PROVE  /\ Accounts(Len(Pending'), Finals', TurnEnds',
                     said.final \o FinalIn(m, unnamed', Streamed'), text)
         /\ Accounts(Len(Pending'), Progresses', TurnEnds',
                     said.progress \o ProgressIn(m, unnamed'), progress)
<1>1. /\ Pending \in Seq(Messages) /\ DOMAIN Pending = 1 .. Len(Pending) /\ Len(Pending) \in Nat
  BY PendingTyped
<1>2. PICK n \in Nat : n = Len(Pending)
  BY <1>1
<1>3. /\ DOMAIN Pending = 1 .. n /\ Len(Pending') = n + 1 /\ DOMAIN Pending' = 1 .. n \union {n + 1}
      /\ \A k \in 1 .. n : Pending'[k] = Pending[k]
      /\ Pending'[n + 1] = m
  BY <1>1, <1>2, AppendedPlaces
<1>4. /\ Adds(n, Finals) /\ Adds(n, Progresses) /\ TurnEnds \in SUBSET (1 .. n)
      /\ \A k \in 1 .. n : /\ Finals[k] = FinalIn(Pending[k], unnamed, Streamed)
                           /\ Progresses[k] = ProgressIn(Pending[k], unnamed)
  BY <1>1, <1>2, <1>3, AddsTyped, Zenon
<1>5. /\ Adds(n + 1, Finals') /\ Adds(n + 1, Progresses')
      /\ \A k \in DOMAIN Pending' : /\ Finals'[k] = FinalIn(Pending'[k], unnamed', Streamed')
                                    /\ Progresses'[k] = ProgressIn(Pending'[k], unnamed')
  <2>1. (/\ Adds(Len(Pending), Finals) /\ Adds(Len(Pending), Progresses)
         /\ \A k \in DOMAIN Pending : /\ Finals[k] = FinalIn(Pending[k], unnamed, Streamed)
                                      /\ Progresses[k] = ProgressIn(Pending[k], unnamed))'
    BY AddsTyped, PTL
  <2>2. QED
    BY <1>3, <2>1, Zenon
<1>6. \A k \in 1 .. n : Finals'[k] = Finals[k] /\ Progresses'[k] = Progresses[k]
  <2> SUFFICES ASSUME NEW k \in 1 .. n
               PROVE  Finals'[k] = Finals[k] /\ Progresses'[k] = Progresses[k]
    BY Zenon
  <2>1. k \in DOMAIN Pending' /\ k \in DOMAIN Pending
    BY <1>3
  <2>2. QED
    BY <1>3, <1>4, <1>5, <2>1, ZenonT(60)
<1>7. Finals'[n + 1] = FinalIn(m, unnamed', Streamed') /\ Progresses'[n + 1] = ProgressIn(m, unnamed')
  <2>1. n + 1 \in DOMAIN Pending'
    BY <1>3
  <2>2. QED
    BY <1>3, <1>5, <2>1, Zenon
<1>8. TurnEnds' \subseteq TurnEnds \union {n + 1}
  BY <1>3 DEF TurnEnds
<1>9. (FinalIn(m, unnamed', Streamed') = << >> /\ ProgressIn(m, unnamed') = << >>) \/ TurnEnds' = {}
  BY <1>3 DEF TurnEnds
<1>10. said.final \in Seq(Part) /\ said.progress \in Seq(Part) /\ text \in Seq(Part)
         /\ progress \in Seq(Part)
  BY DEF Typed
<1>11. /\ Accounts(n, Finals, TurnEnds, said.final, text)
       /\ Accounts(n, Progresses, TurnEnds, said.progress, progress)
  BY <1>2, Zenon
<1>12. Accounts(n + 1, Finals', TurnEnds', said.final \o Finals'[n + 1], text)
  BY <1>4, <1>5, <1>6, <1>7, <1>8, <1>9, <1>10, <1>11, AccountsAppend, ZenonT(60)
<1>13. Accounts(n + 1, Progresses', TurnEnds', said.progress \o Progresses'[n + 1], progress)
  BY <1>4, <1>5, <1>6, <1>7, <1>8, <1>9, <1>10, <1>11, AccountsAppend, ZenonT(60)
<1>14. QED
  BY <1>3, <1>7, <1>12, <1>13, Zenon

(* A message goes: what is left adds what it added.                          *)
LEMMA AddsLeft ==
  ASSUME Typed, Typed', NEW j, Removed(Pending, j, Pending'), unnamed' = unnamed,
         Streamed' = Streamed, NEW n, n = Len(Pending)
  PROVE  /\ n \in Nat /\ j \in 1 .. n /\ Len(Pending') = n - 1
         /\ TurnEnds' \in SUBSET (1 .. n - 1)
         /\ \A k \in 1 .. n - 1 :
              /\ Finals'[k] = (IF k < j THEN Finals[k] ELSE Finals[k + 1])
              /\ Progresses'[k] = (IF k < j THEN Progresses[k] ELSE Progresses[k + 1])
         /\ \A k \in TurnEnds' : (IF k < j THEN k ELSE k + 1) \in TurnEnds
<1>1. /\ n \in Nat /\ DOMAIN Pending = 1 .. n
      /\ \A k \in DOMAIN Pending : /\ Finals[k] = FinalIn(Pending[k], unnamed, Streamed)
                                   /\ Progresses[k] = ProgressIn(Pending[k], unnamed)
  BY PendingTyped, AddsTyped
<1>2. (/\ Pending \in Seq(Messages)
       /\ DOMAIN Pending = 1 .. Len(Pending)
       /\ \A k \in DOMAIN Pending : /\ Finals[k] = FinalIn(Pending[k], unnamed, Streamed)
                                    /\ Progresses[k] = ProgressIn(Pending[k], unnamed))'
  BY PendingTyped, AddsTyped, PTL
<1>3. /\ j \in 1 .. n /\ Len(Pending') = n - 1 /\ DOMAIN Pending' = 1 .. n - 1
  BY <1>1, <1>2 DEF Removed
<1>4. \A k \in 1 .. n - 1 : Pending'[k] = Pending[IF k < j THEN k ELSE k + 1]
  BY <1>3, Zenon DEF Removed
<1>5. ASSUME NEW k \in 1 .. n - 1
      PROVE  /\ Finals'[k] = (IF k < j THEN Finals[k] ELSE Finals[k + 1])
             /\ Progresses'[k] = (IF k < j THEN Progresses[k] ELSE Progresses[k + 1])
             /\ EndsTurn(Pending'[k]) => (IF k < j THEN k ELSE k + 1) \in TurnEnds
  <2>1. k \in 1 .. n /\ k + 1 \in 1 .. n
    BY <1>1
  <2>2. /\ Finals'[k] = FinalIn(Pending'[k], unnamed, Streamed)
        /\ Progresses'[k] = ProgressIn(Pending'[k], unnamed)
    BY <1>2, <1>3, Zenon
  <2>3. CASE k < j
    <3>1. Pending'[k] = Pending[k]
      BY <1>4, <2>3
    <3>2. EndsTurn(Pending'[k]) => k \in TurnEnds
      BY <1>1, <2>1, <3>1, Zenon DEF TurnEnds
    <3>3. Finals'[k] = Finals[k] /\ Progresses'[k] = Progresses[k]
      BY <1>1, <2>1, <2>2, <3>1, Zenon
    <3>4. QED
      BY <2>3, <3>2, <3>3
  <2>4. CASE ~(k < j)
    <3>1. Pending'[k] = Pending[k + 1]
      BY <1>4, <2>4
    <3>2. EndsTurn(Pending'[k]) => k + 1 \in TurnEnds
      BY <1>1, <2>1, <3>1, Zenon DEF TurnEnds
    <3>3. Finals'[k] = Finals[k + 1] /\ Progresses'[k] = Progresses[k + 1]
      BY <1>1, <2>1, <2>2, <3>1, Zenon
    <3>4. QED
      BY <2>4, <3>2, <3>3
  <2>5. QED
    BY <2>3, <2>4
<1>6. TurnEnds' \in SUBSET (1 .. n - 1) /\ \A k \in TurnEnds' : EndsTurn(Pending'[k])
  BY <1>3, Zenon DEF TurnEnds
<1>7. QED
  BY <1>1, <1>3, <1>5, <1>6, Zenon

(* A message that is no note leaves the accounts as they are.                *)
LEMMA AccountsDropped ==
  ASSUME Typed, Typed', NEW j, Removed(Pending, j, Pending'), unnamed' = unnamed,
         Streamed' = Streamed, Pending[j].kind \notin NoteKind,
         Accounts(Len(Pending), Finals, TurnEnds, said.final, text),
         Accounts(Len(Pending), Progresses, TurnEnds, said.progress, progress)
  PROVE  /\ Accounts(Len(Pending'), Finals', TurnEnds', said.final, text)
         /\ Accounts(Len(Pending'), Progresses', TurnEnds', said.progress, progress)
<1>1. PICK n : n = Len(Pending)
  OBVIOUS
<1>2. /\ n \in Nat /\ j \in 1 .. n /\ Len(Pending') = n - 1
      /\ TurnEnds' \in SUBSET (1 .. n - 1)
      /\ \A k \in 1 .. n - 1 :
              /\ Finals'[k] = (IF k < j THEN Finals[k] ELSE Finals[k + 1])
              /\ Progresses'[k] = (IF k < j THEN Progresses[k] ELSE Progresses[k + 1])
      /\ \A k \in TurnEnds' : (IF k < j THEN k ELSE k + 1) \in TurnEnds
  BY <1>1, AddsLeft, Zenon
<1>3. /\ Adds(n, Finals) /\ Adds(n, Progresses)
      /\ Finals[j] = FinalIn(Pending[j], unnamed, Streamed)
      /\ Progresses[j] = ProgressIn(Pending[j], unnamed)
  BY <1>1, <1>2, AddsTyped, PendingTyped, Zenon
<1>4. Finals[j] = << >> /\ Progresses[j] = << >>
  BY <1>3 DEF FinalIn, ProgressIn, NoteKind
<1>5. /\ Accounts(n, Finals, TurnEnds, said.final, text)
      /\ Accounts(n, Progresses, TurnEnds, said.progress, progress)
  BY <1>1, Zenon
<1>6. Accounts(n - 1, Finals', TurnEnds', said.final, text)
  BY <1>2, <1>3, <1>4, <1>5, AccountsSkip, ZenonT(60)
<1>7. Accounts(n - 1, Progresses', TurnEnds', said.progress, progress)
  BY <1>2, <1>3, <1>4, <1>5, AccountsSkip, ZenonT(60)
<1>8. QED
  BY <1>2, <1>6, <1>7, Zenon

(* A note that is taken moves what it adds to what is had.                   *)
LEMMA AccountsConsumed ==
  ASSUME Typed, Typed', Removed(Pending, 1, Pending'), unnamed' = unnamed,
         Streamed' = Streamed,
         Accounts(Len(Pending), Finals, TurnEnds, said.final, text),
         Accounts(Len(Pending), Progresses, TurnEnds, said.progress, progress)
  PROVE  /\ Accounts(Len(Pending'), Finals', TurnEnds', said.final,
                     text \o FinalIn(Pending[1], unnamed, Streamed))
         /\ Accounts(Len(Pending'), Progresses', TurnEnds', said.progress,
                     progress \o ProgressIn(Pending[1], unnamed))
<1>1. PICK n : n = Len(Pending)
  OBVIOUS
<1>2. PICK j : j = 1
  OBVIOUS
<1>3. /\ n \in Nat /\ j \in 1 .. n /\ Len(Pending') = n - 1
      /\ TurnEnds' \in SUBSET (1 .. n - 1)
      /\ \A k \in 1 .. n - 1 :
              /\ Finals'[k] = (IF k < j THEN Finals[k] ELSE Finals[k + 1])
              /\ Progresses'[k] = (IF k < j THEN Progresses[k] ELSE Progresses[k + 1])
      /\ \A k \in TurnEnds' : (IF k < j THEN k ELSE k + 1) \in TurnEnds
  <2>1. Removed(Pending, j, Pending')
    BY <1>2, Zenon
  <2>2. QED
    BY <1>1, <2>1, AddsLeft, ZenonT(60)
<1>4. n \in Nat \ {0} /\ 1 \in 1 .. n /\ \A k \in 1 .. n - 1 : ~(k < j)
  BY <1>2, <1>3
<1>5. /\ Adds(n, Finals) /\ Adds(n, Progresses)
      /\ Finals[1] = FinalIn(Pending[1], unnamed, Streamed)
      /\ Progresses[1] = ProgressIn(Pending[1], unnamed)
  BY <1>1, <1>4, AddsTyped, PendingTyped, Zenon
<1>6. /\ \A k \in 1 .. n - 1 : Finals'[k] = Finals[k + 1] /\ Progresses'[k] = Progresses[k + 1]
      /\ \A k \in TurnEnds' : k + 1 \in TurnEnds
  <2>1. \A k \in 1 .. n - 1 : Finals'[k] = Finals[k + 1] /\ Progresses'[k] = Progresses[k + 1]
    BY <1>3, <1>4, Zenon
  <2>2. ASSUME NEW k \in TurnEnds' PROVE k + 1 \in TurnEnds
    <3>1. ~(k < j) /\ (IF k < j THEN k ELSE k + 1) \in TurnEnds
      BY <1>3, <1>4, Zenon
    <3>2. QED
      BY <3>1, Zenon
  <2>3. QED
    BY <2>1, <2>2, Zenon
<1>7. /\ Accounts(n, Finals, TurnEnds, said.final, text)
      /\ Accounts(n, Progresses, TurnEnds, said.progress, progress)
      /\ text \in Seq(Part) /\ progress \in Seq(Part)
  BY <1>1, Zenon DEF Typed
<1>8. Accounts(n - 1, Finals', TurnEnds', said.final, text \o Finals[1])
  BY <1>3, <1>4, <1>5, <1>6, <1>7, AccountsTake, Zenon
<1>9. Accounts(n - 1, Progresses', TurnEnds', said.progress, progress \o Progresses[1])
  BY <1>3, <1>4, <1>5, <1>6, <1>7, AccountsTake, Zenon
<1>10. QED
  BY <1>3, <1>5, <1>8, <1>9, Zenon

(* A part at the end is a text of one part behind.                           *)
LEMMA AppendPart ==
  ASSUME NEW s \in Seq(Part), NEW i \in Item, NEW n \in Nat
  PROVE  Append(s, <<i, n>>) = s \o << <<i, n>> >>
<1>1. PICK p \in Part : p = <<i, n>>
  BY DEF Part
<1>2. Append(s, p) = s \o <<p>>
  BY AppendIsConcat
<1>3. QED
  BY <1>1, <1>2

(* While an item of the turn is being sent, the turn has not ended.          *)
LEMMA TurnRuns ==
  ASSUME Verdict, NEW i \in Item, Mine(i), Running(i)
  PROVE  TurnEnds = {}
  BY DEF Verdict, Running

(* A decided turn stays decided.                                             *)
LEMMA OutcomeStep ==
  ASSUME [Next]_vars, outcome' = "none"
  PROVE  outcome = "none"
<1>1. CASE ReadResponse
  BY <1>1 DEF ReadResponse, Proceed, Fail
<1>2. CASE ReadOther \/ RefuseRequest \/ ConsumeEvent \/ IgnoreMessage
  BY <1>2 DEF ReadOther, RefuseRequest, ConsumeEvent, IgnoreMessage
<1>3. CASE TurnCompleted
  BY <1>3 DEF TurnCompleted
<1>4. CASE ServerGone
  BY <1>4 DEF ServerGone, Fail
<1>5. CASE Close
  BY <1>5 DEF Close
<1>6. CASE ServerReads
  BY <1>6 DEF ServerReads, bridgeVars
<1>7. CASE BeginsEarly
  BY <1>7 DEF BeginsEarly, bridgeVars
<1>8. CASE CompleteTurn
  BY <1>8 DEF CompleteTurn, bridgeVars
<1>9. CASE ServerDies
  BY <1>9 DEF ServerDies, bridgeVars
<1>10. ASSUME NEW i \in Item, StartItem(i) \/ StreamPart(i) \/ CompleteItem(i) \/ OtherTurnEnds(i)
       PROVE  outcome' = outcome
  BY <1>10 DEF StartItem, StreamPart, CompleteItem, OtherTurnEnds, bridgeVars
<1>11. ASSUME NEW a \in AskId, AskApproval(a) PROVE outcome' = outcome
  BY <1>11 DEF AskApproval, bridgeVars
<1>12. CASE UNCHANGED vars
  BY <1>12 DEF vars, bridgeVars
<1>13. QED
  BY <1>1, <1>2, <1>3, <1>4, <1>5, <1>6, <1>7, <1>8, <1>9, <1>10, <1>11, <1>12
  DEF Next, Bridge, Server, Owed, Over

(* What was said stays what is had and what pends.                           *)
LEMMA TextAccountedStep ==
  ASSUME Typed, Typed', TypeOK, ItemsInOrder, PhaseKnown, StreamsNoted, TextAccounted, Verdict,
         [Next]_vars
  PROVE  TextAccounted'
<1> DEFINE Accounted ==
             /\ Accounts(Len(Pending), Finals, TurnEnds, said.final, text)
             /\ Accounts(Len(Pending), Progresses, TurnEnds, said.progress, progress)
<1>1. SUFFICES ASSUME outcome' = "none" PROVE Accounted'
  BY DEF TextAccounted
<1>2. Accounted
  BY <1>1, OutcomeStep DEF TextAccounted
<1>3. /\ Pending \in Seq(Messages)
      /\ said.final \in Seq(Part) /\ said.progress \in Seq(Part)
  BY PendingTyped DEF Typed
<1>4. \A k \in DOMAIN Pending : Fits(Pending[k], stage, unnamed)
  BY DEF ItemsInOrder
<1>5. ASSUME NEW m \in Messages, Pending' = Append(Pending, m), UNCHANGED turnState,
             \A k \in DOMAIN Pending :
               /\ Pending[k].kind = "delta" =>
                    (Pending[k].item \in unnamed <=> Pending[k].item \in unnamed')
               /\ Pending[k].kind = "completed" =>
                    (Pending[k].item \in Streamed <=> Pending[k].item \in Streamed'),
             \/ FinalIn(m, unnamed', Streamed') = << >> /\ ProgressIn(m, unnamed') = << >>
             \/ TurnEnds = {} /\ ~EndsTurn(m),
             said'.final = said.final \o FinalIn(m, unnamed', Streamed'),
             said'.progress = said.progress \o ProgressIn(m, unnamed')
      PROVE  Accounted'
  <2>1. \A k \in DOMAIN Pending :
            /\ FinalIn(Pending[k], unnamed', Streamed') = FinalIn(Pending[k], unnamed, Streamed)
            /\ ProgressIn(Pending[k], unnamed') = ProgressIn(Pending[k], unnamed)
    <3> SUFFICES ASSUME NEW k \in DOMAIN Pending
                 PROVE  /\ FinalIn(Pending[k], unnamed', Streamed') =
                             FinalIn(Pending[k], unnamed, Streamed)
                        /\ ProgressIn(Pending[k], unnamed') = ProgressIn(Pending[k], unnamed)
      OBVIOUS
    <3>1. PICK x : x = Pending[k]
      OBVIOUS
    <3>2. /\ x.kind = "delta" => (x.item \in unnamed <=> x.item \in unnamed')
          /\ x.kind = "completed" => (x.item \in Streamed <=> x.item \in Streamed')
      BY <1>5, <3>1, Zenon
    <3>3. /\ FinalIn(x, unnamed', Streamed') = FinalIn(x, unnamed, Streamed)
          /\ ProgressIn(x, unnamed') = ProgressIn(x, unnamed)
      BY <3>2 DEF FinalIn, ProgressIn, Of, Text
    <3>4. QED
      BY <3>1, <3>3, Zenon
  <2>2. /\ Accounts(Len(Pending'), Finals', TurnEnds',
                    said.final \o FinalIn(m, unnamed', Streamed'), text)
        /\ Accounts(Len(Pending'), Progresses', TurnEnds',
                    said.progress \o ProgressIn(m, unnamed'), progress)
    BY <1>2, <1>5, <2>1, AccountsTold, Zenon
  <2>3. text' = text /\ progress' = progress
    BY <1>5 DEF turnState
  <2>4. QED
    BY <1>5, <2>2, <2>3, Zenon
<1>6. CASE Stays
  <2>1. /\ Pending' = Pending /\ unnamed' = unnamed /\ streamed' = streamed
        /\ text' = text /\ progress' = progress /\ said' = said
    BY <1>6 DEF Stays, turnState
  <2>2. Streamed' = Streamed
    BY <2>1, ItemsSame DEF Streamed
  <2>3. Finals' = Finals /\ Progresses' = Progresses /\ TurnEnds' = TurnEnds
    BY <2>1, <2>2, Zenon DEF Finals, Progresses, TurnEnds
  <2>4. QED
    BY <1>2, <2>1, <2>3, Zenon
<1>7. CASE Tells
  <2>1. PICK m \in Messages : m.kind \notin NoteKind /\ Pending' = Append(Pending, m)
    BY <1>7 DEF Tells
  <2>2. unnamed' = unnamed /\ UNCHANGED turnState /\ said' = said
    BY <1>7 DEF Tells
  <2>3. Streamed' = Streamed
    BY <2>1, <2>2, ItemsTold DEF turnState, NoteKind, Streamed
  <2>4. FinalIn(m, unnamed', Streamed') = << >> /\ ProgressIn(m, unnamed') = << >>
    BY <2>1 DEF FinalIn, ProgressIn, NoteKind
  <2>5. said'.final = said.final \o << >> /\ said'.progress = said.progress \o << >>
    BY <1>3, <2>2, PartsConcat
  <2>6. QED
    BY <1>5, <2>1, <2>2, <2>3, <2>4, <2>5, Zenon
<1>8. CASE Drops
  <2>1. PICK j : Removed(Pending, j, Pending') /\ Pending' \in Seq(Messages)
                   /\ Pending[j].kind \notin NoteKind
    BY <1>8 DEF Drops
  <2>2. unnamed' = unnamed /\ streamed' = streamed /\ said' = said /\ text' = text
          /\ progress' = progress
    BY <1>8 DEF Drops, turnState
  <2>3. Streamed' = Streamed
    BY <2>1, <2>2, ItemsTaken DEF Streamed
  <2>4. QED
    BY <1>2, <2>1, <2>2, <2>3, AccountsDropped, Zenon
<1>9. ASSUME NEW i \in Item, StartItem(i) PROVE Accounted'
  <2>1. PICK m \in Messages : m.kind = "started" /\ NoteSent(m, i, 0)
    BY <1>9, StartSent, Zenon
  <2>2. /\ stage[i] = New /\ unnamed \subseteq unnamed' /\ unnamed' \subseteq unnamed \union {i}
        /\ said' = IF Of(i, "tool") THEN [said EXCEPT !.progress = Append(said.progress, <<i, 0>>)]
                                    ELSE said
    BY <1>9, StartSent, Zenon
  <2>3. m.item = i /\ Pending' = Append(Pending, m) /\ UNCHANGED turnState
    BY <2>1 DEF NoteSent
  <2>4. Streamed' = Streamed
    BY <2>1, <2>3, ItemsTold DEF turnState, Streamed
  <2>5. \A k \in DOMAIN Pending : Pending[k].kind \in NoteKind => Pending[k].item # i
    BY <1>4, <2>2 DEF Fits
  <2>6. \A k \in DOMAIN Pending : Pending[k].kind = "delta" =>
          (Pending[k].item \in unnamed <=> Pending[k].item \in unnamed')
    BY <2>2, <2>5 DEF NoteKind
  <2>7. /\ FinalIn(m, unnamed', Streamed') = << >>
        /\ ProgressIn(m, unnamed') = IF Of(i, "tool") THEN << <<i, 0>> >> ELSE << >>
    BY <2>1, <2>3 DEF FinalIn, ProgressIn, Of
  <2>8. ~EndsTurn(m)
    BY <2>1 DEF EndsTurn
  <2>9. Of(i, "tool") => TurnEnds = {}
    BY <1>9, TurnRuns DEF StartItem, Of
  <2>10. Append(said.progress, <<i, 0>>) = said.progress \o << <<i, 0>> >>
    BY <1>3, AppendPart
  <2>11. /\ said'.final = said.final
         /\ said'.progress = IF Of(i, "tool") THEN Append(said.progress, <<i, 0>>) ELSE said.progress
    BY <2>2 DEF Typed
  <2>12. /\ said'.final = said.final \o FinalIn(m, unnamed', Streamed')
         /\ said'.progress = said.progress \o ProgressIn(m, unnamed')
    BY <1>3, <2>7, <2>10, <2>11, PartsConcat
  <2>13. \/ FinalIn(m, unnamed', Streamed') = << >> /\ ProgressIn(m, unnamed') = << >>
         \/ TurnEnds = {} /\ ~EndsTurn(m)
    BY <2>7, <2>8, <2>9, Zenon
  <2>14. QED
    BY <1>5, <2>3, <2>4, <2>6, <2>12, <2>13, Zenon
<1>10. ASSUME NEW i \in Item, StreamPart(i) PROVE Accounted'
  <2>1. PICK m \in Messages : m.kind = "delta" /\ m.part = stage[i] + 1
                                /\ NoteSent(m, i, stage[i] + 1)
    BY <1>10, PartSent, Zenon
  <2>2. PICK n \in Nat : n = stage[i] + 1
    BY <1>10, PartSent
  <2>3. /\ stage[i] \in 0 .. Parts - 1
        /\ said' = IF i \in unnamed THEN said
                    ELSE IF Of(i, "final_answer")
                      THEN [said EXCEPT !.final = Append(said.final, <<i, n>>)]
                    ELSE IF Of(i, "commentary")
                      THEN [said EXCEPT !.progress = Append(said.progress, <<i, n>>)]
                    ELSE said
        /\ unnamed' = unnamed
    BY <1>10, <2>2, PartSent, Zenon
  <2>4. m.item = i /\ Pending' = Append(Pending, m) /\ UNCHANGED turnState
    BY <2>1 DEF NoteSent
  <2>5. Streamed \subseteq Streamed' /\ Streamed' \subseteq Streamed \union {i}
    BY <2>1, <2>4, ItemsTold DEF turnState, Streamed
  <2>6. \A k \in DOMAIN Pending : Pending[k].kind = "completed" =>
          (Pending[k].item \in Streamed <=> Pending[k].item \in Streamed')
    <3>1. ~(stage[i] >= Done)
      BY <2>3, Stages
    <3>2. \A k \in DOMAIN Pending : Pending[k].kind = "completed" => Pending[k].item # i
      BY <1>4, <3>1 DEF Fits, NoteKind
    <3>3. QED
      BY <2>5, <3>2
  <2>7. /\ FinalIn(m, unnamed', Streamed') =
             IF Of(i, "final_answer") /\ i \notin unnamed THEN << <<i, n>> >> ELSE << >>
        /\ ProgressIn(m, unnamed') =
             IF Of(i, "commentary") /\ i \notin unnamed THEN << <<i, n>> >> ELSE << >>
    BY <2>1, <2>2, <2>3, <2>4 DEF FinalIn, ProgressIn, Of
  <2>8. ~EndsTurn(m)
    BY <2>1 DEF EndsTurn
  <2>9. Mine(i) => TurnEnds = {}
    BY <1>10, TurnRuns DEF StreamPart
  <2>10. /\ Append(said.final, <<i, n>>) = said.final \o << <<i, n>> >>
         /\ Append(said.progress, <<i, n>>) = said.progress \o << <<i, n>> >>
    BY <1>3, AppendPart
  <2>11. Of(i, "final_answer") => ~Of(i, "commentary")
    BY DEF Of
  <2>12. /\ said'.final = IF Of(i, "final_answer") /\ i \notin unnamed
                            THEN Append(said.final, <<i, n>>) ELSE said.final
         /\ said'.progress = IF Of(i, "commentary") /\ i \notin unnamed
                               THEN Append(said.progress, <<i, n>>) ELSE said.progress
    BY <2>3, <2>11 DEF Typed
  <2>13. /\ said'.final = said.final \o FinalIn(m, unnamed', Streamed')
         /\ said'.progress = said.progress \o ProgressIn(m, unnamed')
    BY <1>3, <2>7, <2>10, <2>12, PartsConcat
  <2>14. \/ FinalIn(m, unnamed', Streamed') = << >> /\ ProgressIn(m, unnamed') = << >>
         \/ TurnEnds = {} /\ ~EndsTurn(m)
    BY <2>7, <2>8, <2>9 DEF Of
  <2>15. QED
    BY <1>5, <2>3, <2>4, <2>6, <2>13, <2>14, Zenon
<1>11. ASSUME NEW i \in Item, CompleteItem(i) PROVE Accounted'
  <2>1. PICK m \in Messages : m.kind = "completed" /\ NoteSent(m, i, Done)
    BY <1>11, CompletionSent, Zenon
  <2>2. /\ stage[i] \in {0, Parts} /\ unnamed' = unnamed
        /\ said' = IF Of(i, "final_answer") /\ stage[i] = 0
                      THEN [said EXCEPT !.final = said.final \o Text(i)] ELSE said
    BY <1>11, CompletionSent, Zenon
  <2>3. m.item = i /\ Pending' = Append(Pending, m) /\ UNCHANGED turnState
    BY <2>1 DEF NoteSent
  <2>4. Streamed' = Streamed
    BY <2>1, <2>3, ItemsTold DEF turnState, Streamed
  <2>5. Mine(i) => (stage[i] = 0 <=> i \notin Streamed)
    BY <2>2, Stages DEF StreamsNoted
  <2>6. PICK whole \in Seq(Part) : whole = Text(i)
    BY TextTyped
  <2>7. /\ FinalIn(m, unnamed', Streamed') =
             IF Of(i, "final_answer") /\ stage[i] = 0 THEN whole ELSE << >>
        /\ ProgressIn(m, unnamed') = << >>
    <3>1. FinalIn(m, unnamed', Streamed') =
             IF Of(i, "final_answer") /\ i \notin Streamed THEN whole ELSE << >>
      BY <2>1, <2>3, <2>4, <2>6 DEF FinalIn, Of, Text
    <3>2. ProgressIn(m, unnamed') = << >>
      BY <2>1 DEF ProgressIn
    <3>3. QED
      BY <2>5, <3>1, <3>2 DEF Of
  <2>8. ~EndsTurn(m)
    BY <2>1 DEF EndsTurn
  <2>9. Mine(i) => TurnEnds = {}
    BY <1>11, TurnRuns DEF CompleteItem
  <2>10. /\ said'.final = IF Of(i, "final_answer") /\ stage[i] = 0
                            THEN said.final \o whole ELSE said.final
         /\ said'.progress = said.progress
    <3>1. said' = IF Of(i, "final_answer") /\ stage[i] = 0
                    THEN [said EXCEPT !.final = said.final \o whole] ELSE said
      BY <2>2, <2>6, Zenon
    <3>2. QED
      BY <3>1 DEF Typed
  <2>11. /\ said'.final = said.final \o FinalIn(m, unnamed', Streamed')
         /\ said'.progress = said.progress \o ProgressIn(m, unnamed')
    BY <1>3, <2>7, <2>10, PartsConcat
  <2>12. \/ FinalIn(m, unnamed', Streamed') = << >> /\ ProgressIn(m, unnamed') = << >>
         \/ TurnEnds = {} /\ ~EndsTurn(m)
    BY <2>7, <2>8, <2>9 DEF Of
  <2>13. QED
    BY <1>5, <2>2, <2>3, <2>4, <2>11, <2>12, Zenon
<1>12. CASE ConsumeEvent
  <2>1. Removed(Pending, 1, Pending') /\ Pending' \in Seq(Messages) /\ Message = Pending[1]
    BY <1>12, Consumes
  <2>2. /\ text' = text \o FinalIn(Message, unnamed, Streamed)
        /\ progress' = progress \o ProgressIn(Message, unnamed)
    BY <1>12, MeantIsMade DEF ConsumeEvent
  <2>3. unnamed' = unnamed /\ said' = said
    BY <1>12 DEF ConsumeEvent, serverVars
  <2>4. streamed' = IF Mine(Message.item) /\ Message.kind = "delta"
                      THEN streamed \union {Message.item} ELSE streamed
    BY <1>12 DEF ConsumeEvent, Consumed, Mine
  <2>5. /\ DeltasPending' \subseteq DeltasPending
        /\ \A i \in DeltasPending :
             i \in DeltasPending' \/ (Message.kind = "delta" /\ Message.item = i)
        /\ Message.kind = "delta" => Message.item \in DeltasPending
    BY <1>12, <2>1, Consumes, ItemsTaken
  <2>6. Streamed' = Streamed
    BY <2>4, <2>5 DEF Streamed
  <2>7. /\ Accounts(Len(Pending'), Finals', TurnEnds', said.final,
                    text \o FinalIn(Pending[1], unnamed, Streamed))
        /\ Accounts(Len(Pending'), Progresses', TurnEnds', said.progress,
                    progress \o ProgressIn(Pending[1], unnamed))
    BY <1>2, <2>1, <2>3, <2>6, AccountsConsumed, Zenon
  <2>8. QED
    BY <2>1, <2>2, <2>3, <2>7, Zenon
<1>13. QED
  BY <1>6, <1>7, <1>8, <1>9, <1>10, <1>11, <1>12, OtherSteps

-----------------------------------------------------------------------------
(* Requests and responses.                                                   *)

(* Only a response lets more pend than the server may send ahead.            *)
LEMMA PendingLen ==
  ASSUME Typed, Typed', TypeOK, [Next]_vars, ~ServerReads
  PROVE  /\ Len(Pending) \in Nat /\ Len(Pending') \in Nat /\ MaxAhead \in Nat
         /\ Len(Pending') <= MaxAhead \/ Len(Pending') <= Len(Pending)
<1>1. /\ Len(Pending) \in Nat /\ Len(Pending) = Len(queued) + Len(fromServer)
      /\ MaxAhead \in Nat
      /\ Len(queued) \in Nat /\ Len(fromServer) \in Nat
  BY PendingTyped, LenProperties, ConstantsAssumption DEF Typed
<1>2. (Len(Pending) \in Nat /\ Len(Pending) = Len(queued) + Len(fromServer))'
  BY PendingTyped, PTL
<1>3. ASSUME NEW m \in Messages, Emit(m), queued' = queued PROVE Len(Pending') <= MaxAhead
  <2>1. Len(fromServer') = Len(fromServer) + 1
    BY <1>3, Sends DEF Emit, Send
  <2>2. QED
    BY <1>1, <1>2, <1>3, <2>1 DEF Emit
<1>4. ASSUME NEW i \in Item, StartItem(i) PROVE Len(Pending') <= MaxAhead
  <2>1. PICK p \in {Phase[i]} \union (IF Mine(i) THEN {"none"} ELSE {}) :
          Emit([Note("started", i, 0) EXCEPT !.part = p])
    BY <1>4 DEF StartItem
  <2>2. p \in PhaseName
    BY ConstantsAssumption DEF PhaseName
  <2>3. PICK m \in Messages : m = [Note("started", i, 0) EXCEPT !.part = p]
    BY <2>2, NewNotes, Zenon
  <2>4. Emit(m)
    BY <2>1, <2>3, Zenon
  <2>5. QED
    BY <1>3, <1>4, <2>4 DEF StartItem, bridgeVars
<1>5. ASSUME NEW i \in Item, StreamPart(i) PROVE Len(Pending') <= MaxAhead
  <2>1. Note("delta", i, stage[i] + 1) \in Messages
    BY <1>5, NewNotes, PartSent
  <2>2. QED
    BY <1>3, <1>5, <2>1 DEF StreamPart, bridgeVars
<1>6. ASSUME NEW i \in Item, CompleteItem(i) PROVE Len(Pending') <= MaxAhead
  BY <1>3, <1>6, NewNotes DEF CompleteItem, bridgeVars
<1>7. ASSUME CompleteTurn PROVE Len(Pending') <= MaxAhead
  BY <1>3, <1>7, NewOthers DEF CompleteTurn, bridgeVars
<1>8. ASSUME NEW i \in Item, OtherTurnEnds(i) PROVE Len(Pending') <= MaxAhead
  <2>1. Thread[i] \in {"mine", "other"} /\ Turn[i] \in {"mine", "other"}
    BY ConstantsAssumption
  <2>2. QED
    BY <1>3, <1>8, <2>1, NewOthers DEF OtherTurnEnds, bridgeVars
<1>9. ASSUME NEW a \in AskId, AskApproval(a) PROVE Len(Pending') <= MaxAhead
  BY <1>3, <1>9, NewOthers DEF AskApproval, bridgeVars
<1>10. ASSUME queued' = queued, fromServer' = fromServer PROVE Len(Pending') <= Len(Pending)
  BY <1>1, <1>2, <1>10
<1>11. ASSUME NextMessage PROVE Len(Pending') <= Len(Pending)
  BY <1>1, <1>2, <1>11, Takes
<1>12. CASE ReadResponse
  BY <1>1, <1>2, <1>12, Reads
<1>13. CASE ReadOther
  BY <1>1, <1>2, <1>13, Moves
<1>14. CASE BeginsEarly \/ ServerDies \/ ServerGone \/ Close \/ UNCHANGED vars
  BY <1>1, <1>2, <1>10, <1>14 DEF BeginsEarly, ServerDies, ServerGone, Close, vars, bridgeVars
<1>15. CASE RefuseRequest \/ ConsumeEvent \/ IgnoreMessage \/ TurnCompleted
  BY <1>1, <1>2, <1>11, <1>15 DEF RefuseRequest, ConsumeEvent, IgnoreMessage, TurnCompleted
<1>16. QED
  BY <1>1, <1>2, <1>4, <1>5, <1>6, <1>7, <1>8, <1>9, <1>12, <1>13, <1>14, <1>15
  DEF Next, Bridge, Server, Owed, Over

(* What is read as a response.                                               *)
LEMMA ResponseRead ==
  ASSUME Typed, ResponseInTurn, ReadResponse
  PROVE  /\ pc \in {"starting", "opening", "submitting"}
         /\ \/ pc' = "closing" /\ outcome' = "error" /\ toServer' = toServer /\ excused'
            \/ Proceed /\ toServer = << >>
<1>1. /\ Len(queued) + 1 \in DOMAIN Pending /\ Head(fromServer) = Pending[Len(queued) + 1]
      /\ Head(fromServer) \in Messages
  <2>1. /\ Removed(Pending, Len(queued) + 1, Pending') /\ Pending' \in Seq(Messages)
        /\ Head(fromServer) = Pending[Len(queued) + 1] /\ Head(fromServer) \in Messages
    BY Reads
  <2>2. QED
    BY <2>1, PendingTyped DEF Removed
<1>2. PICK m \in Messages : m = Head(fromServer)
  BY <1>1
<1>3. pc \in {"starting", "opening", "submitting"} /\ m.id = RequestId[pc]
  BY <1>2, RequestIds DEF ReadResponse, Requesting
<1>4. m.kind = "response" \/ m.kind = "ask"
  <2>1. m.id # 0
    BY <1>3, RequestIds
  <2>2. QED
    BY <2>1, MessageKinds
<1>5. /\ pc = "starting" => m.kind # "ask"
      /\ m.kind = "response" => (m.ok \/ excused) /\ toServer = << >>
  BY <1>1, <1>2, <1>3, RequestIds DEF ResponseInTurn, Requesting
<1>6. /\ excused' = (excused \/ m.kind = "ask")
      /\ \/ Accepted(m) /\ Proceed
         \/ ~Accepted(m) /\ pc' = "closing" /\ outcome' = "error" /\ toServer' = toServer
  BY <1>2 DEF ReadResponse, Fail
<1>7. Accepted(m) <=> m.kind = "response" /\ m.ok
  BY <1>4, <1>5 DEF Accepted
<1>8. QED
  BY <1>3, <1>4, <1>5, <1>6, <1>7

(* At most one request stays out.                                            *)
LEMMA OneOutStep ==
  ASSUME Typed, Typed', TypeOK, OneOut, ResponseInTurn, [Next]_vars
  PROVE  OneOut'
<1>1. /\ \A k \in DOMAIN toServer :
           toServer[k].kind = "request" =>
             /\ Len(toServer) = 1 /\ Len(Pending) <= MaxAhead
             /\ toServer[k].id = RequestId.opening => work = "none"
      /\ Requesting => \A k \in DOMAIN toServer : toServer[k] = Request(RequestId[pc])
      /\ pc = "reading" => \A k \in DOMAIN toServer : toServer[k].kind = "refusal"
      /\ pc = "starting" => work = "none"
  BY DEF OneOut
<1>2. Requesting <=> pc \in {"starting", "opening", "submitting"}
  BY RequestIds DEF Requesting
<1>3. Requesting' <=> pc' \in {"starting", "opening", "submitting"}
  BY RequestIds DEF Requesting
<1>4. toServer \in Seq(Requests) /\ toServer' \in Seq(Requests)
  BY DEF Typed
<1>5. ASSUME toServer' = toServer, pc' = pc \/ pc' \in {"closing", "over"},
             work' = work \/ (work # "none" /\ work' # "none"), ~ServerReads
      PROVE  OneOut'
  <2>1. /\ Len(Pending) \in Nat /\ Len(Pending') \in Nat /\ MaxAhead \in Nat
        /\ Len(Pending') <= MaxAhead \/ Len(Pending') <= Len(Pending)
    BY <1>5, PendingLen
  <2>2. ASSUME NEW k \in DOMAIN toServer', toServer'[k].kind = "request"
        PROVE  /\ Len(toServer') = 1 /\ Len(Pending') <= MaxAhead
               /\ toServer'[k].id = RequestId.opening => work' = "none"
    BY <1>1, <1>5, <2>1, <2>2
  <2>3. Requesting' => \A k \in DOMAIN toServer' : toServer'[k] = Request(RequestId[pc'])
    BY <1>1, <1>2, <1>3, <1>5, Zenon
  <2>4. /\ pc' = "reading" => \A k \in DOMAIN toServer' : toServer'[k].kind = "refusal"
        /\ pc' = "starting" => work' = "none"
    BY <1>1, <1>5
  <2>5. QED
    BY <2>2, <2>3, <2>4, Zenon DEF OneOut
<1>6. ASSUME ServerReads PROVE OneOut'
  <2>1. /\ toServer # << >> /\ toServer' = Tail(toServer) /\ pc' = pc
        /\ Head(toServer) = toServer[1] /\ 1 \in DOMAIN toServer /\ Len(toServer) \in Nat
        /\ Head(toServer) \in Requests
    BY <1>4, <1>6, HeadTailProperties, LenProperties DEF ServerReads, bridgeVars
  <2>2. PICK m \in Requests : m = Head(toServer) /\ m = toServer[1]
    BY <2>1
  <2>3. Requesting => m.kind = "request" /\ m.id = RequestId[pc]
    BY <1>1, <2>1, <2>2 DEF Request
  <2>4. /\ DOMAIN toServer' = 1 .. Len(toServer) - 1 /\ DOMAIN toServer = 1 .. Len(toServer)
        /\ \A k \in DOMAIN toServer' : toServer'[k] = toServer[k + 1]
    BY <1>4, <2>1, HeadTailProperties, LenProperties
  <2>5. ASSUME NEW k \in DOMAIN toServer'
        PROVE  toServer'[k].kind # "request" /\ m.kind # "request"
    <3>1. k + 1 \in DOMAIN toServer /\ Len(toServer) # 1 /\ toServer'[k] = toServer[k + 1]
      BY <2>1, <2>4
    <3>2. QED
      BY <1>1, <2>1, <2>2, <3>1
  <2>6. Requesting' => \A k \in DOMAIN toServer' : toServer'[k] = Request(RequestId[pc'])
    BY <1>2, <1>3, <2>1, <2>3, <2>5
  <2>7. pc' = "reading" => \A k \in DOMAIN toServer' : toServer'[k].kind = "refusal"
    <3>1. ASSUME NEW k \in DOMAIN toServer' PROVE k + 1 \in DOMAIN toServer
      BY <2>1, <2>4
    <3>2. QED
      BY <1>1, <2>1, <2>4, <3>1
  <2>8. pc' = "starting" => work' = "none"
    <3>1. SUFFICES ASSUME pc = "starting" PROVE work' = work
      BY <1>1, <2>1
    <3>2. m.kind = "request" /\ m.id = 1
      BY <1>2, <2>3, <3>1, RequestIds
    <3>3. QED
      BY <1>6, <2>2, <3>2, RequestIds DEF ServerReads
  <2>9. QED
    BY <2>5, <2>6, <2>7, <2>8, Zenon DEF OneOut
<1>7. CASE ReadResponse
  <2>1. CASE pc' = "closing" /\ toServer' = toServer
    <3>1. ~ServerReads
      BY <2>1, <1>7, <1>2 DEF ReadResponse, ServerReads, bridgeVars
    <3>2. QED
      BY <1>5, <1>7, <2>1, <3>1 DEF ReadResponse, serverVars
  <2>2. CASE Proceed /\ toServer = << >>
    <3>1. /\ pc' = Following[pc] /\ pc \in {"starting", "opening", "submitting"}
          /\ pc = "submitting" => toServer' = << >>
          /\ pc # "submitting" => toServer' = <<Request(RequestId[pc'])>>
      BY <1>7, <2>2, ResponseRead DEF Proceed
    <3>2. PICK r : r = Request(RequestId[pc'])
      OBVIOUS
    <3>3. r.kind = "request" /\ r.id = RequestId[pc']
      BY <3>2 DEF Request
    <3>4. work' = work
      BY <1>7 DEF ReadResponse, serverVars
    <3>5. Len(Pending') <= MaxAhead
      <4>1. Len(queued') + Len(fromServer') = Len(queued) + Len(fromServer) - 1
        BY <1>7, Reads
      <4>2. (Len(Pending) = Len(queued) + Len(fromServer))'
        BY PendingTyped, PTL
      <4>3. Len(queued) \in Nat /\ Len(fromServer) \in Nat /\ MaxAhead \in Nat
        BY LenProperties, ConstantsAssumption DEF Typed
      <4>4. QED
        BY <4>1, <4>2, <4>3 DEF TypeOK
    <3>6. CASE pc = "submitting"
      <4>1. pc' = "reading" /\ DOMAIN toServer' = {}
        BY <3>1, <3>6, RequestIds
      <4>2. QED
        BY <1>3, <4>1 DEF OneOut
    <3>7. CASE pc # "submitting"
      <4>1. /\ pc' \in {"opening", "submitting"}
            /\ pc' = "opening" => pc = "starting"
            /\ RequestId[pc'] = RequestId.opening => pc' = "opening"
        BY <3>1, <3>7, RequestIds
      <4>2. toServer' = <<r>>
        BY <3>1, <3>2, <3>7, Zenon
      <4>3. Len(toServer') = 1 /\ \A k \in DOMAIN toServer' : toServer'[k] = r
        BY <4>2
      <4>4. ASSUME NEW k \in DOMAIN toServer'
            PROVE  /\ Len(toServer') = 1 /\ Len(Pending') <= MaxAhead
                   /\ toServer'[k].id = RequestId.opening => work' = "none"
        BY <1>1, <3>3, <3>4, <3>5, <4>1, <4>3
      <4>5. \A k \in DOMAIN toServer' : toServer'[k] = Request(RequestId[pc'])
        BY <3>2, <4>3, Zenon
      <4>6. pc' # "reading" /\ pc' # "starting"
        BY <4>1
      <4>7. QED
        BY <4>4, <4>5, <4>6, Zenon DEF OneOut
    <3>8. QED
      BY <3>6, <3>7
  <2>3. QED
    BY <1>7, <2>1, <2>2, ResponseRead
<1>8. CASE RefuseRequest
  <2>1. pc = "reading" /\ pc' = "reading" /\ work' = work
          /\ toServer' = Append(toServer, [kind |-> "refusal", id |-> Message.id])
    BY <1>8 DEF RefuseRequest, NextMessage, Refuse, serverVars
  <2>2. PICK r : r = [kind |-> "refusal", id |-> Message.id]
    OBVIOUS
  <2>3. r.kind = "refusal" /\ toServer' = Append(toServer, r)
    BY <2>1, <2>2
  <2>4. r \in Requests
    <3>1. Message \in Messages /\ Message.kind = "ask"
      BY <1>8, Takes DEF RefuseRequest
    <3>2. QED
      BY <2>2, <3>1, MessageKinds, WrittenTyped
  <2>5. \A k \in DOMAIN toServer' : toServer'[k].kind = "refusal"
    BY <1>1, <1>4, <2>1, <2>3, <2>4
  <2>6. QED
    BY <1>3, <2>1, <2>5 DEF OneOut
<1>9. ASSUME NEW i \in Item, StartItem(i) \/ StreamPart(i) \/ CompleteItem(i) \/ OtherTurnEnds(i)
      PROVE  toServer' = toServer /\ pc' = pc /\ work' = work
  BY <1>9 DEF StartItem, StreamPart, CompleteItem, OtherTurnEnds, bridgeVars
<1>10. ASSUME NEW a \in AskId, AskApproval(a)
       PROVE  toServer' = toServer /\ pc' = pc /\ work' = work
  BY <1>10 DEF AskApproval, bridgeVars
<1>11. CASE BeginsEarly \/ CompleteTurn \/ ServerDies
  <2>1. toServer' = toServer /\ pc' = pc /\ (work' = work \/ (work # "none" /\ work' # "none"))
    BY <1>11 DEF BeginsEarly, CompleteTurn, ServerDies, bridgeVars
  <2>2. QED
    BY <1>5, <1>6, <2>1
<1>12. CASE ReadOther \/ ConsumeEvent \/ IgnoreMessage
  <2>1. toServer' = toServer /\ pc' = pc /\ work' = work
    BY <1>12 DEF ReadOther, ConsumeEvent, IgnoreMessage, serverVars
  <2>2. QED
    BY <1>5, <1>6, <2>1
<1>13. CASE TurnCompleted \/ ServerGone \/ Close
  <2>1. toServer' = toServer /\ pc' \in {"closing", "over"} /\ work' = work
    BY <1>13 DEF TurnCompleted, ServerGone, Fail, Close, serverVars
  <2>2. QED
    BY <1>5, <1>6, <2>1
<1>14. CASE UNCHANGED vars
  BY <1>5, <1>6, <1>14 DEF vars, bridgeVars, serverVars
<1>15. QED
  BY <1>5, <1>6, <1>7, <1>8, <1>9, <1>10, <1>11, <1>12, <1>13, <1>14
  DEF Next, Bridge, Server, Owed, Over

(* How a step moves what requests and verdicts depend on.                    *)
LEMMA CourseStep ==
  ASSUME [Next]_vars
  PROVE  /\ excused => excused'
         /\ \/ pc' = pc /\ (Requesting /\ toServer = << >> => toServer' = << >>)
            \/ pc' \in {"closing", "over"}
            \/ ReadResponse /\ Proceed
<1>1. CASE ReadResponse
  BY <1>1 DEF ReadResponse, Fail
<1>2. CASE ReadOther \/ ConsumeEvent \/ IgnoreMessage
  BY <1>2 DEF ReadOther, ConsumeEvent, IgnoreMessage
<1>3. CASE RefuseRequest
  BY <1>3, RequestIds DEF RefuseRequest, NextMessage, Requesting
<1>4. CASE TurnCompleted
  BY <1>4 DEF TurnCompleted
<1>5. CASE ServerGone
  BY <1>5 DEF ServerGone, Fail
<1>6. CASE Close
  BY <1>6 DEF Close
<1>7. CASE ServerReads
  <2>1. excused => excused'
    BY <1>7, Zenon DEF ServerReads
  <2>2. pc' = pc /\ toServer # << >>
    BY <1>7 DEF ServerReads, bridgeVars
  <2>3. QED
    BY <2>1, <2>2
<1>8. CASE BeginsEarly \/ CompleteTurn \/ ServerDies
  <2>1. excused => excused'
    BY <1>8, Zenon DEF BeginsEarly, CompleteTurn, ServerDies
  <2>2. pc' = pc /\ toServer' = toServer
    BY <1>8 DEF BeginsEarly, CompleteTurn, ServerDies, bridgeVars
  <2>3. QED
    BY <2>1, <2>2
<1>9. ASSUME NEW i \in Item, StartItem(i) \/ StreamPart(i) \/ CompleteItem(i) \/ OtherTurnEnds(i)
      PROVE  pc' = pc /\ toServer' = toServer /\ excused' = excused
  BY <1>9 DEF StartItem, StreamPart, CompleteItem, OtherTurnEnds, bridgeVars
<1>10. ASSUME NEW a \in AskId, AskApproval(a)
       PROVE  pc' = pc /\ toServer' = toServer /\ excused' = excused
  BY <1>10 DEF AskApproval, bridgeVars
<1>11. CASE UNCHANGED vars
  BY <1>11 DEF vars, bridgeVars
<1>12. QED
  BY <1>1, <1>2, <1>3, <1>4, <1>5, <1>6, <1>7, <1>8, <1>9, <1>10, <1>11
  DEF Next, Bridge, Server, Owed, Over

(* What pends after a step pended before, or is the one message m.           *)
Kept == \A k \in DOMAIN Pending' : \E l \in DOMAIN Pending : Pending'[k] = Pending[l]
KeptAnd(m) ==
    \A k \in DOMAIN Pending' : Pending'[k] = m \/ \E l \in DOMAIN Pending : Pending'[k] = Pending[l]

(* After one message was sent, the others pended before.                     *)
LEMMA SentOne ==
  ASSUME Typed, NEW m \in Messages, Send(m), queued' = queued
  PROVE  KeptAnd(m)
<1>1. Pending \in Seq(Messages) /\ Pending' = Append(Pending, m)
  BY PendingTyped, Sends DEF Send
<1>2. QED
  BY <1>1, AppendedPlaces DEF KeptAnd

(* Other steps leave no response, request or end of the turn behind.         *)
LEMMA PendingFrom ==
  ASSUME Typed, TypeOK, PhaseKnown, [Next]_vars
  PROVE  \/ Kept
         \/ \E m \in Messages : KeptAnd(m) /\ m.kind \notin {"response", "ask"} /\ ~EndsTurn(m)
         \/ ServerReads \/ CompleteTurn
         \/ \E a \in AskId : AskApproval(a)
<1>1. Pending \in Seq(Messages)
  BY PendingTyped
<1>2. ASSUME NEW j, Removed(Pending, j, Pending'), Pending' \in Seq(Messages) PROVE Kept
  BY <1>1, <1>2, RemovedPlaces DEF Kept
<1>3. ASSUME Pending' = Pending PROVE Kept
  BY <1>3, Zenon DEF Kept
<1>4. ASSUME NextMessage PROVE Kept
  BY <1>2, <1>4, Takes
<1>5. ASSUME NEW i \in Item, OtherTurnEnds(i)
      PROVE  \E m \in Messages : KeptAnd(m) /\ m.kind \notin {"response", "ask"} /\ ~EndsTurn(m)
  <2>1. Thread[i] \in {"mine", "other"} /\ Turn[i] \in {"mine", "other"}
    BY ConstantsAssumption
  <2>2. PICK m \in Messages : m = Completed(Thread[i], Turn[i], TRUE)
    BY <2>1, NewOthers, Zenon
  <2>3. m.kind = "turn_done" /\ ~EndsTurn(m)
    BY <1>5, <2>2 DEF Completed, EndsTurn, OwnTurn, OtherTurnEnds, Mine
  <2>4. Send(m) /\ queued' = queued
    BY <1>5, <2>2 DEF OtherTurnEnds, Emit, bridgeVars
  <2>5. QED
    BY <2>3, <2>4, SentOne
<1>6. ASSUME NEW m \in Messages, Pending' = Append(Pending, m), m.kind \in NoteKind
      PROVE  KeptAnd(m) /\ m.kind \notin {"response", "ask"} /\ ~EndsTurn(m)
  BY <1>1, <1>6, AppendedPlaces DEF KeptAnd, NoteKind, EndsTurn
<1>7. ASSUME NEW i \in Item, StartItem(i)
      PROVE  \E m \in Messages : KeptAnd(m) /\ m.kind \notin {"response", "ask"} /\ ~EndsTurn(m)
  <2>1. PICK m \in Messages : m.kind = "started" /\ NoteSent(m, i, 0)
    BY <1>7, StartSent, Zenon
  <2>2. QED
    BY <1>6, <2>1 DEF NoteSent, NoteKind
<1>8. ASSUME NEW i \in Item, StreamPart(i)
      PROVE  \E m \in Messages : KeptAnd(m) /\ m.kind \notin {"response", "ask"} /\ ~EndsTurn(m)
  <2>1. PICK m \in Messages : m.kind = "delta" /\ NoteSent(m, i, stage[i] + 1)
    BY <1>8, PartSent, Zenon
  <2>2. QED
    BY <1>6, <2>1 DEF NoteSent, NoteKind
<1>9. ASSUME NEW i \in Item, CompleteItem(i)
      PROVE  \E m \in Messages : KeptAnd(m) /\ m.kind \notin {"response", "ask"} /\ ~EndsTurn(m)
  <2>1. PICK m \in Messages : m.kind = "completed" /\ NoteSent(m, i, Done)
    BY <1>9, CompletionSent, Zenon
  <2>2. QED
    BY <1>6, <2>1 DEF NoteSent, NoteKind
<1>10. CASE ReadResponse
  BY <1>2, <1>10, Reads
<1>11. CASE ReadOther
  BY <1>3, <1>11, Moves
<1>12. CASE RefuseRequest \/ ConsumeEvent \/ IgnoreMessage \/ TurnCompleted
  BY <1>4, <1>12 DEF RefuseRequest, ConsumeEvent, IgnoreMessage, TurnCompleted
<1>13. CASE BeginsEarly \/ ServerDies \/ ServerGone \/ Close \/ UNCHANGED vars
  <2>1. queued' = queued /\ fromServer' = fromServer
    BY <1>13 DEF BeginsEarly, ServerDies, ServerGone, Close, vars, bridgeVars
  <2>2. QED
    BY <1>3, <2>1 DEF Pending
<1>14. QED
  BY <1>5, <1>7, <1>8, <1>9, <1>10, <1>11, <1>12, <1>13
  DEF Next, Bridge, Server, Owed, Over

(* Responses come in turn, and none before its request was read.             *)
LEMMA ResponseInTurnStep ==
  ASSUME Typed, TypeOK, OneOut, PhaseKnown, ResponseInTurn, [Next]_vars
  PROVE  ResponseInTurn'
<1> DEFINE InTurn(m) ==
             /\ pc = "starting" => m.kind # "ask"
             /\ m.kind = "response" =>
                  /\ m.ok \/ excused
                  /\ Requesting => /\ m.id <= RequestId[pc]
                                   /\ m.id = RequestId[pc] => toServer = << >>
           InTurnNow(m) ==
             /\ pc' = "starting" => m.kind # "ask"
             /\ m.kind = "response" =>
                  /\ m.ok \/ excused'
                  /\ Requesting' => /\ m.id <= RequestId[pc']
                                    /\ m.id = RequestId[pc'] => toServer' = << >>
<1>1. \A k \in DOMAIN Pending : InTurn(Pending[k]) /\ Pending[k] \in Messages
  BY PendingTyped DEF ResponseInTurn
<1>2. SUFFICES ASSUME NEW k \in DOMAIN Pending' PROVE InTurnNow(Pending'[k])
  BY DEF ResponseInTurn
<1>3. /\ Requesting <=> pc \in {"starting", "opening", "submitting"}
      /\ Requesting' <=> pc' \in {"starting", "opening", "submitting"}
  BY RequestIds DEF Requesting
<1>4. ASSUME NEW m \in Messages, InTurn(m) PROVE InTurnNow(m)
  <2>1. excused => excused'
    BY CourseStep
  <2>2. CASE pc' = pc /\ (Requesting /\ toServer = << >> => toServer' = << >>)
    BY <1>3, <1>4, <2>1, <2>2
  <2>3. CASE pc' \in {"closing", "over"}
    BY <1>3, <1>4, <2>1, <2>3
  <2>4. CASE ReadResponse /\ Proceed
    <3>1. pc \in {"starting", "opening", "submitting"} /\ pc' = Following[pc]
      BY <2>4, ResponseRead DEF Proceed
    <3>2. pc' # "starting" /\ (Requesting' => RequestId[pc] < RequestId[pc'] /\ RequestId[pc'] \in Nat
                                                 /\ RequestId[pc] \in Nat)
      BY <1>3, <3>1, RequestIds
    <3>3. m.kind = "response" => m.id \in 1 .. 3
      BY MessageKinds
    <3>4. Requesting
      BY <1>3, <3>1
    <3>5. QED
      BY <1>4, <2>1, <3>2, <3>3, <3>4
  <2>5. QED
    BY <2>2, <2>3, <2>4, CourseStep
<1>5. ASSUME NEW l \in DOMAIN Pending PROVE InTurnNow(Pending[l])
  BY <1>1, <1>4, Zenon
<1>6. ASSUME NEW m \in Messages, KeptAnd(m), InTurnNow(m) PROVE InTurnNow(Pending'[k])
  <2>1. Pending'[k] = m \/ \E l \in DOMAIN Pending : Pending'[k] = Pending[l]
    BY <1>6, Zenon DEF KeptAnd
  <2>2. QED
    BY <1>5, <1>6, <2>1, Zenon
<1>7. CASE Kept
  <2>1. PICK l \in DOMAIN Pending : Pending'[k] = Pending[l]
    BY <1>7, Zenon DEF Kept
  <2>2. QED
    BY <1>5, <2>1, Zenon
<1>8. CASE \E m \in Messages : KeptAnd(m) /\ m.kind \notin {"response", "ask"} /\ ~EndsTurn(m)
  <2>1. PICK m \in Messages : KeptAnd(m) /\ m.kind \notin {"response", "ask"}
    BY <1>8
  <2>2. InTurnNow(m)
    BY <2>1
  <2>3. QED
    BY <1>6, <2>1, <2>2
<1>9. CASE ServerReads
  <2>1. /\ toServer \in Seq(Requests) /\ toServer # << >> /\ toServer' = Tail(toServer) /\ pc' = pc
        /\ queued' = queued
    BY <1>9 DEF ServerReads, bridgeVars, Typed
  <2>2. PICK r \in Requests : r = Head(toServer) /\ r = toServer[1] /\ 1 \in DOMAIN toServer
    BY <2>1, HeadTailProperties, LenProperties
  <2>3. CASE r.kind = "request"
    <3>1. PICK ok \in BOOLEAN : Send(Response(r.id, ok)) /\ excused' = (excused \/ ~ok)
      BY <1>9, <2>2, <2>3 DEF ServerReads
    <3>2. PICK m \in Messages : m = Response(r.id, ok)
      BY <2>2, <2>3, WrittenTyped, NewOthers, Zenon
    <3>3. m.kind = "response" /\ m.id = r.id /\ m.ok = ok
      BY <3>2 DEF Response
    <3>4. Len(toServer) = 1 /\ (Requesting => r.id = RequestId[pc])
      BY <2>2, <2>3 DEF OneOut, Request
    <3>5. toServer' = << >>
      <4>1. Len(Tail(toServer)) = 0 /\ Tail(toServer) \in Seq(Requests)
        BY <2>1, <3>4, HeadTailProperties
      <4>2. QED
        BY <2>1, <4>1, EmptySeq
    <3>6. Requesting' => m.id = RequestId[pc'] /\ m.id <= RequestId[pc']
      BY <1>3, <2>1, <3>3, <3>4, RequestIds
    <3>7. m.ok \/ excused'
      BY <3>1, <3>3
    <3>8. InTurnNow(m)
      BY <3>3, <3>5, <3>6, <3>7
    <3>9. Send(m)
      BY <3>1, <3>2
    <3>10. KeptAnd(m)
      BY <2>1, <3>9, SentOne
    <3>11. QED
      BY <1>6, <3>8, <3>10
  <2>4. CASE r.kind # "request"
    <3>1. fromServer' = fromServer
      BY <1>9, <2>2, <2>4 DEF ServerReads
    <3>2. Pending' = Pending
      BY <2>1, <3>1 DEF Pending
    <3>3. QED
      BY <1>5, <3>2, Zenon
  <2>5. QED
    BY <2>3, <2>4
<1>10. CASE CompleteTurn
  <2>1. PICK ok \in BOOLEAN : Send(Completed("mine", "mine", ok))
    BY <1>10 DEF CompleteTurn, Emit
  <2>2. PICK m \in Messages : m = Completed("mine", "mine", ok)
    BY NewOthers, Zenon
  <2>3. m.kind = "turn_done"
    BY <2>2 DEF Completed
  <2>4. Send(m) /\ queued' = queued
    BY <1>10, <2>1, <2>2 DEF CompleteTurn, bridgeVars
  <2>5. KeptAnd(m)
    BY <2>4, SentOne
  <2>6. InTurnNow(m)
    BY <2>3
  <2>7. QED
    BY <1>6, <2>5, <2>6
<1>11. ASSUME NEW a \in AskId, AskApproval(a) PROVE InTurnNow(Pending'[k])
  <2>1. PICK m \in Messages : m = Ask(a)
    BY NewOthers, Zenon
  <2>2. m.kind = "ask"
    BY <2>1 DEF Ask
  <2>3. Send(m) /\ queued' = queued /\ pc' = pc /\ work \in {"loaded", "running"}
    BY <1>11, <2>1 DEF AskApproval, Emit, bridgeVars
  <2>4. pc' # "starting"
    BY <2>3 DEF OneOut
  <2>5. KeptAnd(m)
    BY <2>3, SentOne
  <2>6. InTurnNow(m)
    BY <2>2, <2>4
  <2>7. QED
    BY <1>6, <2>5, <2>6
<1>12. QED
  BY <1>7, <1>8, <1>9, <1>10, <1>11, PendingFrom

-----------------------------------------------------------------------------
(* The verdict.                                                              *)

(* A turn that has ended says nothing more.                                  *)
LEMMA EndedStep ==
  ASSUME Typed, OneOut, [Next]_vars, work = "ended"
  PROVE  work' = "ended" /\ said' = said
<1>1. ASSUME NEW i \in Item, Mine(i), Running(i) PROVE FALSE
  BY <1>1 DEF Running
<1>2. CASE ServerReads
  <2>1. said' = said
    BY <1>2 DEF ServerReads
  <2>2. toServer \in Seq(Requests) /\ toServer # << >>
    BY <1>2 DEF ServerReads, Typed
  <2>3. Head(toServer) = toServer[1] /\ 1 \in DOMAIN toServer
    BY <2>2, LenProperties
  <2>4. Head(toServer).kind = "request" => Head(toServer).id # RequestId.opening
    BY <2>3 DEF OneOut
  <2>5. work' = work
    BY <1>2, <2>4 DEF ServerReads
  <2>6. QED
    BY <2>1, <2>5
<1>3. CASE BeginsEarly \/ CompleteTurn \/ ServerDies
  BY <1>3 DEF BeginsEarly, CompleteTurn, ServerDies
<1>4. ASSUME NEW i \in Item, StartItem(i) PROVE work' = work /\ said' = said
  BY <1>1, <1>4 DEF StartItem, Of
<1>5. ASSUME NEW i \in Item, StreamPart(i) PROVE work' = work /\ said' = said
  BY <1>1, <1>5 DEF StreamPart, Of
<1>6. ASSUME NEW i \in Item, CompleteItem(i) PROVE work' = work /\ said' = said
  BY <1>1, <1>6 DEF CompleteItem, Of
<1>7. ASSUME NEW i \in Item, OtherTurnEnds(i) PROVE work' = work /\ said' = said
  BY <1>7 DEF OtherTurnEnds
<1>8. ASSUME NEW a \in AskId, AskApproval(a) PROVE work' = work /\ said' = said
  BY <1>8 DEF AskApproval
<1>9. CASE ReadResponse \/ ReadOther \/ RefuseRequest \/ ConsumeEvent \/ IgnoreMessage
  BY <1>9 DEF ReadResponse, ReadOther, RefuseRequest, ConsumeEvent, IgnoreMessage, serverVars
<1>10. CASE TurnCompleted \/ ServerGone \/ Close
  BY <1>10 DEF TurnCompleted, ServerGone, Close, serverVars
<1>11. CASE UNCHANGED vars
  BY <1>11 DEF vars, serverVars
<1>12. QED
  BY <1>2, <1>3, <1>4, <1>5, <1>6, <1>7, <1>8, <1>9, <1>10, <1>11
  DEF Next, Bridge, Server, Owed, Over

(* The end of the turn pends only when the server has ended it.              *)
LEMMA TurnEndsStep ==
  ASSUME Typed, TypeOK, OneOut, PhaseKnown, Verdict, [Next]_vars, NEW k \in TurnEnds'
  PROVE  work' = "ended" /\ (excused' \/ (Pending'[k].ok /\ said'.final # << >>))
<1> DEFINE Right(m) == work' = "ended" /\ (excused' \/ (m.ok /\ said'.final # << >>))
<1>1. k \in DOMAIN Pending' /\ EndsTurn(Pending'[k])
  BY DEF TurnEnds
<1>2. ASSUME NEW l \in DOMAIN Pending, EndsTurn(Pending[l]) PROVE Right(Pending[l])
  <2>1. work = "ended" /\ (excused \/ (Pending[l].ok /\ said.final # << >>))
    BY <1>2 DEF Verdict, TurnEnds
  <2>2. work' = "ended" /\ said' = said
    BY <2>1, EndedStep
  <2>3. excused => excused'
    BY CourseStep
  <2>4. QED
    BY <2>1, <2>2, <2>3, Zenon
<1>3. ASSUME NEW m \in Messages, KeptAnd(m), EndsTurn(m) => Right(m) PROVE Right(Pending'[k])
  <2>1. Pending'[k] = m \/ \E l \in DOMAIN Pending : Pending'[k] = Pending[l]
    BY <1>1, <1>3, Zenon DEF KeptAnd
  <2>2. CASE Pending'[k] = m
    BY <1>1, <1>3, <2>2, Zenon
  <2>3. CASE \E l \in DOMAIN Pending : Pending'[k] = Pending[l]
    BY <1>1, <1>2, <2>3, Zenon
  <2>4. QED
    BY <2>1, <2>2, <2>3, Zenon
<1>4. CASE Kept
  <2>1. PICK l \in DOMAIN Pending : Pending'[k] = Pending[l]
    BY <1>1, <1>4, Zenon DEF Kept
  <2>2. QED
    BY <1>1, <1>2, <2>1, Zenon
<1>5. CASE \E m \in Messages : KeptAnd(m) /\ m.kind \notin {"response", "ask"} /\ ~EndsTurn(m)
  BY <1>3, <1>5, Zenon
<1>6. CASE ServerReads
  <2>1. queued' = queued /\ Head(toServer) \in Requests
    BY <1>6, HeadTailProperties DEF ServerReads, bridgeVars, Typed
  <2>2. CASE \E ok \in BOOLEAN : Send(Response(Head(toServer).id, ok))
                                   /\ Head(toServer).kind = "request"
    <3>1. PICK ok \in BOOLEAN : Send(Response(Head(toServer).id, ok))
                                  /\ Head(toServer).kind = "request"
      BY <2>2
    <3>2. PICK m \in Messages : m = Response(Head(toServer).id, ok)
      BY <2>1, <3>1, WrittenTyped, NewOthers, Zenon
    <3>3. ~EndsTurn(m)
      BY <3>2 DEF Response, EndsTurn
    <3>4. Send(m)
      BY <3>1, <3>2
    <3>5. KeptAnd(m)
      BY <2>1, <3>4, SentOne
    <3>6. QED
      BY <1>3, <3>3, <3>5, Zenon
  <2>3. CASE fromServer' = fromServer
    <3>1. Pending' = Pending
      BY <2>1, <2>3 DEF Pending
    <3>2. QED
      BY <1>1, <1>2, <3>1, Zenon
  <2>4. QED
    BY <1>6, <2>2, <2>3 DEF ServerReads
<1>7. CASE CompleteTurn
  <2>1. PICK ok \in BOOLEAN : /\ Send(Completed("mine", "mine", ok))
                              /\ excused' = (excused \/ ~ok \/ said.final = << >>)
    BY <1>7 DEF CompleteTurn, Emit
  <2>2. PICK m \in Messages : m = Completed("mine", "mine", ok)
    BY NewOthers, Zenon
  <2>3. m.ok = ok
    BY <2>2 DEF Completed
  <2>4. Send(m) /\ queued' = queued /\ work' = "ended" /\ said' = said
    BY <1>7, <2>1, <2>2 DEF CompleteTurn, bridgeVars
  <2>5. KeptAnd(m)
    BY <2>4, SentOne
  <2>6. Right(m)
    BY <2>1, <2>3, <2>4, Zenon
  <2>7. QED
    BY <1>3, <2>5, <2>6, Zenon
<1>8. ASSUME NEW a \in AskId, AskApproval(a) PROVE Right(Pending'[k])
  <2>1. PICK m \in Messages : m = Ask(a)
    BY NewOthers, Zenon
  <2>2. ~EndsTurn(m)
    BY <2>1 DEF Ask, EndsTurn
  <2>3. Send(m) /\ queued' = queued
    BY <1>8, <2>1 DEF AskApproval, Emit, bridgeVars
  <2>4. KeptAnd(m)
    BY <2>3, SentOne
  <2>5. QED
    BY <1>3, <2>2, <2>4, Zenon
<1>9. QED
  BY <1>4, <1>5, <1>6, <1>7, <1>8, PendingFrom

(* The end of the turn is read: all that was said has been handled.          *)
LEMMA AllWasHandled ==
  ASSUME Typed, TypeOK, TextAccounted, Verdict, TurnCompleted
  PROVE  /\ work = "ended" /\ text = said.final /\ progress = said.progress
         /\ excused \/ (Message.ok /\ said.final # << >>)
<1>1. /\ Removed(Pending, 1, Pending') /\ Message = Pending[1]
  BY Takes DEF TurnCompleted
<1>2. 1 \in DOMAIN Pending
  BY <1>1, PendingTyped DEF Removed
<1>3. EndsTurn(Message)
  BY DEF TurnCompleted, EndsTurn
<1>4. 1 \in TurnEnds
  BY <1>1, <1>2, <1>3, Zenon DEF TurnEnds
<1>5. outcome = "none"
  BY DEF TurnCompleted, NextMessage, TypeOK
<1>6. /\ Accounts(Len(Pending), Finals, TurnEnds, said.final, text)
      /\ Accounts(Len(Pending), Progresses, TurnEnds, said.progress, progress)
      /\ text \in Seq(Part) /\ progress \in Seq(Part)
  BY <1>5 DEF TextAccounted, Typed
<1>7. text = said.final /\ progress = said.progress
  BY <1>4, <1>6, AccountsClosed, Zenon
<1>8. QED
  BY <1>1, <1>4, <1>7 DEF Verdict

(* The outcome stays the right one.                                          *)
LEMMA VerdictStep ==
  ASSUME Typed, TypeOK, OneOut, ResponseInTurn, PhaseKnown, TextAccounted, Verdict, [Next]_vars
  PROVE  Verdict'
<1>1. \A k \in TurnEnds' : work' = "ended" /\ (excused' \/ (Pending'[k].ok /\ said'.final # << >>))
  BY TurnEndsStep, Zenon
<1>2. excused => excused'
  BY CourseStep
<1>3. work = "ended" => work' = "ended" /\ said' = said
  BY EndedStep, Zenon
<1>4. /\ outcome = "text" => work = "ended" /\ text = said.final /\ progress = said.progress
      /\ outcome = "error" => excused
      /\ ~open /\ pc # "over" => excused
  BY Zenon DEF Verdict
<1>5. ASSUME outcome' = outcome, outcome = "none" \/ UNCHANGED <<text, progress>>,
             ~open' /\ pc' # "over" => excused'
      PROVE  Verdict'
  <2>1. outcome' = "text" => work' = "ended" /\ text' = said'.final /\ progress' = said'.progress
    BY <1>3, <1>4, <1>5
  <2>2. outcome' = "error" => excused'
    BY <1>2, <1>4, <1>5, Zenon
  <2>3. QED
    BY <1>1, <1>5, <2>1, <2>2, Zenon DEF Verdict
<1>6. ASSUME outcome' = "error", excused' PROVE Verdict'
  <2>1. outcome' # "text"
    BY <1>6
  <2>2. QED
    BY <1>1, <1>6, <2>1, Zenon DEF Verdict
<1>7. ASSUME UNCHANGED <<outcome, text, progress, open>>, pc' = pc PROVE Verdict'
  <2>1. ~open' /\ pc' # "over" => excused'
    BY <1>2, <1>4, <1>7, Zenon
  <2>2. QED
    BY <1>5, <1>7, <2>1
<1>8. CASE ReadResponse
  <2>1. UNCHANGED <<text, progress, open>> /\ pc # "over"
    BY <1>8, RequestIds DEF ReadResponse, Requesting, turnState, serverVars
  <2>2. ~open' /\ pc' # "over" => excused'
    BY <1>2, <1>4, <2>1, Zenon
  <2>3. CASE Proceed
    <3>1. outcome' = outcome
      BY <2>3 DEF Proceed
    <3>2. QED
      BY <1>5, <2>1, <2>2, <3>1
  <2>4. CASE outcome' = "error" /\ excused'
    BY <1>6, <2>4
  <2>5. QED
    BY <1>8, <2>3, <2>4, ResponseRead
<1>9. CASE ReadOther \/ RefuseRequest \/ IgnoreMessage
  BY <1>7, <1>9 DEF ReadOther, RefuseRequest, IgnoreMessage, turnState, serverVars
<1>10. CASE ConsumeEvent
  <2>1. outcome = "none" /\ outcome' = outcome /\ pc' = pc /\ open' = open
    BY <1>10 DEF ConsumeEvent, NextMessage, TypeOK, serverVars
  <2>2. ~open' /\ pc' # "over" => excused'
    BY <1>2, <1>4, <2>1, Zenon
  <2>3. QED
    BY <1>5, <2>1, <2>2
<1>11. CASE TurnCompleted
  <2>1. /\ work = "ended" /\ text = said.final /\ progress = said.progress
        /\ excused \/ (Message.ok /\ said.final # << >>)
    BY <1>11, AllWasHandled
  <2>2. /\ outcome' = IF Message.ok /\ text # << >> THEN "text" ELSE "error"
        /\ UNCHANGED <<text, progress, open>> /\ pc # "over"
    BY <1>11 DEF TurnCompleted, NextMessage, turnState, serverVars
  <2>3. ~open' /\ pc' # "over" => excused'
    BY <1>2, <1>4, <2>2, Zenon
  <2>4. CASE Message.ok /\ text # << >>
    <3>1. outcome' = "text" /\ work' = "ended" /\ text' = said'.final /\ progress' = said'.progress
      BY <1>3, <2>1, <2>2, <2>4
    <3>2. QED
      BY <1>1, <2>3, <3>1 DEF Verdict
  <2>5. CASE ~(Message.ok /\ text # << >>)
    <3>1. outcome' = "error" /\ excused
      BY <2>1, <2>2, <2>5
    <3>2. QED
      BY <1>2, <1>6, <3>1, Zenon
  <2>6. QED
    BY <2>4, <2>5
<1>12. CASE ServerGone
  <2>1. ~open /\ pc # "over" /\ outcome' = "error"
    BY <1>12, RequestIds DEF ServerGone, Requesting, Fail
  <2>2. QED
    BY <1>2, <1>4, <1>6, <2>1, Zenon
<1>13. CASE Close
  <2>1. pc' = "over" /\ UNCHANGED <<text, progress>>
    BY <1>13 DEF Close, turnState
  <2>2. CASE outcome' = outcome
    BY <1>5, <2>1, <2>2
  <2>3. CASE outcome' = "error" /\ excused' = TRUE
    BY <1>6, <2>3, Zenon
  <2>4. QED
    BY <1>13, <2>2, <2>3 DEF Close
<1>14. CASE ServerReads \/ BeginsEarly \/ CompleteTurn
  BY <1>7, <1>14 DEF ServerReads, BeginsEarly, CompleteTurn, bridgeVars, turnState
<1>15. CASE ServerDies
  <2>1. UNCHANGED <<outcome, text, progress>> /\ excused' = TRUE
    BY <1>15 DEF ServerDies, bridgeVars, turnState
  <2>2. QED
    BY <1>5, <2>1
<1>16. ASSUME NEW i \in Item, StartItem(i) \/ StreamPart(i) \/ CompleteItem(i) \/ OtherTurnEnds(i)
       PROVE  Verdict'
  BY <1>7, <1>16 DEF StartItem, StreamPart, CompleteItem, OtherTurnEnds, bridgeVars, turnState
<1>17. ASSUME NEW a \in AskId, AskApproval(a) PROVE Verdict'
  BY <1>7, <1>17 DEF AskApproval, bridgeVars, turnState
<1>18. CASE UNCHANGED vars
  BY <1>7, <1>18 DEF vars, bridgeVars, turnState, serverVars
<1>19. QED
  BY <1>8, <1>9, <1>10, <1>11, <1>12, <1>13, <1>14, <1>15, <1>16, <1>17, <1>18
  DEF Next, Bridge, Server, Owed, Over

-----------------------------------------------------------------------------
(* The type invariant, part by part.                                         *)

(* What pends stays within its bound: a response is only sent while there is *)
(* room for it, one request being out at a time.                             *)
LEMMA AheadStep ==
  ASSUME Typed, Typed', TypeOK, OneOut, [Next]_vars
  PROVE  Len(queued') + Len(fromServer') <= MaxAhead + 1
<1>1. /\ Len(Pending) \in Nat /\ Len(Pending) = Len(queued) + Len(fromServer)
      /\ MaxAhead \in Nat /\ Len(Pending) <= MaxAhead + 1
  BY PendingTyped, ConstantsAssumption DEF TypeOK
<1>2. (Len(Pending) \in Nat /\ Len(Pending) = Len(queued) + Len(fromServer))'
  BY PendingTyped, PTL
<1>3. CASE ~ServerReads
  <2>1. Len(Pending') <= MaxAhead \/ Len(Pending') <= Len(Pending)
    BY <1>3, PendingLen
  <2>2. QED
    BY <1>1, <1>2, <2>1
<1>4. CASE ServerReads
  <2>1. /\ toServer # << >> /\ queued' = queued
        /\ Head(toServer) = toServer[1] /\ 1 \in DOMAIN toServer /\ Head(toServer) \in Requests
    BY <1>4 DEF ServerReads, bridgeVars, Typed
  <2>2. CASE Head(toServer).kind = "refusal"
    <3>1. fromServer' = fromServer
      BY <1>4, <2>2 DEF ServerReads
    <3>2. QED
      BY <1>1, <2>1, <3>1
  <2>3. CASE Head(toServer).kind = "request"
    <3>1. Len(Pending) <= MaxAhead
      BY <2>1, <2>3, Zenon DEF OneOut
    <3>2. PICK ok \in BOOLEAN : Send(Response(Head(toServer).id, ok))
      BY <1>4, <2>3 DEF ServerReads
    <3>3. PICK m \in Messages : m = Response(Head(toServer).id, ok)
      BY <2>1, <2>3, WrittenTyped, NewOthers, Zenon
    <3>4. Len(fromServer') = Len(fromServer) + 1
      BY <2>1, <3>2, <3>3, Sends, Zenon DEF Send
    <3>5. Len(queued) \in Nat /\ Len(fromServer) \in Nat
      BY DEF Typed
    <3>6. QED
      BY <1>1, <2>1, <3>1, <3>4, <3>5
  <2>4. QED
    BY <2>1, <2>2, <2>3, WrittenTyped, Zenon
<1>5. QED
  BY <1>3, <1>4

(* The bridge's course, and that it ends with an outcome.                    *)
LEMMA CourseTyped ==
  ASSUME TypeOK, [Next]_vars
  PROVE  /\ pc' \in DOMAIN RequestId \union {"reading", "closing", "over"}
         /\ outcome' \in {"none", "text", "error"}
         /\ (pc' \in {"closing", "over"}) = (outcome' # "none")
<1>1. /\ pc \in {"starting", "opening", "submitting", "reading", "closing", "over"}
      /\ outcome \in {"none", "text", "error"}
      /\ (pc \in {"closing", "over"}) = (outcome # "none")
  BY RequestIds DEF TypeOK
<1>2. SUFFICES
        /\ pc' \in {"starting", "opening", "submitting", "reading", "closing", "over"}
        /\ outcome' \in {"none", "text", "error"}
        /\ (pc' \in {"closing", "over"}) = (outcome' # "none")
  BY RequestIds
<1>3. CASE ReadResponse
  <2>1. pc \in {"starting", "opening", "submitting"} /\ (Proceed \/ Fail)
    BY <1>3, RequestIds DEF ReadResponse, Requesting
  <2>2. CASE Proceed
    BY <1>1, <2>1, <2>2, RequestIds DEF Proceed
  <2>3. CASE Fail
    BY <2>3 DEF Fail
  <2>4. QED
    BY <2>1, <2>2, <2>3
<1>4. CASE ReadOther \/ RefuseRequest \/ ConsumeEvent \/ IgnoreMessage
  BY <1>1, <1>4 DEF ReadOther, RefuseRequest, ConsumeEvent, IgnoreMessage
<1>5. CASE TurnCompleted
  BY <1>5 DEF TurnCompleted
<1>6. CASE ServerGone
  BY <1>6 DEF ServerGone, Fail
<1>7. CASE Close
  BY <1>1, <1>7 DEF Close
<1>8. CASE ServerReads \/ BeginsEarly \/ CompleteTurn \/ ServerDies
  BY <1>1, <1>8 DEF ServerReads, BeginsEarly, CompleteTurn, ServerDies, bridgeVars
<1>9. ASSUME NEW i \in Item, StartItem(i) \/ StreamPart(i) \/ CompleteItem(i) \/ OtherTurnEnds(i)
      PROVE  pc' = pc /\ outcome' = outcome
  BY <1>9 DEF StartItem, StreamPart, CompleteItem, OtherTurnEnds, bridgeVars
<1>10. ASSUME NEW a \in AskId, AskApproval(a) PROVE pc' = pc /\ outcome' = outcome
  BY <1>10 DEF AskApproval, bridgeVars
<1>11. CASE UNCHANGED vars
  BY <1>1, <1>11 DEF vars, bridgeVars
<1>12. QED
  BY <1>1, <1>3, <1>4, <1>5, <1>6, <1>7, <1>8, <1>9, <1>10, <1>11
  DEF Next, Bridge, Server, Owed, Over

(* What the bridge notes of the items.                                       *)
LEMMA NotesTyped ==
  ASSUME Typed, TypeOK, [Next]_vars
  PROVE  /\ phases' \in [Item -> Known \union {"none"}]
         /\ streamed' \subseteq {i \in Item : Mine(i)}
<1>1. /\ phases \in [Item -> Known \union {"none"}]
      /\ streamed \subseteq {i \in Item : Mine(i)}
  BY DEF TypeOK
<1>2. CASE ConsumeEvent
  <2>1. Message.item \in Item
    BY <1>2, Consumes
  <2>2. phases' = phases
          \/ (PhaseNamed(Message) \in Known
                /\ phases' = [phases EXCEPT ![Message.item] = PhaseNamed(Message)])
    BY <1>2 DEF ConsumeEvent, RecordPhase
  <2>3. streamed' = streamed \/ (Mine(Message.item) /\ streamed' = streamed \union {Message.item})
    BY <1>2 DEF ConsumeEvent, Consumed, Mine
  <2>4. QED
    BY <1>1, <2>1, <2>2, <2>3
<1>3. CASE ReadResponse \/ ReadOther \/ RefuseRequest \/ IgnoreMessage \/ TurnCompleted
             \/ ServerGone \/ Close
  BY <1>1, <1>3
  DEF ReadResponse, ReadOther, RefuseRequest, IgnoreMessage, TurnCompleted, ServerGone, Close,
      turnState
<1>4. CASE ServerReads \/ BeginsEarly \/ CompleteTurn \/ ServerDies
  BY <1>1, <1>4 DEF ServerReads, BeginsEarly, CompleteTurn, ServerDies, bridgeVars, turnState
<1>5. ASSUME NEW i \in Item, StartItem(i) \/ StreamPart(i) \/ CompleteItem(i) \/ OtherTurnEnds(i)
      PROVE  UNCHANGED <<phases, streamed>>
  BY <1>5 DEF StartItem, StreamPart, CompleteItem, OtherTurnEnds, bridgeVars, turnState
<1>6. ASSUME NEW a \in AskId, AskApproval(a) PROVE UNCHANGED <<phases, streamed>>
  BY <1>6 DEF AskApproval, bridgeVars, turnState
<1>7. CASE UNCHANGED vars
  BY <1>1, <1>7 DEF vars, bridgeVars, turnState
<1>8. QED
  BY <1>1, <1>2, <1>3, <1>4, <1>5, <1>6, <1>7 DEF Next, Bridge, Server, Owed, Over

(* The server's side.                                                        *)
LEMMA ServerTyped ==
  ASSUME Typed, TypeOK, [Next]_vars
  PROVE  /\ work' \in {"none", "loaded", "running", "ended"}
         /\ stage' \in [Item -> New .. Reported]
         /\ asks' \in [AskId -> {"unused", "waiting", "refused"}]
         /\ unnamed' \subseteq Item
<1>1. /\ work \in {"none", "loaded", "running", "ended"}
      /\ stage \in [Item -> New .. Reported]
      /\ asks \in [AskId -> {"unused", "waiting", "refused"}]
      /\ unnamed \subseteq Item
  BY DEF TypeOK
<1>2. /\ 0 \in New .. Reported /\ Done \in New .. Reported /\ Reported \in New .. Reported
      /\ \A n \in 0 .. Parts - 1 : n + 1 \in New .. Reported
  BY Stages
<1>3. CASE ServerReads
  <2>1. Head(toServer) \in Requests
    BY <1>3 DEF ServerReads, Typed
  <2>2. asks' = asks \/ asks' = [asks EXCEPT ![Head(toServer).id] = "refused"]
    BY <1>3 DEF ServerReads
  <2>3. work' \in {work, "loaded", "running"}
    BY <1>3 DEF ServerReads
  <2>4. QED
    BY <1>1, <1>3, <2>2, <2>3 DEF ServerReads
<1>4. CASE BeginsEarly \/ CompleteTurn \/ ServerDies
  BY <1>1, <1>4 DEF BeginsEarly, CompleteTurn, ServerDies
<1>5. ASSUME NEW i \in Item, StartItem(i)
      PROVE  /\ UNCHANGED <<work, asks>> /\ unnamed' \subseteq Item
             /\ stage' \in [Item -> New .. Reported]
  BY <1>1, <1>2, <1>5 DEF StartItem
<1>6. ASSUME NEW i \in Item, StreamPart(i)
      PROVE  UNCHANGED <<work, asks, unnamed>> /\ stage' \in [Item -> New .. Reported]
  <2>1. stage[i] + 1 \in New .. Reported
    BY <1>2, <1>6 DEF StreamPart
  <2>2. QED
    BY <1>1, <1>6, <2>1 DEF StreamPart
<1>7. ASSUME NEW i \in Item, CompleteItem(i) \/ OtherTurnEnds(i)
      PROVE  UNCHANGED <<work, asks, unnamed>> /\ stage' \in [Item -> New .. Reported]
  BY <1>1, <1>2, <1>7 DEF CompleteItem, OtherTurnEnds
<1>8. ASSUME NEW a \in AskId, AskApproval(a)
      PROVE  /\ UNCHANGED <<work, stage, unnamed>>
             /\ asks' \in [AskId -> {"unused", "waiting", "refused"}]
  BY <1>1, <1>8 DEF AskApproval
<1>9. CASE ReadResponse \/ ReadOther \/ RefuseRequest \/ ConsumeEvent \/ IgnoreMessage
             \/ TurnCompleted \/ ServerGone \/ Close
  BY <1>1, <1>9
  DEF ReadResponse, ReadOther, RefuseRequest, ConsumeEvent, IgnoreMessage, TurnCompleted,
      ServerGone, Close, serverVars
<1>10. CASE UNCHANGED vars
  BY <1>1, <1>10 DEF vars, serverVars
<1>11. QED
  BY <1>1, <1>3, <1>4, <1>5, <1>6, <1>7, <1>8, <1>9, <1>10 DEF Next, Bridge, Server, Owed, Over

(* The parts together: every step keeps the types.                           *)
LEMMA TypeOKStep ==
  ASSUME Typed, Typed', TypeOK, OneOut, [Next]_vars
  PROVE  TypeOK'
<1>1. TypeOK' <=>
        /\ pc' \in DOMAIN RequestId \union {"reading", "closing", "over"}
        /\ outcome' \in {"none", "text", "error"}
        /\ (pc' \in {"closing", "over"}) = (outcome' # "none")
        /\ phases' \in [Item -> Known \union {"none"}]
        /\ streamed' \subseteq {i \in Item : Mine(i)}
        /\ Len(queued') + Len(fromServer') <= MaxAhead + 1
        /\ work' \in {"none", "loaded", "running", "ended"}
        /\ stage' \in [Item -> New .. Reported]
        /\ asks' \in [AskId -> {"unused", "waiting", "refused"}]
        /\ unnamed' \subseteq Item
  BY DEF TypeOK, Mine
<1>2. QED
  BY <1>1, AheadStep, CourseTyped, NotesTyped, ServerTyped, Zenon

-----------------------------------------------------------------------------
(* Nothing is sent and nothing said at first.                                *)
LEMMA NothingSaid ==
  ASSUME NEW adds
  PROVE  Accounts(0, adds, {}, << >>, << >>)
<1>1. [k \in Nat |-> << >>] \in [Nat -> Seq(Part)]
  BY PartsConcat
<1>2. PICK rest \in [Nat -> Seq(Part)] : \A k \in Nat : rest[k] = << >>
  BY <1>1, Zenon
<1>3. 1 \in Nat /\ 0 + 1 \in Nat /\ 1 .. 0 = {}
  OBVIOUS
<1>4. << >> = << >> \o rest[1]
  BY <1>2, <1>3, PartsConcat, Zenon
<1>5. QED
  BY <1>2, <1>3, <1>4, Zenon DEF Accounts

(* The invariant holds at first,                                             *)
LEMMA InitIInv ==
  ASSUME Init
  PROVE  IInv
<1>1. /\ pc = "starting" /\ outcome = "none" /\ queued = << >> /\ fromServer = << >>
      /\ text = << >> /\ progress = << >> /\ toServer = <<Request(1)>>
      /\ said = [final |-> << >>, progress |-> << >>]
      /\ open = TRUE /\ work = "none" /\ streamed = {} /\ unnamed = {}
      /\ phases = [i \in Item |-> "none"] /\ stage = [i \in Item |-> New]
      /\ asks = [a \in AskId |-> "unused"]
  BY DEF Init
<1>2. Typed
  <2>1. Request(1) \in Requests
    BY WrittenTyped
  <2>2. QED
    BY <1>1, <2>1 DEF Typed
<1>3. Pending = << >> /\ DOMAIN Pending = {} /\ Len(Pending) = 0
  BY <1>1 DEF Pending
<1>4. TypeOK
  BY <1>1, Stages, RequestIds, ConstantsAssumption DEF TypeOK, Known
<1>5. OneOut
  <2>1. /\ DOMAIN toServer = {1} /\ toServer[1] = Request(1) /\ Len(toServer) = 1
        /\ Request(1).kind = "request"
    BY <1>1 DEF Request
  <2>2. MaxAhead \in Nat
    BY ConstantsAssumption
  <2>3. QED
    BY <1>1, <1>3, <2>1, <2>2, RequestIds DEF OneOut
<1>6. ResponseInTurn /\ ItemsInOrder
  BY <1>3, Zenon DEF ResponseInTurn, ItemsInOrder, Ordered
<1>7. StreamsNoted /\ PhaseKnown
  <2>1. StartsPending = {} /\ DeltasPending = {} /\ NotesPending = {}
    BY <1>3, Zenon DEF StartsPending, DeltasPending, NotesPending, ItemsIn
  <2>2. Streamed = {}
    BY <1>1, <2>1 DEF Streamed
  <2>3. \A i \in Item : stage[i] = New /\ New \notin 1 .. Parts /\ phases[i] = "none"
    BY <1>1, Stages
  <2>4. QED
    BY <1>1, <2>2, <2>3, Zenon DEF StreamsNoted, PhaseKnown
<1>8. TurnEnds = {}
  BY <1>3, Zenon DEF TurnEnds
<1>9. TextAccounted
  <2>1. said.final = << >> /\ said.progress = << >>
    BY <1>1
  <2>2. Accounts(0, Finals, {}, << >>, << >>) /\ Accounts(0, Progresses, {}, << >>, << >>)
    BY NothingSaid
  <2>3. QED
    BY <1>1, <1>3, <1>8, <2>1, <2>2, Zenon DEF TextAccounted
<1>10. Verdict
  BY <1>1, <1>8 DEF Verdict
<1>11. QED
  BY <1>2, <1>4, <1>5, <1>6, <1>7, <1>9, <1>10 DEF IInv

(* every step keeps it,                                                      *)
LEMMA IInvStep ==
  ASSUME IInv, [Next]_vars
  PROVE  IInv'
<1>1. /\ TypeOK /\ Typed /\ OneOut /\ ResponseInTurn /\ ItemsInOrder /\ PhaseKnown
      /\ StreamsNoted /\ TextAccounted /\ Verdict
  BY DEF IInv
<1>2. Typed'
  BY <1>1, TypedStep
<1>3. TypeOK' /\ OneOut' /\ ResponseInTurn'
  BY <1>1, <1>2, TypeOKStep, OneOutStep, ResponseInTurnStep
<1>4. ItemsInOrder' /\ PhaseKnown' /\ StreamsNoted'
  BY <1>1, <1>2, ItemsInOrderStep, PhaseKnownStep, StreamsNotedStep
<1>5. TextAccounted' /\ Verdict'
  BY <1>1, <1>2, TextAccountedStep, VerdictStep
<1>6. QED
  BY <1>2, <1>3, <1>4, <1>5 DEF IInv

(* and so it always holds.                                                   *)
LEMMA Inductive == Spec => []IInv
<1>1. Init => IInv
  BY InitIInv
<1>2. IInv /\ [Next]_vars => IInv'
  BY IInvStep
<1>3. QED
  BY <1>1, <1>2, PTL DEF Spec

-----------------------------------------------------------------------------
(* The types are right: the bridge ends with an outcome and not before, it   *)
(* notes phases and parts of its own items only, and no more pends than the  *)
(* server may send ahead and the one response that is due.                   *)
THEOREM TypeCorrect == Spec => []TypeOK
<1>1. IInv => TypeOK
  BY DEF IInv
<1>2. QED
  BY <1>1, Inductive, PTL

(* A turn that succeeds returns what the server said of the final answer,    *)
(* part by part, and has reported its commentary and its tool calls, though  *)
(* events overtake responses, requests of the server come between them and   *)
(* other turns stream into the same pipe.                                    *)
THEOREM TurnSaid == Spec => []TurnIsWhatWasSaid
<1>1. IInv => TurnIsWhatWasSaid
  BY DEF IInv, Verdict, TurnIsWhatWasSaid, AnswerIsWhatWasSaid, ProgressIsWhatWasSaid
<1>2. QED
  BY <1>1, Inductive, PTL

(* A turn is failed only when the server gave the bridge a reason to.        *)
THEOREM FailsForReason == Spec => []FailsForCause
<1>1. IInv => FailsForCause
  BY DEF IInv, Verdict, FailsForCause
<1>2. QED
  BY <1>1, Inductive, PTL

=============================================================================
