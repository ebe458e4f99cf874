-------------------------- MODULE ConversationProofs --------------------------
(***************************************************************************)
(* Proofs about Conversation, for any agents, callers, external requests   *)
(* and limits.                                                             *)
(*                                                                         *)
(* IInv is the inductive invariant.  Its heart is FlowInv: a request is    *)
(* taken by the bridge once, so what is in the map has not been answered,  *)
(* and what the bridge took and is not in the map has been answered or was *)
(* followed by MapSize other requests.                                     *)
(***************************************************************************)
EXTENDS Conversation, StoreProofs, FiniteSetTheorems, SequenceTheorems,
        WellFoundedInduction

\* The types, in parts that share no Booleans with arithmetic.
FlagsOK == reading \in BOOLEAN /\ link \in BOOLEAN

LogOK ==
    /\ log \in Seq(Message) /\ Len(log) <= MaxMessages
    /\ inbox \in [Parties -> SUBSET DOMAIN log]

CallsOK ==
    /\ caller \in [Callers -> InCall \cup {"idle", "answered", "timeout", "cancelled"}]
    /\ pending \subseteq Callers /\ resolved \subseteq Callers

BridgeOK ==
    /\ conn \in {"new", "in", "closing", "out"}
    /\ took \in Seq(DOMAIN log) /\ map \subseteq Elements(took)
    /\ Cardinality(map) <= MapSize
    /\ wire \subseteq DOMAIN log

PeerOK == line \in Seq(Frames) /\ given \in [Ids -> Nat]

FuturesInv ==
    /\ FuturesSettled
    /\ \A c \in Callers : caller[c] = "idle" => c \notin pending \cup resolved

Asks(c, i) == log[i].type = "request" /\ log[i].corr = c

\* A call sends one request, which does not reach the bridge before its send returns.
CallersInv ==
    \A c \in Callers :
        /\ caller[c] = "idle" => \A i \in DOMAIN log : ~Asks(c, i)
        /\ caller[c] = "sending" =>
              \A i \in DOMAIN log : Asks(c, i) => i \notin inbox[Bridge] \cup Elements(took)

TakenOnce == \A i \in inbox[Bridge] : i \notin Elements(took)

WireInv == \A i \in wire : log[i].type = "request" => i \in Elements(took)

LineInv ==
    \A n \in DOMAIN line :
        line[n].kind = "answer" => line[n].id \in wire /\ log[line[n].id].type = "request"

MapInv ==
    /\ \A i \in map, j \in DOMAIN log :
          IsAnswer(j) /\ log[j].to # None => log[j].corr # i
    /\ \A i \in Elements(took) \ map :
          \/ \E j \in DOMAIN log : IsAnswer(j) /\ log[j].corr = i
          \/ \E n \in DOMAIN took : took[n] = i /\ n + MapSize <= Len(took)

AnswersKnown == \A i \in DOMAIN log : IsAnswer(i) => log[i].corr \in Elements(took)

AnswersInv == WireInv /\ MapInv /\ AnswersKnown /\ AnswersGoHome /\ AnswersAreNotLeaked

FlowInv == CallersInv /\ TakenOnce /\ LineInv /\ AnswersInv

IInv ==
    /\ StoreInv /\ FlagsOK /\ LogOK /\ CallsOK /\ BridgeOK /\ PeerOK
    /\ FuturesInv /\ FlowInv

-----------------------------------------------------------------------------
(* The request map                                                         *)

\* A set of numbers that is not empty has a least one.
LEMMA LeastNumber ==
    ASSUME NEW T, T \subseteq Nat, T # {}
    PROVE  \E n \in T : \A k \in T : n <= k
<1>1. PICK n \in T : \A k \in T : ~(<<k, n>> \in OpToRel(<, Nat))
  BY NatLessThanWellFounded, WFMin, Zenon
<1>2. \A k \in T : ~(k < n)
  BY <1>1 DEF OpToRel
<1> QED BY <1>2

\* What popitem removes of a map that has grown beyond its limit: the oldest entry, which
\* at least MapSize requests have followed.
LEMMA EvictionFacts ==
    ASSUME NEW U, NEW order \in Seq(U), NEW S, IsFiniteSet(S), S \subseteq Elements(order),
           Cardinality(S) <= MapSize + 1
    PROVE  /\ Cardinality(S \ Beyond(S, order)) <= MapSize
           /\ \A i \in Beyond(S, order) :
                 \E n \in 1 .. Len(order) : order[n] = i /\ n + MapSize <= Len(order)
<1> USE ConversationAssumption
<1>1. Cardinality(S) \in Nat BY FS_CardinalityType
<1>2. CASE Cardinality(S) <= MapSize
  <2>1. Beyond(S, order) = {} BY <1>1, <1>2 DEF Beyond
  <2>2. S \ Beyond(S, order) = S BY <2>1
  <2> QED BY <1>2, <2>1, <2>2
<1>3. CASE Cardinality(S) > MapSize
  <2> DEFINE T == {n \in 1 .. Len(order) : order[n] \in S}
  <2>1. S # {}
    <3>1. Cardinality(S) # 0 BY <1>3
    <3> QED BY <3>1, FS_EmptySet
  <2>2. T # {} /\ T \subseteq Nat BY <2>1 DEF Elements
  <2>3. PICK n \in T : \A k \in T : n <= k
    <3> HIDE DEF T
    <3> QED BY <2>2, LeastNumber
  <2>4. n \in 1 .. Len(order) /\ order[n] \in S OBVIOUS
  <2>5. \A k \in 1 .. n - 1 : order[k] \notin S
    BY <2>3, <2>4
  <2>6. DOMAIN order = 1 .. Len(order) /\ Beyond(S, order) = Oldest(S, order)
    BY <1>1, <1>3 DEF Beyond
  <2>7. order[n] \in Oldest(S, order)
    BY <2>4, <2>5, <2>6 DEF Oldest
  <2>8. Cardinality(S \ Oldest(S, order)) <= MapSize
    <3>1. S \ Oldest(S, order) \subseteq S \ {order[n]} BY <2>7
    <3>2. IsFiniteSet(S \ {order[n]}) /\ Cardinality(S \ {order[n]}) = Cardinality(S) - 1
      BY <2>4, FS_RemoveElement
    <3>3. Cardinality(S \ Oldest(S, order)) <= Cardinality(S \ {order[n]})
      BY <3>1, <3>2, FS_Subset
    <3>4. Cardinality(S \ Oldest(S, order)) \in Nat
      BY <3>1, <3>2, FS_Subset, FS_CardinalityType
    <3> QED BY <1>1, <3>2, <3>3, <3>4
  <2>9. ASSUME NEW m \in 1 .. Len(order), \A k \in 1 .. m - 1 : order[k] \notin S
        PROVE  m + MapSize <= Len(order)
    <3> SUFFICES ASSUME ~(m + MapSize <= Len(order)) PROVE FALSE
      OBVIOUS
    <3>1. /\ IsFiniteSet(m .. Len(order))
          /\ Cardinality(m .. Len(order)) = Len(order) - m + 1
      BY FS_Interval
    <3>2. Cardinality(m .. Len(order)) < Cardinality(S)
      BY <1>1, <1>3, <3>1
    <3> DEFINE place == [i \in S |-> CHOOSE k \in m .. Len(order) : order[k] = i]
    <3>3. \A i \in S : place[i] \in m .. Len(order) /\ order[place[i]] = i
      <4> TAKE i \in S
      <4>1. PICK k \in 1 .. Len(order) : order[k] = i BY DEF Elements
      <4>2. k \in m .. Len(order) BY <2>9, <4>1
      <4> QED BY <4>1, <4>2
    <3>4. place \in [S -> m .. Len(order)] BY <3>3
    <3> HIDE DEF place
    <3>5. \E i, j \in S : i # j /\ place[i] = place[j]
      BY <3>1, <3>2, <3>4, FS_PigeonHole
    <3> QED BY <3>3, <3>5
  <2> QED BY <2>6, <2>8, <2>9 DEF Oldest
<1> QED BY <1>1, <1>2, <1>3
-----------------------------------------------------------------------------
(* Messages                                                                *)

\* A message with number n is appended to the log.
Numbered(n, m) ==
    /\ n \in Nat /\ n \in Ids /\ n = NextId /\ n \notin DOMAIN log
    /\ DOMAIN log' = DOMAIN log \cup {n} /\ log'[n] = m
    /\ \A i \in DOMAIN log : i \in Nat /\ i < n /\ log'[i] = log[i]

\* Recording a message appends it to the log and saves it.
LEMMA Recorded ==
    ASSUME StoreInv, LogOK, NEW m \in Message, Record(m)
    PROVE  /\ StoreInv'
           /\ log' \in Seq(Message) /\ Len(log') <= MaxMessages
           /\ \E n \in Ids : Numbered(n, m)
<1> USE ConversationAssumption
<1>1. NextId \in Ids /\ log' = Append(log, m) BY DEF Record
<1>2. StoreInv'
  <2>1. {m.from, m.to, m.corr} \cap Keys \in SUBSET Keys OBVIOUS
  <2> QED BY <1>1, <2>1, SaveKeeps DEF Record
<1>3. log \in Seq(Message) /\ Len(log) \in Nat BY DEF LogOK
<1>4. Len(log) + 1 <= MaxMessages BY <1>1, <1>3 DEF NextId
<1>5. Numbered(NextId, m) BY <1>1, <1>3 DEF NextId, Numbered
<1> QED BY <1>1, <1>2, <1>3, <1>4, <1>5

\* Putting a message into inboxes adds its number and nothing else.
LEMMA WithFacts ==
    ASSUME LogOK, NEW i, NEW m
    PROVE  /\ With(i, m) \in [Parties -> SUBSET (DOMAIN log \cup {i})]
           /\ With(i, m)[Bridge] \subseteq inbox[Bridge] \cup {i}
  BY DEF LogOK, With, Parties

\* A message that is no answer of the bridge does not disturb what is known of answers.
LEMMA SendKeeps ==
    ASSUME LogOK, BridgeOK, AnswersInv, NEW n, NEW m, Numbered(n, m),
           ~(m.type = "response" /\ m.from = Bridge),
           UNCHANGED <<map, took, wire>>
    PROVE  AnswersInv'
<1>1. ~IsAnswer(n)' /\ \A i \in DOMAIN log : IsAnswer(i)' <=> IsAnswer(i)
  BY DEF IsAnswer, Numbered
<1>2. Elements(took) \subseteq DOMAIN log /\ Elements(took)' = Elements(took)
  BY DEF BridgeOK, Elements
<1>3. WireInv' BY <1>2 DEF WireInv, AnswersInv, BridgeOK, Numbered
<1>4. MapInv' BY <1>1, <1>2 DEF MapInv, AnswersInv, BridgeOK, Numbered
<1>5. AnswersKnown' BY <1>1, <1>2 DEF AnswersInv, AnswersKnown, Numbered
<1>6. AnswersGoHome'
  <2> SUFFICES ASSUME NEW i \in DOMAIN log', IsAnswer(i)', log'[i].to # None
               PROVE  /\ log'[i].corr \in Elements(took)'
                      /\ log'[log'[i].corr].from = log'[i].to
                      /\ \A j \in DOMAIN log' : IsAnswer(j)' /\ log'[j].to # None
                                                /\ log'[j].corr = log'[i].corr => i = j
    BY DEF AnswersGoHome
  <2>1. i \in DOMAIN log /\ log'[i] = log[i] /\ IsAnswer(i) BY <1>1 DEF Numbered
  <2>2. /\ log[i].corr \in Elements(took) /\ log[log[i].corr].from = log[i].to
        /\ \A j \in DOMAIN log :
              IsAnswer(j) /\ log[j].to # None /\ log[j].corr = log[i].corr => i = j
    BY <2>1 DEF AnswersInv, AnswersGoHome
  <2> QED BY <1>1, <1>2, <2>1, <2>2 DEF Numbered
<1>7. AnswersAreNotLeaked'
  <2> SUFFICES ASSUME NEW i \in DOMAIN log', IsAnswer(i)', log'[i].to = None
               PROVE  \/ log'[log'[i].corr].from = Nobody
                      \/ \E j \in 1 .. i - 1 : IsAnswer(j)' /\ log'[j].corr = log'[i].corr
                      \/ \E k \in DOMAIN took' :
                            took'[k] = log'[i].corr /\ k + MapSize <= Len(took')
    BY DEF AnswersAreNotLeaked
  <2>1. i \in DOMAIN log /\ log'[i] = log[i] /\ IsAnswer(i) BY <1>1 DEF Numbered
  <2>2. log[i].corr \in Elements(took) BY <2>1 DEF AnswersInv, AnswersKnown
  <2>3. CASE log[log[i].corr].from = Nobody
    BY <1>2, <2>1, <2>2, <2>3 DEF Numbered
  <2>4. CASE \E j \in 1 .. i - 1 : IsAnswer(j) /\ log[j].corr = log[i].corr
    <3>1. PICK j \in 1 .. i - 1 : IsAnswer(j) /\ log[j].corr = log[i].corr BY <2>4
    <3>2. j \in DOMAIN log BY <2>1, <3>1 DEF LogOK
    <3> QED BY <1>1, <2>1, <3>1, <3>2 DEF Numbered
  <2>5. CASE \E k \in DOMAIN took : took[k] = log[i].corr /\ k + MapSize <= Len(took)
    BY <2>1, <2>5
  <2> QED BY <2>1, <2>3, <2>4, <2>5 DEF AnswersInv, AnswersAreNotLeaked
<1> QED BY <1>3, <1>4, <1>5, <1>6, <1>7 DEF AnswersInv

\* Without a new message, and with the map as it was, nothing about answers changes.
LEMMA StillKeeps ==
    ASSUME AnswersInv, UNCHANGED <<log, map, took, wire>>
    PROVE  AnswersInv'
  BY DEF AnswersInv, WireInv, MapInv, AnswersKnown, AnswersGoHome, AnswersAreNotLeaked,
         IsAnswer

-----------------------------------------------------------------------------
(* The kinds of steps                                                      *)

\* What may happen to the stream: a frame is read, all are lost, or one is written,
\* which as an answer is one to a request the external system was sent.
LineStep ==
    \/ line' \in {line, <<>>}
    \/ line # <<>> /\ line' = Tail(line)
    \/ \E f \in Frames : /\ line' = Append(line, f)
                         /\ f.kind = "answer" => f.id \in wire /\ log[f.id].type = "request"

\* The frames in the stream stay frames, and the answers among them answer requests.
LEMMA LineKeeps ==
    ASSUME PeerOK, LineInv, LineStep, wire \subseteq wire', wire \subseteq DOMAIN log,
           \A i \in DOMAIN log : log'[i] = log[i]
    PROVE  line' \in Seq(Frames) /\ LineInv'
<1>1. line \in Seq(Frames) BY DEF PeerOK
<1>2. ASSUME NEW n \in DOMAIN line, line[n].kind = "answer"
      PROVE  line[n].id \in wire' /\ log'[line[n].id].type = "request"
  BY <1>2 DEF LineInv
<1>3. CASE line' = line
  BY <1>1, <1>2, <1>3 DEF LineInv
<1>4. CASE line' = <<>>
  BY <1>4 DEF LineInv
<1>5. CASE line # <<>> /\ line' = Tail(line)
  <2>1. /\ line' \in Seq(Frames)
        /\ \A n \in DOMAIN line' : n + 1 \in DOMAIN line /\ line'[n] = line[n + 1]
    BY <1>1, <1>5
  <2> QED BY <1>2, <2>1 DEF LineInv
<1>6. ASSUME NEW f \in Frames, line' = Append(line, f),
             f.kind = "answer" => f.id \in wire /\ log[f.id].type = "request"
      PROVE  line' \in Seq(Frames) /\ LineInv'
  <2>1. /\ line' \in Seq(Frames) /\ Len(line) \in Nat
        /\ DOMAIN line' = DOMAIN line \cup {Len(line) + 1}
        /\ \A n \in DOMAIN line : line'[n] = line[n]
        /\ line'[Len(line) + 1] = f
    BY <1>1, <1>6
  <2>2. ASSUME NEW n \in DOMAIN line', line'[n].kind = "answer"
        PROVE  line'[n].id \in wire' /\ log'[line'[n].id].type = "request"
    <3>1. CASE n \in DOMAIN line BY <1>2, <2>1, <2>2, <3>1
    <3>2. CASE n = Len(line) + 1 BY <1>6, <2>1, <2>2, <3>2
    <3> QED BY <2>1, <3>1, <3>2
  <2> QED BY <2>1, <2>2 DEF LineInv
<1> QED BY <1>1, <1>3, <1>4, <1>5, <1>6 DEF LineStep

\* A step that sends nothing and leaves the map alone.
StillStep ==
    /\ UNCHANGED <<store, log, map, took, wire>>
    /\ inbox' \in [Parties -> SUBSET DOMAIN log]
    /\ conn' \in {"new", "in", "closing", "out"}
    /\ reading' \in BOOLEAN /\ link' \in BOOLEAN
    /\ given' \in [Ids -> Nat]
    /\ LineStep

\* Such a step keeps all that does not concern calls and inboxes.
LEMMA StillStepKeeps ==
    ASSUME IInv, StillStep
    PROVE  /\ StoreInv' /\ FlagsOK' /\ LogOK' /\ BridgeOK' /\ PeerOK'
           /\ LineInv' /\ AnswersInv'
           /\ Elements(took)' = Elements(took)
<1>1. StoreInv' /\ FlagsOK' /\ LogOK'
  <2>1. StoreInv'
    BY DEF IInv, StillStep, store, StoreInv, StoreTypeOK, HistoriesSound
  <2>2. FlagsOK' BY DEF StillStep, FlagsOK
  <2>3. LogOK' BY DEF IInv, StillStep, LogOK
  <2> QED BY <2>1, <2>2, <2>3
<1>2. BridgeOK' /\ Elements(took)' = Elements(took)
  <2>1. UNCHANGED <<log, map, took, wire>> /\ BridgeOK BY DEF StillStep, IInv
  <2>2. Elements(took)' = Elements(took) BY <2>1 DEF Elements
  <2>3. conn' \in {"new", "in", "closing", "out"} BY DEF StillStep
  <2> QED BY <2>1, <2>2, <2>3 DEF BridgeOK
<1>3. AnswersInv'
  BY StillKeeps DEF IInv, FlowInv, StillStep
<1>4. PeerOK' /\ LineInv'
  <2>1. /\ PeerOK /\ LineInv /\ LineStep /\ wire' = wire /\ wire \subseteq DOMAIN log
        /\ log' = log
    BY DEF IInv, FlowInv, StillStep, BridgeOK
  <2>2. line' \in Seq(Frames) /\ LineInv' BY <2>1, LineKeeps
  <2> QED BY <2>2 DEF PeerOK, StillStep
<1> QED BY <1>1, <1>2, <1>3, <1>4

\* A step that sends m, as message n, and leaves the map alone.
SendStep(n, m) ==
    /\ StoreInv' /\ log' \in Seq(Message) /\ Len(log') <= MaxMessages
    /\ Numbered(n, m)
    /\ inbox' \in [Parties -> SUBSET (DOMAIN log \cup {n})]
    /\ inbox'[Bridge] \subseteq inbox[Bridge] \cup {n}
    /\ UNCHANGED <<conn, reading, link, took, wire, given>>
    /\ LineStep

\* Such a step keeps all that concerns neither calls nor answers.
LEMMA SendStepKeeps ==
    ASSUME IInv, NEW n, NEW m, SendStep(n, m)
    PROVE  /\ StoreInv' /\ FlagsOK' /\ LogOK' /\ PeerOK' /\ TakenOnce' /\ LineInv'
           /\ map' \subseteq map => BridgeOK'
           /\ Elements(took)' = Elements(took) /\ Elements(took) \subseteq DOMAIN log
           /\ inbox'[Bridge] \cup Elements(took)' \subseteq
                 inbox[Bridge] \cup Elements(took) \cup {n}
<1>1. Elements(took)' = Elements(took) /\ Elements(took) \subseteq DOMAIN log
  BY DEF SendStep, IInv, BridgeOK, Elements
<1>2. StoreInv' BY DEF SendStep
<1>3. FlagsOK' BY DEF SendStep, IInv, FlagsOK
<1>4. LogOK' BY DEF SendStep, LogOK, Numbered
<1>5. TakenOnce'
  BY <1>1 DEF SendStep, IInv, FlowInv, TakenOnce, Numbered
<1>6. PeerOK' /\ LineInv'
  <2>1. /\ PeerOK /\ LineInv /\ LineStep /\ wire' = wire /\ wire \subseteq DOMAIN log
        /\ \A i \in DOMAIN log : log'[i] = log[i]
    BY DEF IInv, FlowInv, SendStep, BridgeOK, Numbered
  <2>2. line' \in Seq(Frames) /\ LineInv' BY <2>1, LineKeeps
  <2> QED BY <2>2 DEF PeerOK, SendStep, IInv
<1>7. ASSUME map' \subseteq map PROVE BridgeOK'
  <2>1. /\ BridgeOK /\ UNCHANGED <<conn, took, wire>>
        /\ DOMAIN log \subseteq DOMAIN log'
    BY DEF IInv, SendStep, Numbered
  <2>2. took' \in Seq(DOMAIN log') BY <2>1 DEF BridgeOK
  <2>3. Cardinality(map') <= MapSize
    <3>1. IsFiniteSet(map)
      <4>1. IsFiniteSet(DOMAIN log)
        <5>1. DOMAIN log = 1 .. Len(log) /\ Len(log) \in Nat BY DEF IInv, LogOK
        <5> QED BY <5>1, FS_Interval
      <4>2. map \subseteq DOMAIN log BY <1>1, <2>1 DEF BridgeOK
      <4> QED BY <4>1, <4>2, FS_Subset
    <3>2. /\ Cardinality(map') <= Cardinality(map)
          /\ Cardinality(map') \in Nat /\ Cardinality(map) \in Nat
      BY <1>7, <3>1, FS_Subset, FS_CardinalityType
    <3> QED BY <2>1, <3>2, ConversationAssumption DEF BridgeOK
  <2> QED BY <1>1, <1>7, <2>1, <2>2, <2>3 DEF BridgeOK
<1> QED BY <1>1, <1>2, <1>3, <1>4, <1>5, <1>6, <1>7 DEF SendStep

-----------------------------------------------------------------------------
(* Answers                                                                 *)

\* The answer to a request: its first answer takes the request out of the map.
LEMMA AnswerKeeps ==
    ASSUME IInv, NEW n, NEW m, NEW id, NEW home, SendStep(n, m),
           id \in wire, log[id].type = "request",
           m = Letter("response", Bridge, home, id, None),
           home = IF map \cap {id} # {} /\ log[id].from # Nobody THEN log[id].from ELSE None,
           map' = map \ (map \cap {id})
    PROVE  AnswersInv'
<1>1. /\ AnswersInv /\ Numbered(n, m)
      /\ Elements(took)' = Elements(took) /\ took' = took /\ wire' = wire
      /\ Elements(took) \subseteq DOMAIN log
      /\ id \in Elements(took) /\ id \in DOMAIN log /\ map' = map \ {id}
  BY SendStepKeeps DEF IInv, FlowInv, AnswersInv, WireInv, BridgeOK, SendStep
<1>2. /\ m.type = "response" /\ m.from = Bridge /\ m.to = home /\ m.corr = id
  BY DEF Letter
<1>3. IsAnswer(n)' /\ \A i \in DOMAIN log : IsAnswer(i)' <=> IsAnswer(i)
  BY <1>1, <1>2 DEF IsAnswer, Numbered
<1>4. WireInv' BY <1>1 DEF WireInv, AnswersInv, BridgeOK, Numbered, IInv
<1>5. AnswersKnown' BY <1>1, <1>2, <1>3 DEF AnswersInv, AnswersKnown, Numbered
<1>6. MapInv'
  <2>1. ASSUME NEW i \in map', NEW j \in DOMAIN log', IsAnswer(j)', log'[j].to # None
        PROVE  log'[j].corr # i
    BY <1>1, <1>2, <1>3, <2>1 DEF AnswersInv, MapInv, Numbered
  <2>2. ASSUME NEW i \in Elements(took)' \ map'
        PROVE  \/ \E j \in DOMAIN log' : IsAnswer(j)' /\ log'[j].corr = i
               \/ \E k \in DOMAIN took' : took'[k] = i /\ k + MapSize <= Len(took')
    <3>1. CASE i = id BY <1>1, <1>2, <1>3, <3>1 DEF Numbered
    <3>2. CASE i # id
      <4>1. i \in Elements(took) \ map BY <1>1, <3>2
      <4> QED BY <1>1, <1>3, <4>1 DEF AnswersInv, MapInv, Numbered
    <3> QED BY <3>1, <3>2
  <2> QED BY <2>1, <2>2 DEF MapInv
<1>7. log[id].from # None
  <2>1. log[id] \in Message BY <1>1 DEF IInv, LogOK
  <2> QED BY <2>1, ConversationAssumption DEF Message
<1>8. AnswersGoHome'
  <2> SUFFICES ASSUME NEW i \in DOMAIN log', IsAnswer(i)', log'[i].to # None
               PROVE  /\ log'[i].corr \in Elements(took)'
                      /\ log'[log'[i].corr].from = log'[i].to
                      /\ \A j \in DOMAIN log' : IsAnswer(j)' /\ log'[j].to # None
                                                /\ log'[j].corr = log'[i].corr => i = j
    BY DEF AnswersGoHome
  <2>1. CASE i = n
    <3>1. home # None /\ id \in map /\ home = log[id].from
      BY <1>1, <1>2, <2>1 DEF Numbered
    <3>2. \A j \in DOMAIN log : IsAnswer(j) /\ log[j].to # None => log[j].corr # id
      BY <1>1, <3>1 DEF AnswersInv, MapInv
    <3> QED BY <1>1, <1>2, <1>3, <2>1, <3>1, <3>2 DEF Numbered
  <2>2. CASE i \in DOMAIN log
    <3>1. IsAnswer(i) /\ log'[i] = log[i] /\ log[i].to # None
      BY <1>1, <1>3, <2>2 DEF Numbered
    <3>2. /\ log[i].corr \in Elements(took) /\ log[log[i].corr].from = log[i].to
          /\ \A j \in DOMAIN log :
                IsAnswer(j) /\ log[j].to # None /\ log[j].corr = log[i].corr => i = j
      BY <1>1, <2>2, <3>1 DEF AnswersInv, AnswersGoHome
    <3>3. ASSUME home # None PROVE log[i].corr # id
      BY <1>1, <2>2, <3>1, <3>3 DEF AnswersInv, MapInv
    <3> QED BY <1>1, <1>2, <1>3, <2>2, <3>1, <3>2, <3>3 DEF Numbered
  <2> QED BY <1>1, <2>1, <2>2 DEF Numbered
<1>9. AnswersAreNotLeaked'
  <2> SUFFICES ASSUME NEW i \in DOMAIN log', IsAnswer(i)', log'[i].to = None
               PROVE  \/ log'[log'[i].corr].from = Nobody
                      \/ \E j \in 1 .. i - 1 : IsAnswer(j)' /\ log'[j].corr = log'[i].corr
                      \/ \E k \in DOMAIN took' :
                            took'[k] = log'[i].corr /\ k + MapSize <= Len(took')
    BY DEF AnswersAreNotLeaked
  <2>1. CASE i = n
    <3>1. log'[i].corr = id /\ home = None BY <1>1, <1>2, <2>1 DEF Numbered
    <3>2. CASE id \in map
      BY <1>1, <1>7, <3>1, <3>2 DEF Numbered
    <3>3. CASE id \notin map
      <4>1. \/ \E j \in DOMAIN log : IsAnswer(j) /\ log[j].corr = id
            \/ \E k \in DOMAIN took : took[k] = id /\ k + MapSize <= Len(took)
        BY <1>1, <3>3 DEF AnswersInv, MapInv
      <4>2. \A j \in DOMAIN log : j \in 1 .. i - 1
        BY <1>1, <2>1 DEF Numbered, IInv, LogOK
      <4> QED BY <1>1, <1>3, <3>1, <4>1, <4>2 DEF Numbered
    <3> QED BY <3>2, <3>3
  <2>2. CASE i \in DOMAIN log
    <3>1. log'[i] = log[i] /\ IsAnswer(i) BY <1>1, <1>3, <2>2 DEF Numbered
    <3>2. log[i].corr \in Elements(took) BY <1>1, <2>2, <3>1 DEF AnswersInv, AnswersKnown
    <3>3. CASE log[log[i].corr].from = Nobody
      BY <1>1, <3>1, <3>2, <3>3 DEF Numbered
    <3>4. CASE \E j \in 1 .. i - 1 : IsAnswer(j) /\ log[j].corr = log[i].corr
      <4>1. PICK j \in 1 .. i - 1 : IsAnswer(j) /\ log[j].corr = log[i].corr BY <3>4
      <4>2. j \in DOMAIN log BY <2>2, <4>1 DEF IInv, LogOK
      <4> QED BY <1>1, <1>3, <3>1, <4>1, <4>2 DEF Numbered
    <3>5. CASE \E k \in DOMAIN took : took[k] = log[i].corr /\ k + MapSize <= Len(took)
      BY <1>1, <3>1, <3>5
    <3> QED BY <1>1, <2>2, <3>1, <3>3, <3>4, <3>5 DEF AnswersInv, AnswersAreNotLeaked
  <2> QED BY <1>1, <2>1, <2>2 DEF Numbered
<1> QED BY <1>4, <1>5, <1>6, <1>8, <1>9 DEF AnswersInv

\* Taking a request: it was not known, and what falls out of the map is old enough.
LEMMA TakeKeeps ==
    ASSUME IInv, NEW i \in inbox[Bridge], UNCHANGED <<log, conn>>,
           took' = Append(took, i), map' = (map \cup {i}) \ Beyond(map \cup {i}, took'),
           wire' \subseteq wire \cup {i}
    PROVE  /\ AnswersInv' /\ BridgeOK'
           /\ Elements(took)' = Elements(took) \cup {i}
<1> DEFINE S == map \cup {i}
<1>1. i \in DOMAIN log /\ i \notin Elements(took)
  BY DEF IInv, LogOK, FlowInv, TakenOnce, Parties
<1>2. /\ BridgeOK /\ took \in Seq(DOMAIN log) /\ Elements(took) \subseteq DOMAIN log
  BY DEF IInv, BridgeOK, Elements
<1>3. /\ took' \in Seq(DOMAIN log) /\ Len(took') = Len(took) + 1 /\ Len(took) \in Nat
      /\ Elements(took') = Elements(took) \cup {i}
      /\ \A k \in DOMAIN took : k \in DOMAIN took' /\ took'[k] = took[k]
  BY <1>1, <1>2, AppendToDistinct
<1>4. Elements(took)' = Elements(took) \cup {i}
  BY <1>3 DEF Elements
<1>5. IsFiniteSet(map)
  <2>1. DOMAIN log = 1 .. Len(log) /\ Len(log) \in Nat BY DEF IInv, LogOK
  <2>2. IsFiniteSet(1 .. Len(log)) BY <2>1, FS_Interval
  <2>3. map \subseteq 1 .. Len(log) BY <1>2, <2>1 DEF BridgeOK
  <2> QED BY <2>2, <2>3, FS_Subset
<1>6. /\ IsFiniteSet(S) /\ S \subseteq Elements(took') /\ Cardinality(S) <= MapSize + 1
  <2>1. /\ IsFiniteSet(S)
        /\ \/ Cardinality(S) = Cardinality(map)
           \/ Cardinality(S) = Cardinality(map) + 1
    BY <1>5, FS_AddElement
  <2> QED BY <1>2, <1>3, <1>5, <2>1, FS_CardinalityType, ConversationAssumption DEF BridgeOK
<1>7. /\ Cardinality(map') <= MapSize
      /\ \A j \in Beyond(S, took') :
            \E n \in 1 .. Len(took') : took'[n] = j /\ n + MapSize <= Len(took')
  BY <1>3, <1>6, EvictionFacts, Zenon
<1> HIDE DEF S
<1>8. BridgeOK'
  <2>1. map' \subseteq Elements(took)' BY <1>2, <1>4 DEF BridgeOK
  <2>2. wire' \subseteq DOMAIN log' BY <1>1, <1>2 DEF BridgeOK
  <2> QED BY <1>2, <1>3, <1>7, <2>1, <2>2 DEF BridgeOK
<1>9. AnswersInv /\ \A j : IsAnswer(j)' <=> IsAnswer(j)
  BY DEF IInv, FlowInv, IsAnswer
<1>10. WireInv' BY <1>4, <1>9 DEF AnswersInv, WireInv
<1>11. AnswersKnown' BY <1>4, <1>9 DEF AnswersInv, AnswersKnown
<1>12. MapInv'
  <2>1. ASSUME NEW k \in map', NEW j \in DOMAIN log', IsAnswer(j)', log'[j].to # None
        PROVE  log'[j].corr # k
    <3>1. CASE k = i BY <1>1, <1>9, <2>1, <3>1 DEF AnswersInv, AnswersKnown
    <3>2. CASE k \in map BY <1>9, <2>1, <3>2 DEF AnswersInv, MapInv
    <3> QED BY <3>1, <3>2
  <2>2. ASSUME NEW k \in Elements(took)' \ map'
        PROVE  \/ \E j \in DOMAIN log' : IsAnswer(j)' /\ log'[j].corr = k
               \/ \E n \in DOMAIN took' : took'[n] = k /\ n + MapSize <= Len(took')
    <3>1. CASE k \in Elements(took) \ map
      <4>1. \/ \E j \in DOMAIN log : IsAnswer(j) /\ log[j].corr = k
            \/ \E n \in DOMAIN took : took[n] = k /\ n + MapSize <= Len(took)
        BY <1>9, <3>1 DEF AnswersInv, MapInv
      <4>2. ASSUME NEW n \in DOMAIN took, took[n] = k, n + MapSize <= Len(took)
            PROVE  n \in DOMAIN took' /\ took'[n] = k /\ n + MapSize <= Len(took')
        BY <1>2, <1>3, <4>2, ConversationAssumption
      <4> QED BY <1>9, <4>1, <4>2
    <3>2. CASE k \in Beyond(S, took')
      BY <1>3, <1>7, <3>2
    <3> QED BY <1>4, <3>1, <3>2 DEF S
  <2> QED BY <2>1, <2>2 DEF MapInv
<1>13. AnswersGoHome'
  BY <1>4, <1>9 DEF AnswersInv, AnswersGoHome
<1>14. AnswersAreNotLeaked'
  <2> SUFFICES ASSUME NEW k \in DOMAIN log, IsAnswer(k), log[k].to = None
               PROVE  \/ log[log[k].corr].from = Nobody
                      \/ \E j \in 1 .. k - 1 : IsAnswer(j) /\ log[j].corr = log[k].corr
                      \/ \E n \in DOMAIN took' :
                            took'[n] = log[k].corr /\ n + MapSize <= Len(took')
    BY <1>9 DEF AnswersAreNotLeaked
  <2>1. ASSUME NEW n \in DOMAIN took, took[n] = log[k].corr, n + MapSize <= Len(took)
        PROVE  n \in DOMAIN took' /\ took'[n] = log[k].corr /\ n + MapSize <= Len(took')
    BY <1>2, <1>3, <2>1, ConversationAssumption
  <2> QED BY <1>9, <2>1 DEF AnswersInv, AnswersAreNotLeaked
<1> QED BY <1>4, <1>8, <1>10, <1>11, <1>12, <1>13, <1>14 DEF AnswersInv

-----------------------------------------------------------------------------
(* Calls of request                                                        *)

\* A step of a call once its request was sent, or of the bridge: requests stay where
\* they are, and no call starts.
LEMMA CallersStay ==
    ASSUME CallersInv, log' = log,
           \A c \in Callers :
              /\ caller'[c] = "idle" => caller[c] = "idle"
              /\ caller'[c] = "sending" => caller[c] = "sending",
           inbox'[Bridge] \cup Elements(took)' \subseteq inbox[Bridge] \cup Elements(took)
    PROVE  CallersInv'
  BY DEF CallersInv, Asks

\* A message that is not the request of a call.
LEMMA CallersSend ==
    ASSUME IInv, NEW n, NEW m, SendStep(n, m), caller' = caller,
           m.type = "request" => m.corr \notin Callers
    PROVE  CallersInv'
<1>1. /\ CallersInv /\ Numbered(n, m)
      /\ inbox'[Bridge] \cup Elements(took)' \subseteq
            inbox[Bridge] \cup Elements(took) \cup {n}
  BY SendStepKeeps DEF IInv, FlowInv, SendStep
<1>2. ASSUME NEW c \in Callers, NEW i \in DOMAIN log', Asks(c, i)'
      PROVE  i \in DOMAIN log /\ i # n /\ Asks(c, i)
  BY <1>1, <1>2 DEF Numbered, Asks
<1> QED BY <1>1, <1>2 DEF CallersInv

-----------------------------------------------------------------------------
(* The steps                                                               *)

\* Every message given to send is one.
LEMMA Messages ==
    ASSUME NEW type \in Types, NEW from \in Parties \cup {Nobody},
           NEW to \in Parties \cup {None, Nobody}, NEW corr \in Correlations,
           NEW re \in Ids \cup {None}
    PROVE  Letter(type, from, to, corr, re) \in Message
  BY DEF Letter, Message

\* Record and With make a send step.
LEMMA SendIsStep ==
    ASSUME IInv, NEW m \in Message, Record(m),
           inbox' \in [Parties -> SUBSET (DOMAIN log \cup {NextId})],
           inbox'[Bridge] \subseteq inbox[Bridge] \cup {NextId},
           UNCHANGED <<conn, reading, link, took, wire, given>>, LineStep
    PROVE  \E n \in Ids : SendStep(n, m)
<1>1. /\ StoreInv' /\ log' \in Seq(Message) /\ Len(log') <= MaxMessages
      /\ \E n \in Ids : Numbered(n, m)
  BY Recorded DEF IInv
<1>2. PICK n \in Ids : Numbered(n, m) BY <1>1
<1>3. n = NextId BY <1>2 DEF Numbered
<1> QED BY <1>1, <1>2, <1>3 DEF SendStep

\* A message that is neither an answer of the bridge nor the request of a call.
LEMMA PlainSendKeeps ==
    ASSUME IInv, NEW n, NEW m, SendStep(n, m), UNCHANGED <<calls, map>>,
           ~(m.type = "response" /\ m.from = Bridge),
           m.type = "request" => m.corr \notin Callers
    PROVE  IInv'
<1>1. /\ StoreInv' /\ FlagsOK' /\ LogOK' /\ PeerOK' /\ TakenOnce' /\ LineInv' /\ BridgeOK'
  BY SendStepKeeps
<1>2. CallersInv' BY CallersSend DEF calls
<1>3. AnswersInv' BY SendKeeps DEF IInv, FlowInv, SendStep
<1>4. CallsOK' /\ FuturesInv'
  BY DEF IInv, CallsOK, FuturesInv, FuturesSettled, InCall, calls
<1> QED BY <1>1, <1>2, <1>3, <1>4 DEF IInv, FlowInv

\* An agent's request keeps the invariant.
LEMMA AskKeeps ==
    ASSUME IInv, NEW a \in Agents, NEW corr \in Threads \cup {None}, Ask(a, corr)
    PROVE  IInv'
<1> DEFINE c == IF corr = None THEN NextId ELSE corr
           m == Letter("request", a, Bridge, c, None)
<1>1. Record(m) /\ inbox' = With(NextId, m) BY DEF Ask, Send
<1>2. NextId \in Ids BY <1>1 DEF Record
<1>3. m \in Message
  <2>1. c \in Correlations BY <1>2 DEF Correlations
  <2> HIDE DEF c
  <2> QED BY <2>1, Messages DEF Types, Parties
<1>4. m.type = "request" /\ m.corr = c BY DEF Letter
<1>5. c \notin Callers
  BY <1>2, ConversationAssumption
<1> HIDE DEF m, c
<1>6. PICK n \in Ids : SendStep(n, m)
  BY <1>1, <1>3, SendIsStep, WithFacts DEF IInv, Ask, bridge, peer, LineStep
<1> QED BY <1>4, <1>5, <1>6, PlainSendKeeps DEF Ask, bridge

\* A reply keeps the invariant.
LEMMA ReplyKeeps ==
    ASSUME IInv, NEW a \in Agents, NEW i \in Ids, NEW type \in {"response", "error"},
           Reply(a, i, type)
    PROVE  IInv'
<1> DEFINE m == Letter(type, a, log[i].from, log[i].corr, i)
<1>1. /\ i \in inbox[a] /\ Record(m)
      /\ inbox' = [With(NextId, log'[NextId]) EXCEPT ![a] = @ \ {i}]
  BY DEF Reply
<1>2. i \in DOMAIN log /\ log[i] \in Message
  BY <1>1 DEF IInv, LogOK, Parties
<1>3. m \in Message
  BY <1>2, Messages DEF Message, Types, Parties
<1>4. m.type = type /\ m.from = a BY DEF Letter
<1> HIDE DEF m
<1>5. /\ inbox' \in [Parties -> SUBSET (DOMAIN log \cup {NextId})]
      /\ inbox'[Bridge] \subseteq inbox[Bridge] \cup {NextId}
  <2> DEFINE W == With(NextId, log'[NextId])
  <2>1. /\ W \in [Parties -> SUBSET (DOMAIN log \cup {NextId})]
        /\ W[Bridge] \subseteq inbox[Bridge] \cup {NextId}
    BY WithFacts DEF IInv
  <2>2. inbox' = [W EXCEPT ![a] = @ \ {i}] BY <1>1
  <2>3. a \in Parties /\ Bridge \in Parties /\ a # Bridge
    BY ConversationAssumption DEF Parties
  <2> HIDE DEF W
  <2> QED BY <2>1, <2>2, <2>3
<1>6. PICK n \in Ids : SendStep(n, m)
  BY <1>1, <1>3, <1>5, SendIsStep DEF Reply, bridge, peer, LineStep
<1>7. a # Bridge BY ConversationAssumption
<1> QED BY <1>4, <1>6, <1>7, PlainSendKeeps DEF Reply, bridge

\* A broadcast of what is no answer keeps the invariant.
LEMMA ReadOtherKeeps == ASSUME IInv, ReadOther PROVE IInv'
<1> DEFINE t == IF Head(line).kind = "ask" THEN "request" ELSE "notification"
           m == Letter(t, Bridge, None, Head(line).id, None)
<1>1. /\ Record(m) /\ inbox' = With(NextId, m)
      /\ line # <<>> /\ line' = Tail(line) /\ reading /\ reading'
      /\ UNCHANGED <<calls, conn, took, link, wire, given, map>>
  BY DEF ReadOther, NextFrame, Send
<1>2. Head(line) \in Frames BY <1>1 DEF IInv, PeerOK
<1>3. Head(line).id \in Correlations /\ Head(line).id \notin Callers
  BY <1>2, ConversationAssumption DEF Frames, Correlations
<1>4. t \in Types /\ t # "response" BY DEF Types
<1>5. m \in Message
  <2> HIDE DEF t
  <2> QED BY <1>3, <1>4, Messages DEF Parties
<1>6. m.type = t /\ m.corr = Head(line).id BY DEF Letter
<1>7. UNCHANGED reading BY <1>1 DEF IInv, FlagsOK
<1> HIDE DEF m, t
<1>8. PICK n \in Ids : SendStep(n, m)
  BY <1>1, <1>5, <1>7, SendIsStep, WithFacts DEF IInv, LineStep
<1> QED BY <1>1, <1>3, <1>4, <1>6, <1>8, PlainSendKeeps

\* An answer from outside keeps the invariant.
LEMMA ReadAnswerKeeps == ASSUME IInv, ReadAnswer PROVE IInv'
<1> DEFINE id   == Head(line).id
           home == IF map \cap {id} # {} /\ log[id].from # Nobody THEN log[id].from ELSE None
           m    == Letter("response", Bridge, home, id, None)
<1>1. /\ Record(m) /\ inbox' = With(NextId, m) /\ map' = map \ (map \cap {id})
      /\ line # <<>> /\ line' = Tail(line) /\ Head(line).kind = "answer" /\ reading /\ reading'
      /\ UNCHANGED <<calls, conn, took, link, wire, given>>
  BY DEF ReadAnswer, NextFrame, Send
<1>2. id \in wire /\ log[id].type = "request"
  <2>1. 1 \in DOMAIN line /\ Head(line) = line[1] BY <1>1 DEF IInv, PeerOK
  <2> QED BY <1>1, <2>1 DEF IInv, FlowInv, LineInv
<1>3. id \in DOMAIN log /\ id \in Ids /\ log[id] \in Message
  <2>1. id \in DOMAIN log BY <1>2 DEF IInv, BridgeOK
  <2>2. /\ log \in Seq(Message) /\ DOMAIN log = 1 .. Len(log) /\ Len(log) \in Nat
        /\ Len(log) <= MaxMessages
    BY DEF IInv, LogOK
  <2> QED BY <2>1, <2>2, ConversationAssumption
<1>4. home \in Parties \cup {None, Nobody} /\ id \in Correlations
  BY <1>3 DEF Message, Correlations
<1>5. UNCHANGED reading BY <1>1 DEF IInv, FlagsOK
<1> HIDE DEF home, id
<1>6. m \in Message
  BY <1>4, Messages DEF Types, Parties
<1>7. m.type = "response" BY DEF Letter
<1>8. PICK n \in Ids : SendStep(n, m)
  <2> HIDE DEF m
  <2> QED BY <1>1, <1>5, <1>6, SendIsStep, WithFacts DEF IInv, LineStep
<1>9. AnswersInv'
  BY <1>1, <1>2, <1>8, AnswerKeeps DEF home
<1> HIDE DEF m
<1>10. /\ StoreInv' /\ FlagsOK' /\ LogOK' /\ PeerOK' /\ TakenOnce' /\ LineInv' /\ BridgeOK'
  BY <1>1, <1>8, SendStepKeeps
<1>11. CallersInv' BY <1>1, <1>7, <1>8, CallersSend DEF calls
<1>12. CallsOK' /\ FuturesInv'
  BY <1>1 DEF IInv, CallsOK, FuturesInv, FuturesSettled, InCall, calls
<1> QED BY <1>9, <1>10, <1>11, <1>12 DEF IInv, FlowInv

\* The part of a request step that is in the broker: the message, and where the call stands.
LEMMA RequestKeeps ==
    ASSUME IInv, NEW c \in Callers, NEW p \in Parties, Request(c, p)
    PROVE  IInv'
<1> DEFINE m == Letter("request", Nobody, p, c, None)
<1>1. /\ caller[c] = "idle" /\ pending' = pending \cup {c}
      /\ Record(m)
      /\ \/ inbox' = With(NextId, m) /\ caller' = [caller EXCEPT ![c] = "waiting"]
         \/ inbox' = inbox /\ caller' = [caller EXCEPT ![c] = "sending"]
      /\ UNCHANGED <<resolved, bridge, peer>>
  BY DEF Request, Send
<1>2. m \in Message
  <2>1. c \in Correlations BY DEF Correlations
  <2> QED BY <2>1, Messages DEF Types
<1>3. m.type = "request" /\ m.from = Nobody /\ m.corr = c BY DEF Letter
<1> HIDE DEF m
<1>4. /\ inbox' \in [Parties -> SUBSET (DOMAIN log \cup {NextId})]
      /\ inbox'[Bridge] \subseteq inbox[Bridge] \cup {NextId}
  <2>1. inbox \in [Parties -> SUBSET DOMAIN log] BY DEF IInv, LogOK
  <2> QED BY <1>1, <2>1, WithFacts DEF IInv
<1>5. PICK n \in Ids : SendStep(n, m)
  BY <1>1, <1>2, <1>4, SendIsStep DEF bridge, peer, LineStep
<1>6. map' = map BY <1>1 DEF bridge
<1>7. /\ StoreInv' /\ FlagsOK' /\ LogOK' /\ PeerOK' /\ TakenOnce' /\ LineInv' /\ BridgeOK'
      /\ Elements(took)' = Elements(took) /\ Elements(took) \subseteq DOMAIN log
  BY <1>5, <1>6, SendStepKeeps
<1>8. AnswersInv'
  <2>1. ~(m.type = "response" /\ m.from = Bridge) BY <1>3
  <2> QED BY <1>5, <1>6, <2>1, SendKeeps DEF IInv, FlowInv, SendStep
<1>9. CallsOK' /\ FuturesInv'
  BY <1>1 DEF IInv, CallsOK, FuturesInv, FuturesSettled, InCall
<1>10. CallersInv'
  <2>1. Numbered(n, m) /\ CallersInv BY <1>5 DEF SendStep, IInv, FlowInv
  <2>2. ASSUME NEW d \in Callers \ {c}, NEW i \in DOMAIN log', Asks(d, i)'
        PROVE  i \in DOMAIN log /\ i # n /\ Asks(d, i)
    BY <1>3, <2>1, <2>2 DEF Numbered, Asks
  <2>3. \A d \in Callers \ {c} : caller'[d] = caller[d]
    BY <1>1 DEF IInv, CallsOK, InCall
  <2>4. inbox'[Bridge] \cup Elements(took)' \subseteq
           inbox[Bridge] \cup Elements(took) \cup {n}
    BY <1>5, SendStepKeeps
  <2>5. ASSUME NEW d \in Callers \ {c}
        PROVE  /\ caller'[d] = "idle" => \A i \in DOMAIN log' : ~Asks(d, i)'
               /\ caller'[d] = "sending" =>
                     \A i \in DOMAIN log' :
                        Asks(d, i)' => i \notin inbox'[Bridge] \cup Elements(took)'
    BY <2>1, <2>2, <2>3, <2>4 DEF CallersInv
  <2>6. caller'[c] # "idle" BY <1>1 DEF IInv, CallsOK, InCall
  <2>7. ASSUME caller'[c] = "sending", NEW i \in DOMAIN log', Asks(c, i)'
        PROVE  i \notin inbox'[Bridge] \cup Elements(took)'
    <3>1. i = n
      BY <1>1, <2>1, <2>7 DEF CallersInv, Numbered, Asks
    <3>2. inbox' = inbox
      BY <1>1, <2>7 DEF IInv, CallsOK
    <3>3. inbox[Bridge] \subseteq DOMAIN log
      BY DEF IInv, LogOK, Parties
    <3> QED BY <1>7, <2>1, <3>1, <3>2, <3>3 DEF Numbered
  <2> QED BY <2>5, <2>6, <2>7 DEF CallersInv
<1> QED BY <1>7, <1>8, <1>9, <1>10 DEF IInv, FlowInv

\* The other steps of a call and set_response, once their effect on futures is known.
LEMMA CallKeeps ==
    ASSUME IInv, StillStep, TakenOnce', CallersInv', CallsOK', FuturesInv'
    PROVE  IInv'
  BY StillStepKeeps DEF IInv, FlowInv

\* The return of a blocked send keeps the invariant.
LEMMA RequestSentKeeps == ASSUME IInv, NEW c \in Callers, RequestSent(c) PROVE IInv'
<1>1. PICK i \in DOMAIN log :
         log[i].corr = c /\ log[i].type = "request" /\ inbox' = With(i, log[i])
  BY DEF RequestSent
<1>2. /\ caller[c] = "sending" /\ caller' = [caller EXCEPT ![c] = "waiting"]
      /\ UNCHANGED <<store, log, pending, resolved, bridge, peer>>
  BY DEF RequestSent
<1>3. /\ inbox' \in [Parties -> SUBSET DOMAIN log]
      /\ inbox'[Bridge] \subseteq inbox[Bridge] \cup {i}
  <2>1. DOMAIN log \cup {i} = DOMAIN log OBVIOUS
  <2> QED BY <1>1, <2>1, WithFacts DEF IInv
<1>4. StillStep
  BY <1>2, <1>3 DEF StillStep, IInv, bridge, peer, LineStep, BridgeOK, FlagsOK, PeerOK
<1>5. Elements(took)' = Elements(took) /\ log' = log
  BY <1>4, StillStepKeeps DEF StillStep
<1>6. i \notin inbox[Bridge] \cup Elements(took)
  BY <1>1, <1>2 DEF IInv, FlowInv, CallersInv, Asks
<1>7. TakenOnce'
  BY <1>3, <1>5, <1>6 DEF IInv, FlowInv, TakenOnce
<1>8. CallersInv'
  <2>1. /\ caller'[c] = "waiting" /\ \A d \in Callers \ {c} : caller'[d] = caller[d]
    BY <1>2 DEF IInv, CallsOK
  <2>2. \A d \in Callers \ {c} : ~Asks(d, i) BY <1>1 DEF Asks
  <2>3. \A d \in Callers, j \in DOMAIN log : Asks(d, j)' <=> Asks(d, j)
    BY <1>5 DEF Asks
  <2> QED BY <1>3, <1>5, <2>1, <2>2, <2>3 DEF IInv, FlowInv, CallersInv
<1>9. CallsOK' /\ FuturesInv'
  BY <1>2 DEF IInv, CallsOK, FuturesInv, FuturesSettled, InCall
<1> QED BY <1>4, <1>7, <1>8, <1>9, CallKeeps

\* Expire, Return, Cancel and SetResponse.
LEMMA CallStepKeeps ==
    ASSUME IInv, NEW c \in Callers,
           Expire(c) \/ Return(c) \/ Cancel(c) \/
           \E a \in Agents, i \in Ids : log[i].corr = c /\ SetResponse(a, i)
    PROVE  IInv'
<1>1. UNCHANGED <<store, log, inbox, bridge, peer>>
  BY DEF Expire, Return, Cancel, SetResponse
<1>2. StillStep
  BY <1>1 DEF StillStep, IInv, bridge, peer, LineStep, BridgeOK, FlagsOK, PeerOK, LogOK
<1>3. /\ CallsOK' /\ FuturesInv'
      /\ \A d \in Callers : /\ caller'[d] = "idle" => caller[d] = "idle"
                            /\ caller'[d] = "sending" => caller[d] = "sending"
  <2>1. CallsOK /\ FuturesInv BY DEF IInv
  <2>2. CASE Expire(c)
    BY <2>1, <2>2 DEF Expire, CallsOK, FuturesInv, FuturesSettled, InCall
  <2>3. CASE Return(c)
    BY <2>1, <2>3 DEF Return, CallsOK, FuturesInv, FuturesSettled, InCall
  <2>4. CASE Cancel(c)
    BY <2>1, <2>4 DEF Cancel, CallsOK, FuturesInv, FuturesSettled, InCall
  <2>5. CASE \E a \in Agents, i \in Ids : log[i].corr = c /\ SetResponse(a, i)
    <3>1. /\ c \in pending /\ pending' = pending \ {c} /\ caller' = caller
          /\ \/ resolved' = resolved \cup {c}
             \/ caller[c] \in {"expired", "cut"} /\ resolved' = resolved
      BY <2>5 DEF SetResponse
    <3> QED BY <2>1, <3>1 DEF CallsOK, FuturesInv, FuturesSettled, InCall
  <2> QED BY <2>2, <2>3, <2>4, <2>5
<1>4. TakenOnce' /\ CallersInv'
  <2>1. Elements(took)' = Elements(took) /\ UNCHANGED <<log, inbox>>
    BY <1>1, <1>2, StillStepKeeps
  <2> QED BY <1>3, <2>1, CallersStay DEF IInv, FlowInv, TakenOnce
<1> QED BY <1>2, <1>3, <1>4, CallKeeps

\* SetResponse resolves a call.
LEMMA SetResponseKeeps ==
    ASSUME IInv, NEW a \in Agents, NEW i \in Ids, SetResponse(a, i)
    PROVE  IInv'
<1>1. log[i].corr \in Callers BY DEF SetResponse, IInv, CallsOK
<1> QED BY <1>1, CallStepKeeps

\* The bridge's loop keeps the invariant.
LEMMA TakeStepKeeps == ASSUME IInv, NEW i \in Ids, Take(i) PROVE IInv'
<1>1. /\ i \in inbox[Bridge] /\ inbox' = [inbox EXCEPT ![Bridge] = @ \ {i}]
      /\ UNCHANGED <<store, log, calls, conn, reading, link, line, given>>
  BY DEF Take
<1>2. i \in DOMAIN log /\ Bridge \in Parties BY <1>1 DEF IInv, LogOK, Parties
<1>3. /\ StoreInv' /\ FlagsOK' /\ LogOK' /\ CallsOK' /\ FuturesInv'
  BY <1>1, <1>2 DEF IInv, StoreInv, StoreTypeOK, HistoriesSound, store, FlagsOK, LogOK, CallsOK,
                    FuturesInv, FuturesSettled, InCall, calls
<1>4. wire \subseteq wire' /\ wire' \subseteq wire \cup {i} BY DEF Take
<1>5. PeerOK' /\ LineInv'
  <2>1. /\ PeerOK /\ LineInv /\ LineStep /\ wire \subseteq DOMAIN log
    BY <1>1 DEF IInv, FlowInv, LineStep, BridgeOK
  <2>2. line' \in Seq(Frames) /\ LineInv' BY <1>1, <1>4, <2>1, LineKeeps
  <2> QED BY <1>1, <2>2 DEF PeerOK, IInv
<1>6. /\ AnswersInv' /\ BridgeOK'
      /\ Elements(took)' \subseteq Elements(took) \cup {i}
  <2>1. CASE log[i].type = "request"
    <3>1. took' = Append(took, i) /\ map' = (map \cup {i}) \ Beyond(map \cup {i}, took')
      BY <2>1 DEF Take
    <3> QED BY <1>1, <1>4, <3>1, TakeKeeps
  <2>2. CASE log[i].type # "request"
    <3>1. UNCHANGED <<map, took>> BY <2>2 DEF Take
    <3>2. Elements(took)' = Elements(took) BY <3>1 DEF Elements
    <3>3. BridgeOK'
      BY <1>1, <1>2, <1>4, <3>1, <3>2 DEF IInv, BridgeOK
    <3>4. WireInv'
      BY <1>1, <1>4, <2>2, <3>2 DEF IInv, FlowInv, AnswersInv, WireInv
    <3>5. MapInv' /\ AnswersKnown' /\ AnswersGoHome' /\ AnswersAreNotLeaked'
      BY <1>1, <3>1, <3>2 DEF IInv, FlowInv, AnswersInv, MapInv, AnswersKnown, AnswersGoHome,
                              AnswersAreNotLeaked, IsAnswer
    <3> QED BY <3>2, <3>3, <3>4, <3>5 DEF AnswersInv
  <2> QED BY <2>1, <2>2
<1>7. inbox'[Bridge] = inbox[Bridge] \ {i} BY <1>1, <1>2 DEF IInv, LogOK
<1>8. TakenOnce'
  BY <1>6, <1>7 DEF IInv, FlowInv, TakenOnce
<1>9. CallersInv'
  BY <1>1, <1>6, <1>7, CallersStay DEF IInv, FlowInv, calls
<1> QED BY <1>3, <1>5, <1>6, <1>8, <1>9 DEF IInv, FlowInv

\* The bridge or its peer does something that concerns no call and no request.
LEMMA IdleKeeps ==
    ASSUME IInv, StillStep, UNCHANGED calls, inbox'[Bridge] \subseteq inbox[Bridge]
    PROVE  IInv'
<1>1. Elements(took)' = Elements(took) /\ log' = log
  BY StillStepKeeps DEF StillStep
<1>2. TakenOnce' BY <1>1 DEF IInv, FlowInv, TakenOnce
<1>3. CallersInv' BY <1>1, CallersStay DEF IInv, FlowInv, calls
<1>4. CallsOK' /\ FuturesInv'
  BY DEF IInv, CallsOK, FuturesInv, FuturesSettled, InCall, calls
<1> QED BY <1>2, <1>3, <1>4, CallKeeps

\* Connecting, disconnecting and the end of the stream keep the invariant.
LEMMA ConnectionKeeps ==
    ASSUME IInv, Connect \/ ReadJunk \/ ReadEnd \/ Disconnect \/ Disconnected \/ HangUp
    PROVE  IInv'
<1>1. inbox \in [Parties -> SUBSET DOMAIN log] BY DEF IInv, LogOK
<1>2. /\ conn \in {"new", "in", "closing", "out"} /\ given \in [Ids -> Nat]
      /\ reading \in BOOLEAN /\ link \in BOOLEAN
  BY DEF IInv, BridgeOK, PeerOK, FlagsOK
<1> DEFINE Stays == StillStep /\ UNCHANGED calls /\ inbox'[Bridge] \subseteq inbox[Bridge]
<1>3. ASSUME Connect PROVE Stays
  BY <1>1, <1>2, <1>3 DEF Connect, StillStep, LineStep, peer
<1>4. ASSUME ReadJunk PROVE Stays
  BY <1>1, <1>2, <1>4 DEF ReadJunk, NextFrame, StillStep, LineStep
<1>5. ASSUME ReadEnd PROVE Stays
  BY <1>1, <1>2, <1>5 DEF ReadEnd, StillStep, LineStep, peer
<1>6. ASSUME Disconnect PROVE Stays
  BY <1>1, <1>2, <1>6 DEF Disconnect, StillStep, LineStep
<1>7. ASSUME Disconnected PROVE Stays
  <2>1. inbox' = [inbox EXCEPT ![Bridge] = {}] BY <1>7 DEF Disconnected
  <2>2. inbox' \in [Parties -> SUBSET DOMAIN log] /\ inbox'[Bridge] \subseteq inbox[Bridge]
    BY <1>1, <2>1 DEF Parties
  <2> QED BY <1>2, <1>7, <2>2 DEF Disconnected, StillStep, LineStep, peer
<1>8. ASSUME HangUp PROVE Stays
  BY <1>1, <1>2, <1>8 DEF HangUp, StillStep, LineStep, bridge
<1>9. Stays BY <1>3, <1>4, <1>5, <1>6, <1>7, <1>8
<1> QED BY <1>9, IdleKeeps

\* What the external system writes keeps the invariant.
LEMMA ExternalKeeps ==
    ASSUME IInv,
           \/ \E i \in Ids, kind \in {"answer", "null", "junk"} : ExternalAnswers(i, kind)
           \/ \E x \in Externals : ExternalAsks(x)
    PROVE  IInv'
<1>1. /\ inbox \in [Parties -> SUBSET DOMAIN log]
      /\ conn \in {"new", "in", "closing", "out"} /\ given \in [Ids -> Nat]
      /\ reading \in BOOLEAN /\ link \in BOOLEAN
  BY DEF IInv, LogOK, BridgeOK, PeerOK, FlagsOK
<1>2. ASSUME NEW i \in Ids, NEW kind \in {"answer", "null", "junk"}, ExternalAnswers(i, kind)
      PROVE  StillStep /\ UNCHANGED <<calls, inbox>>
  <2>1. given' \in [Ids -> Nat]
    BY <1>1, <1>2 DEF ExternalAnswers
  <2>2. LineStep
    <3> DEFINE f == [kind |-> kind, id |-> i]
    <3>1. f \in Frames BY DEF Frames
    <3>2. /\ line' = Append(line, f) /\ i \in wire /\ log[i].type = "request"
      BY <1>2 DEF ExternalAnswers, Write
    <3> QED BY <3>1, <3>2 DEF LineStep
  <2>3. UNCHANGED <<store, log, inbox, calls, bridge, link, wire>>
    BY <1>2 DEF ExternalAnswers, Write
  <2> QED BY <1>1, <2>1, <2>2, <2>3 DEF StillStep, bridge
<1>3. ASSUME NEW x \in Externals, ExternalAsks(x)
      PROVE  StillStep /\ UNCHANGED <<calls, inbox>>
  <2>1. LineStep
    <3> DEFINE f == [kind |-> "ask", id |-> x]
    <3>1. f \in Frames /\ f.kind # "answer" BY DEF Frames
    <3>2. line' = Append(line, f) BY <1>3 DEF ExternalAsks, Write
    <3> QED BY <3>1, <3>2 DEF LineStep
  <2>2. UNCHANGED <<store, log, inbox, calls, bridge, link, wire, given>>
    BY <1>3 DEF ExternalAsks, Write
  <2> QED BY <1>1, <2>1, <2>2 DEF StillStep, bridge
<1>4. StillStep /\ UNCHANGED <<calls, inbox>> BY <1>2, <1>3
<1> QED BY <1>4, IdleKeeps

-----------------------------------------------------------------------------
(* The theorems                                                            *)

\* The invariant holds before anything is sent.
LEMMA InitInv == Init => IInv
<1> SUFFICES ASSUME Init PROVE IInv OBVIOUS
<1>1. StoreInv BY StoreInitInv DEF Init
<1>2. Elements(took) = {} BY DEF Init, Elements
<1>3. FlagsOK /\ CallsOK BY DEF Init, FlagsOK, CallsOK, InCall
<1>4. LogOK /\ PeerOK BY ConversationAssumption DEF Init, LogOK, PeerOK
<1>5. BridgeOK
  <2>1. Cardinality(map) = 0 BY FS_EmptySet DEF Init
  <2> QED BY <1>2, <2>1, ConversationAssumption DEF Init, BridgeOK
<1>6. FuturesInv BY DEF Init, FuturesInv, FuturesSettled
<1>7. FlowInv
  <2>1. log = <<>> /\ wire = {} /\ line = <<>> /\ map = {} /\ inbox[Bridge] = {}
    BY DEF Init, Parties
  <2> QED BY <1>2, <2>1 DEF FlowInv, CallersInv, TakenOnce, LineInv, AnswersInv, WireInv, MapInv,
             AnswersKnown, AnswersGoHome, AnswersAreNotLeaked
<1> QED BY <1>1, <1>3, <1>4, <1>5, <1>6, <1>7 DEF IInv

\* Every step keeps the invariant.
LEMMA StepInv == IInv /\ [Next]_vars => IInv'
<1>1. ASSUME IInv, Next PROVE IInv'
  <2>1. CASE \E a \in Agents, corr \in Threads \cup {None} : Ask(a, corr)
    BY <1>1, <2>1, AskKeeps
  <2>2. CASE \E c \in Callers, p \in Parties : Request(c, p)
    BY <1>1, <2>2, RequestKeeps
  <2>3. CASE \E c \in Callers : RequestSent(c)
    BY <1>1, <2>3, RequestSentKeeps
  <2>4. CASE \E c \in Callers : Expire(c) \/ Return(c) \/ Cancel(c)
    BY <1>1, <2>4, CallStepKeeps
  <2>5. CASE \E a \in Agents, i \in Ids : SetResponse(a, i)
    BY <1>1, <2>5, SetResponseKeeps
  <2>6. CASE \E a \in Agents, i \in Ids, type \in {"response", "error"} : Reply(a, i, type)
    BY <1>1, <2>6, ReplyKeeps
  <2>7. CASE \E i \in Ids : Take(i)
    BY <1>1, <2>7, TakeStepKeeps
  <2>8. CASE ReadAnswer
    BY <1>1, <2>8, ReadAnswerKeeps
  <2>9. CASE ReadOther
    BY <1>1, <2>9, ReadOtherKeeps
  <2>10. CASE Connect \/ ReadJunk \/ ReadEnd \/ Disconnect \/ Disconnected \/ HangUp
    BY <1>1, <2>10, ConnectionKeeps
  <2>11. CASE \/ \E i \in Ids, kind \in {"answer", "null", "junk"} : ExternalAnswers(i, kind)
              \/ \E x \in Externals : ExternalAsks(x)
    BY <1>1, <2>11, ExternalKeeps
  <2> QED BY <1>1, <2>1, <2>2, <2>3, <2>4, <2>5, <2>6, <2>7, <2>8, <2>9, <2>10, <2>11 DEF Next
<1>2. ASSUME IInv, UNCHANGED vars PROVE IInv'
  <2>1. UNCHANGED <<store, log, inbox, calls, bridge, peer>> BY <1>2 DEF vars
  <2>2. StillStep
    BY <1>2, <2>1 DEF StillStep, IInv, bridge, peer, LineStep, BridgeOK, FlagsOK, PeerOK, LogOK
  <2> QED BY <1>2, <2>1, <2>2, IdleKeeps
<1> QED BY <1>1, <1>2

\* The invariant holds in every state.
LEMMA Invariance == Spec => []IInv
  BY InitInv, StepInv, PTL DEF Spec

\* Types are kept, and the bridge remembers at most MapSize requests.
THEOREM TypeCorrect == Spec => []TypeOK
<1>1. IInv => TypeOK
  BY DEF IInv, StoreInv, FlagsOK, LogOK, CallsOK, BridgeOK, PeerOK, TypeOK
<1> QED BY <1>1, Invariance, PTL

\* No end of a call of request leaves a future behind, and none loses a result.
THEOREM Settled == Spec => []FuturesSettled
<1>1. IInv => FuturesSettled BY DEF IInv, FuturesInv
<1> QED BY <1>1, Invariance, PTL

\* An addressed answer reaches the agent that asked, once.
THEOREM GoHome == Spec => []AnswersGoHome
<1>1. IInv => AnswersGoHome BY DEF IInv, FlowInv, AnswersInv
<1> QED BY <1>1, Invariance, PTL

\* An answer is broadcast only for a stated reason.
THEOREM NotLeaked == Spec => []AnswersAreNotLeaked
<1>1. IInv => AnswersAreNotLeaked BY DEF IInv, FlowInv, AnswersInv
<1> QED BY <1>1, Invariance, PTL

\* Sending is the only step that touches the store, and it does what Store says.
LEMMA StoreStep == Next => StoreNext \/ UNCHANGED storeVars
<1> SUFFICES ASSUME Next PROVE StoreNext \/ UNCHANGED storeVars OBVIOUS
<1>1. ASSUME NEW m, Record(m) PROVE StoreNext
  BY <1>1 DEF Record, StoreNext
<1>2. ASSUME NEW m, Send(m) PROVE StoreNext
  BY <1>1, <1>2 DEF Send
<1>3. CASE \E a \in Agents, corr \in Threads \cup {None} : Ask(a, corr)
  BY <1>2, <1>3 DEF Ask
<1>4. CASE \E c \in Callers, p \in Parties : Request(c, p)
  BY <1>1, <1>2, <1>4 DEF Request
<1>5. CASE \E c \in Callers : RequestSent(c) \/ Expire(c) \/ Return(c) \/ Cancel(c)
  BY <1>5 DEF RequestSent, Expire, Return, Cancel, store, storeVars
<1>6. CASE \E a \in Agents, i \in Ids : SetResponse(a, i)
  BY <1>6 DEF SetResponse, store, storeVars
<1>7. CASE \E a \in Agents, i \in Ids, type \in {"response", "error"} : Reply(a, i, type)
  BY <1>1, <1>7 DEF Reply
<1>8. CASE \E i \in Ids : Take(i)
  BY <1>8 DEF Take, store, storeVars
<1>9. CASE ReadAnswer \/ ReadOther
  BY <1>2, <1>9 DEF ReadAnswer, ReadOther
<1>10. CASE Connect \/ ReadJunk \/ ReadEnd \/ Disconnect \/ Disconnected \/ HangUp
  BY <1>10 DEF Connect, ReadJunk, ReadEnd, Disconnect, Disconnected, HangUp, store, storeVars
<1>11. CASE \/ \E i \in Ids, kind \in {"answer", "null", "junk"} : ExternalAnswers(i, kind)
            \/ \E x \in Externals : ExternalAsks(x)
  BY <1>11 DEF ExternalAnswers, ExternalAsks, Write, store, storeVars
<1> QED BY <1>3, <1>4, <1>5, <1>6, <1>7, <1>8, <1>9, <1>10, <1>11 DEF Next

\* The store of a conversation is a Store, used by save_message only.
THEOREM ImplementsStore == Spec => StoreSpec
<1>1. Init => StoreInit BY DEF Init
<1>2. [Next]_vars => [StoreNext]_storeVars
  BY StoreStep DEF vars, store, storeVars
<1> QED BY <1>1, <1>2, PTL DEF Spec, StoreSpec

-----------------------------------------------------------------------------
(* Histories                                                               *)

\* A history is rising, and lacks only what is older than all it lists, once it is full.
Newest(k) ==
    LET s == history[k] IN
    /\ \A x, y \in 1 .. Len(s) : x < y => s[x] < s[y]
    /\ Elements(s) \subseteq Concerns(k)
    /\ \A j \in Concerns(k) \ Elements(s) :
          Len(s) = MaxHistory /\ \A i \in Elements(s) : j < i

HistInv == \A k \in Keys : Newest(k)

\* The end of a sequence, from the place after d on.
LEMMA EndOfSequence ==
    ASSUME NEW S, NEW s \in Seq(S), NEW d \in 0 .. Len(s)
    PROVE  LET t == SubSeq(s, d + 1, Len(s))
           IN  /\ Len(t) = Len(s) - d
               /\ \A x \in 1 .. Len(t) : t[x] = s[x + d]
               /\ \A e : e \in Elements(t) <=> \E q \in d + 1 .. Len(s) : e = s[q]
<1> DEFINE t == SubSeq(s, d + 1, Len(s))
<1>1. Len(t) = Len(s) - d /\ \A x \in 1 .. Len(s) - d : t[x] = s[x + d]
  OBVIOUS
<1> HIDE DEF t
<1>2. ASSUME NEW x \in 1 .. Len(t) PROVE x + d \in d + 1 .. Len(s) /\ t[x] = s[x + d]
  BY <1>1
<1>3. ASSUME NEW q \in d + 1 .. Len(s) PROVE q - d \in 1 .. Len(t) /\ t[q - d] = s[q]
  BY <1>1
<1>4. \A e : e \in Elements(t) <=> \E q \in d + 1 .. Len(s) : e = s[q]
  BY <1>2, <1>3 DEF Elements
<1> QED BY <1>1, <1>4 DEF t

\* What Read gives is the end of the history.
LEMMA ReadIsEnd ==
    ASSUME NEW k \in Keys, history[k] \in Seq(Ids), NEW n \in Nat \ {0}
    PROVE  \E d \in 0 .. Len(history[k]) :
              /\ Read(k, n) = SubSeq(history[k], d + 1, Len(history[k]))
              /\ \A p \in 1 .. Len(history[k]) : p > d <=> Len(history[k]) - p < n
<1>1. Len(history[k]) \in Nat OBVIOUS
<1>2. CASE n > Len(history[k])
  <2>1. Read(k, n) = history[k] BY <1>2 DEF Read
  <2>2. SubSeq(history[k], 0 + 1, Len(history[k])) = history[k] BY SubSeqFull
  <2>3. \A p \in 1 .. Len(history[k]) : p > 0 <=> Len(history[k]) - p < n
    BY <1>1, <1>2
  <2> QED BY <1>1, <2>1, <2>2, <2>3
<1>3. CASE ~(n > Len(history[k]))
  <2>1. Read(k, n) = SubSeq(history[k], Len(history[k]) - n + 1, Len(history[k]))
    BY <1>3 DEF Read
  <2>2. Len(history[k]) - n \in 0 .. Len(history[k]) BY <1>1, <1>3
  <2>3. \A p \in 1 .. Len(history[k]) :
           p > Len(history[k]) - n <=> Len(history[k]) - p < n
    BY <1>1, <1>3
  <2> QED BY <2>1, <2>2, <2>3
<1> QED BY <1>2, <1>3

\* A message is entered at the end of the histories it concerns.
LEMMA RecordKeepsNewest ==
    ASSUME StoreInv, LogOK, HistInv, NEW m \in Message, Record(m), NEW k \in Keys
    PROVE  Newest(k)'
<1> DEFINE K == {m.from, m.to, m.corr} \cap Keys
           s == history[k]
<1>1. PICK n \in Ids : Numbered(n, m) BY Recorded
<1>2. Save(n, K) BY <1>1 DEF Record, Numbered
<1>3. Concerns(k)' = IF k \in K THEN Concerns(k) \cup {n} ELSE Concerns(k)
  BY <1>1 DEF Concerns, Numbered
<1>4. /\ Newest(k) /\ s \in Seq(Ids) /\ Len(s) <= MaxHistory /\ members[k] = Elements(s)
      /\ Distinct(s)
  BY DEF HistInv, StoreInv, StoreTypeOK, HistoriesSound, Distinct
<1>5. Concerns(k) \subseteq DOMAIN log /\ n \notin members[k]
  BY <1>1, <1>4 DEF Concerns, Newest, Numbered
<1>6. CASE k \notin K
  <2>1. history'[k] = s BY <1>2, <1>6 DEF Save
  <2> QED BY <1>3, <1>4, <1>6, <2>1 DEF Newest, Elements
<1>7. CASE k \in K
  <2> DEFINE r == Kept(k)
  <2>1. history'[k] = Append(r, n) BY <1>2, <1>5, <1>7 DEF Save
  <2>2. r \in Seq(Ids) /\ Len(r) < MaxHistory BY KeptInStep
  <2>3. /\ \A x, y \in 1 .. Len(r) : x < y => r[x] < r[y]
        /\ Elements(r) \subseteq Concerns(k)
        /\ \A j \in Concerns(k) \ Elements(r) :
              Len(r) + 1 = MaxHistory /\ \A i \in Elements(r) : j < i
    <3>1. CASE Full(k)
      <4>1. /\ Len(s) = MaxHistory /\ Len(s) \in Nat /\ Len(s) > 0 /\ r = Tail(s)
        BY <1>4, <3>1, StoreAssumption DEF Full, Kept
      <4>2. /\ Len(r) = Len(s) - 1 /\ Elements(r) = Elements(s) \ {Head(s)} /\ Head(s) = s[1]
            /\ \A x \in 1 .. Len(r) : r[x] = s[x + 1]
        BY <1>4, <4>1, TailOfDistinct
      <4>3. \A x, y \in 1 .. Len(r) : x < y => r[x] < r[y]
        <5> TAKE x, y \in 1 .. Len(r)
        <5>1. x + 1 \in 1 .. Len(s) /\ y + 1 \in 1 .. Len(s) BY <4>1, <4>2
        <5>2. r[x] = s[x + 1] /\ r[y] = s[y + 1] BY <4>2
        <5>3. \A u, v \in 1 .. Len(s) : u < v => s[u] < s[v] BY <1>4 DEF Newest
        <5>4. x < y => x + 1 < y + 1 BY <4>1, <4>2
        <5> HIDE DEF r, s
        <5> QED BY <5>1, <5>2, <5>3, <5>4
      <4>4. \A i \in Elements(r) : Head(s) < i
        <5> TAKE i \in Elements(r)
        <5>1. PICK x \in 1 .. Len(r) : i = r[x] BY DEF Elements
        <5>2. 1 \in 1 .. Len(s) /\ x + 1 \in 1 .. Len(s) /\ 1 < x + 1
          BY <4>1, <4>2
        <5> QED BY <1>4, <4>2, <5>1, <5>2 DEF Newest
      <4>5. ASSUME NEW j \in Concerns(k) \ Elements(r), NEW i \in Elements(r) PROVE j < i
        <5>1. CASE j = Head(s) BY <4>4, <5>1
        <5>2. CASE j # Head(s) BY <1>4, <4>2, <5>2 DEF Newest
        <5> QED BY <5>1, <5>2
      <4>6. Len(r) + 1 = MaxHistory BY <4>1, <4>2
      <4>7. Elements(r) \subseteq Concerns(k) BY <1>4, <4>2 DEF Newest
      <4> QED BY <4>3, <4>5, <4>6, <4>7
    <3>2. CASE ~Full(k)
      <4>1. r = s /\ Len(s) # MaxHistory BY <3>2 DEF Full, Kept
      <4> QED BY <1>4, <4>1 DEF Newest
    <3> QED BY <3>1, <3>2
  <2>4. \A i \in Concerns(k) : i \in Nat /\ i < n
    BY <1>1, <1>5 DEF Numbered
  <2> DEFINE t == Append(r, n)
  <2> HIDE DEF r
  <2>5. /\ Len(t) = Len(r) + 1 /\ Len(r) \in Nat /\ t[Len(r) + 1] = n
        /\ \A x \in 1 .. Len(r) : t[x] = r[x] /\ r[x] \in Elements(r)
        /\ Elements(t) = Elements(r) \cup {n}
    BY <2>2, AppendToDistinct DEF Elements
  <2> HIDE DEF t
  <2>6. \A x, y \in 1 .. Len(t) : x < y => t[x] < t[y]
    <3> SUFFICES ASSUME NEW x \in 1 .. Len(t), NEW y \in 1 .. Len(t), x < y
                 PROVE  t[x] < t[y]
      OBVIOUS
    <3>1. x \in 1 .. Len(r) BY <2>5
    <3>2. CASE y = Len(r) + 1 BY <2>3, <2>4, <2>5, <3>1, <3>2
    <3>3. CASE y \in 1 .. Len(r) BY <2>3, <2>5, <3>1, <3>3
    <3> QED BY <2>5, <3>2, <3>3
  <2>7. ASSUME NEW j \in (Concerns(k) \cup {n}) \ Elements(t)
        PROVE  Len(t) = MaxHistory /\ \A i \in Elements(t) : j < i
    <3>1. j \in Concerns(k) \ Elements(r) BY <2>5
    <3> QED BY <2>3, <2>4, <2>5, <3>1
  <2>8. /\ history'[k] = t /\ Concerns(k)' = Concerns(k) \cup {n}
        /\ Elements(t) \subseteq Concerns(k) \cup {n}
    BY <1>3, <1>7, <2>1, <2>3, <2>5 DEF t, r
  <2> QED BY <2>6, <2>7, <2>8 DEF Newest, Elements
<1> QED BY <1>6, <1>7

\* Of the elements of a rising sequence, Len(s) - p are greater than the one in place p.
LEMMA CountGreater ==
    ASSUME NEW S, S \subseteq Nat, NEW s \in Seq(S),
           \A x, y \in 1 .. Len(s) : x < y => s[x] < s[y],
           NEW p \in 1 .. Len(s)
    PROVE  Cardinality({j \in Elements(s) : j > s[p]}) = Len(s) - p
<1> DEFINE Places  == p + 1 .. Len(s)
           Greater == {j \in Elements(s) : j > s[p]}
           at      == [q \in Places |-> s[q]]
<1>0. Len(s) \in Nat /\ p \in Nat /\ \A q \in 1 .. Len(s) : s[q] \in Nat
  <2>1. Len(s) \in Nat OBVIOUS
  <2>2. p \in Nat BY <2>1
  <2>3. ASSUME NEW q \in 1 .. Len(s) PROVE s[q] \in Nat
    <3>1. s[q] \in S OBVIOUS
    <3> QED BY <3>1
  <2> QED BY <2>1, <2>2, <2>3
<1>1. ASSUME NEW q \in Places
      PROVE  q \in 1 .. Len(s) /\ s[q] > s[p] /\ s[q] \in Nat
  <2>1. q \in 1 .. Len(s) /\ p < q BY <1>0
  <2>2. s[p] < s[q] BY <2>1
  <2> QED BY <1>0, <2>1, <2>2
<1>2. at \in [Places -> Greater]
  BY <1>1 DEF Elements
<1>3. \A x, y \in Places : at[x] = at[y] => x = y
  <2> SUFFICES ASSUME NEW x \in Places, NEW y \in Places, s[x] = s[y] PROVE x = y
    OBVIOUS
  <2>1. ~(x < y) /\ ~(y < x) BY <1>1
  <2> QED BY <2>1
<1>4. \A j \in Greater : \E q \in Places : at[q] = j
  <2> TAKE j \in Greater
  <2>1. PICK q \in 1 .. Len(s) : s[q] = j BY DEF Elements
  <2>2. q \in Places
    <3>1. s[q] > s[p] /\ s[q] \in Nat /\ s[p] \in Nat BY <1>0, <2>1
    <3>2. ~(q < p) /\ q # p BY <3>1
    <3> QED BY <1>0, <3>2
  <2> QED BY <2>1, <2>2
<1>5. /\ IsFiniteSet(Places)
      /\ Cardinality(Places) = IF p + 1 > Len(s) THEN 0 ELSE Len(s) - (p + 1) + 1
  <2>1. p + 1 \in Int /\ Len(s) \in Int BY <1>0
  <2> QED BY <2>1, FS_Interval
<1> HIDE DEF at, Greater
<1>6. at \in Bijection(Places, Greater)
  BY <1>2, <1>3, <1>4 DEF Bijection, Injection, Surjection, IsInjective
<1>7. Cardinality(Greater) = Cardinality(Places)
  BY <1>5, <1>6, FS_Bijection DEF ExistsBijection
<1> QED BY <1>0, <1>5, <1>7 DEF Greater

\* The newest messages of a history are what get_history returns.
LEMMA NewestAreRead ==
    ASSUME StoreInv, LogOK, NEW k \in Keys, Newest(k), NEW n \in 1 .. MaxHistory
    PROVE  /\ Elements(Read(k, n)) =
                 {i \in Concerns(k) : Cardinality({j \in Concerns(k) : j > i}) < n}
           /\ \A x, y \in 1 .. Len(Read(k, n)) : x < y => Read(k, n)[x] < Read(k, n)[y]
<1> DEFINE s == history[k]
           t == Read(k, n)
           Later(i) == {j \in Concerns(k) : j > i}
<1>1. /\ s \in Seq(Ids) /\ Len(s) \in Nat /\ Len(s) <= MaxHistory
      /\ n \in Nat \ {0} /\ n <= MaxHistory /\ Ids \subseteq Nat
      /\ \A q \in 1 .. Len(s) : s[q] \in Nat
  <2>1. /\ s \in Seq(Ids) /\ Len(s) \in Nat /\ Len(s) <= MaxHistory
        /\ n \in Nat \ {0} /\ n <= MaxHistory /\ Ids \subseteq Nat
    BY StoreAssumption, ConversationAssumption DEF StoreInv, StoreTypeOK, HistoriesSound
  <2>2. \A q \in 1 .. Len(s) : s[q] \in Ids
    <3> HIDE DEF s
    <3> QED BY <2>1
  <2> QED BY <2>1, <2>2
<1>2. PICK d \in 0 .. Len(s) :
         /\ Read(k, n) = SubSeq(s, d + 1, Len(s))
         /\ \A p \in 1 .. Len(s) : p > d <=> Len(s) - p < n
  BY <1>1, ReadIsEnd
<1>3. /\ \A x, y \in 1 .. Len(s) : x < y => s[x] < s[y]
      /\ Elements(s) \subseteq Concerns(k)
      /\ \A j \in Concerns(k) \ Elements(s) :
            Len(s) = MaxHistory /\ \A i \in Elements(s) : j < i
  BY DEF Newest
<1>4. Concerns(k) \subseteq Nat /\ IsFiniteSet(Concerns(k))
  <2>1. DOMAIN log = 1 .. Len(log) /\ Len(log) \in Nat BY DEF LogOK
  <2>2. IsFiniteSet(1 .. Len(log)) BY <2>1, FS_Interval
  <2>3. Concerns(k) \subseteq 1 .. Len(log) BY <2>1 DEF Concerns
  <2> QED BY <2>1, <2>2, <2>3, FS_Subset
<1> HIDE DEF t, s
<1>5. t = SubSeq(s, d + 1, Len(s)) BY <1>2 DEF t
<1>6. /\ Len(t) = Len(s) - d
      /\ \A x \in 1 .. Len(t) : t[x] = s[x + d]
      /\ \A e : e \in Elements(t) <=> \E q \in d + 1 .. Len(s) : e = s[q]
  BY <1>1, <1>5, EndOfSequence
<1>7. \A x, y \in 1 .. Len(t) : x < y => t[x] < t[y]
  <2> SUFFICES ASSUME NEW x \in 1 .. Len(t), NEW y \in 1 .. Len(t), x < y PROVE t[x] < t[y]
    OBVIOUS
  <2>1. x + d \in 1 .. Len(s) /\ y + d \in 1 .. Len(s) /\ x + d < y + d
    BY <1>1, <1>6
  <2> QED BY <1>3, <1>6, <2>1
<1>8. ASSUME NEW p \in 1 .. Len(s)
      PROVE  s[p] \in Concerns(k) /\ Cardinality(Later(s[p])) = Len(s) - p
  <2>1. s[p] \in Elements(s) BY DEF Elements
  <2>2. \A j \in Concerns(k) \ Elements(s) : ~(j > s[p])
    BY <1>1, <1>3, <1>4, <2>1
  <2>3. Later(s[p]) = {j \in Elements(s) : j > s[p]} BY <1>3, <2>2
  <2>4. Cardinality({j \in Elements(s) : j > s[p]}) = Len(s) - p
    BY <1>1, <1>3, CountGreater
  <2> QED BY <1>3, <2>1, <2>3, <2>4
<1>9. ASSUME NEW i \in Concerns(k) \ Elements(s)
      PROVE  ~(Cardinality(Later(i)) < n)
  <2>1. Len(s) = MaxHistory /\ \A j \in Elements(s) : i < j BY <1>3
  <2>2. MaxHistory \in Nat \ {0} BY StoreAssumption
  <2>3. 1 \in 1 .. Len(s) BY <2>1, <2>2
  <2>4. s[1] \in Elements(s) /\ s[1] \in Nat BY <1>1, <2>3 DEF Elements
  <2>5. Cardinality(Later(s[1])) = Len(s) - 1 BY <1>8, <2>3
  <2>6. /\ s[1] \notin Later(s[1])
        /\ Later(s[1]) \cup {s[1]} \subseteq Later(i)
    BY <1>3, <1>4, <2>1, <2>4
  <2>7. IsFiniteSet(Later(i)) /\ IsFiniteSet(Later(s[1])) BY <1>4, FS_Subset
  <2>8. Cardinality(Later(s[1]) \cup {s[1]}) = Len(s)
    <3>1. Cardinality(Later(s[1]) \cup {s[1]}) = Cardinality(Later(s[1])) + 1
      BY <2>6, <2>7, FS_AddElement
    <3> QED BY <1>1, <2>5, <3>1
  <2>9. Len(s) <= Cardinality(Later(i)) /\ Cardinality(Later(i)) \in Nat
    BY <2>6, <2>7, <2>8, FS_Subset, FS_CardinalityType
  <2> QED BY <1>1, <2>1, <2>9
<1>10. ASSUME NEW i \in Concerns(k)
       PROVE  i \in Elements(t) <=> Cardinality(Later(i)) < n
  <2>1. CASE i \notin Elements(s)
    <3>1. i \notin Elements(t) BY <1>2, <1>6, <2>1 DEF Elements
    <3> QED BY <1>9, <2>1, <3>1
  <2>2. CASE i \in Elements(s)
    <3>1. PICK p \in 1 .. Len(s) : i = s[p] BY <2>2 DEF Elements
    <3>2. Cardinality(Later(i)) = Len(s) - p BY <1>8, <3>1
    <3>3. Len(s) - p < n <=> p > d BY <1>2, <3>1
    <3>4. i \in Elements(t) <=> p > d
      <4>1. ASSUME p > d PROVE i \in Elements(t)
        <5>1. p \in d + 1 .. Len(s) BY <1>1, <1>2, <4>1
        <5> QED BY <1>6, <3>1, <5>1
      <4>2. ASSUME i \in Elements(t) PROVE p > d
        <5>1. PICK q \in d + 1 .. Len(s) : i = s[q] BY <1>6, <4>2
        <5>2. q \in 1 .. Len(s) /\ s[q] \in Nat /\ s[p] \in Nat /\ s[p] = s[q]
          BY <1>1, <1>2, <3>1, <5>1
        <5>3. ~(p < q) BY <1>3, <5>2
        <5> QED BY <1>1, <1>2, <5>1, <5>3
      <4> QED BY <4>1, <4>2
    <3> QED BY <3>2, <3>3, <3>4
  <2> QED BY <2>1, <2>2
<1>11. Elements(t) \subseteq Concerns(k)
  BY <1>2, <1>3, <1>6 DEF Elements
<1>12. Elements(t) = {i \in Concerns(k) : Cardinality(Later(i)) < n}
  BY <1>10, <1>11
<1> QED BY <1>7, <1>12 DEF t

\* What is recorded is a message, and nothing else touches log and histories.
LEMMA SendingSteps ==
    ASSUME IInv, Next
    PROVE  (\E m \in Message : Record(m)) \/ UNCHANGED <<history, log>>
<1>1. CASE \E a \in Agents, corr \in Threads \cup {None} : Ask(a, corr)
  <2>1. PICK a \in Agents, corr \in Threads \cup {None} : Ask(a, corr) BY <1>1
  <2> DEFINE c == IF corr = None THEN NextId ELSE corr
  <2>2. Record(Letter("request", a, Bridge, c, None)) /\ NextId \in Ids
    BY <2>1 DEF Ask, Send, Record
  <2>3. c \in Correlations BY <2>2 DEF Correlations
  <2> HIDE DEF c
  <2> QED BY <2>2, <2>3, Messages DEF Types, Parties
<1>2. CASE \E c \in Callers, p \in Parties : Request(c, p)
  <2>1. PICK c \in Callers, p \in Parties : Request(c, p) BY <1>2
  <2>2. Record(Letter("request", Nobody, p, c, None)) BY <2>1 DEF Request, Send
  <2>3. c \in Correlations BY DEF Correlations
  <2> QED BY <2>2, <2>3, Messages DEF Types
<1>3. CASE \E a \in Agents, i \in Ids, type \in {"response", "error"} : Reply(a, i, type)
  <2>1. PICK a \in Agents, i \in Ids, type \in {"response", "error"} : Reply(a, i, type)
    BY <1>3
  <2>2. Record(Letter(type, a, log[i].from, log[i].corr, i)) /\ i \in DOMAIN log
    BY <2>1 DEF Reply, IInv, LogOK, Parties
  <2>3. log[i] \in Message BY <2>2 DEF IInv, LogOK
  <2> QED BY <2>2, <2>3, Messages DEF Message, Types, Parties
<1>4. CASE ReadAnswer \/ ReadOther
  <2> DEFINE id == Head(line).id
  <2>1. line # <<>> BY <1>4 DEF ReadAnswer, ReadOther, NextFrame
  <2>2. Head(line) \in Frames /\ Head(line) = line[1] /\ 1 \in DOMAIN line
    BY <2>1 DEF IInv, PeerOK
  <2>3. id \in Correlations BY <2>2 DEF Frames, Correlations
  <2>4. PICK type \in Types, home \in Parties \cup {None, Nobody} :
               Record(Letter(type, Bridge, home, id, None))
    <3>1. CASE ReadOther
      <4>1. PICK type \in Types : Record(Letter(type, Bridge, None, id, None))
        BY <3>1 DEF ReadOther, Send, Types
      <4> QED BY <4>1
    <3>2. CASE ReadAnswer
      <4> DEFINE home == IF map \cap {id} # {} /\ log[id].from # Nobody
                         THEN log[id].from ELSE None
      <4>1. Record(Letter("response", Bridge, home, id, None)) /\ Head(line).kind = "answer"
        BY <3>2 DEF ReadAnswer, Send
      <4>2. id \in DOMAIN log
        BY <2>2, <4>1 DEF IInv, FlowInv, LineInv, BridgeOK
      <4>3. log[id] \in Message BY <4>2 DEF IInv, LogOK
      <4>4. home \in Parties \cup {None, Nobody} BY <4>3 DEF Message
      <4>5. "response" \in Types BY DEF Types
      <4> HIDE DEF home
      <4> QED BY <4>1, <4>4, <4>5
    <3> QED BY <1>4, <3>1, <3>2
  <2> HIDE DEF id
  <2> QED BY <2>3, <2>4, Messages DEF Parties
<1>5. CASE \E c \in Callers : RequestSent(c) \/ Expire(c) \/ Return(c) \/ Cancel(c)
  BY <1>5 DEF RequestSent, Expire, Return, Cancel, store
<1>6. CASE \E a \in Agents, i \in Ids : SetResponse(a, i)
  BY <1>6 DEF SetResponse, store
<1>7. CASE \E i \in Ids : Take(i)
  BY <1>7 DEF Take, store
<1>8. CASE Connect \/ ReadJunk \/ ReadEnd \/ Disconnect \/ Disconnected \/ HangUp
  BY <1>8 DEF Connect, ReadJunk, ReadEnd, Disconnect, Disconnected, HangUp, store
<1>9. CASE \/ \E i \in Ids, kind \in {"answer", "null", "junk"} : ExternalAnswers(i, kind)
           \/ \E x \in Externals : ExternalAsks(x)
  BY <1>9 DEF ExternalAnswers, ExternalAsks, Write, store
<1> QED BY <1>1, <1>2, <1>3, <1>4, <1>5, <1>6, <1>7, <1>8, <1>9 DEF Next

\* Histories are empty at first.
LEMMA HistInit == Init => HistInv
  BY DEF Init, StoreInit, HistInv, Newest, Elements, Concerns

\* Every step keeps the newest messages in the histories.
LEMMA HistStep == IInv /\ HistInv /\ [Next]_vars => HistInv'
<1>1. ASSUME IInv, HistInv, NEW m \in Message, Record(m) PROVE HistInv'
  BY <1>1, RecordKeepsNewest DEF HistInv, IInv
<1>2. ASSUME HistInv, UNCHANGED <<history, log>> PROVE HistInv'
  BY <1>2 DEF HistInv, Newest, Concerns
<1>3. IInv /\ Next =>
         (\E m \in Message : Record(m)) \/ UNCHANGED <<history, log>>
  BY SendingSteps
<1>4. UNCHANGED vars => UNCHANGED <<history, log>> BY DEF vars, store
<1> QED BY <1>1, <1>2, <1>3, <1>4

\* get_history and get_conversation return the newest messages, in order.
THEOREM Recent == Spec => []HistoryIsRecent
<1>1. IInv /\ HistInv => HistoryIsRecent
  BY NewestAreRead DEF IInv, StoreInv, HistInv, HistoryIsRecent
<1>2. Spec => []HistInv
  BY Invariance, HistInit, HistStep, PTL DEF Spec
<1> QED BY <1>1, <1>2, Invariance, PTL

-----------------------------------------------------------------------------
(* What LinesAreRead rests on: the reading loop outlives whatever it reads *)

\* Between connect and disconnect the reading loop ends for one reason only: the stream
\* has ended, so that nothing is left to read and nothing more will come.
ReaderInv == conn = "in" => reading \/ (line = <<>> /\ ~link)

\* While there is a line the loop is there to read it, and whatever the line is, it is of a
\* kind that one of the three ways of handling a frame deals with.
ReadingGoesOn ==
    conn = "in" /\ line # <<>> /\ Len(log) < MaxMessages =>
        /\ reading /\ NextId \in Ids
        /\ Head(line).kind \in {"answer", "null", "ask", "junk"}

\* A connected bridge loses no frame: a step reads the first, appends one, or neither; and
\* a frame that is read leaves the loop running.
LinesRunOut ==
    [][conn = "in" /\ conn' = "in" =>
        \/ line' = line
        \/ line # <<>> /\ line' = Tail(line) /\ reading /\ reading'
        \/ \E f \in Frames : line' = Append(line, f)]_vars

\* Agents, callers and the bridge's own loop leave the stream and its reader alone.
LEMMA OthersKeepStream ==
    ASSUME \/ \E a \in Agents, corr \in Threads \cup {None} : Ask(a, corr)
           \/ \E c \in Callers, p \in Parties : Request(c, p)
           \/ \E c \in Callers : RequestSent(c) \/ Expire(c) \/ Return(c) \/ Cancel(c)
           \/ \E a \in Agents, i \in Ids : SetResponse(a, i)
           \/ \E a \in Agents, i \in Ids, type \in {"response", "error"} : Reply(a, i, type)
           \/ \E i \in Ids : Take(i)
           \/ UNCHANGED vars
    PROVE  UNCHANGED <<conn, reading, link, line>>
<1>1. CASE \E a \in Agents, corr \in Threads \cup {None} : Ask(a, corr)
  BY <1>1 DEF Ask, bridge, peer
<1>2. CASE \E c \in Callers, p \in Parties : Request(c, p)
  BY <1>2 DEF Request, bridge, peer
<1>3. CASE \E c \in Callers : RequestSent(c) \/ Expire(c) \/ Return(c) \/ Cancel(c)
  BY <1>3 DEF RequestSent, Expire, Return, Cancel, bridge, peer
<1>4. CASE \E a \in Agents, i \in Ids : SetResponse(a, i)
  BY <1>4 DEF SetResponse, bridge, peer
<1>5. CASE \E a \in Agents, i \in Ids, type \in {"response", "error"} : Reply(a, i, type)
  BY <1>5 DEF Reply, bridge, peer
<1>6. CASE \E i \in Ids : Take(i)
  BY <1>6 DEF Take
<1>7. CASE UNCHANGED vars
  BY <1>7 DEF vars, bridge, peer
<1> QED BY <1>1, <1>2, <1>3, <1>4, <1>5, <1>6, <1>7

\* Only the end of the stream ends the loop.
LEMMA ReaderStep ==
    ASSUME IInv, ReaderInv, [Next]_vars
    PROVE  ReaderInv'
<1>0. line \in Seq(Frames) BY DEF IInv, PeerOK
<1>1. CASE Connect \/ ReadEnd \/ Disconnect \/ Disconnected
  BY <1>1 DEF Connect, ReadEnd, Disconnect, Disconnected, ReaderInv, peer
<1>2. CASE ReadAnswer \/ ReadOther \/ ReadJunk
  <2>1. reading' = TRUE
    BY <1>2 DEF ReadAnswer, ReadOther, ReadJunk, NextFrame
  <2> QED BY <2>1 DEF ReaderInv
<1>3. ASSUME NEW id, NEW kind, Write(kind, id)
      PROVE  ReaderInv'
  <2>1. link /\ conn' = conn /\ reading' = reading
    BY <1>3 DEF Write, bridge
  <2> QED BY <2>1 DEF ReaderInv
<1>4. CASE HangUp
  BY <1>4 DEF HangUp, bridge, ReaderInv
<1>5. CASE UNCHANGED <<conn, reading, link, line>>
  BY <1>5 DEF ReaderInv
<1>6. ASSUME \/ \E a \in Agents, corr \in Threads \cup {None} : Ask(a, corr)
             \/ \E c \in Callers, p \in Parties : Request(c, p)
             \/ \E c \in Callers : RequestSent(c) \/ Expire(c) \/ Return(c) \/ Cancel(c)
             \/ \E a \in Agents, i \in Ids : SetResponse(a, i)
             \/ \E a \in Agents, i \in Ids, type \in {"response", "error"} : Reply(a, i, type)
             \/ \E i \in Ids : Take(i)
             \/ UNCHANGED vars
      PROVE  UNCHANGED <<conn, reading, link, line>>
  BY <1>6, OthersKeepStream
<1> QED BY <1>1, <1>2, <1>3, <1>4, <1>5, <1>6 DEF Next, ExternalAnswers, ExternalAsks

\* While the bridge is connected frames are only appended or read, the first one first.
LEMMA FrameStep ==
    ASSUME IInv, [Next]_vars, conn = "in", conn' = "in"
    PROVE  \/ line' = line
           \/ line # <<>> /\ line' = Tail(line) /\ reading /\ reading'
           \/ \E f \in Frames : line' = Append(line, f)
<1>1. CASE Connect \/ ReadEnd \/ Disconnect \/ Disconnected \/ HangUp
  BY <1>1 DEF Connect, ReadEnd, Disconnect, Disconnected, HangUp, peer
<1>2. CASE ReadAnswer \/ ReadOther \/ ReadJunk
  BY <1>2 DEF ReadAnswer, ReadOther, ReadJunk, NextFrame
<1>3. ASSUME NEW id \in Ids \cup Externals, NEW kind \in {"answer", "null", "junk", "ask"},
             Write(kind, id)
      PROVE  \E f \in Frames : line' = Append(line, f)
  <2>1. [kind |-> kind, id |-> id] \in Frames BY DEF Frames
  <2>2. line' = Append(line, [kind |-> kind, id |-> id]) BY <1>3 DEF Write
  <2> QED BY <2>1, <2>2
<1>4. CASE \E i \in Ids, kind \in {"answer", "null", "junk"} : ExternalAnswers(i, kind)
  BY <1>3, <1>4 DEF ExternalAnswers
<1>5. CASE \E x \in Externals : ExternalAsks(x)
  BY <1>3, <1>5 DEF ExternalAsks
<1> QED BY <1>1, <1>2, <1>4, <1>5, OthersKeepStream DEF Next

\* Whatever comes from outside, valid or not, the loop of a connected bridge goes on until
\* the stream ends, can handle the frame that is next, and reads frames in their order with
\* none lost: the part of LinesAreRead the bridge decides.  The rest is that the loop is
\* scheduled and that the external system writes finitely often.
THEOREM ReaderSurvives == Spec => []ReaderInv /\ []ReadingGoesOn /\ LinesRunOut
<1>1. Init => ReaderInv BY DEF Init, ReaderInv
<1>2. IInv /\ ReaderInv /\ [Next]_vars => ReaderInv' BY ReaderStep
<1>3. IInv /\ ReaderInv => ReadingGoesOn
  <2> SUFFICES ASSUME IInv, ReaderInv, conn = "in", line # <<>>, Len(log) < MaxMessages
               PROVE  /\ reading /\ NextId \in Ids
                      /\ Head(line).kind \in {"answer", "null", "ask", "junk"}
    BY DEF ReadingGoesOn
  <2>1. reading BY DEF ReaderInv
  <2>2. NextId \in Ids
    <3>1. Len(log) \in Nat BY LenProperties DEF IInv, LogOK
    <3> QED BY <3>1, ConversationAssumption DEF NextId
  <2>3. Head(line) \in Frames BY HeadTailProperties DEF IInv, PeerOK
  <2> QED BY <2>1, <2>2, <2>3 DEF Frames
<1>4. IInv /\ [Next]_vars =>
        [conn = "in" /\ conn' = "in" =>
            \/ line' = line
            \/ line # <<>> /\ line' = Tail(line) /\ reading /\ reading'
            \/ \E f \in Frames : line' = Append(line, f)]_vars
  BY FrameStep
<1> QED BY Invariance, <1>1, <1>2, <1>3, <1>4, PTL DEF Spec, LinesRunOut
=============================================================================
