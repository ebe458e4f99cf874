---------------------------- MODULE ClusterProofs ----------------------------
(***************************************************************************)
(* Proofs about Cluster, for any nodes, agents and timing with             *)
(* Timeout <= Limit.                                                       *)
(*                                                                         *)
(* A peer that has been reachable since it was added is never stale at the *)
(* cleanup: its heartbeat of the round was answered, or it was added later *)
(* in the round, and a round takes no longer than Timeout.                 *)
(***************************************************************************)
EXTENDS Cluster, TLAPS

\* The peer objects are what they were when added as long as nothing is noted of them.
PeerInv ==
    \A n \in peers : /\ ~down[n] => up[n]
                     /\ ~cut[n] => using[n] \in open

\* In a round the peers that are not waited for any more are fresh.
RoundInv ==
    loop = "beating" =>
        /\ elapsed <= Timeout
        /\ \A n \in peers : beat[n] # "own" => age[n] <= elapsed \/ down[n] \/ cut[n]

IInv == TypeOK /\ PeerInv /\ RoundInv /\ NoDanglingRoute

-----------------------------------------------------------------------------
(* The inductive invariant                                                 *)

\* The invariant holds initially.
LEMMA InitInv == Init => IInv
<1> SUFFICES ASSUME Init PROVE IInv OBVIOUS
<1> USE ClusterAssumption DEF Init
<1>1. TypeOK
  <2>1. open \subseteq 1 .. clients OBVIOUS
  <2>2. 0 \in 0 .. Limit + 1 /\ 0 \in 0 .. MaxAdds /\ 0 \in 0 .. MaxStarts OBVIOUS
  <2> QED BY <2>1, <2>2 DEF TypeOK
<1>2. PeerInv BY DEF PeerInv
<1>3. RoundInv BY DEF RoundInv
<1>4. NoDanglingRoute BY DEF NoDanglingRoute
<1> QED BY <1>1, <1>2, <1>3, <1>4 DEF IInv

\* start and stop keep the invariant.
LEMMA LifecycleKeeps ==
    ASSUME IInv, Start \/ StopLoop \/ CloseClient
    PROVE  IInv'
<1> USE ClusterAssumption DEF IInv
<1>1. CASE Start
  <2>1. TypeOK' BY <1>1 DEF Start, NewClient, TypeOK, members
  <2>2. PeerInv' BY <1>1 DEF Start, NewClient, PeerInv, members
  <2>3. RoundInv' BY <1>1 DEF Start, RoundInv
  <2>4. NoDanglingRoute' BY <1>1 DEF Start, NoDanglingRoute, members
  <2> QED BY <2>1, <2>2, <2>3, <2>4
<1>2. CASE StopLoop
  <2>1. TypeOK' BY <1>2 DEF StopLoop, TypeOK, http, history
  <2>2. PeerInv' BY <1>2 DEF StopLoop, PeerInv, http, history
  <2>3. RoundInv' BY <1>2 DEF StopLoop, RoundInv
  <2>4. NoDanglingRoute' BY <1>2 DEF StopLoop, NoDanglingRoute, history
  <2> QED BY <2>1, <2>2, <2>3, <2>4
<1>3. CASE CloseClient
  <2>1. TypeOK' BY <1>3 DEF CloseClient, TypeOK, members
  <2>2. PeerInv'
    <3> SUFFICES ASSUME NEW n \in peers
                 PROVE  (~down[n] => up[n]) /\ (~cut'[n] => using[n] \in open')
      BY <1>3 DEF CloseClient, PeerInv, members
    <3>1. n \in Nodes BY DEF TypeOK
    <3>2. cut'[n] <=> cut[n] \/ using[n] = client BY <1>3, <3>1 DEF CloseClient
    <3> QED BY <1>3, <3>2 DEF CloseClient, PeerInv
  <2>3. RoundInv'
    <3>1. \A n \in peers : cut[n] => cut'[n] BY <1>3 DEF CloseClient, TypeOK
    <3> QED BY <1>3, <3>1 DEF CloseClient, RoundInv, members
  <2>4. NoDanglingRoute' BY <1>3 DEF CloseClient, NoDanglingRoute, members
  <2> QED BY <2>1, <2>2, <2>3, <2>4
<1> QED BY <1>1, <1>2, <1>3

\* Adding a peer and placing an agent keep the invariant.
LEMMA MembersKeep ==
    ASSUME IInv,
           \/ \E n \in Nodes : AddPeer(n)
           \/ \E a \in RemoteAgents, n \in Nodes : RegisterRemoteAgent(a, n)
    PROVE  IInv'
<1> USE ClusterAssumption DEF IInv
<1>1. ASSUME NEW n \in Nodes, AddPeer(n) PROVE IInv'
  <2>1. /\ client' \in Nat /\ clients' \in Nat /\ open' \subseteq 1 .. clients'
        /\ open \subseteq open'
    <3>1. CASE client = 0
      <4>1. /\ clients' = clients + 1 /\ client' = clients + 1
            /\ open' = open \cup {clients + 1}
        BY <1>1, <3>1 DEF AddPeer, NewClient
      <4>2. clients \in Nat /\ open \subseteq 1 .. clients BY DEF TypeOK
      <4> QED BY <4>1, <4>2
    <3>2. CASE client # 0
      BY <1>1, <3>2 DEF AddPeer, http, TypeOK
    <3> QED BY <3>1, <3>2
  <2>2. TypeOK'
    <3>1. peers' \subseteq Nodes /\ using' \in [Nodes -> Nat]
      BY <1>1, <2>1 DEF AddPeer, TypeOK
    <3>2. age' \in [Nodes -> 0 .. Limit + 1]
      BY <1>1 DEF AddPeer, TypeOK
    <3>3. beat' \in [Nodes -> {"none", "own", "stray"}]
      BY <1>1 DEF AddPeer, TypeOK
    <3>4. down' \in [Nodes -> BOOLEAN]
      BY <1>1 DEF AddPeer, TypeOK
    <3>5. cut' \in [Nodes -> BOOLEAN]
      <4>1. (client' \notin open') \in BOOLEAN OBVIOUS
      <4> QED BY <1>1, <4>1 DEF AddPeer, TypeOK
    <3>6. adds' \in 0 .. MaxAdds BY <1>1 DEF AddPeer, TypeOK
    <3> QED BY <1>1, <2>1, <3>1, <3>2, <3>3, <3>4, <3>5, <3>6 DEF AddPeer, TypeOK, lifecycle
  <2>3. ASSUME NEW k \in peers', k # n
        PROVE  /\ k \in peers /\ using'[k] = using[k] /\ age'[k] = age[k]
               /\ beat'[k] = beat[k] /\ down'[k] = down[k] /\ cut'[k] = cut[k]
    BY <1>1, <2>3 DEF AddPeer, TypeOK
  <2>4. PeerInv'
    <3> SUFFICES ASSUME NEW k \in peers'
                 PROVE  (~down'[k] => up[k]) /\ (~cut'[k] => using'[k] \in open')
      BY <1>1 DEF AddPeer, PeerInv
    <3>1. CASE k = n BY <1>1, <3>1 DEF AddPeer, TypeOK
    <3>2. CASE k # n BY <2>1, <2>3, <3>2 DEF PeerInv
    <3> QED BY <3>1, <3>2
  <2>5. RoundInv'
    <3> SUFFICES ASSUME loop = "beating", NEW k \in peers', beat'[k] # "own"
                 PROVE  age'[k] <= elapsed \/ down'[k] \/ cut'[k]
      BY <1>1 DEF AddPeer, RoundInv, lifecycle
    <3>1. CASE k = n BY <1>1, <3>1 DEF AddPeer, TypeOK
    <3>2. CASE k # n BY <2>3, <3>2 DEF RoundInv
    <3> QED BY <3>1, <3>2
  <2>6. NoDanglingRoute' BY <1>1 DEF AddPeer, NoDanglingRoute
  <2> QED BY <2>2, <2>4, <2>5, <2>6
<1>2. ASSUME NEW a \in RemoteAgents, NEW n \in Nodes, RegisterRemoteAgent(a, n)
      PROVE  IInv'
  <2>1. TypeOK' BY <1>2 DEF RegisterRemoteAgent, TypeOK, lifecycle, http, members
  <2>2. PeerInv' BY <1>2 DEF RegisterRemoteAgent, PeerInv, http, members
  <2>3. RoundInv' BY <1>2 DEF RegisterRemoteAgent, RoundInv, lifecycle, members
  <2>4. NoDanglingRoute'
    BY <1>2 DEF RegisterRemoteAgent, NoDanglingRoute, TypeOK, members
  <2> QED BY <2>1, <2>2, <2>3, <2>4
<1> QED BY <1>1, <1>2

\* A heartbeat that ends keeps the invariant: if it was missed, that is noted.
LEMMA BeatKeeps ==
    ASSUME IInv, NEW n \in Nodes, Answered(n) \/ Missed(n) \/ StrayEnds(n)
    PROVE  IInv'
<1> USE ClusterAssumption DEF IInv
<1>1. /\ beat' = [beat EXCEPT ![n] = "none"]
      /\ age' = age \/ age' = [age EXCEPT ![n] = 0]
      /\ UNCHANGED <<lifecycle, http, peers, using, remote, up, history>>
  BY DEF Answered, Missed, StrayEnds, EndBeat
<1>2. TypeOK' BY <1>1 DEF TypeOK, lifecycle, http, history
<1>3. PeerInv' BY <1>1 DEF PeerInv, http, history
<1>4. RoundInv'
  <2> SUFFICES ASSUME loop = "beating", NEW k \in peers, beat'[k] # "own"
               PROVE  age'[k] <= elapsed \/ down[k] \/ cut[k]
    BY <1>1 DEF RoundInv, lifecycle, history
  <2>1. k \in Nodes BY DEF TypeOK
  <2>2. CASE k # n
    BY <1>1, <2>1, <2>2 DEF RoundInv, TypeOK
  <2>3. CASE k = n /\ beat[n] # "own"
    BY <1>1, <2>1, <2>3 DEF RoundInv, TypeOK
  <2>4. CASE k = n /\ beat[n] = "own"
    <3>1. CASE Answered(n)
      BY <2>1, <2>4, <3>1 DEF Answered, TypeOK
    <3>2. CASE Missed(n)
      BY <2>4, <3>2 DEF Missed, Reaches, PeerInv
    <3>3. ~StrayEnds(n) BY <2>4 DEF StrayEnds
    <3> QED BY <3>1, <3>2, <3>3
  <2> QED BY <2>2, <2>3, <2>4
<1>5. NoDanglingRoute' BY <1>1 DEF NoDanglingRoute, history
<1> QED BY <1>2, <1>3, <1>4, <1>5

\* The start of a round and the cleanup keep the invariant.
LEMMA RoundKeeps ==
    ASSUME IInv, BeginRound \/ Prune
    PROVE  IInv'
<1> USE ClusterAssumption DEF IInv
<1>1. CASE BeginRound
  <2>1. TypeOK' BY <1>1 DEF BeginRound, TypeOK, http, history
  <2>2. PeerInv' BY <1>1 DEF BeginRound, PeerInv, http, history
  <2>3. RoundInv'
    <3>1. \A n \in peers : beat'[n] = "own" BY <1>1 DEF BeginRound, TypeOK
    <3> QED BY <1>1, <3>1 DEF BeginRound, RoundInv
  <2>4. NoDanglingRoute' BY <1>1 DEF BeginRound, NoDanglingRoute, history
  <2> QED BY <2>1, <2>2, <2>3, <2>4
<1>2. CASE Prune
  <2>1. TypeOK'
    <3>1. /\ peers' \subseteq Nodes /\ using' \in [Nodes -> Nat]
          /\ age' \in [Nodes -> 0 .. Limit + 1]
      BY <1>2 DEF Prune, Remove, TypeOK
    <3>2. down' \in [Nodes -> BOOLEAN] /\ cut' \in [Nodes -> BOOLEAN]
      BY <1>2 DEF Prune, Remove, TypeOK
    <3>3. remote' \in [RemoteAgents -> Nodes \cup {None}]
      BY <1>2 DEF Prune, TypeOK
    <3> QED BY <1>2, <3>1, <3>2, <3>3 DEF Prune, TypeOK, http
  <2>2. PeerInv'
    <3>1. ASSUME NEW n \in peers'
          PROVE  /\ n \in peers /\ using'[n] = using[n]
                 /\ down'[n] <=> down[n]
                 /\ cut'[n] <=> cut[n]
      BY <1>2, <3>1 DEF Prune, Remove, TypeOK
    <3> QED BY <1>2, <3>1 DEF Prune, PeerInv, http
  <2>3. RoundInv' BY <1>2 DEF Prune, RoundInv
  <2>4. NoDanglingRoute'
    BY <1>2 DEF Prune, Remove, NoDanglingRoute, Stale
  <2> QED BY <2>1, <2>2, <2>3, <2>4
<1> QED BY <1>1, <1>2

\* Time and the nodes keep the invariant.
LEMMA OutsideKeeps ==
    ASSUME IInv, Tick \/ (\E n \in Nodes : NodeChanges(n)) \/ UNCHANGED vars
    PROVE  IInv'
<1> USE ClusterAssumption DEF IInv
<1>1. CASE Tick
  <2>1. elapsed' \in Nat BY <1>1 DEF Tick, TypeOK
  <2>2. age' \in [Nodes -> 0 .. Limit + 1] BY <1>1 DEF Tick, TypeOK
  <2>3. TypeOK' BY <1>1, <2>1, <2>2 DEF Tick, TypeOK, http, history
  <2>4. PeerInv' BY <1>1 DEF Tick, PeerInv, http, history
  <2>5. RoundInv'
    <3> SUFFICES ASSUME loop = "beating"
                 PROVE  /\ elapsed' <= Timeout
                        /\ \A n \in peers : beat[n] # "own" =>
                              age'[n] <= elapsed' \/ down[n] \/ cut[n]
      BY <1>1 DEF Tick, RoundInv, history
    <3>1. elapsed' = elapsed + 1 /\ elapsed < Timeout BY <1>1 DEF Tick
    <3>2. \A n \in peers : age'[n] <= age[n] + 1 BY <1>1 DEF Tick, TypeOK
    <3>3. \A n \in peers : age[n] \in Nat /\ age'[n] \in Nat BY <2>2 DEF TypeOK
    <3> QED BY <3>1, <3>2, <3>3 DEF RoundInv, TypeOK
  <2>6. NoDanglingRoute' BY <1>1 DEF Tick, NoDanglingRoute, history
  <2> QED BY <2>3, <2>4, <2>5, <2>6
<1>2. ASSUME NEW n \in Nodes, NodeChanges(n) PROVE IInv'
  <2>1. TypeOK'
    <3>1. up' \in [Nodes -> BOOLEAN] /\ down' \in [Nodes -> BOOLEAN]
      BY <1>2 DEF NodeChanges, TypeOK
    <3> QED BY <1>2, <3>1 DEF NodeChanges, TypeOK, lifecycle, http, members
  <2>2. \A k \in peers : (down[k] => down'[k]) /\ (k # n => down'[k] = down[k] /\ up'[k] = up[k])
    BY <1>2 DEF NodeChanges, TypeOK
  <2>3. n \in peers => down'[n] BY <1>2 DEF NodeChanges, TypeOK
  <2>4. PeerInv' BY <1>2, <2>2, <2>3 DEF NodeChanges, PeerInv, http, members
  <2>5. RoundInv' BY <1>2, <2>2 DEF NodeChanges, RoundInv, lifecycle, members
  <2>6. NoDanglingRoute' BY <1>2 DEF NodeChanges, NoDanglingRoute, members
  <2> QED BY <2>1, <2>4, <2>5, <2>6
<1>3. CASE UNCHANGED vars
  BY <1>3 DEF vars, lifecycle, http, members, history,
              TypeOK, PeerInv, RoundInv, NoDanglingRoute
<1> QED BY <1>1, <1>2, <1>3

\* Every step keeps the invariant.
LEMMA StepInv == IInv /\ [Next]_vars => IInv'
  BY LifecycleKeeps, MembersKeep, BeatKeeps, RoundKeeps, OutsideKeeps DEF Next

\* The invariant is one of the specification.
LEMMA Invariance == Spec => []IInv
  BY InitInv, StepInv, PTL DEF Spec

-----------------------------------------------------------------------------
(* The theorems                                                            *)

\* Manager, peers and loop keep their types.
THEOREM TypeCorrect == Spec => []TypeOK
<1> IInv => TypeOK BY DEF IInv
<1> QED BY Invariance, PTL

\* Routes lead to peers, unless the agent was registered ahead of its node.
THEOREM RoutesFollow == Spec => []NoDanglingRoute
<1> IInv => NoDanglingRoute BY DEF IInv
<1> QED BY Invariance, PTL

\* A node that has been reachable since it was added, through an open client, is
\* never pruned, for every number of nodes, order of heartbeats and timing.
THEOREM LiveStays == Spec => LivePeerKept
<1>1. IInv /\ [Next]_vars => [\A n \in peers \ peers' : down[n] \/ cut[n]]_vars
  <2> SUFFICES ASSUME IInv, [Next]_vars, NEW n \in peers \ peers'
               PROVE  down[n] \/ cut[n]
    OBVIOUS
  <2> USE ClusterAssumption DEF IInv
  <2>1. CASE Prune
    <3>1. n \in Stale /\ n \in Nodes /\ beat[n] # "own" /\ loop = "beating"
      BY <2>1 DEF Prune, Remove, TypeOK
    <3>2. elapsed <= Timeout /\ (age[n] <= elapsed \/ down[n] \/ cut[n])
      BY <3>1 DEF RoundInv
    <3>3. age[n] > Limit /\ age[n] \in Nat /\ elapsed \in Nat
      BY <3>1 DEF Stale, TypeOK
    <3> QED BY <3>2, <3>3
  <2>2. CASE ~Prune
    <3>1. peers \subseteq peers'
      BY <2>2 DEF Next, vars, members, Start, StopLoop, CloseClient, AddPeer,
             RegisterRemoteAgent, BeginRound, Answered, Missed, StrayEnds, Tick,
             NodeChanges
    <3> QED BY <3>1
  <2> QED BY <2>1, <2>2
<1> QED BY <1>1, Invariance, PTL DEF Spec, LivePeerKept
-----------------------------------------------------------------------------
(* What DeadPeerForgotten rests on: while the manager runs, its rounds end *)
(* and follow each other, a peer that does not answer grows older, and no  *)
(* peer that is too old survives the end of a round                        *)

\* The manager has its loop exactly while it runs, whatever stops and starts overlap, and a
\* heartbeat is under way only in a round, which can go on or end by it.
LoopRuns ==
    /\ running <=> loop # "none"
    /\ \A n \in Nodes : beat[n] # "none" => loop = "beating"

\* Nodes whose heartbeat a round has still to await.
Awaited == {n \in Nodes : beat[n] # "none"}

\* While the manager is left running: no heartbeat joins a round that has begun, a round
\* ends by removing every peer that is too old, and a sleep that is over ends in a round.
RoundsRunOut ==
    [][running /\ running' =>
        \/ loop = "beating" /\ loop' = "beating" /\ Awaited' \subseteq Awaited
        \/ /\ loop = "beating" /\ loop' = "sleeping" /\ Awaited = {}
           /\ \A n \in peers' : n \in peers /\ age[n] <= Limit
        \/ loop = "sleeping" /\ loop' = "sleeping" /\ elapsed' >= elapsed
        \/ loop = "sleeping" /\ loop' = "beating" /\ elapsed >= Period]_vars

\* A peer that is not replaced and does not answer never looks younger, and with time it
\* looks older, until it is too old.
SilentAges ==
    [][\A n \in peers \cap peers' :
        adds' = adds /\ ~Reaches(n) =>
            /\ age'[n] >= age[n]
            /\ Tick => age'[n] > age[n] \/ age[n] > Limit]_vars

\* No heartbeat begins but with a round.
LEMMA LoopStep ==
    ASSUME IInv, LoopRuns, [Next]_vars
    PROVE  LoopRuns'
<1>1. CASE Start \/ StopLoop
  BY <1>1 DEF Start, StopLoop, LoopRuns, members, IInv, TypeOK
<1>2. ASSUME NEW n \in Nodes, AddPeer(n)
      PROVE  LoopRuns'
  BY <1>2 DEF AddPeer, LoopRuns, lifecycle, IInv, TypeOK
<1>3. CASE BeginRound
  BY <1>3 DEF BeginRound, LoopRuns
<1>4. ASSUME NEW n \in Nodes, Answered(n) \/ Missed(n) \/ StrayEnds(n)
      PROVE  LoopRuns'
  BY <1>4 DEF Answered, Missed, StrayEnds, EndBeat, LoopRuns, lifecycle, IInv, TypeOK
<1>5. CASE Prune
  BY <1>5 DEF Prune, LoopRuns
<1>6. CASE \/ CloseClient \/ Tick
           \/ \E a \in RemoteAgents, n \in Nodes : RegisterRemoteAgent(a, n)
           \/ \E n \in Nodes : NodeChanges(n)
           \/ UNCHANGED vars
  BY <1>6 DEF CloseClient, Tick, RegisterRemoteAgent, NodeChanges, LoopRuns, vars, lifecycle,
              members
<1> QED BY <1>1, <1>2, <1>3, <1>4, <1>5, <1>6 DEF Next

\* A round only ever loses heartbeats, and its end spares nobody who is too old.
LEMMA RoundStep ==
    ASSUME IInv, LoopRuns, [Next]_vars, running, running'
    PROVE  \/ loop = "beating" /\ loop' = "beating" /\ Awaited' \subseteq Awaited
           \/ /\ loop = "beating" /\ loop' = "sleeping" /\ Awaited = {}
              /\ \A n \in peers' : n \in peers /\ age[n] <= Limit
           \/ loop = "sleeping" /\ loop' = "sleeping" /\ elapsed' >= elapsed
           \/ loop = "sleeping" /\ loop' = "beating" /\ elapsed >= Period
<1>0. /\ loop \in {"beating", "sleeping"} /\ elapsed \in Nat
      /\ age \in [Nodes -> 0 .. Limit + 1] /\ peers \subseteq Nodes
      /\ beat \in [Nodes -> {"none", "own", "stray"}]
  BY DEF IInv, TypeOK, LoopRuns
<1>1. CASE loop' = loop /\ elapsed' = elapsed /\ Awaited' \subseteq Awaited
  BY <1>0, <1>1
<1>2. CASE Start \/ StopLoop
  BY <1>2 DEF Start, StopLoop
<1>3. ASSUME NEW n \in Nodes, AddPeer(n)
      PROVE  loop' = loop /\ elapsed' = elapsed /\ Awaited' \subseteq Awaited
  BY <1>0, <1>3 DEF AddPeer, lifecycle, Awaited
<1>4. CASE BeginRound
  BY <1>0, <1>4 DEF BeginRound
<1>5. ASSUME NEW n \in Nodes, Answered(n) \/ Missed(n) \/ StrayEnds(n)
      PROVE  loop' = loop /\ elapsed' = elapsed /\ Awaited' \subseteq Awaited
  BY <1>0, <1>5 DEF Answered, Missed, StrayEnds, EndBeat, lifecycle, Awaited
<1>6. CASE Prune
  <2>1. Awaited = {} /\ loop = "beating" /\ loop' = "sleeping" /\ peers' = peers \ Stale
    BY <1>6 DEF Prune, Remove, Awaited
  <2>2. \A n \in peers' : n \in peers /\ age[n] <= Limit
    BY <1>0, <2>1, ClusterAssumption DEF Stale
  <2> QED BY <2>1, <2>2
<1>7. CASE Tick
  <2>1. loop' = loop /\ beat' = beat /\ elapsed' >= elapsed
    BY <1>0, <1>7, ClusterAssumption DEF Tick
  <2> QED BY <1>0, <2>1 DEF Awaited
<1>8. CASE \/ CloseClient
           \/ \E a \in RemoteAgents, n \in Nodes : RegisterRemoteAgent(a, n)
           \/ \E n \in Nodes : NodeChanges(n)
           \/ UNCHANGED vars
  BY <1>1, <1>8 DEF CloseClient, RegisterRemoteAgent, NodeChanges, vars, lifecycle, members,
                    Awaited
<1> QED BY <1>1, <1>2, <1>3, <1>4, <1>5, <1>6, <1>7, <1>8 DEF Next

\* Only an answer or a new peer object makes a node look younger.
LEMMA AgeStep ==
    ASSUME IInv, [Next]_vars, NEW n \in peers \cap peers', adds' = adds, ~Reaches(n)
    PROVE  /\ age'[n] >= age[n]
           /\ Tick => age'[n] > age[n] \/ age[n] > Limit
<1>0. /\ n \in Nodes /\ age[n] \in Nat /\ age \in [Nodes -> 0 .. Limit + 1]
      /\ adds \in Nat /\ Limit \in Nat
  BY ClusterAssumption DEF IInv, TypeOK
<1>1. CASE Tick
  <2>1. age'[n] = IF age[n] <= Limit THEN age[n] + 1 ELSE age[n]
    BY <1>0, <1>1 DEF Tick
  <2> QED BY <1>0, <2>1
<1>2. CASE Prune
  BY <1>0, <1>2 DEF Prune, Remove, Tick
<1>3. ASSUME NEW k \in Nodes, Answered(k)
      PROVE  age'[n] = age[n]
  BY <1>0, <1>3 DEF Answered
<1>4. ASSUME NEW k \in Nodes, AddPeer(k)
      PROVE  FALSE
  BY <1>0, <1>4 DEF AddPeer
<1>5. CASE \/ Start \/ StopLoop \/ CloseClient \/ BeginRound
           \/ \E a \in RemoteAgents, k \in Nodes : RegisterRemoteAgent(a, k)
           \/ \E k \in Nodes : Missed(k) \/ StrayEnds(k) \/ NodeChanges(k)
           \/ UNCHANGED vars
  <2>1. age' = age
    BY <1>5 DEF Start, StopLoop, CloseClient, BeginRound, RegisterRemoteAgent, Missed,
                StrayEnds, NodeChanges, vars, members
  <2> QED BY <1>0, <1>1, <2>1
<1> QED BY <1>0, <1>1, <1>2, <1>3, <1>4, <1>5 DEF Next

\* A silent peer of a manager that is left running grows older, and rounds go on, each of
\* which ends by pruning whoever is too old: with fairness the peer is forgotten.
THEOREM SilentArePruned == Spec => []LoopRuns /\ RoundsRunOut /\ SilentAges
<1>1. Init => LoopRuns BY DEF Init, LoopRuns
<1>2. Spec => []LoopRuns BY <1>1, LoopStep, Invariance, PTL DEF Spec
<1>3. IInv /\ LoopRuns /\ [Next]_vars =>
        [running /\ running' =>
            \/ loop = "beating" /\ loop' = "beating" /\ Awaited' \subseteq Awaited
            \/ /\ loop = "beating" /\ loop' = "sleeping" /\ Awaited = {}
               /\ \A n \in peers' : n \in peers /\ age[n] <= Limit
            \/ loop = "sleeping" /\ loop' = "sleeping" /\ elapsed' >= elapsed
            \/ loop = "sleeping" /\ loop' = "beating" /\ elapsed >= Period]_vars
  BY RoundStep
<1>4. IInv /\ [Next]_vars =>
        [\A n \in peers \cap peers' :
            adds' = adds /\ ~Reaches(n) =>
                /\ age'[n] >= age[n]
                /\ Tick => age'[n] > age[n] \/ age[n] > Limit]_vars
  BY AgeStep
<1> QED BY <1>2, <1>3, <1>4, Invariance, PTL DEF Spec, RoundsRunOut, SilentAges
=============================================================================
