------------------------------- MODULE Cluster -------------------------------
(***************************************************************************)
(* ClusterManager of cluster.py: the peers of a broker, where remote       *)
(* agents live, and the heartbeat loop that prunes peers.                  *)
(*                                                                         *)
(* The loop suspends in gather, where it awaits one heartbeat per peer,    *)
(* and in sleep; stop suspends where it awaits the cancelled loop.  Peers  *)
(* are added, replaced and given agents, and the manager is stopped and    *)
(* started, at any of these points.  A peer keeps the HTTP client that was *)
(* the manager's when it was added.                                        *)
(*                                                                         *)
(* Time is counted in ticks.  The nodes and the HTTP client are external:  *)
(* a heartbeat is answered or has failed within Timeout ticks.             *)
(***************************************************************************)
EXTENDS Integers

CONSTANTS
    Nodes,        \* ids of the other nodes
    RemoteAgents, \* ids of agents that live on them
    None,         \* Python's None
    Period,       \* sleep between two rounds of heartbeats
    Timeout,      \* longest heartbeat
    Limit,        \* age of the last answer beyond which a peer is pruned
    MaxAdds,      \* bound: calls of add_peer
    MaxStarts     \* bound: calls of start

ASSUME ClusterAssumption ==
    /\ None \notin Nodes
    /\ Period \in Nat /\ Timeout \in Nat /\ Limit \in Nat
    /\ Timeout <= Limit   \* 2 seconds a phase against 30 seconds
    /\ MaxAdds \in Nat /\ MaxStarts \in Nat

VARIABLES
    running,   \* _running
    stopping,  \* whether stop awaits the loop it has cancelled
    loop,      \* the heartbeat loop: "none", "beating" or "sleeping"
    elapsed,   \* ticks the loop has spent there
    client,    \* _client, 0 for None
    clients,   \* HTTP clients created so far
    open,      \* clients that are not closed
    peers,     \* ids in self.peers
    using,     \* the client of a node's peer, 0 without a peer
    age,       \* ticks since last_seen of a node's peer, up to Limit + 1; 0 without
    beat,      \* a node's heartbeat: "none", "own", or "stray" of a replaced peer
    remote,    \* remote_agents: the node of an agent
    up,        \* whether a node answers
    adds, starts,
    down,      \* whether a node was down since its peer was added
    cut,       \* whether the client of a node's peer was closed since
    early      \* agents registered on a node that was no peer

lifecycle == <<running, stopping, loop, elapsed>>
http      == <<client, clients, open>>
members   == <<peers, using, age, beat>>
history   == <<adds, starts, down, cut, early>>
vars      == <<lifecycle, http, members, remote, up, history>>

Init ==
    /\ running = FALSE /\ stopping = FALSE /\ loop = "none" /\ elapsed = 0
    /\ client = 0 /\ clients = 0 /\ open = {}
    /\ peers = {} /\ using = [n \in Nodes |-> 0] /\ age = [n \in Nodes |-> 0]
    /\ beat = [n \in Nodes |-> "none"]
    /\ remote = [a \in RemoteAgents |-> None]
    /\ up = [n \in Nodes |-> TRUE]
    /\ adds = 0 /\ starts = 0 /\ early = {}
    /\ down = [n \in Nodes |-> FALSE] /\ cut = [n \in Nodes |-> FALSE]

-----------------------------------------------------------------------------
(* start and stop                                                          *)

NewClient ==
    /\ clients' = clients + 1 /\ client' = clients + 1
    /\ open' = open \cup {clients + 1}

\* start: always a new client, also when add_peer has made one.
Start ==
    /\ ~running /\ starts < MaxStarts
    /\ starts' = starts + 1
    /\ NewClient
    /\ running' = TRUE
    /\ loop' = "sleeping" /\ elapsed' = Period
    /\ UNCHANGED <<stopping, members, remote, up, adds, down, cut, early>>

\* stop up to `await self._heartbeat_task`: gather and its heartbeats go with the loop.
StopLoop ==
    /\ ~stopping /\ client # 0
    /\ stopping' = TRUE
    /\ running' = FALSE /\ loop' = "none" /\ elapsed' = 0
    /\ beat' = [n \in Nodes |-> "none"]
    /\ UNCHANGED <<http, peers, using, age, remote, up, history>>

\* The rest of stop closes the client the manager has by now.
CloseClient ==
    /\ stopping /\ stopping' = FALSE
    /\ open' = open \ {client}
    /\ cut' = [n \in Nodes |-> cut[n] \/ (n \in peers /\ using[n] = client)]
    /\ UNCHANGED <<running, loop, elapsed, client, clients, members, remote, up,
                   adds, starts, down, early>>

-----------------------------------------------------------------------------
(* Peers and remote agents                                                 *)

\* add_peer: a new ClusterPeer, in place of an old one.  The info carries the time
\* at which it was made.
AddPeer(n) ==
    /\ adds < MaxAdds /\ adds' = adds + 1
    /\ IF client = 0 THEN NewClient ELSE UNCHANGED http
    /\ peers' = peers \cup {n}
    /\ using' = [using EXCEPT ![n] = client']
    /\ age' = [age EXCEPT ![n] = 0]
    /\ beat' = [beat EXCEPT ![n] = IF @ = "own" THEN "stray" ELSE @]
    /\ down' = [down EXCEPT ![n] = ~up[n]]
    /\ cut' = [cut EXCEPT ![n] = client' \notin open']
    /\ UNCHANGED <<lifecycle, remote, up, starts, early>>

\* register_remote_agent: the node need not be a peer.
RegisterRemoteAgent(a, n) ==
    /\ remote' = [remote EXCEPT ![a] = n]
    /\ early' = IF n \in peers THEN early \ {a} ELSE early \cup {a}
    /\ UNCHANGED <<lifecycle, http, members, up, adds, starts, down, cut>>

-----------------------------------------------------------------------------
(* The heartbeat loop                                                      *)

\* One heartbeat per peer is started and awaited.
BeginRound ==
    /\ loop = "sleeping" /\ elapsed >= Period
    /\ loop' = "beating" /\ elapsed' = 0
    /\ beat' = [n \in Nodes |-> IF n \in peers THEN "own" ELSE "none"]
    /\ UNCHANGED <<running, stopping, http, peers, using, age, remote, up, history>>

\* A heartbeat reaches a node that is up, through a client that is open.
Reaches(n) == up[n] /\ using[n] \in open

EndBeat(n) == beat' = [beat EXCEPT ![n] = "none"]

\* mutant: a heartbeat that gets through does not count
AnsweredUnseen(n) ==
    /\ beat[n] = "own" /\ Reaches(n)
    /\ EndBeat(n)
    /\ UNCHANGED <<lifecycle, http, peers, using, age, remote, up, history>>

\* send_heartbeat returns True.
Answered(n) ==
    /\ beat[n] = "own" /\ Reaches(n)
    /\ EndBeat(n)
    /\ age' = [age EXCEPT ![n] = 0]
    /\ UNCHANGED <<lifecycle, http, peers, using, remote, up, history>>

\* mutant: last_seen is set on failure as well
MissedSeen(n) ==
    /\ beat[n] = "own" /\ ~Reaches(n)
    /\ EndBeat(n)
    /\ age' = [age EXCEPT ![n] = 0]
    /\ UNCHANGED <<lifecycle, http, peers, using, remote, up, history>>

\* send_heartbeat returns False.
Missed(n) ==
    /\ beat[n] = "own" /\ ~Reaches(n)
    /\ EndBeat(n)
    /\ UNCHANGED <<lifecycle, http, peers, using, age, remote, up, history>>

\* The heartbeat of a peer that was replaced meanwhile ends; its info is nobody's.
StrayEnds(n) ==
    /\ beat[n] = "stray"
    /\ EndBeat(n)
    /\ UNCHANGED <<lifecycle, http, peers, using, age, remote, up, history>>

Stale == {n \in peers : age[n] > Limit}

\* The peer objects of stale nodes are gone, with what is recorded of them.
Remove ==
    /\ peers' = peers \ Stale
    /\ using' = [n \in Nodes |-> IF n \in Stale THEN 0 ELSE using[n]]
    /\ age' = [n \in Nodes |-> IF n \in Stale THEN 0 ELSE age[n]]
    /\ down' = [n \in Nodes |-> down[n] /\ n \notin Stale]
    /\ cut' = [n \in Nodes |-> cut[n] /\ n \notin Stale]

\* mutant: remote agents of pruned peers are kept
PruneKeepingAgents ==
    /\ loop = "beating" /\ \A n \in Nodes : beat[n] = "none"
    /\ Remove
    /\ loop' = "sleeping" /\ elapsed' = 0
    /\ UNCHANGED <<running, stopping, http, beat, remote, up, adds, starts, early>>

\* The cleanup after gather, with the agents of the peers it removes.
Prune ==
    /\ loop = "beating" /\ \A n \in Nodes : beat[n] = "none"
    /\ Remove
    /\ remote' = [a \in RemoteAgents |-> IF remote[a] \in Stale THEN None ELSE remote[a]]
    /\ loop' = "sleeping" /\ elapsed' = 0
    /\ UNCHANGED <<running, stopping, http, beat, up, adds, starts, early>>

Tick ==
    /\ loop = "beating" => elapsed < Timeout
    /\ elapsed' = IF loop = "beating" \/ elapsed < Period THEN elapsed + 1 ELSE elapsed
    /\ age' = [n \in Nodes |-> IF n \in peers /\ age[n] <= Limit THEN age[n] + 1 ELSE age[n]]
    /\ UNCHANGED <<running, stopping, loop, http, peers, using, beat, remote, up, history>>

\* A node becomes unreachable or answers again.
NodeChanges(n) ==
    /\ up' = [up EXCEPT ![n] = ~@]
    /\ down' = [down EXCEPT ![n] = n \in peers]
    /\ UNCHANGED <<lifecycle, http, members, remote, adds, starts, cut, early>>

Next ==
    \/ Start
    \/ StopLoop
    \/ CloseClient
    \/ \E n \in Nodes : AddPeer(n)
    \/ \E a \in RemoteAgents, n \in Nodes : RegisterRemoteAgent(a, n)
    \/ BeginRound
    \/ \E n \in Nodes : Answered(n)
    \/ \E n \in Nodes : Missed(n)
    \/ \E n \in Nodes : StrayEnds(n)
    \/ Prune
    \/ Tick
    \/ \E n \in Nodes : NodeChanges(n)

Spec == Init /\ [][Next]_vars

\* Time passes, heartbeats end, and the loop runs when it is due.
Fairness ==
    /\ WF_vars(Tick) /\ WF_vars(BeginRound) /\ WF_vars(Prune) /\ WF_vars(CloseClient)
    /\ \A n \in Nodes : WF_vars(Answered(n) \/ Missed(n) \/ StrayEnds(n))

FairSpec == Spec /\ Fairness

-----------------------------------------------------------------------------
(* Properties                                                              *)

\* Manager, peers and loop have their types.
TypeOK ==
    /\ running \in BOOLEAN /\ stopping \in BOOLEAN
    /\ loop \in {"none", "beating", "sleeping"} /\ elapsed \in Nat
    /\ client \in Nat /\ clients \in Nat /\ open \subseteq 1 .. clients
    /\ peers \subseteq Nodes /\ using \in [Nodes -> Nat]
    /\ age \in [Nodes -> 0 .. Limit + 1]
    /\ beat \in [Nodes -> {"none", "own", "stray"}]
    /\ remote \in [RemoteAgents -> Nodes \cup {None}]
    /\ up \in [Nodes -> BOOLEAN]
    /\ adds \in 0 .. MaxAdds /\ starts \in 0 .. MaxStarts
    /\ down \in [Nodes -> BOOLEAN] /\ cut \in [Nodes -> BOOLEAN]
    /\ early \subseteq RemoteAgents

\* A peer is pruned only when its node was unreachable, or its client closed, since it
\* was added: not because another heartbeat was slow, nor because it was added or
\* replaced in the middle of a round.
LivePeerKept == [][\A n \in peers \ peers' : down[n] \/ cut[n]]_vars

\* No route leads to a node that was pruned: later messages for its agents are dead
\* letters again, unless the agent was registered ahead of the peer.
NoDanglingRoute == \A a \in RemoteAgents \ early : remote[a] \in peers \cup {None}

\* A node that stays unreachable is pruned in the end, however often its peer is
\* replaced and other heartbeats overlap, if the manager is left running.
DeadPeerForgotten == \A n \in Nodes : <>[](running /\ ~up[n]) => <>[](n \notin peers)
=============================================================================
