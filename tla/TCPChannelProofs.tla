-------------------------- MODULE TCPChannelProofs --------------------------
(***************************************************************************)
(* Theorems about TCPChannel, for every set of senders, destinations and   *)
(* incoming connections and every bound.                                   *)
(***************************************************************************)
EXTENDS TCPChannel, FiniteSetTheorems, TLAPS

-----------------------------------------------------------------------------
(* The inductive invariant.  A connection belongs to the destination under *)
(* which the pool holds it.  A send that finds an open writer in its place *)
(* when its own connection is opened has raced, because both were opening  *)
(* at once; and so has one that opens while stop is under way or done.     *)
(* What stop has passed in the pool is therefore closed, or raced.  And a  *)
(* handler that stop does not know is one that was late for an earlier one *)
(* and that its last line has forgotten.                                   *)

Sockets ==
    /\ \A k \in Conns : state[k] # "none" => k <= opened
    /\ \A k \in Conns : state[k] = "open" => dest[k] \in Destinations
    /\ \A d \in Destinations :
          pool[d] # 0 /\ state[pool[d]] = "open" => dest[pool[d]] = d

Opening ==
    \A t \in Senders : pc[t] = "opening" =>
        /\ goal[t] \in Destinations
        /\ pool[goal[t]] # 0 /\ state[pool[goal[t]]] = "open" => goal[t] \in raced
        /\ \A u \in Senders \ {t} :
              pc[u] = "opening" /\ goal[u] = goal[t] => goal[t] \in raced
        /\ ~running \/ stop # "idle" => goal[t] \in raced

Draining ==
    \A t \in Senders : pc[t] = "draining" => goal[t] \in Destinations /\ via[t] # 0

Stopping ==
    /\ stop # "idle" => server = "closed"
    /\ stop = "writers" =>
          \A d \in iter.seen \ raced : pool[d] # 0 => state[pool[d]] # "open"
    /\ awaited # 0 <=> stop = "writers"
    /\ ~running \/ stop = "handlers" => \A d \in Destinations \ raced : pool[d] = 0
    /\ ~running => \A i \in Incoming \ late : handler[i] \notin {"reading", "delivering"}
    /\ stop = "handlers" => \A i \in Incoming \ late : handler[i] \in {"none", "cancelled"}
    /\ \A i \in Incoming \ late :
          handler[i] \in {"reading", "delivering"} => i \in connections

IInv == TypeOK /\ Sockets /\ Opening /\ Draining /\ Stopping /\ OpenIsPooled

-----------------------------------------------------------------------------
(* Each part of the invariant is kept by every step                        *)

\* The pool is finite, so its keys can be counted.
LEMMA KeysCount == Cardinality(Keys) \in Nat
  BY ChannelAssumption, FS_Subset, FS_CardinalityType DEF Keys

\* Closing a writer opens none and ends at that writer.
LEMMA ClosedWriter ==
    ASSUME TypeOK, NEW k \in Conns
    PROVE  /\ Closed(k) \in [Conns -> {"none", "open", "closing", "closed", "lost"}]
           /\ Closed(k)[k] # "open"
           /\ \A j \in Conns : Closed(k)[j] # "none" => state[j] # "none"
           /\ \A j \in Conns : Closed(k)[j] = "open" => state[j] = "open"
  BY DEF Closed, TypeOK

\* A pooled writer is a connection.
LEMMA PooledWriter ==
    ASSUME TypeOK, NEW d \in Destinations, pool[d] # 0
    PROVE  pool[d] \in Conns
  BY ChannelAssumption DEF TypeOK, Conns

Iterations == [size : Nat, left : Nat, seen : SUBSET Destinations]

\* The three outcomes of a step of stop: it awaits a writer it has closed, it is left
\* half way, or all writers were closed and it cancels the handlers.
WriterAwaited(d, it) ==
    /\ pool[d] \in Conns
    /\ stop' = "writers" /\ awaited' = pool[d] /\ state' = Closed(pool[d])
    /\ iter' \in Iterations /\ iter'.left < it.left
    /\ \A e \in iter'.seen :
          e = d \/ e \in it.seen \/ state[pool[e]] \in {"closed", "lost"}
    /\ UNCHANGED <<running, pool, handler, connections, late>>

HalfWay ==
    /\ stop' = "idle" /\ iter' = NoIteration /\ awaited' = 0
    /\ UNCHANGED <<running, pool, state, handler, connections, late>>

AllClosed(it) ==
    /\ \A d \in Keys : d \in it.seen \/ state[pool[d]] \in {"closed", "lost"}
    /\ pool' = [d \in Destinations |-> 0]
    /\ handler' = [i \in Incoming |-> IF i \in connections THEN "cancelled" ELSE handler[i]]
    /\ late' = late \cup {i \in Incoming : handler[i] = "new"}
    /\ \/ connections # {} /\ stop' = "handlers" /\ running' = running
       \/ connections = {} /\ stop' = "idle" /\ running' = FALSE
    /\ iter' = NoIteration /\ awaited' = 0
    /\ UNCHANGED <<state, connections>>

StopOutcome(it) ==
    (\E d \in Destinations : WriterAwaited(d, it)) \/ HalfWay \/ AllClosed(it)

LEMMA IterateCases ==
    ASSUME TypeOK, NEW it \in Iterations, Iterate(it)
    PROVE  StopOutcome(it)
<1>1. PICK dests \in SUBSET Gone(it) :
         /\ Past(it, dests).left >= 0
         /\ \/ \E d \in Destinations : CloseWriter(d, Past(it, dests))
            \/ IterationFails(Past(it, dests)) \/ CancelHandlers(Past(it, dests))
  BY DEF Iterate
<1> DEFINE now == Past(it, dests)
<1>2. Cardinality(dests) \in Nat
  <2>1. dests \subseteq Destinations BY DEF Gone, Keys
  <2> QED BY <2>1, ChannelAssumption, FS_Subset, FS_CardinalityType
<1>3. /\ now.left \in Nat /\ now.left <= it.left
      /\ now.size = it.size /\ now.seen = it.seen \cup dests
      /\ now \in Iterations
  <2>1. dests \subseteq Destinations BY DEF Gone, Keys
  <2>2. /\ now.left = it.left - Cardinality(dests)
        /\ now.size = it.size /\ now.seen = it.seen \cup dests
    BY DEF Past, Iterations
  <2>3. now.left \in Nat /\ now.left <= it.left
    BY <1>1, <1>2, <2>2 DEF Iterations
  <2> QED BY <2>1, <2>2, <2>3 DEF Past, Iterations
<1>4. \A e \in now.seen : e \in it.seen \/ state[pool[e]] \in {"closed", "lost"}
  BY <1>3 DEF Gone
<1> HIDE DEF now
<1>5. ASSUME NEW d \in Destinations, CloseWriter(d, now) PROVE WriterAwaited(d, it)
  <2>1. Cardinality({d}) = 1 BY FS_Singleton
  <2>2. /\ iter' \in Iterations /\ iter'.left = now.left - 1 /\ iter'.seen = now.seen \cup {d}
    <3>1. iter' = Past(now, {d}) /\ now.left > 0 BY <1>5 DEF CloseWriter
    <3>2. iter' = [now EXCEPT !.left = @ - 1, !.seen = @ \cup {d}]
      BY <2>1, <3>1 DEF Past
    <3>3. now.left - 1 \in Nat /\ now.seen \cup {d} \in SUBSET Destinations
      BY <1>3, <3>1 DEF Iterations
    <3> QED BY <1>3, <3>2, <3>3 DEF Iterations
  <2>3. iter'.left < it.left BY <1>3, <2>2 DEF Iterations
  <2>4. pool[d] \in Conns BY <1>5, PooledWriter DEF CloseWriter, Keys
  <2> QED BY <1>4, <1>5, <2>2, <2>3, <2>4 DEF CloseWriter, WriterAwaited, incoming
<1>6. ASSUME IterationFails(now) PROVE HalfWay
  BY <1>6 DEF IterationFails, EndIteration, HalfWay, incoming
<1>7. ASSUME CancelHandlers(now) PROVE AllClosed(it)
  BY <1>4, <1>7 DEF CancelHandlers, EndIteration, AllClosed
<1>8. \/ \E d \in Destinations : CloseWriter(d, now)
      \/ IterationFails(now) \/ CancelHandlers(now)
  BY <1>1 DEF now
<1> QED BY <1>5, <1>6, <1>7, <1>8 DEF StopOutcome

\* A step of stop itself, up to where it awaits the handlers.
StopMoves ==
    /\ stop \in {"idle", "server", "writers"}
    /\ server' = "closed" /\ raced \subseteq raced' /\ raced' \subseteq Destinations
    /\ UNCHANGED <<opened, dest, pc, goal, via, starts>>
    /\ stop = "idle" => \A t \in Senders : pc[t] = "opening" => goal[t] \in raced'
    /\ \/ /\ stop = "idle" /\ stop' = "server"
          /\ UNCHANGED <<running, pool, state, handler, connections, late, iter, awaited>>
       \/ \E it \in Iterations :
             /\ \A e \in it.seen \ raced : pool[e] # 0 => state[pool[e]] # "open"
             /\ stop = "writers" => it = iter
             /\ StopOutcome(it)

LEMMA StopCases ==
    ASSUME IInv, Stop \/ ServerClosed \/ WriterClosed
    PROVE  StopMoves
<1>0. TypeOK /\ Opening /\ Stopping BY DEF IInv
<1>1. Begun \in Iterations /\ Begun.seen = {}
  BY KeysCount DEF Begun, Iterations
<1>2. CASE Stop
  <2>1. /\ stop = "idle" /\ server' = "closed"
        /\ raced' = raced \cup {goal[t] : t \in {u \in Senders : pc[u] = "opening"}}
        /\ UNCHANGED <<opened, dest, pc, goal, via, starts>>
    BY <1>2 DEF Stop, sends
  <2>2. raced' \subseteq Destinations BY <1>0, <2>1 DEF Opening, TypeOK
  <2>3. CASE Iterate(Begun) BY <1>0, <1>1, <2>1, <2>2, <2>3, IterateCases DEF StopMoves
  <2>4. CASE stop' = "server" /\ UNCHANGED <<running, pool, state, incoming, iter, awaited>>
    BY <2>1, <2>2, <2>4 DEF StopMoves, incoming
  <2> QED BY <1>2, <2>3, <2>4 DEF Stop
<1>3. CASE ServerClosed
  BY <1>0, <1>1, <1>3, IterateCases DEF ServerClosed, StopMoves, TypeOK, Stopping, sends
<1>4. CASE WriterClosed
  <2>1. iter \in Iterations BY <1>0 DEF TypeOK, Iterations
  <2>2. \A e \in iter.seen \ raced : pool[e] # 0 => state[pool[e]] # "open"
    BY <1>0, <1>4 DEF WriterClosed, Stopping
  <2> QED
    BY <1>0, <1>4, <2>1, <2>2, IterateCases DEF WriterClosed, StopMoves, TypeOK, Stopping, sends
<1> QED BY <1>2, <1>3, <1>4

\* A sender that suspends at known values keeps the types of the senders.
LEMMA SuspendType ==
    ASSUME TypeOK, NEW t \in Senders, NEW where \in {"idle", "opening", "draining"},
           NEW d \in Destinations \cup {None}, NEW n \in Nat, opened <= n,
           NEW k \in 0 .. n, Suspend(t, where, d, k)
    PROVE  /\ pc' \in [Senders -> {"idle", "opening", "draining"}]
           /\ goal' \in [Senders -> Destinations \cup {None}]
           /\ via' \in [Senders -> 0 .. n]
<1>1. via \in [Senders -> 0 .. n]
  BY ChannelAssumption DEF TypeOK
<1> QED
  BY <1>1 DEF Suspend, TypeOK

\* So does one that returns, or that has written its frame.
LEMMA WriteType ==
    ASSUME TypeOK, NEW t \in Senders, NEW d \in Destinations, NEW n \in Nat, opened <= n,
           NEW k \in 0 .. n, Write(t, d, k) \/ Return(t)
    PROVE  /\ pc' \in [Senders -> {"idle", "opening", "draining"}]
           /\ goal' \in [Senders -> Destinations \cup {None}]
           /\ via' \in [Senders -> 0 .. n]
<1>1. ASSUME Return(t) PROVE Suspend(t, "idle", None, 0) /\ 0 \in 0 .. n
  BY <1>1 DEF Return
<1>2. CASE Return(t)
  BY <1>1, <1>2, SuspendType
<1>3. CASE Suspend(t, "draining", d, k)
  BY <1>3, SuspendType
<1> QED
  BY <1>2, <1>3 DEF Write

\* A sender that has written its frame is not opening; the others go on.
LEMMA WriteOthers ==
    ASSUME TypeOK, NEW t \in Senders, NEW d, NEW k, Write(t, d, k)
    PROVE  \A u \in Senders : pc'[u] = "opening" =>
                u # t /\ pc[u] = "opening" /\ goal'[u] = goal[u]
<1>1. CASE Suspend(t, "idle", None, 0)
  BY <1>1 DEF Suspend, TypeOK
<1>2. CASE Suspend(t, "draining", d, k)
  BY <1>2 DEF Suspend, TypeOK
<1> QED
  BY <1>1, <1>2 DEF Write, Return

\* The failure of a send keeps the types.
LEMMA FailType ==
    ASSUME IInv, NEW t \in Senders, pc[t] # "idle", Fail(t)
    PROVE  TypeOK'
<1>1. TypeOK /\ goal[t] \in Destinations
  BY DEF IInv, TypeOK, Opening, Draining
<1>2. opened \in Nat /\ opened <= opened
  BY <1>1, ChannelAssumption DEF TypeOK
<1>3. /\ pc' \in [Senders -> {"idle", "opening", "draining"}]
      /\ goal' \in [Senders -> Destinations \cup {None}]
      /\ via' \in [Senders -> 0 .. opened]
  <2>1. 0 \in 0 .. opened /\ Return(t)
    BY <1>2 DEF Fail
  <2> QED
    BY <1>1, <1>2, <2>1, WriteType
<1>4. state' \in [Conns -> {"none", "open", "closing", "closed", "lost"}]
  <2>1. CASE pool[goal[t]] # 0
    BY <1>1, <2>1, PooledWriter, ClosedWriter DEF Fail
  <2>2. CASE pool[goal[t]] = 0
    BY <1>1, <2>2 DEF Fail, TypeOK
  <2> QED
    BY <2>1, <2>2
<1>5. pool' \in [Destinations -> 0 .. opened]
  BY <1>1, <1>2 DEF Fail, TypeOK
<1>6. iter' \in [size : Nat, left : Nat, seen : SUBSET Destinations]
  <2>1. iter \in [size : Nat, left : Nat, seen : SUBSET Destinations]
    BY <1>1 DEF TypeOK
  <2>2. iter' = [iter EXCEPT !.seen = @ \ {goal[t]}] BY DEF Fail
  <2> QED BY <2>1, <2>2
<1> QED
  BY <1>1, <1>3, <1>4, <1>5, <1>6 DEF Fail, TypeOK, incoming

\* The types are kept.
LEMMA TypeStep ==
    ASSUME IInv, [Next]_vars
    PROVE  TypeOK'
<1>1. ASSUME NEW t \in Senders, NEW d \in Destinations, SendPooled(t, d)
     PROVE  TypeOK'
  <2>1. TypeOK /\ opened \in Nat /\ opened <= opened /\ pool[d] \in 0 .. opened
    BY ChannelAssumption DEF IInv, TypeOK
  <2>2. Write(t, d, pool[d])
    BY <1>1 DEF SendPooled
  <2>3. /\ pc' \in [Senders -> {"idle", "opening", "draining"}]
        /\ goal' \in [Senders -> Destinations \cup {None}]
        /\ via' \in [Senders -> 0 .. opened]
    BY <2>1, <2>2, WriteType
  <2> QED
    BY <1>1, <2>1, <2>3 DEF SendPooled, TypeOK, stopping, sockets, incoming
<1>2. ASSUME NEW t \in Senders, NEW d \in Destinations, SendOpening(t, d)
     PROVE  TypeOK'
  BY <1>2, ChannelAssumption DEF IInv, TypeOK, stopping, sockets, incoming, SendOpening, Suspend
<1>3. ASSUME NEW t \in Senders, Opened(t)
     PROVE  TypeOK'
  <2>1. /\ TypeOK /\ goal[t] \in Destinations
        /\ opened + 1 \in Nat /\ opened <= opened + 1
        /\ opened + 1 \in 0 .. opened + 1 /\ opened + 1 \in Conns
    BY <1>3, ChannelAssumption DEF IInv, TypeOK, Opening, Opened, Conns
  <2>2. Write(t, goal[t], opened + 1)
    BY <1>3 DEF Opened
  <2>3. /\ pc' \in [Senders -> {"idle", "opening", "draining"}]
        /\ goal' \in [Senders -> Destinations \cup {None}]
        /\ via' \in [Senders -> 0 .. opened + 1]
    BY <2>1, <2>2, WriteType
  <2>4. pool \in [Destinations -> 0 .. opened + 1]
    BY <2>1, ChannelAssumption DEF TypeOK
  <2>5. /\ opened' = opened + 1 /\ opened' \in 0 .. MaxConns
        /\ pool' \in [Destinations -> 0 .. opened'] /\ awaited' \in 0 .. opened'
    BY <1>3, <2>1, <2>4, ChannelAssumption DEF Opened, TypeOK, Conns, stopping
  <2>6. /\ state' \in [Conns -> {"none", "open", "closing", "closed", "lost"}]
        /\ dest' \in [Conns -> Destinations \cup {None}]
    BY <1>3, <2>1 DEF Opened, TypeOK
  <2> QED
    BY <1>3, <2>1, <2>3, <2>5, <2>6 DEF Opened, TypeOK, stopping, incoming
<1>4. ASSUME NEW t \in Senders, OpenFails(t) \/ DrainFails(t)
     PROVE  TypeOK'
  BY <1>4, FailType DEF OpenFails, DrainFails
<1>5. ASSUME NEW t \in Senders, Drained(t)
     PROVE  TypeOK'
  BY <1>5 DEF IInv, TypeOK, stopping, sockets, incoming, Drained, Return, Suspend
<1>6. ASSUME NEW k \in Conns, Flushed(k) \/ Lost(k) \/ Collected(k)
     PROVE  TypeOK'
  BY <1>6 DEF IInv, TypeOK, sends, stopping, incoming, Flushed, Lost, Collected, ChangesTo
<1>7. ASSUME NEW i \in Incoming,
             Accept(i) \/ Begin(i) \/ Frame(i) \/ DeliveryEnds(i) \/ End(i)
     PROVE  TypeOK'
  BY <1>7 DEF IInv, TypeOK, sends, stopping, sockets, Accept, Begin, Frame, DeliveryEnds,
              End, Handling
<1>8. CASE Listen
  BY <1>8, ChannelAssumption DEF IInv, TypeOK, sends, stopping, sockets, incoming, Listen
<1>9. CASE Started \/ Stopped
  BY <1>9 DEF IInv, TypeOK, sends, stopping, sockets, incoming, Started, Stopped
<1>10. CASE Stop \/ ServerClosed \/ WriterClosed
  <2>1. StopMoves /\ TypeOK BY <1>10, StopCases DEF IInv
  <2>2. 0 \in 0 .. opened /\ 0 \in Nat /\ NoIteration \in Iterations
    BY <2>1, ChannelAssumption DEF TypeOK, NoIteration, Iterations
  <2>3. CASE /\ stop' = "server"
             /\ UNCHANGED <<running, pool, state, handler, connections, late, iter, awaited>>
    BY <2>1, <2>3 DEF StopMoves, TypeOK
  <2>4. ASSUME NEW it \in Iterations, NEW d \in Destinations, WriterAwaited(d, it)
        PROVE  TypeOK'
    <3>1. state' \in [Conns -> {"none", "open", "closing", "closed", "lost"}]
      BY <2>1, <2>4, ClosedWriter DEF WriterAwaited
    <3>2. awaited' \in 0 .. opened BY <2>1, <2>4 DEF WriterAwaited, TypeOK
    <3> QED BY <2>1, <2>4, <3>1, <3>2 DEF StopMoves, WriterAwaited, TypeOK, Iterations
  <2>5. CASE HalfWay BY <2>1, <2>2, <2>5 DEF StopMoves, HalfWay, TypeOK, Iterations
  <2>6. ASSUME NEW it \in Iterations, AllClosed(it) PROVE TypeOK'
    BY <2>1, <2>2, <2>6 DEF StopMoves, AllClosed, TypeOK, Iterations
  <2> QED BY <2>1, <2>3, <2>4, <2>5, <2>6 DEF StopMoves, StopOutcome
<1>14. CASE UNCHANGED vars
  BY <1>14 DEF IInv, TypeOK, vars, sends, stopping, sockets, incoming
<1> QED
  BY <1>1, <1>2, <1>3, <1>4, <1>5, <1>6, <1>7, <1>8, <1>9, <1>10, <1>14 DEF Next

\* Only these steps change the pool or a connection.
LEMMA PoolMoves ==
    ASSUME [Next]_vars
    PROVE  \/ UNCHANGED <<pool, opened, state, dest>>
           \/ \E t \in Senders : Opened(t) \/ OpenFails(t) \/ DrainFails(t)
           \/ \E k \in Conns : Flushed(k) \/ Lost(k) \/ Collected(k)
           \/ Stop \/ ServerClosed \/ WriterClosed
  BY DEF Next, vars, sockets, SendPooled, SendOpening, Drained, Accept, Begin, Frame,
         DeliveryEnds, End, Handling, Listen, Started, Stopped

\* Only these steps move a sender.
LEMMA SenderMoves ==
    ASSUME [Next]_vars
    PROVE  \/ UNCHANGED <<pc, goal, via>>
           \/ \E t \in Senders : \/ \E d \in Destinations : SendPooled(t, d) \/ SendOpening(t, d)
                                 \/ Opened(t) \/ OpenFails(t) \/ Drained(t) \/ DrainFails(t)
  BY DEF Next, vars, sends, Flushed, Lost, Collected, ChangesTo, Accept, Begin, Frame,
         DeliveryEnds, End, Handling, Listen, Started, Stop, ServerClosed, WriterClosed,
         Stopped

\* A send that fails takes its destination out of the pool and opens nothing.
LEMMA FailCloses ==
    ASSUME IInv, NEW t \in Senders, OpenFails(t) \/ DrainFails(t)
    PROVE  /\ goal[t] \in Destinations
           /\ pool' = [pool EXCEPT ![goal[t]] = 0]
           /\ \A k \in Conns : state'[k] # "none" => state[k] # "none"
           /\ \A k \in Conns : state'[k] = "open" => state[k] = "open"
           /\ \A k \in Conns : state'[k] = "open" => k # pool[goal[t]]
           /\ \A d \in Destinations : pool'[d] # 0 => pool'[d] = pool[d] /\ pool[d] \in Conns
           /\ iter' = [iter EXCEPT !.seen = @ \ {goal[t]}]
           /\ UNCHANGED <<running, server, opened, dest, handler, connections, late, stop,
                          awaited, starts, raced>>
<1>1. TypeOK /\ goal[t] \in Destinations /\ Fail(t)
  BY DEF OpenFails, DrainFails, IInv, Opening, Draining
<1>2. \A d \in Destinations : pool'[d] # 0 => pool'[d] = pool[d] /\ pool[d] \in Conns
  BY <1>1, PooledWriter DEF Fail, TypeOK
<1>3. /\ \A k \in Conns : state'[k] # "none" => state[k] # "none"
      /\ \A k \in Conns : state'[k] = "open" => state[k] = "open"
      /\ \A k \in Conns : state'[k] = "open" => k # pool[goal[t]]
  <2>1. CASE pool[goal[t]] = 0
    BY <1>1, <2>1, ChannelAssumption DEF Fail, Conns
  <2>2. CASE pool[goal[t]] # 0
    <3>1. pool[goal[t]] \in Conns /\ state' = Closed(pool[goal[t]])
      BY <1>1, <2>2, PooledWriter DEF Fail
    <3> QED BY <1>1, <3>1, ClosedWriter
  <2> QED BY <2>1, <2>2
<1> QED BY <1>1, <1>2, <1>3 DEF Fail, incoming

\* Nor does a connection open that is flushed, lost or collected.
LEMMA SocketCloses ==
    ASSUME IInv, NEW k \in Conns, Flushed(k) \/ Lost(k) \/ Collected(k)
    PROVE  /\ \A j \in Conns : state'[j] # "none" => state[j] # "none"
           /\ \A j \in Conns : state'[j] = "open" => state[j] = "open"
           /\ \A j \in Conns : state'[j] = "open" => dest'[j] = dest[j]
           /\ \A d \in Destinations : pool[d] # 0 => pool[d] \in Conns
           /\ UNCHANGED <<running, server, pool, opened, pc, goal, via, handler, connections,
                          late, stop, iter, awaited, starts, raced>>
<1>1. /\ state \in [Conns -> {"none", "open", "closing", "closed", "lost"}]
      /\ dest \in [Conns -> Destinations \cup {None}]
  BY DEF IInv, TypeOK
<1>2. PICK s \in {"closing", "closed", "lost"} : state[k] # "none" /\ ChangesTo(k, s)
  BY DEF Flushed, Lost, Collected
<1>3. \A d \in Destinations : pool[d] # 0 => pool[d] \in Conns
  BY PooledWriter DEF IInv
<1> QED BY <1>1, <1>2, <1>3 DEF ChangesTo, sends, stopping, incoming

\* Connections stay where they belong.
LEMMA SocketsStep ==
    ASSUME IInv, [Next]_vars
    PROVE  Sockets'
<1>0. TypeOK /\ TypeOK' /\ Sockets /\ Opening /\ Draining /\ Stopping /\ OpenIsPooled
  BY TypeStep DEF IInv
<1>1. CASE UNCHANGED <<pool, opened, state, dest>>
  BY <1>1 DEF IInv, Sockets
<1>2. ASSUME NEW t \in Senders, Opened(t)
     PROVE  Sockets'
  BY <1>2 DEF IInv, TypeOK, Sockets, Opening, Conns, Opened
<1>3. ASSUME NEW t \in Senders, OpenFails(t) \/ DrainFails(t)
     PROVE  Sockets'
  BY <1>0, <1>3, FailCloses DEF Sockets, TypeOK
<1>4. ASSUME NEW k \in Conns, Flushed(k) \/ Lost(k) \/ Collected(k)
     PROVE  Sockets'
  BY <1>0, <1>4, SocketCloses DEF Sockets, TypeOK
<1>5. CASE Stop \/ ServerClosed \/ WriterClosed
  <2>1. StopMoves BY <1>5, StopCases
  <2>2. CASE UNCHANGED <<pool, state>> BY <1>0, <2>1, <2>2 DEF StopMoves, Sockets
  <2>3. ASSUME NEW it, NEW d \in Destinations, WriterAwaited(d, it) PROVE Sockets'
    BY <1>0, <2>1, <2>3 DEF StopMoves, WriterAwaited, Closed, Sockets, TypeOK
  <2>4. ASSUME NEW it, AllClosed(it) PROVE Sockets'
    BY <1>0, <2>1, <2>4 DEF StopMoves, AllClosed, Sockets
  <2> QED BY <2>1, <2>2, <2>3, <2>4 DEF StopMoves, StopOutcome, HalfWay
<1> QED
  BY <1>1, <1>2, <1>3, <1>4, <1>5, PoolMoves

\* A send that is overtaken by another, or by stop, has raced.
LEMMA OpeningStep ==
    ASSUME IInv, [Next]_vars
    PROVE  Opening'
<1>0. TypeOK /\ TypeOK' /\ Sockets /\ Opening /\ Draining /\ Stopping /\ OpenIsPooled
  BY TypeStep DEF IInv
<1>1. ASSUME NEW t \in Senders, NEW d \in Destinations, SendPooled(t, d)
     PROVE  Opening'
  <2>1. /\ TypeOK /\ Opening
        /\ pool' = pool /\ state' = state /\ raced' = raced
        /\ running' = running /\ stop' = stop
        /\ Write(t, d, pool[d])
    BY <1>1 DEF IInv, SendPooled, sockets, stopping
  <2>2. \A u \in Senders : pc'[u] = "opening" =>
            u # t /\ pc[u] = "opening" /\ goal'[u] = goal[u]
    BY <2>1, WriteOthers
  <2> QED
    BY <2>1, <2>2 DEF Opening
<1>2. ASSUME NEW t \in Senders, NEW d \in Destinations, SendOpening(t, d)
     PROVE  Opening'
  BY <1>2 DEF IInv, TypeOK, Opening, Stopping, stopping, sockets, SendOpening, Suspend, IsClosing
<1>3. ASSUME NEW t \in Senders, Opened(t)
     PROVE  Opening'
  <2>1. /\ TypeOK /\ Opening /\ pc[t] = "opening" /\ opened + 1 \in Conns
        /\ state' = [state EXCEPT ![opened + 1] = "open"]
        /\ pool' = [pool EXCEPT ![goal[t]] = opened + 1]
        /\ raced' = raced /\ running' = running /\ stop' = stop
        /\ Write(t, goal[t], opened + 1)
    BY <1>3 DEF IInv, Opened, stopping
  <2>2. \A u \in Senders : pc'[u] = "opening" =>
            u # t /\ pc[u] = "opening" /\ goal'[u] = goal[u]
    BY <2>1, WriteOthers
  <2> SUFFICES ASSUME NEW u \in Senders, pc'[u] = "opening"
               PROVE  /\ goal'[u] \in Destinations
                      /\ pool'[goal'[u]] # 0 /\ state'[pool'[goal'[u]]] = "open"
                            => goal'[u] \in raced'
                      /\ \A v \in Senders \ {u} :
                            pc'[v] = "opening" /\ goal'[v] = goal'[u] => goal'[u] \in raced'
                      /\ ~running' \/ stop' # "idle" => goal'[u] \in raced'
    BY DEF Opening
  <2>3. CASE goal[u] = goal[t]
    BY <2>1, <2>2, <2>3 DEF Opening
  <2>4. CASE goal[u] # goal[t]
    <3>1. goal[u] \in Destinations
      BY <2>1, <2>2 DEF Opening
    <3>2. pool'[goal[u]] = pool[goal[u]]
      BY <2>1, <2>4, <3>1 DEF TypeOK
    <3>3. pool[goal[u]] # opened + 1
      BY <2>1, <3>1, ChannelAssumption DEF TypeOK
    <3>4. pool[goal[u]] # 0 => state'[pool[goal[u]]] = state[pool[goal[u]]]
      BY <2>1, <3>1, <3>3, PooledWriter DEF TypeOK
    <3> QED
      BY <2>1, <2>2, <3>1, <3>2, <3>4 DEF Opening
  <2> QED
    BY <2>3, <2>4
<1>4. ASSUME NEW t \in Senders, OpenFails(t) \/ DrainFails(t)
     PROVE  Opening'
  <2>1. \A u \in Senders : pc'[u] = "opening" => pc[u] = "opening" /\ goal'[u] = goal[u]
    BY <1>4 DEF OpenFails, DrainFails, Fail, Return, Suspend, IInv, TypeOK
  <2> QED
    BY <1>0, <1>4, <2>1, FailCloses DEF Opening, TypeOK
<1>5. ASSUME NEW t \in Senders, Drained(t)
     PROVE  Opening'
  BY <1>5 DEF IInv, TypeOK, Opening, stopping, sockets, Drained, Return, Suspend
<1>6. ASSUME NEW k \in Conns, Flushed(k) \/ Lost(k) \/ Collected(k)
     PROVE  Opening'
  BY <1>0, <1>6, SocketCloses DEF Opening, TypeOK
<1>7. ASSUME NEW i \in Incoming,
             Accept(i) \/ Begin(i) \/ Frame(i) \/ DeliveryEnds(i) \/ End(i)
     PROVE  Opening'
  BY <1>7 DEF IInv, Opening, sends, stopping, sockets, Accept, Begin, Frame, DeliveryEnds,
              End, Handling
<1>8. CASE Listen \/ Started \/ Stopped
  BY <1>8 DEF IInv, TypeOK, Opening, Stopping, sends, stopping, sockets, incoming, Listen,
              Started, Stopped
<1>9. CASE Stop \/ ServerClosed \/ WriterClosed
  <2>1. StopMoves BY <1>9, StopCases
  <2>2. \A t \in Senders : pc[t] = "opening" => goal[t] \in Destinations /\ goal[t] \in raced'
    BY <1>0, <2>1 DEF StopMoves, Opening
  <2>3. UNCHANGED <<pc, goal>> BY <2>1 DEF StopMoves
  <2> QED BY <2>2, <2>3 DEF Opening
<1>11. CASE UNCHANGED vars
  BY <1>11 DEF IInv, Opening, vars, sends, stopping, sockets
<1> QED
  BY <1>1, <1>2, <1>3, <1>4, <1>5, <1>6, <1>7, <1>8, <1>9, <1>11 DEF Next

\* A send drains a writer.
LEMMA DrainingStep ==
    ASSUME IInv, [Next]_vars
    PROVE  Draining'
<1>1. CASE UNCHANGED <<pc, goal, via>>
  BY <1>1 DEF IInv, Draining
<1>2. ASSUME NEW t \in Senders, NEW d \in Destinations, SendPooled(t, d) \/ SendOpening(t, d)
     PROVE  Draining'
  BY <1>2 DEF IInv, TypeOK, Draining, SendPooled, SendOpening, Write, Return, Suspend
<1>3. ASSUME NEW t \in Senders, Opened(t)
     PROVE  Draining'
  BY <1>3, ChannelAssumption DEF IInv, TypeOK, Opening, Draining, Conns, Opened, Write, Return, Suspend
<1>4. ASSUME NEW t \in Senders, OpenFails(t) \/ Drained(t) \/ DrainFails(t)
     PROVE  Draining'
  BY <1>4 DEF IInv, TypeOK, Draining, OpenFails, Drained, DrainFails, Fail, Return, Suspend
<1> QED
  BY <1>1, <1>2, <1>3, <1>4, SenderMoves

\* What stop has passed stays closed, and what it has cancelled stays cancelled.
LEMMA StoppingStep ==
    ASSUME IInv, [Next]_vars
    PROVE  Stopping'
<1>0. TypeOK /\ TypeOK' /\ Sockets /\ Opening /\ Draining /\ Stopping /\ OpenIsPooled
  BY TypeStep DEF IInv
<1>1. ASSUME NEW t \in Senders, NEW d \in Destinations, SendPooled(t, d) \/ SendOpening(t, d)
     PROVE  Stopping'
  BY <1>1 DEF IInv, Stopping, stopping, sockets, incoming, SendPooled, SendOpening
<1>2. ASSUME NEW t \in Senders, Opened(t)
     PROVE  Stopping'
  BY <1>2 DEF IInv, TypeOK, Opening, Stopping, Conns, stopping, incoming, Opened
<1>3. ASSUME NEW t \in Senders, OpenFails(t) \/ DrainFails(t)
     PROVE  Stopping'
  BY <1>0, <1>3, FailCloses DEF TypeOK, Stopping
<1>4. ASSUME NEW t \in Senders, Drained(t)
     PROVE  Stopping'
  BY <1>4 DEF IInv, Stopping, stopping, sockets, incoming, Drained
<1>5. ASSUME NEW k \in Conns, Flushed(k) \/ Lost(k) \/ Collected(k)
     PROVE  Stopping'
  BY <1>0, <1>5, SocketCloses DEF Stopping, TypeOK
<1>6. ASSUME NEW i \in Incoming,
             Accept(i) \/ Begin(i) \/ Frame(i) \/ DeliveryEnds(i) \/ End(i)
     PROVE  Stopping'
  BY <1>6 DEF IInv, TypeOK, Stopping, stopping, sockets, Accept, Begin, Frame, DeliveryEnds,
              End, Handling
<1>7. CASE Listen \/ Started
  BY <1>7 DEF IInv, TypeOK, Stopping, stopping, sockets, incoming, Listen, Started
<1>8. CASE Stop \/ ServerClosed \/ WriterClosed
  <2>1. StopMoves BY <1>8, StopCases
  <2>2. CASE /\ stop = "idle" /\ stop' = "server"
             /\ UNCHANGED <<running, pool, state, handler, connections, late, iter, awaited>>
    BY <1>0, <2>1, <2>2 DEF StopMoves, Stopping
  <2>3. ASSUME NEW it \in Iterations, NEW d \in Destinations, WriterAwaited(d, it),
               \A e \in it.seen \ raced : pool[e] # 0 => state[pool[e]] # "open"
        PROVE  Stopping'
    <3>1. \A e \in iter'.seen \ raced' : pool[e] # 0 => state'[pool[e]] # "open"
      <4> SUFFICES ASSUME NEW e \in iter'.seen \ raced', pool[e] # 0
                   PROVE  state'[pool[e]] # "open"
        OBVIOUS
      <4>1. e \in Destinations /\ pool[e] \in Conns
        BY <1>0, <2>3, PooledWriter DEF WriterAwaited, Iterations
      <4>2. pool[d] \in Conns /\ state' = Closed(pool[d]) BY <2>3 DEF WriterAwaited
      <4>3. CASE e = d BY <1>0, <4>2, <4>3, ClosedWriter
      <4>4. CASE e # d
        <5>1. state[pool[e]] # "open" BY <2>1, <2>3, <4>4 DEF WriterAwaited, StopMoves
        <5> QED BY <1>0, <4>1, <4>2, <5>1, ClosedWriter
      <4> QED BY <4>3, <4>4
    <3>2. awaited' # 0 BY <2>3, ChannelAssumption DEF WriterAwaited, Conns
    <3> QED BY <1>0, <2>1, <2>3, <3>1, <3>2 DEF StopMoves, WriterAwaited, Stopping
  <2>4. CASE HalfWay BY <1>0, <2>1, <2>4 DEF StopMoves, HalfWay, Stopping
  <2>5. ASSUME NEW it \in Iterations, AllClosed(it) PROVE Stopping'
    <3>1. \A i \in Incoming \ late' : handler'[i] \in {"none", "cancelled"}
      <4> SUFFICES ASSUME NEW i \in Incoming \ late'
                   PROVE  handler'[i] \in {"none", "cancelled"}
        OBVIOUS
      <4>1. i \notin late /\ handler[i] # "new" BY <2>5 DEF AllClosed
      <4>2. handler[i] \in {"reading", "delivering"} => i \in connections
        BY <1>0, <4>1 DEF Stopping
      <4>3. handler[i] \in {"none", "new", "reading", "delivering", "cancelled"}
        BY <1>0 DEF TypeOK
      <4> QED BY <2>5, <4>1, <4>2, <4>3 DEF AllClosed
    <3>2. /\ \A d \in Destinations : pool'[d] = 0
          /\ awaited' = 0 /\ stop' \in {"idle", "handlers"} /\ server' = "closed"
      BY <2>1, <2>5 DEF AllClosed, StopMoves
    <3> QED BY <3>1, <3>2 DEF Stopping
  <2> QED BY <2>1, <2>2, <2>3, <2>4, <2>5 DEF StopMoves, StopOutcome
<1>11. CASE Stopped
  BY <1>11 DEF IInv, TypeOK, Stopping, sockets, Stopped
<1>12. CASE UNCHANGED vars
  BY <1>12 DEF IInv, Stopping, vars, stopping, sockets, incoming
<1> QED
  BY <1>1, <1>2, <1>3, <1>4, <1>5, <1>6, <1>7, <1>8, <1>11, <1>12 DEF Next

\* Nothing that raced is forgotten.
LEMMA RacedGrows ==
    ASSUME [Next]_vars
    PROVE  raced \subseteq raced'
  BY DEF Next, vars, SendPooled, SendOpening, Opened, OpenFails, Drained, DrainFails, Fail,
         Flushed, Lost, Collected, ChangesTo, Accept, Begin, Frame, DeliveryEnds, End,
         Handling, Listen, Started, Stop, ServerClosed, WriterClosed, Stopped

\* No open connection leaves the pool.
LEMMA PooledStep ==
    ASSUME IInv, [Next]_vars
    PROVE  OpenIsPooled'
<1>0. TypeOK /\ TypeOK' /\ Sockets /\ Opening /\ Draining /\ Stopping /\ OpenIsPooled
  BY TypeStep DEF IInv
<1>1. CASE UNCHANGED <<pool, opened, state, dest>>
  BY <1>1, RacedGrows DEF IInv, OpenIsPooled
<1>2. ASSUME NEW t \in Senders, Opened(t)
     PROVE  OpenIsPooled'
  BY <1>2 DEF IInv, TypeOK, Sockets, Opening, OpenIsPooled, Conns, Opened
<1>3. ASSUME NEW t \in Senders, OpenFails(t) \/ DrainFails(t)
     PROVE  OpenIsPooled'
  BY <1>0, <1>3, FailCloses DEF TypeOK, Sockets, OpenIsPooled
<1>4. ASSUME NEW k \in Conns, Flushed(k) \/ Lost(k) \/ Collected(k)
     PROVE  OpenIsPooled'
  BY <1>0, <1>4, SocketCloses DEF OpenIsPooled, TypeOK
<1>5. CASE Stop \/ ServerClosed \/ WriterClosed
  <2>1. StopMoves BY <1>5, StopCases
  <2>2. CASE UNCHANGED <<pool, state>> BY <1>0, <2>1, <2>2 DEF StopMoves, OpenIsPooled
  <2>3. ASSUME NEW it, NEW d \in Destinations, WriterAwaited(d, it) PROVE OpenIsPooled'
    BY <1>0, <2>1, <2>3, ClosedWriter DEF StopMoves, WriterAwaited, OpenIsPooled
  <2>4. ASSUME NEW it \in Iterations, AllClosed(it),
               \A e \in it.seen \ raced : pool[e] # 0 => state[pool[e]] # "open"
        PROVE  OpenIsPooled'
    <3> SUFFICES ASSUME NEW k \in Conns, state[k] = "open" PROVE dest[k] \in raced
      BY <2>1, <2>4 DEF StopMoves, AllClosed, OpenIsPooled
    <3>1. dest[k] \in Destinations /\ (pool[dest[k]] = k \/ dest[k] \in raced) /\ k # 0
      BY <1>0, ChannelAssumption DEF Sockets, OpenIsPooled, Conns
    <3> QED BY <2>4, <3>1 DEF AllClosed, Keys
  <2> QED BY <2>1, <2>2, <2>3, <2>4 DEF StopMoves, StopOutcome, HalfWay
<1> QED
  BY <1>1, <1>2, <1>3, <1>4, <1>5, PoolMoves

-----------------------------------------------------------------------------

\* The invariant holds initially and is kept by every step.
LEMMA Invariance == Spec => []IInv
<1>1. ASSUME Init PROVE IInv
  <2>1. TypeOK
    <3>1. /\ opened = 0 /\ starts = 0 /\ awaited = 0
          /\ 0 \in 0 .. MaxConns /\ 0 \in 0 .. MaxStarts /\ 0 \in 0 .. 0 /\ 0 \in Nat
      BY <1>1, ChannelAssumption DEF Init
    <3>2. pool \in [Destinations -> 0 .. opened] /\ via \in [Senders -> 0 .. opened]
      BY <1>1, <3>1 DEF Init
    <3>3. /\ state \in [Conns -> {"none", "open", "closing", "closed", "lost"}]
          /\ dest \in [Conns -> Destinations \cup {None}]
          /\ pc \in [Senders -> {"idle", "opening", "draining"}]
          /\ goal \in [Senders -> Destinations \cup {None}]
          /\ handler \in [Incoming -> {"none", "new", "reading", "delivering", "cancelled"}]
      BY <1>1 DEF Init
    <3>4. /\ running \in BOOLEAN /\ server \in {"none", "serving", "closed"}
          /\ stop \in {"idle", "server", "writers", "handlers"}
          /\ iter \in [size : Nat, left : Nat, seen : SUBSET Destinations]
          /\ raced \subseteq Destinations
          /\ connections \subseteq Incoming /\ late \subseteq Incoming
      BY <1>1 DEF Init, NoIteration
    <3> QED
      BY <3>1, <3>2, <3>3, <3>4 DEF TypeOK
  <2>2. Sockets /\ Opening /\ Draining /\ Stopping /\ OpenIsPooled
    BY <1>1 DEF Init, Sockets, Opening, Draining, Stopping, OpenIsPooled
  <2> QED
    BY <2>1, <2>2 DEF IInv
<1>2. IInv /\ [Next]_vars => IInv'
  BY TypeStep, SocketsStep, OpeningStep, DrainingStep, StoppingStep, PooledStep DEF IInv
<1> QED
  BY <1>1, <1>2, PTL DEF Spec

\* Variables keep their types (TCPSocketChannel's attributes and coroutines).
THEOREM TypeCorrect == Spec => []TypeOK
<1>1. IInv => TypeOK
  BY DEF IInv
<1> QED
  BY <1>1, Invariance, PTL

\* However sends, failures, lost connections and stops interleave, an open connection
\* is the pooled one unless sends raced (TCPSocketChannel.send and stop).
THEOREM Pooled == Spec => []OpenIsPooled
<1>1. IInv => OpenIsPooled
  BY DEF IInv
<1> QED
  BY <1>1, Invariance, PTL

\* A channel whose stop has returned holds no connection and has no handler that
\* delivers, but for the races named (TCPSocketChannel.stop).
THEOREM Quiet == Spec => []StoppedIsQuiet
<1>1. IInv => StoppedIsQuiet
  BY DEF IInv, Stopping, StoppedIsQuiet
<1> QED
  BY <1>1, Invariance, PTL

-----------------------------------------------------------------------------
(* What StopEnds rests on: what stop awaits is closing or gone and never   *)
(* opens again, and every step of stop brings it nearer to its end.        *)

\* Every connection that was opened has a state, and the writer that stop awaits is not
\* open.
AwaitedInv ==
    /\ \A k \in Conns : k <= opened => state[k] # "none"
    /\ stop = "writers" => awaited \in Conns /\ state[awaited] \in {"closing", "closed", "lost"}

Stage == [server |-> 3, writers |-> 2, handlers |-> 1, idle |-> 0]

\* stop goes on waiting for the same writer, which stays gone once it is gone.
StillWaiting ==
    /\ awaited' = awaited /\ iter'.left = iter.left
    /\ state'[awaited] \in {"closing", "closed", "lost"}
    /\ state[awaited] # "closing" => state'[awaited] = state[awaited]

\* Stop reaches a later stage, or waits for the next one of finitely many writers, or
\* goes on waiting: nothing that others do sets it back.
StopRunsOut ==
    [][stop # "idle" =>
        \/ Stage[stop'] < Stage[stop]
        \/ stop' = stop /\ (stop = "writers" => iter'.left < iter.left \/ StillWaiting)]_vars

\* Closing a writer, or anything else, does not open one that is closing or gone.
LEMMA StillClosed ==
    ASSUME TypeOK, NEW k \in Conns, NEW j \in Conns, state[j] # "open"
    PROVE  Closed(k)[j] = state[j]
  BY DEF Closed, TypeOK

\* What the steps do to connections: one is opened, one is closed, one goes on closing or
\* goes, or none changes.
LEMMA StateMoves ==
    ASSUME IInv, [Next]_vars
    PROVE  \/ /\ opened' = opened + 1 /\ opened + 1 \in Conns
              /\ state' = [state EXCEPT ![opened + 1] = "open"]
           \/ opened' = opened /\ \E k \in Conns : state' = Closed(k)
           \/ /\ opened' = opened
              /\ \E k \in Conns, s \in {"closing", "closed", "lost"} :
                    /\ state' = [state EXCEPT ![k] = s]
                    /\ state[k] \in {"open", "closing"}
           \/ UNCHANGED <<opened, state>>
<1>1. ASSUME NEW t \in Senders, Opened(t)
      PROVE  /\ opened' = opened + 1 /\ opened + 1 \in Conns
             /\ state' = [state EXCEPT ![opened + 1] = "open"]
  BY <1>1 DEF Opened
<1>2. ASSUME NEW t \in Senders, OpenFails(t) \/ DrainFails(t)
      PROVE  opened' = opened /\ (state' = state \/ \E k \in Conns : state' = Closed(k))
  <2>1. goal[t] \in Destinations /\ Fail(t)
    BY <1>2 DEF OpenFails, DrainFails, IInv, Opening, Draining
  <2> QED BY <2>1, PooledWriter DEF Fail, IInv
<1>3. ASSUME NEW k \in Conns, Flushed(k) \/ Lost(k) \/ Collected(k)
      PROVE  /\ opened' = opened
             /\ \E s \in {"closing", "closed", "lost"} :
                   state' = [state EXCEPT ![k] = s] /\ state[k] \in {"open", "closing"}
  BY <1>3 DEF Flushed, Lost, Collected, ChangesTo
<1>4. CASE Stop \/ ServerClosed \/ WriterClosed
  <2>1. StopMoves BY <1>4, StopCases
  <2> QED BY <2>1 DEF StopMoves, StopOutcome, WriterAwaited, HalfWay, AllClosed
<1> QED BY <1>1, <1>2, <1>3, <1>4, PoolMoves

\* A connection that is closing or gone never opens, and changes only while it closes.
LEMMA ClosedStays ==
    ASSUME IInv, AwaitedInv, [Next]_vars, NEW j \in Conns,
           state[j] \in {"closing", "closed", "lost"}
    PROVE  /\ state'[j] \in {"closing", "closed", "lost"}
           /\ state[j] # "closing" => state'[j] = state[j]
<1>0. /\ state \in [Conns -> {"none", "open", "closing", "closed", "lost"}]
      /\ opened \in Nat /\ j \in Nat /\ j <= opened
  BY ChannelAssumption DEF IInv, TypeOK, Sockets, Conns
<1>1. ASSUME state' = [state EXCEPT ![opened + 1] = "open"], opened + 1 \in Conns
      PROVE  state'[j] = state[j]
  <2>1. j # opened + 1 BY <1>0
  <2> QED BY <1>0, <1>1, <2>1
<1>2. ASSUME NEW k \in Conns, state' = Closed(k) PROVE state'[j] = state[j]
  BY <1>2, StillClosed DEF IInv
<1>3. ASSUME NEW k \in Conns, NEW s \in {"closing", "closed", "lost"},
             state' = [state EXCEPT ![k] = s], state[k] \in {"open", "closing"}
      PROVE  /\ state'[j] \in {"closing", "closed", "lost"}
             /\ state[j] # "closing" => state'[j] = state[j]
  BY <1>0, <1>3
<1> QED BY <1>1, <1>2, <1>3, StateMoves

\* The steps of stop, and what they leave of the writers still to come.
LEMMA WaitMoves ==
    ASSUME IInv, [Next]_vars
    PROVE  \/ UNCHANGED <<stop, awaited>> /\ iter'.left = iter.left
           \/ stop = "idle" /\ stop' = "server"
           \/ \E d \in Destinations :
                 /\ pool[d] \in Conns /\ awaited' = pool[d] /\ state' = Closed(pool[d])
                 /\ stop \in {"idle", "server", "writers"} /\ stop' = "writers"
                 /\ stop = "writers" => iter'.left < iter.left
           \/ stop \in {"idle", "server", "writers"} /\ stop' \in {"idle", "handlers"}
           \/ stop = "handlers" /\ stop' = "idle"
<1>1. ASSUME NEW t \in Senders, OpenFails(t) \/ DrainFails(t)
      PROVE  UNCHANGED <<stop, awaited>> /\ iter'.left = iter.left
  <2>1. iter' = [iter EXCEPT !.seen = @ \ {goal[t]}] /\ UNCHANGED <<stop, awaited>>
    BY <1>1, FailCloses
  <2> QED BY <2>1 DEF IInv, TypeOK
<1>2. CASE Stop \/ ServerClosed \/ WriterClosed
  <2>1. StopMoves BY <1>2, StopCases
  <2>2. CASE stop = "idle" /\ stop' = "server" BY <2>2
  <2>3. ASSUME NEW it \in Iterations, stop = "writers" => it = iter, StopOutcome(it)
        PROVE  \/ \E d \in Destinations :
                 /\ pool[d] \in Conns /\ awaited' = pool[d] /\ state' = Closed(pool[d])
                 /\ stop' = "writers"
                 /\ stop = "writers" => iter'.left < iter.left
               \/ stop' \in {"idle", "handlers"}
    BY <2>3 DEF StopOutcome, WriterAwaited, HalfWay, AllClosed
  <2> QED BY <2>1, <2>2, <2>3 DEF StopMoves
<1>3. CASE Stopped BY <1>3 DEF Stopped
<1>4. CASE UNCHANGED stopping BY <1>4 DEF stopping
<1>5. \/ \E t \in Senders : OpenFails(t) \/ DrainFails(t)
      \/ Stop \/ ServerClosed \/ WriterClosed \/ Stopped \/ UNCHANGED stopping
  BY DEF Next, vars, SendPooled, SendOpening, Opened, Drained, Flushed, Lost, Collected,
         ChangesTo, Accept, Begin, Frame, DeliveryEnds, End, Handling, Listen, Started
<1> QED BY <1>1, <1>2, <1>3, <1>4, <1>5

\* A writer is closed before it is awaited, so it is never open while stop waits.
LEMMA AwaitedInvariance == Spec => []AwaitedInv
<1>1. Init => AwaitedInv
  BY ChannelAssumption DEF Init, AwaitedInv, Conns
<1>2. IInv /\ AwaitedInv /\ [Next]_vars => AwaitedInv'
  <2> SUFFICES ASSUME IInv, AwaitedInv, [Next]_vars PROVE AwaitedInv'
    OBVIOUS
  <2>0. /\ state \in [Conns -> {"none", "open", "closing", "closed", "lost"}]
        /\ opened \in Nat
    BY ChannelAssumption DEF IInv, TypeOK
  <2>1. ASSUME NEW k \in Conns, k <= opened' PROVE state'[k] # "none"
    <3>0. k \in Nat /\ (k <= opened => state[k] # "none")
      BY DEF Conns, AwaitedInv
    <3>1. CASE opened' = opened + 1 /\ state' = [state EXCEPT ![opened + 1] = "open"]
      BY <2>0, <2>1, <3>0, <3>1
    <3>2. ASSUME NEW j \in Conns, state' = Closed(j), opened' = opened
          PROVE  state'[k] # "none"
      BY <2>0, <2>1, <3>0, <3>2 DEF Closed
    <3>3. ASSUME NEW j \in Conns, NEW s \in {"closing", "closed", "lost"},
                 state' = [state EXCEPT ![j] = s], opened' = opened
          PROVE  state'[k] # "none"
      BY <2>0, <2>1, <3>0, <3>3
    <3>4. CASE UNCHANGED <<opened, state>> BY <2>1, <3>0, <3>4
    <3> QED BY <3>1, <3>2, <3>3, <3>4, StateMoves
  <2>2. ASSUME stop' = "writers"
        PROVE  awaited' \in Conns /\ state'[awaited'] \in {"closing", "closed", "lost"}
    <3>1. CASE UNCHANGED <<stop, awaited>>
      BY <2>2, <3>1, ClosedStays DEF AwaitedInv
    <3>2. ASSUME NEW d \in Destinations, pool[d] \in Conns, awaited' = pool[d],
                 state' = Closed(pool[d])
          PROVE  awaited' \in Conns /\ state'[awaited'] \in {"closing", "closed", "lost"}
      <4>1. pool[d] <= opened /\ state[pool[d]] # "none"
        <5>1. pool[d] \in 0 .. opened BY DEF IInv, TypeOK
        <5> QED BY <2>0, <3>2, <5>1 DEF AwaitedInv
      <4> QED BY <2>0, <3>2, <4>1 DEF Closed
    <3> QED BY <2>2, <3>1, <3>2, WaitMoves
  <2> QED BY <2>1, <2>2 DEF AwaitedInv
<1> QED BY <1>1, <1>2, Invariance, PTL DEF Spec

\* Every step while stop is under way is one towards its end, or leaves it waiting.
LEMMA StopStepCloser ==
    ASSUME IInv, AwaitedInv, [Next]_vars, stop # "idle"
    PROVE  \/ Stage[stop'] < Stage[stop]
           \/ stop' = stop /\ (stop = "writers" => iter'.left < iter.left \/ StillWaiting)
<1>1. CASE UNCHANGED <<stop, awaited>> /\ iter'.left = iter.left
  BY <1>1, ClosedStays DEF AwaitedInv, StillWaiting
<1>2. CASE stop \in {"server", "writers"} /\ stop' = "writers"
           /\ (stop = "writers" => iter'.left < iter.left)
  BY <1>2 DEF Stage
<1>3. CASE stop \in {"server", "writers"} /\ stop' \in {"idle", "handlers"}
  BY <1>3 DEF Stage
<1>4. CASE stop = "handlers" /\ stop' = "idle"
  BY <1>4 DEF Stage
<1> QED BY <1>1, <1>2, <1>3, <1>4, WaitMoves

\* What stop waits for while it closes writers is a closing or closed one, and each of its
\* steps uses up one of the keys there were or takes it to its next stage, whatever sends,
\* failures and hosts do (TCPSocketChannel.stop).
THEOREM StopTerminates == Spec => []AwaitedInv /\ StopRunsOut
<1>1. IInv /\ AwaitedInv /\ [Next]_vars
        => [stop # "idle" =>
              \/ Stage[stop'] < Stage[stop]
              \/ stop' = stop /\ (stop = "writers" => iter'.left < iter.left \/ StillWaiting)]_vars
  BY StopStepCloser
<1> QED BY <1>1, Invariance, AwaitedInvariance, PTL DEF Spec, StopRunsOut
=============================================================================
