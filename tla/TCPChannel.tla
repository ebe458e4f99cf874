----------------------------- MODULE TCPChannel -----------------------------
(***************************************************************************)
(* TCPSocketChannel of channels.py: sends over pooled outgoing             *)
(* connections, the handlers of incoming connections, and stop.            *)
(*                                                                         *)
(* A send suspends where it opens a connection and where it drains one;    *)
(* stop suspends at wait_closed of the server, at wait_closed of a pooled  *)
(* writer that is not yet closed, and at the gather of the handlers it has *)
(* cancelled.  Anything else may run there, and only there: nothing        *)
(* serialises the sends to one destination, and sends go on until stop has *)
(* reached its last line.  CPython ends the iteration over a dict that has *)
(* changed with a RuntimeError, as modelled, but for one that it compacts  *)
(* when a key comes back, which may then skip a writer unnoticed.          *)
(*                                                                         *)
(* Frames are written in one call and are not modelled.  The other ends,   *)
(* the sockets and the collection of writers nobody holds are external.    *)
(***************************************************************************)
EXTENDS Integers, FiniteSets

CONSTANTS
    Senders,      \* coroutines that call send
    Destinations, \* "host:port" strings
    Incoming,     \* connections other hosts open to this channel
    None,         \* Python's None
    MaxConns,     \* bound: connections opened
    MaxStarts     \* bound: calls of start

ASSUME ChannelAssumption ==
    /\ IsFiniteSet(Destinations)
    /\ None \notin Destinations
    /\ MaxConns \in Nat /\ MaxStarts \in Nat

Conns == 1 .. MaxConns

VARIABLES
    running,  \* _running
    server,   \* _server: "none", "serving" or "closed"
    pool,     \* _outgoing_connections: the writer of a destination, 0 without
    opened,   \* connections opened so far
    state,    \* of a connection: "none", "open", "closing", "closed" or "lost"
    dest,     \* its destination, None when it is gone
    pc,       \* of a sender: "idle", "opening" or "draining"
    goal,     \* the destination it sends to
    via,      \* the writer it drains
    connections,  \* _connections: the handlers stop would cancel
    handler,  \* of an incoming connection: "none", "new", "reading", "delivering" or
              \* "cancelled"
    stop,     \* where stop is: "idle", "server", "writers", "handlers"
    iter,     \* its iteration over the pool: how many keys there were and how many are to
              \* come, and those it has seen
    awaited,  \* the writer it waits for, or 0
    starts,
    raced,    \* destinations with two sends opening at once, or opening during stop
    late      \* handlers whose task had not run when a stop cancelled the others

sends    == <<pc, goal, via>>
stopping == <<stop, iter, awaited>>
incoming == <<handler, connections, late>>
sockets  == <<opened, state, dest>>
vars     == <<running, server, pool, sockets, sends, incoming, stopping, starts, raced>>

NoIteration == [size |-> 0, left |-> 0, seen |-> {}]

Init ==
    /\ running = FALSE /\ server = "none" /\ starts = 0
    /\ pool = [d \in Destinations |-> 0]
    /\ opened = 0 /\ state = [k \in Conns |-> "none"]
    /\ dest = [k \in Conns |-> None]
    /\ pc = [t \in Senders |-> "idle"]
    /\ goal = [t \in Senders |-> None] /\ via = [t \in Senders |-> 0]
    /\ handler = [i \in Incoming |-> "none"] /\ connections = {}
    /\ stop = "idle" /\ iter = NoIteration /\ awaited = 0
    /\ raced = {} /\ late = {}

Keys == {d \in Destinations : pool[d] # 0}

IsClosing(k) == state[k] # "open"

Closed(k) == IF state[k] = "open" THEN [state EXCEPT ![k] = "closing"] ELSE state

-----------------------------------------------------------------------------
(* send                                                                    *)

Suspend(t, where, d, k) ==
    /\ pc' = [pc EXCEPT ![t] = where]
    /\ goal' = [goal EXCEPT ![t] = d]
    /\ via' = [via EXCEPT ![t] = k]

Return(t) == Suspend(t, "idle", None, 0)

\* The frame is written; drain returns at once or suspends.
Write(t, d, k) == Return(t) \/ Suspend(t, "draining", d, k)

\* A pooled writer that is not closing is used.
SendPooled(t, d) ==
    /\ running /\ pc[t] = "idle"
    /\ pool[d] # 0 /\ ~IsClosing(pool[d])
    /\ Write(t, d, pool[d])
    /\ UNCHANGED <<running, server, pool, sockets, incoming, stopping, starts, raced>>

\* There is none: a connection is opened.
SendOpening(t, d) ==
    /\ running /\ pc[t] = "idle"
    /\ pool[d] # 0 => IsClosing(pool[d])
    /\ Suspend(t, "opening", d, 0)
    /\ raced' = IF stop # "idle" \/ \E u \in Senders : pc[u] = "opening" /\ goal[u] = d
                THEN raced \cup {d} ELSE raced
    /\ UNCHANGED <<running, server, pool, sockets, incoming, stopping, starts>>

\* open_connection returns: the new writer takes the destination's place in the pool.
Opened(t) ==
    LET k == opened + 1 IN
    /\ pc[t] = "opening" /\ k \in Conns
    /\ opened' = k
    /\ state' = [state EXCEPT ![k] = "open"]
    /\ dest' = [dest EXCEPT ![k] = goal[t]]
    /\ pool' = [pool EXCEPT ![goal[t]] = k]
    /\ Write(t, goal[t], k)
    /\ UNCHANGED <<running, server, incoming, stopping, starts, raced>>

\* mutant: the writer is forgotten without being closed
FailKeepingOpen(t) ==
    /\ pool' = [pool EXCEPT ![goal[t]] = 0]
    /\ iter' = [iter EXCEPT !.seen = @ \ {goal[t]}]
    /\ Return(t)
    /\ UNCHANGED <<running, server, sockets, incoming, stop, awaited, starts, raced>>

\* The except branch: whatever writer the pool holds for the destination by now is
\* removed and closed.  A key that comes back is a new one for an iteration.
Fail(t) ==
    /\ pool' = [pool EXCEPT ![goal[t]] = 0]
    /\ iter' = [iter EXCEPT !.seen = @ \ {goal[t]}]
    /\ state' = IF pool[goal[t]] # 0 THEN Closed(pool[goal[t]]) ELSE state
    /\ Return(t)
    /\ UNCHANGED <<running, server, opened, dest, incoming, stop, awaited, starts, raced>>

OpenFails(t) == pc[t] = "opening" /\ Fail(t)

\* drain returns: the buffer has room again, or a close has flushed it.
Drained(t) ==
    /\ pc[t] = "draining" /\ state[via[t]] # "lost"
    /\ Return(t)
    /\ UNCHANGED <<running, server, pool, sockets, incoming, stopping, starts, raced>>

DrainFails(t) == pc[t] = "draining" /\ state[via[t]] = "lost" /\ Fail(t)

-----------------------------------------------------------------------------
(* Connections                                                             *)

ChangesTo(k, s) ==
    /\ state' = [state EXCEPT ![k] = s]
    /\ dest' = IF s \in {"closed", "lost"} THEN [dest EXCEPT ![k] = None] ELSE dest
    /\ UNCHANGED <<running, server, pool, opened, sends, incoming, stopping,
                   starts, raced>>

\* The buffer of a closed writer is flushed.
Flushed(k) == state[k] = "closing" /\ ChangesTo(k, "closed")

\* The connection breaks.
Lost(k) == state[k] \in {"open", "closing"} /\ ChangesTo(k, "lost")

\* A writer that nobody holds is closed when it is collected.
Collected(k) ==
    /\ state[k] = "open" /\ pool[dest[k]] # k
    /\ \A t \in Senders : pc[t] = "draining" => via[t] # k
    /\ ChangesTo(k, "closing")

-----------------------------------------------------------------------------
(* Incoming connections                                                    *)

\* A handler that has ended is gone for every stop.
Handling(i, s, tracked) ==
    /\ handler' = [handler EXCEPT ![i] = s]
    /\ connections' = tracked
    /\ late' = IF s = "none" THEN late \ {i} ELSE late
    /\ UNCHANGED <<running, server, pool, sockets, sends, stopping, starts, raced>>

Accept(i) == server = "serving" /\ handler[i] = "none" /\ Handling(i, "new", connections)

\* mutant: the task is not tracked
BeginUntracked(i) ==
    handler[i] = "new" /\ Handling(i, IF running THEN "reading" ELSE "none", connections)

\* The task runs: it is tracked, and reads while the channel is running.
Begin(i) ==
    /\ handler[i] = "new"
    /\ IF running THEN Handling(i, "reading", connections \cup {i})
                  ELSE Handling(i, "none", connections)

\* A frame has arrived and goes to the broker, whose send may suspend.
Frame(i) == handler[i] = "reading" /\ Handling(i, "delivering", connections)

DeliveryEnds(i) ==
    /\ handler[i] = "delivering"
    /\ IF running THEN Handling(i, "reading", connections)
                  ELSE Handling(i, "none", connections \ {i})

\* End of stream, a frame that is too long, or the cancellation.
End(i) ==
    /\ handler[i] \in {"reading", "cancelled"}
    /\ Handling(i, "none", connections \ {i})

-----------------------------------------------------------------------------
(* start and stop                                                          *)

\* start up to start_server: connections are accepted before _running is set.  A
\* channel is started when it is not listening and no stop is under way.
Listen ==
    /\ ~running /\ server # "serving" /\ stop = "idle" /\ starts < MaxStarts
    /\ server' = "serving" /\ starts' = starts + 1
    /\ UNCHANGED <<running, pool, sockets, sends, incoming, stopping, raced>>

Started ==
    /\ server = "serving" /\ ~running /\ running' = TRUE
    /\ UNCHANGED <<server, pool, sockets, sends, incoming, stopping, starts, raced>>

\* stop awaits nothing between two writers: it passes over those that are gone, closes
\* the next one and awaits it, or is through.
Begun == [size |-> Cardinality(Keys), left |-> Cardinality(Keys), seen |-> {}]

Past(it, dests) == [it EXCEPT !.left = @ - Cardinality(dests), !.seen = @ \cup dests]

Gone(it) == {d \in Keys \ it.seen : state[pool[d]] \in {"closed", "lost"}}

\* mutant: the writer is awaited but not closed
CloseWriterForgotten(d, it) ==
    /\ Cardinality(Keys) = it.size /\ it.left > 0
    /\ d \in Keys \ it.seen /\ state[pool[d]] \in {"open", "closing"}
    /\ stop' = "writers" /\ iter' = Past(it, {d}) /\ awaited' = pool[d]
    /\ UNCHANGED <<running, pool, state, incoming>>

CloseWriter(d, it) ==
    /\ Cardinality(Keys) = it.size /\ it.left > 0
    /\ d \in Keys \ it.seen /\ state[pool[d]] \in {"open", "closing"}
    /\ stop' = "writers" /\ iter' = Past(it, {d}) /\ awaited' = pool[d]
    /\ state' = Closed(pool[d])
    /\ UNCHANGED <<running, pool, incoming>>

EndIteration(where) == stop' = where /\ iter' = NoIteration /\ awaited' = 0

\* The pool has grown or shrunk, or a key has left it and come back: the iteration
\* raises a RuntimeError and stop is left half way.
IterationFails(it) ==
    /\ Cardinality(Keys) # it.size \/ (it.left = 0 /\ ~(Keys \subseteq it.seen))
    /\ EndIteration("idle")
    /\ UNCHANGED <<running, pool, state, incoming>>

\* Every writer is closed: the pool is cleared, tracked handlers are cancelled and,
\* if there are any, awaited.
CancelHandlers(it) ==
    /\ Cardinality(Keys) = it.size /\ Keys \subseteq it.seen
    /\ pool' = [d \in Destinations |-> 0]
    /\ handler' = [i \in Incoming |-> IF i \in connections THEN "cancelled" ELSE handler[i]]
    /\ late' = late \cup {i \in Incoming : handler[i] = "new"}
    /\ IF connections # {}
       THEN EndIteration("handlers") /\ UNCHANGED running
       ELSE EndIteration("idle") /\ running' = FALSE
    /\ UNCHANGED <<state, connections>>

Iterate(it) ==
    \E dests \in SUBSET Gone(it) :
        LET now == Past(it, dests) IN
        /\ now.left >= 0
        /\ \/ \E d \in Destinations : CloseWriter(d, now)
           \/ IterationFails(now)
           \/ CancelHandlers(now)

\* stop, of a stopped channel as well.  From Python 3.12 it awaits the server for as long
\* as there are connections to it.
Stop ==
    /\ stop = "idle" /\ (running \/ server = "closed")
    /\ server' = "closed"
    /\ raced' = raced \cup {goal[t] : t \in {u \in Senders : pc[u] = "opening"}}
    /\ \/ /\ \E i \in Incoming : handler[i] # "none"
          /\ stop' = "server"
          /\ UNCHANGED <<running, pool, state, incoming, iter, awaited>>
       \/ Iterate(Begun)
    /\ UNCHANGED <<opened, dest, sends, starts>>

ServerClosed ==
    /\ stop = "server" /\ Iterate(Begun)
    /\ UNCHANGED <<server, opened, dest, sends, starts, raced>>

\* The connection of the awaited writer is gone; an error is swallowed.
WriterClosed ==
    /\ stop = "writers" /\ state[awaited] \in {"closed", "lost"} /\ Iterate(iter)
    /\ UNCHANGED <<server, opened, dest, sends, starts, raced>>

\* They have ended.  Those that began in the meantime are forgotten: no later stop
\* cancels them.
Stopped ==
    /\ stop = "handlers" /\ \A i \in Incoming : handler[i] # "cancelled"
    /\ stop' = "idle" /\ running' = FALSE
    /\ connections' = {}
    /\ UNCHANGED <<server, pool, sockets, sends, handler, late, iter, awaited, starts,
                   raced>>

-----------------------------------------------------------------------------

Next ==
    \/ \E t \in Senders, d \in Destinations : SendPooled(t, d)
    \/ \E t \in Senders, d \in Destinations : SendOpening(t, d)
    \/ \E t \in Senders : Opened(t)
    \/ \E t \in Senders : OpenFails(t)
    \/ \E t \in Senders : Drained(t)
    \/ \E t \in Senders : DrainFails(t)
    \/ \E k \in Conns : Flushed(k)
    \/ \E k \in Conns : Lost(k)
    \/ \E k \in Conns : Collected(k)
    \/ \E i \in Incoming : Accept(i)
    \/ \E i \in Incoming : Begin(i)
    \/ \E i \in Incoming : Frame(i)
    \/ \E i \in Incoming : DeliveryEnds(i)
    \/ \E i \in Incoming : End(i)
    \/ Listen
    \/ Started
    \/ Stop
    \/ ServerClosed
    \/ WriterClosed
    \/ Stopped

Spec == Init /\ [][Next]_vars

\* A step of stop that nobody else has to make possible.
StopStep ==
    \/ (\A i \in Incoming : handler[i] = "none") /\ ServerClosed
    \/ WriterClosed
    \/ Stopped

\* The event loop runs what is ready: a cancelled handler ends, and the server is closed
\* for certain once no handler is left.  Nobody has to connect, to send, to hang up, to
\* be done with a send or to read what a closed writer has still to flush.
Fairness ==
    /\ WF_vars(StopStep)
    /\ \A i \in Incoming : WF_vars(handler[i] = "cancelled" /\ End(i))

FairSpec == Spec /\ Fairness

-----------------------------------------------------------------------------
(* Properties                                                              *)

\* Pool, connections, senders and handlers have their types.
TypeOK ==
    /\ running \in BOOLEAN /\ server \in {"none", "serving", "closed"}
    /\ opened \in 0 .. MaxConns
    /\ pool \in [Destinations -> 0 .. opened]
    /\ state \in [Conns -> {"none", "open", "closing", "closed", "lost"}]
    /\ dest \in [Conns -> Destinations \cup {None}]
    /\ pc \in [Senders -> {"idle", "opening", "draining"}]
    /\ goal \in [Senders -> Destinations \cup {None}] /\ via \in [Senders -> 0 .. opened]
    /\ handler \in [Incoming -> {"none", "new", "reading", "delivering", "cancelled"}]
    /\ stop \in {"idle", "server", "writers", "handlers"}
    /\ iter \in [size : Nat, left : Nat, seen : SUBSET Destinations]
    /\ awaited \in 0 .. opened
    /\ starts \in 0 .. MaxStarts /\ raced \subseteq Destinations
    /\ connections \subseteq Incoming /\ late \subseteq Incoming

\* An open connection is the one the pool holds for its destination, so the next send
\* finds it and stop closes it: a late failure, a half finished stop or a lost
\* connection leaves none behind, unless two sends were opening at once or one was
\* opening while the channel stopped.
OpenIsPooled ==
    \A k \in Conns : state[k] = "open" => pool[dest[k]] = k \/ dest[k] \in raced

\* A stopped channel holds no open connection, but for those same races, and no
\* handler of it delivers messages to the broker any more, unless its task had not yet
\* run when this stop, or an earlier one that has forgotten it, cancelled the others.
StoppedIsQuiet ==
    ~running =>
        /\ \A d \in Destinations \ raced : pool[d] = 0
        /\ \A i \in Incoming \ late : handler[i] \notin {"reading", "delivering"}

\* Channel.stop, "Stop the channel and clean up resources": when it has returned the
\* pool is empty.
StoppedIsClean == ~running => Keys = {}

\* From Python 3.12 the server is not closed before the handlers have ended.
HeldByHandlers == stop = "server" /\ \E i \in Incoming : handler[i] # "none"

\* wait_closed waits for the flush of a writer whose remote host does not read.
HeldByWriter == stop = "writers" /\ state[awaited] = "closing"

\* stop ends, by its last line or by the RuntimeError of its iteration, unless handlers
\* or one writer hold it up for ever: sends that close, replace or lose the writer stop
\* waits for, or that pool others, do not.
StopEnds ==
    stop # "idle" ~> (stop = "idle" \/ []HeldByHandlers \/ []HeldByWriter)

\* TCPSocketChannel.stop, "Stop the TCP server and close any active background handler
\* tasks": when it is over it has left none of those it knows.
StopClosesHandlers == [][stop # "idle" /\ stop' = "idle" => connections' = {}]_vars
=============================================================================
