# A verification development for agents_protocol

`agents_protocol` is a Python library in which agents exchange messages through a broker, in
one process or across nodes.  The directory holds TLA+ modules translated from its source,
TLC configurations that check them on small instances, and theorems that the TLA+ proof
system checks for every value of the constants.

Paths below are relative to the package, `src/src/agents_protocol/`, unless they start with
`src/`.

Run `tlc -config X.cfg M` for a configuration X of module M (both are in `PROJECT.json`, under
`runs`), and `tlapm M.tla` for a module of proofs.

## 1. Inventory

Everything runs on one asyncio event loop: a piece of code between two awaits that really
suspend is one atomic step, and every await that suspends is a place where any other
coroutine may run.  The models take one action per such piece.

| Part | State | Operations | Talks to |
|---|---|---|---|
| `MessageBroker` (`messaging.py`) | `_agents`, `_agent_inboxes` (bounded priority queues), `_counter`, `metrics`, `_pending_messages` | `send`, `_deliver_locally`, `_broadcast`, `get_next_message_for_agent`, `replay_message`, `register_agent`, `unregister_agent`, `request`, `set_response` | router, store, cluster manager, extensions, security |
| `MessageRouter`, `RouterRegistry` (`messaging.py`) | a table of classes | `route` | read by the broker |
| `InMemoryMessageStore` (`persistence.py`) | messages, dead letters, histories, conversations | `save_message`, `update_message_status`, `add_to_dlq`, `remove_from_dlq`, readers | called by the broker; never suspends |
| `Agent` (`agents.py`) | `_running`, `_broker`, `_loop_task`, handlers, capabilities | `connect`, `disconnect`, `send_message`, message loop | broker |
| `AgentRegistry` (`agents.py`) | agents, index of capabilities | `register`, `unregister`, discovery | called by the broker |
| `RetryPolicy`, `CircuitBreaker`, `TimeoutManager` (`resilience.py`) | breaker state, failure count, time of last failure | `execute`, `call`, `run_with_timeout` | wrap HTTP posts |
| `ClusterPeer` (`cluster.py`) | node info, its breaker, its retry policy, a client | `forward_message`, `send_heartbeat` | HTTP |
| `ClusterManager` (`cluster.py`) | `peers`, `remote_agents`, `_client`, heartbeat task | `start`, `stop`, `add_peer`, `register_remote_agent`, heartbeat loop | peers; asked by the broker |
| `TCPSocketChannel` (`channels.py`) | pool of writers, handler tasks, server | `start`, `stop`, `send`, `_handle_connection` | sockets, broker |
| `WebSocketChannel` (`channels.py`) | connection of each agent | same | websockets, broker |
| `HTTPChannel` (`channels.py`) | client, server | same, retries within a timeout | httpx, broker |
| `LocalChannel`, `ChannelRegistry` (`channels.py`) | a flag; a table of classes | `send` | broker |
| `BridgeAgent`, `StreamBridgeAgent` (`bridge.py`) | `_request_map` (1000 entries), reader task | `_process_message`, `handle_external_message` | an external stream, broker |
| `JSONRPCAdapter` (`adapters.py`) | none | conversions | bridge |
| `ExtensionManager`, hooks (`extensions.py`) | hooks, middleware, validators | `trigger`, `process_with_middleware` | around `send` and the handlers |
| `SecurityManager`, `TLSHelper` (`security.py`) | rules | `validate_message` | broker |
| `AgentMessage` (`protocol.py`) | fields of a message | `create_reply` | all |

What is hard here, and what would be correct:

* **Sends suspend at full inboxes.**  A put that blocks has computed its heap key, its sender
  may be a message loop, and the inbox may be deleted below it.  Bounds, the order per
  sender, the delivery count and termination must survive this.
* **Fan-out.**  Recipients are computed first, their deliveries start later, one by one.
* **Resends.**  `replay_message` changes status and dead letters before it sends, and calls
  may overlap on one message object.
* **Loops that send.**  A handler's reply is sent by the loop that should drain the inbox:
  circles of agents can block each other.
* **Lifecycle.**  `disconnect` suspends in the middle; a handler may call it and then cancels
  the loop it runs in; objects may share an id; `connect` may run again at any time.
* **Shared breaker.**  Outcomes of forwards arrive after the breaker has moved on.
* **Heartbeats.**  Rounds overlap with changes of the peers, and with `stop` and `start`.
* **Requests.**  A future is entered before the send, and must be gone after every way out: a
  result, the timer, a cancellation, in whatever order they come.
* **Bridges.**  An external system answers late, twice, out of order or never, while the map
  of requests forgets the oldest one.
* **HTTP tries.**  A post lives on at the other side when the client has given it up, and one
  timeout cuts through all tries.
* **Reconnections.**  An agent connects by WebSocket again before its old handler has ended.
* **Pooled connections.**  Nothing serialises sends to one destination, and `stop` suspends at
  every writer of the pool it iterates over, each of which may fail or never be flushed.

`PROJECT.json` lists these as `hazards`, each at its line.

## 2. Modules

| Module | Models | How its state and actions correspond |
|---|---|---|
| `Broker` | `messaging.py`, the loops of `agents.py`, messages and dead letters of `persistence.py` | A copy of a message for one inbox is an *entry*: `waiting` in a blocked put, `queued`, `taken` by a loop, `dropped` with the inbox, or `hung` in a put on a deleted inbox. `mode`, `sending`, `todo` are the coroutine frames of `send`. |
| `Mailbox` | what the broker promises about inboxes | abstract; `Broker` implements it (`ImplementsMailbox`) |
| `Membership` | what the broker relies on in agents that come and go: mail comes to members, is taken while they are served, and goes with them | abstract; `Broker` implements it (`ImplementsMembership`), and so does `AgentLifecycle` while its callers are orderly (`OrderlyMembership`) |
| `RemoteCall` | a call that is tried several times: "yes" means that the other side has acted, at most once per try | abstract; `ClusterPeer` and `HTTPChannel` implement it (`ImplementsRemoteCall`) |
| `AgentLifecycle` | `connect`, `disconnect`, `register_agent`, `unregister_agent`, `AgentRegistry` | The attributes of several `Agent` objects, which may share an id, against the three tables.  `loop` is `_loop_task`, which may be alive in a handler that has disconnected its own agent, and `closing` the frame of `disconnect`. |
| `ClusterPeer` | `forward_message`, `CircuitBreaker`, `RetryPolicy` | `breaker` is the shared breaker; `pc`, `attempt` the frames of concurrent forwards. |
| `Cluster` | `ClusterManager`, `send_heartbeat` | `peers`, `remote`, the HTTP clients created and which are open; `beat` are the heartbeats that gather awaits. |
| `TCPChannel` | `TCPSocketChannel` | `pool` is `_outgoing_connections`, connections have numbers and a socket state, `connections` is `_connections`, `stop` is the frame of `stop` and `iter` the dict iterator in it. |
| `Store` | the histories of `InMemoryMessageStore` | `history` are the deques of agents and conversations, `members` the sets beside them, `saved` the keys of `_messages`. |
| `Conversation` | `request`, `set_response`, replies, `StreamBridgeAgent`, `JSONRPCAdapter`; extends `Store` | `log` lists what was given to `send`; `caller`, `pending`, `resolved` are the frames of `request` and its futures; `map` with the order `took` is `_request_map`; `line` and `wire` are the two directions of the stream. Every send is a save of `Store`. |
| `Channel` | what the channels share: `_running`, the frames of `send` and `stop`, `ChannelRegistry` | `kind` is the class that was instantiated. |
| `HTTPChannel` | `HTTPChannel`, `TimeoutManager`, its use of `RetryPolicy` | `post` follows every try at the other side, also when its sender has given it up. |
| `WebSocketChannel` | `WebSocketChannel` | `table` is `_connections`; `handler` and `who` are the frames of `_handle_connection`. |
| `Channels` | a channel of any of the three kinds, and `LocalChannel` | composes the three modules above. |
| `MCBroker`, `MCAgentLifecycle`, `MCConversation`, `MCTCPChannel` | instances for TLC | messages, objects and bounds |
| `*Proofs` | theorems | section 4 |

The modules meet at their interfaces rather than in one product.  `Broker` models a single
object per agent id; `AgentLifecycle` allows several and shows (`OrderlyService`) under which
calls what `Broker` assumes is true.  The interface of the two is `Membership`, which both
implement: an id is out, in, or leaving, between the cancellation of its loop and
`unregister_agent`.  `Broker` lets a forward succeed or fail; `ClusterPeer` shows what success
and failure mean.  That is `RemoteCall`, which an HTTP channel implements too, though there a
call is cut by a timeout, cancelled, retried on another session and answered by a handler that
outlives it.  `Remote` in `Broker` is the set of
agents that `Cluster` keeps in `remote`.  `Conversation` takes the whole of `send` as one step
(two for a `request` that is blocked) and looks at what `Broker` leaves out: who answers whom,
and what the store remembers.  `Channels` and `TCPChannel` call the broker and see only whether
its `send` has returned.

### Restrictions and ghosts

* `Broker`: agent ids are not routing patterns (`BrokerAssumption`), and a route lists an agent
  once; the loop's wait at the local `_inbox`, which nothing fills, is not modelled; an agent's
  replies to one message are not told apart.  Middleware passes messages on.  `audience`, `acked`, `refused`,
  `attempts` record history for the properties, and `attempts` bounds the runs.
* `AgentLifecycle`: no second `disconnect` of one object before the first has returned; a
  loop that was cancelled takes no more mail, and a handler that has disconnected its agent
  returns without sending (a response it returns needs the broker, which is gone).  `orderly`
  and `fixed` are history.
* `ClusterPeer`: the wall clock does not go back.  `streak`, `openAge` are history.
* `Cluster`: a heartbeat takes at most `Timeout` ticks; httpx limits each phase of a request to
  two seconds, the limit for a silent peer is thirty.  The info passed to `add_peer` is fresh.
  `down`, `cut`, `early` are history.
* `TCPChannel`: frames have no content; `start` is called when the channel is not listening
  and no `stop` is under way, and one `stop` runs at a time.  An iteration over the pool fails
  when the number of keys has changed; that a rebuilt dict may also skip keys is not
  modelled.  `wait_closed` of the server may return at once (before Python 3.12) or only
  after the handlers have ended; the model has both.  `raced` and `late` are history.
* `Conversation`: the id of a message is its place in `log`.  Saving and delivering a message
  is one step, and the inbox of an agent keeps requests only, the rest is handled without
  effect.  The timer of `wait_for` wakes the caller (Python 3.11) or cancels it (later
  versions); the model has both.  Agents stay connected; the bridge connects and disconnects once.  What the external
  system writes as an answer carries the id of a request it has received; its own requests have
  ids of their own.  `took`, `given` and `wire` are history (`took` gives `map` its order).
  `MCConversation` explores the states in which one of two `Scenarios` (its CONSTRAINT) still
  holds, the bridge with an external system or the futures, since they share no state but the
  log; the scenarios say who sends what, and restrict nothing that the code does with it.
* `HTTPChannel`, `WebSocketChannel`: every sender calls `send` once; `start` and `stop` of one
  channel do not overlap, and `start` is one step.  The endpoint of a post is another
  `HTTPChannel`.  `wait_closed` of a WebSocket server waits for its handlers, as the library
  documents.  `timedOut` and `shared` are history.

## 3. What TLC checks

Every property is paired with a mutant of the code in `PROJECT.json` that breaks it; the
operators marked `mutant` exist for this only.

| Run | Instance | Shows |
|---|---|---|
| `BrokerReplay` | 2 users who send and replay, 2 agents, a notice and a message to a peer (each twice), a broadcast; inboxes of 2, one agent leaves | `TypeOK`, `NoDuplicateDelivery`, `SenderOrder`, `FailedMeansUndelivered`, `FailedIsKept`, `ImplementsMailbox`, `ImplementsMembership` |
| `BrokerProgress` | inboxes of 1; requests of 2 agents to each other and their replies, a message routed to both; the one that leaves is known on a peer | `DeliveredMeansPlaced`, `OnlyTrappedStall`, `FanOutComplete`, `SendsEndOrAreTrapped`, `MailIsReceived` |
| `BrokerDeadLetter` | a forward that fails | violation of `FailedIsDeadLettered` |
| `AgentLifecycle` | 3 objects, 2 of one id, 4 connects | `TypeOK`, `DirectoryConsistent`, `OwnerHoldsBroker`, `OrderlyService`, `OrderlyMembership`, `LoopsEnd`, `MailIsTaken` |
| `ClusterPeer` | 2 forwards, threshold 2, 1 retry, 1 cancellation | `TypeOK`, `ImplementsRemoteCall`, `TripsExactly`, `WindowRespected`, `Recovers` |
| `Cluster` | 2 nodes, 1 agent, 2 additions, 2 starts | `NoDanglingRoute`, `LivePeerKept`, `DeadPeerForgotten` |
| `TCPChannel` | 2 senders, 2 destinations, 2 incoming connections, 2 outgoing ones, 2 starts, in three scenarios | `OpenIsPooled`, `StoppedIsQuiet`, `StopEnds` |
| `TCPChannelStop` | 1 destination | violation of `StoppedIsClean` |
| `TCPChannelHalfStop` | 2 senders, 2 destinations, 1 incoming connection, 1 start | violation of `StopClosesHandlers` |
| `Conversation` | 2 agents, a bridge that remembers 1 request, 2 calls of `request`, histories of 2, 4 messages, 2 answers to each request | `TypeOK`, `AnswersGoHome`, `AnswersAreNotLeaked`, `FuturesSettled`, `HistoryIsRecent`, `LinesAreRead` |
| `ConversationRequest` | 1 agent, 1 call | violation of `RequestResolves` |
| `Channels` | one channel of each kind, started twice: 1 sender with 3 retries, 3 incoming connections of 2 agents | `StatusHonest`, `TableSound`, `ImplementsRemoteCall`, `CallsReturn` |

What a refinement implies is not listed again: that inboxes stay within their size, that
`metrics["delivered"]` counts, and that no mail waits for the absent follow from `Mailbox`, that
a forward reported as successful has arrived (`ForwardHonest`) from `RemoteCall`.  All four are
theorems (section 4).

The bounds, by name, and why they are enough: `MaxAttempts` (2 for the messages whose
resends matter: one overlap of two sends of a message is the least that can go wrong, and statuses do not
accumulate); `Capacity` 1 and 2 (a full inbox with one and with several blocked puts);
two recipients of the routed message of `BrokerProgress` (one may be blocked, gone or not begun
when the other has its copy);
`MaxTime` 1 (equal and different heap times); `MaxConnects` 4 with objects that share an id
(a zombie, its replacement, and a reconnection of either); `MaxMail` 1; `MaxCount` above the
threshold (failures of a circuit that is open already), `MaxCancels` 1; `MaxAdds` and
`MaxStarts` 2 (a replacement, a restart); `MaxConns` 2 (a connection and its successor, or one for
each of two destinations).  In `Conversation`, `MapSize` 1 and `MaxAsks` 2 make the map
forget a request that is still open, `MaxAnswers` 2 answers it twice, `MaxMessages` 4 leaves
room for two requests and their answers and, with `MaxHistory` 2, for evictions; `MaxLines` 1
frame is unread at a time, as the bridge reads them one by one.  `MCTCPChannel` explores
three scenarios that say who acts how often, so that both senders, restarts and several remote
hosts need not multiply.  Symmetry is used for the users in runs without liveness only.  Deadlock is not
checked where the bounds stop the system or where the code may stop; `SendsEndOrAreTrapped`
says what may block in the broker.

**Fairness.**  Only what the event loop or the environment guarantees: coroutines that are
ready run; handlers return; posts, heartbeats and sleeps end (all have timeouts); time
passes; a cancelled handler ends.  Nobody is obliged to send, connect, disconnect,
start or stop, except that `Recovers` assumes the broker goes on forwarding, and properties
that need more say so (`<>[]up`, `[]orderly`, `running`).  For `StopEnds` nothing is
assumed of remote hosts: `stop` may wait for ever for the handlers of connections they keep
(from Python 3.12 on, where the server waits for them) or for one writer they do not read, and the
property names both.  What it excludes is that senders, who go on until the last line of `stop`
resets `_running`, keep it going round.  In `Conversation` only
the reading loop is fair, in `Channels` the ends of posts, sleeps and closed connections and the
steps of `stop`; nothing is assumed of `broker.send`, which may block for ever.

### Divergences found

1. `BrokerDeadLetter`: a message whose forward to a peer fails is FAILED but not in the dead
   letter queue (`messaging.py:212`), where `src/docs/persistence.md:37` says that messages that
   fail are placed there.
2. `ConversationRequest`: nothing calls `set_response`, though `messaging.py:370` says that it is
   called internally when a response arrives: a response goes to the inbox of its recipient,
   which for a `request` is nobody, and the call times out.  Only a handler that calls
   `set_response` itself ends one with a result, and `FuturesSettled` holds for such handlers.
3. `TCPChannelStop`: a send that was opening a connection when `stop` ran leaves the connection
   in the pool of the stopped channel (`channels.py:618`), where `channels.py:42` says "Stop the
   channel and clean up resources."
4. `TCPChannelHalfStop`: a send that fails while `stop` waits for its writer takes the writer out
   of the dict that `stop` iterates over (`channels.py:491`, `630`).  `stop` ends with a
   RuntimeError: no handler is closed, though `channels.py:486` says so, and the channel is still
   running.

Less than a divergence, since no text promises otherwise, but worth knowing: an object whose id
was unregistered by another object with that id still says that it is connected (`OrderlyService`
names the calls that avoid this); of two WebSocket connections of one agent, the end of the older
deletes the entry of the newer (`TableSound` excepts such agents); a bridge broadcasts an answer
whose request it has forgotten or answered before (`AnswersAreNotLeaked` says when); a JSON-RPC
response with a null result becomes a notification to everybody; from Python 3.12 a timer that
fires after `set_response` and before the caller runs on makes `request` return None although it
was answered (`Return` of a call that was "cut"); a stop of a TCP channel forgets the handlers that
begin while it waits for the others, so that a later stop does not cancel them (`late`); an agent
that gained a capability after it was registered, under which another agent is listed, leaves the
broker and not the registry when it disconnects, as the `list.remove` of `agents.py:272` raises
(`Missing`).

## 4. What is proved

Each module of proofs EXTENDS its component and TLAPS.  A theorem follows from an inductive
invariant `IInv`; `Invariance` proves `Spec => []IInv` from one lemma or step per action.

* `BrokerProofs`: `TypeCorrect`, `Bounded`, `Counted`, `Absent`, `Implements`, `FailedKept`,
  `DeliveredPlaced`, `FailedNowhere`, `NotTwice`, `InOrder`, `FanOutEnds`, `Stalls`,
  `ServesMembers`, `InboxHeads`.  `IInv` is
  `Shape` (types; a suspended task knows its message; a blocked put belongs to the send its task
  is suspended in) and `MailInv`: the numbers of entries lie below
  `counter`, an entry is in one place only, and queued or blocked entries belong to
  registered agents.  Without the numbers a put could add an entry that is there already,
  and the count would be too low.  `Implements` maps every action to a step of `Mailbox` or a
  stutter.  The theorems after it rest on `Invariance` and an induction of their own:
  `FailedNowhere` on a message sent once having one sender at most, and no copy while it is
  forwarded; `NotTwice` on an account in which every attempt pays for one copy per recipient,
  placed or still to be started; `InOrder`, which assumes that the clock is not set back, on keys
  that grow and on a blocked put being its task's latest to that inbox; `FanOutEnds` on every
  recipient that has stayed registered being still to be started or having its entry.
  `ServesMembers` maps every action to a step of `Membership`; `InboxHeads` says that the counter
  makes heap keys differ, so that a nonempty inbox has one head.  `Stalls` is the safety half of
  `SendsEndOrAreTrapped`: where no loop, delivery or post can go on, every suspended send is
  caught before a deleted inbox or in a circle of full ones.
  `KindsOfSteps` sorts the actions into those that begin a send, start a delivery, or only take
  away, so that these inductions need not go through all thirteen.
* `ClusterPeerProofs`: `TypeCorrect`, `BelowThreshold`, `Honest`, `TripsOnStreak`,
  `RespectsWindow`, `CallsRemote` (the refinement of `RemoteCall`), `Heals`.  `IInv` adds that
  the breaker's count is the streak of failures since the last success, that the last failure is
  no older than the opening, and that a forward under way has reached the peer at most once per
  retry made.
* `AgentLifecycleProofs`: `TypeCorrect`, `InStep`, `OwnerHolds`, `Served`, `OrderlyServes`; the
  invariants are inductive together: what `disconnect` may unregister depends on all of them.
  `Served` includes agents that their own handlers disconnect: they are unregistered while the
  loop is still in the handler, and that loop takes no more mail.
  `OrderlyServes` is the refinement of `Membership`, for as long as callers are orderly.
* `ClusterProofs`: `TypeCorrect`, `RoutesFollow`, `LiveStays`, `SilentArePruned`.  `IInv` says that in a round the
  peers not waited for any more are no older than the round, unless their node was down or
  their client closed, which is where `Timeout <= Limit` is needed.  `SilentArePruned` adds that
  the loop is there exactly while the manager runs, and heartbeats only in a round (`LoopRuns`).
* `TCPChannelProofs`: `TypeCorrect`, `Pooled`, `Quiet`, `StopTerminates`.  `IInv` says that an open pooled
  connection leads to its destination, that a send which finds an open writer in its place
  when it opens has raced, that what `stop` has passed is closed or raced, and that every
  handler at work which is not `late` is in `connections`, so that a stop cancels it.
  `StopTerminates` adds that the writer `stop` awaits is not open (`AwaitedInv`).
* `StoreProofs`: `StoreTypeCorrect`, `HistoriesInStep` for every use of `save_message`: the
  deque lists no id twice, so the id that falls out of it is the one taken from the set.
* `ConversationProofs`: `TypeCorrect`, `Settled`, `GoHome`, `NotLeaked`, `ImplementsStore`,
  `Recent`, `ReaderSurvives`.  `IInv` says of the bridge that a message it has taken is in its inbox no more, that
  an answer in the stream answers a request it has written, that no request in the map has an
  answer with an address yet, and that one which has left the map was answered or is followed by
  `MapSize` others; of the futures, that a call which has not begun has none.  `Settled` covers
  both ways in which a timer may end a call.
  `ImplementsStore` shows every step to be a save or a stutter of `StoreSpec`,
  which brings in `HistoriesInStep`; `Recent` adds that ids are saved in ascending order, so
  that what a full deque has lost is older than all it holds, and
  `ReaderSurvives` that the reading loop is over only when the stream is (`ReaderInv`).
* `ChannelsProofs`: `TypeCorrect`, `Honest`, `EntriesLead`, `CallsRemote`, `SendsTerminate`,
  `StopTerminates`.  `IInv` ties the tries begun to the
  frame of the send, says that a handler which has not identified its agent has none, and that
  a stop which has waited for the handlers leaves neither handlers nor entries.  `CallsRemote`
  counts the posts handled at the other side by `Cardinality`, which a step raises by one at most.

The assumptions are the named ones of each module.  TLC evaluates them on every run.

**Liveness** is beyond the prover, which has no rule for fairness and none for ENABLED.  For
six of the properties the part that the code decides is proved all the same.  For three it
comes in two halves: what is under way is never stuck (`...GoOn`, a state predicate: some step
of it is possible), and every step brings it closer to its end (`...RunOut`, an action property
with a measure that falls).  `SendsTerminate` and `StopTerminates` of `ChannelsProofs` do this
for `CallsReturn`: a send by HTTP takes three steps per try at most, a stop two per handler;
`StopTerminates` of `TCPChannelProofs` for `StopEnds`, whose first half is that what `stop`
awaits is closing or gone and never opens again (`AwaitedInv`); `Stalls` for the first half of
`SendsEndOrAreTrapped`.  For the others it is what their steps may and may not do: `Heals` for
`Recovers` (forwards end, and while the peer answers the breaker only moves towards closed),
`SilentArePruned` for `DeadPeerForgotten` (rounds lose heartbeats and end by pruning, the silent
grow old), `ReaderSurvives` for `LinesAreRead` (no frame ends the loop or is lost).  What is
left to TLC there is that fair steps which are possible happen.

**Model-checked only**: the liveness properties themselves (`SendsEndOrAreTrapped`,
`MailIsReceived`, `Recovers`, `LoopsEnd`, `MailIsTaken`, `DeadPeerForgotten`, `StopEnds`,
`LinesAreRead`, `CallsReturn`), and the four disagreements of section 3.

## 5. What is not modelled

Pattern syntax of the router; the registries of classes beyond the built-in channels; user code
in hooks, middleware and handlers beyond its outcomes; the rules of the security manager beyond
their verdict; serialisation and validation of messages, frames and HTTP requests; delays of the
backoff; TLS configuration; time stamps of dead letters; the patch scripts and examples of the
repository.  Reasons are in `PROJECT.json` under `components`.

The hazards without a property, in `PROJECT.json` too, are those no text or test of the
repository lets one judge.  Some are outside the models: `drain` promises nothing, HTTP
answers "ok" for a message that failed at the other end.  Others are behaviours of the models
which the properties except by name: a clock that is set back (`ClockStepsBack`), two sends that open one
destination (`raced`), a peer whose client was closed (`cut`), two WebSocket connections of one
agent (`shared`), a capability gained after registration (`fixed`), a handler inside `broker.send` that holds up `stop`, a history limit of 0, a null
result that is broadcast, and a bridge that does not keep the thread an agent has chosen.

## 6. Plan

1. `Broker` and `Mailbox`, `ClusterPeer`, `AgentLifecycle`, `Cluster`, `TCPChannel`, with their
   runs and proofs. Done.
2. `Store` and `Conversation`; `Channel`, `HTTPChannel`, `WebSocketChannel`, `Channels`, with
   theirs. Done.
3. `FailedNowhere`, `NotTwice`, `InOrder` and `FanOutEnds`: all safety properties of the broker
   are proved. Done.
4. `Membership` and `RemoteCall`, the interfaces between components, and the two refinements of
   each; what the liveness properties rest on in channels, heartbeats, breaker and bridge. Done.
5. Left: hooks and middleware with outcomes of their own in `AgentLifecycle`; agents that come
   and go in `Conversation`.
