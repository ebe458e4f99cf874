------------------------------- MODULE Broker -------------------------------
(***************************************************************************)
(* The message broker of agents_protocol/messaging.py together with the    *)
(* message loops of agents.py that drain its inboxes and the in-memory     *)
(* store of persistence.py it writes to.                                   *)
(*                                                                         *)
(* The program runs on one asyncio event loop: code between two awaits     *)
(* that suspend is one atomic step.  The in-memory store, the validation   *)
(* rules and the security manager never suspend, so a send stops only in   *)
(* three places: at `put` on a full inbox, at `gather` when it fans out,   *)
(* and at the HTTP post that forwards to a peer.  A task is a user         *)
(* coroutine that calls the broker, or the message loop of an agent, which *)
(* sends the replies of its handlers.                                      *)
(*                                                                         *)
(* A copy of a message on its way to one inbox is an entry.  It waits      *)
(* (put blocked), is queued, and is then taken by the agent or dropped     *)
(* with the inbox; a put blocked on an inbox that was deleted is hung.     *)
(***************************************************************************)
EXTENDS Integers, FiniteSets

CONSTANTS
    Agents,         \* ids of the agents that may connect to this broker
    Users,          \* user coroutines that call send and replay_message
    Messages,       \* the messages user coroutines send
    Addresses,      \* what recipient_id may hold: agent ids, remote ids, patterns
    None,           \* Python's None
    Envelope,       \* sender, recipient, priority, type and legality of each message
    Routes,         \* what MessageRouter.route finds for an address
    Remote,         \* addresses the cluster manager has placed on a peer
    MayLeave,       \* agents that may disconnect
    Capacity,       \* maxsize of an inbox
    MaxAttempts,    \* bound: sends and replays of each message
    MaxTime,        \* bound: readings of time.time_ns()
    ClockStepsBack  \* whether the wall clock may be set back

Tasks       == Users \cup Agents
AllMessages == Messages \cup (Messages \X Agents)
Statuses    == {"PENDING", "SENT", "DELIVERED", "FAILED"}
Modes       == {"idle", "direct", "broadcast", "routed", "forward"}
Counters    == {"delivered", "failed", "broadcast", "forwarded",
                "security_denied", "validation_failed"}

EnvelopeType == [from : Agents, to : Addresses \cup {None}, priority : Nat,
                 request : BOOLEAN, suspect : BOOLEAN]

ASSUME BrokerAssumption ==
    /\ Users \cap Agents = {}
    /\ None \notin Addresses /\ None \notin AllMessages
    /\ Agents \subseteq Addresses /\ Remote \subseteq Addresses /\ MayLeave \subseteq Agents
    /\ IsFiniteSet(Agents)
    /\ Envelope \in [Messages -> EnvelopeType]
    /\ Routes \in [Addresses \cup {None} -> SUBSET Agents]
    /\ \A a \in Agents : Routes[a] = {}   \* an agent's id is not a routing pattern
    /\ Capacity \in Nat \ {0} /\ MaxAttempts \in [AllMessages -> Nat] /\ MaxTime \in Nat
    /\ ClockStepsBack \in BOOLEAN

VARIABLES
    conn,       \* of an agent: "out", "in" (registered, loop running), "leaving"
    cur,        \* the message an agent's loop is processing
    mode,       \* what kind of send a task is suspended in
    sending,    \* the message it sends
    todo,       \* recipients whose delivery coroutine gather has not started
    audience,   \* recipients of the fan-out that have stayed registered since
    queued,     \* entries in the inboxes
    waiting,    \* entries whose put is blocked on a full inbox
    hung,       \* entries whose put is blocked on a deleted inbox
    taken,      \* entries the agents received
    dropped,    \* entries deleted with their inbox
    counter,    \* itertools.count() of the broker
    now,        \* last reading of time.time_ns()
    stored,     \* messages in the store
    dlq,        \* messages in the dead letter queue
    status,     \* status of the stored message object
    metrics,
    attempts,   \* sends and replays begun of each message
    acked,      \* messages a peer answered 200 for
    refused     \* messages whose last send ended in a failed forward

tasks  == <<mode, sending, todo, audience>>
mail   == <<queued, waiting, hung, taken, dropped, counter, now>>
ledger == <<stored, dlq, status, metrics, attempts, acked, refused>>
vars   == <<conn, cur, tasks, mail, ledger>>

-----------------------------------------------------------------------------
(* State functions                                                         *)

\* AgentMessage; <<m, a>> is the reply agent a makes to request m (create_reply).
Env(m) ==
    IF m \in Messages
    THEN Envelope[m]
    ELSE [from |-> m[2], to |-> Envelope[m[1]].from, priority |-> Envelope[m[1]].priority,
          request |-> FALSE, suspect |-> Envelope[m[1]].suspect]

Entry == [msg : AllMessages, to : Agents, by : Tasks, n : Nat, time : Nat]

Registered == {a \in Agents : conn[a] # "out"}

Inbox(a) == {e \in queued : e.to = a}

HasRoomOffByOne(a) == Cardinality(Inbox(a)) <= Capacity   \* mutant

HasRoom(a) == Cardinality(Inbox(a)) < Capacity

Route(m) == Routes[Env(m).to] \cap Registered

\* mutant: the younger of two equal keys first
PrecedesYoungest(e, f) ==
    \/ Env(e.msg).priority > Env(f.msg).priority
    \/ Env(e.msg).priority = Env(f.msg).priority /\ e.n > f.n

\* Order of the heap keys (-priority, time_ns, counter).
Precedes(e, f) ==
    \/ Env(e.msg).priority > Env(f.msg).priority
    \/ /\ Env(e.msg).priority = Env(f.msg).priority
       /\ e.time < f.time \/ (e.time = f.time /\ e.n < f.n)

InFlight(t) == {e \in waiting \cup hung : e.by = t}

Delivered == queued \cup taken \cup dropped

-----------------------------------------------------------------------------
(* Building blocks of send                                                 *)

\* The heap key is computed before put, so a put that blocks keeps an old key.
MakeKey(tm) ==
    /\ ClockStepsBack \/ tm >= now
    /\ now' = tm
    /\ counter' = counter + 1

Key(t, m, a, tm) == [msg |-> m, to |-> a, by |-> t, n |-> counter, time |-> tm]

\* mutant: another member of MessageStatus
MarkAcknowledged(m) ==
    /\ status' = [status EXCEPT ![m] = "COMPLETED"]
    /\ metrics' = [metrics EXCEPT !["delivered"] = @ + 1]

MarkDelivered(m) ==
    /\ status' = [status EXCEPT ![m] = "DELIVERED"]
    /\ metrics' = [metrics EXCEPT !["delivered"] = @ + 1]

\* put goes straight through: status, metric and store are updated.
Put(t, m, a) ==
    /\ HasRoom(a)
    /\ \E tm \in 0 .. MaxTime :
          MakeKey(tm) /\ queued' = queued \cup {Key(t, m, a, tm)}
    /\ MarkDelivered(m)
    /\ UNCHANGED <<waiting, hung, taken, dropped>>

\* put on a full inbox suspends.
Block(t, m, a) ==
    /\ ~HasRoom(a)
    /\ \E tm \in 0 .. MaxTime :
          MakeKey(tm) /\ waiting' = waiting \cup {Key(t, m, a, tm)}
    /\ UNCHANGED <<queued, hung, taken, dropped, metrics>>

Suspend(t, m, kind, rids) ==
    /\ mode' = [mode EXCEPT ![t] = kind]
    /\ sending' = [sending EXCEPT ![t] = m]
    /\ todo' = [todo EXCEPT ![t] = rids]
    /\ audience' = [audience EXCEPT ![t] = rids]

Return(t) == Suspend(t, None, "idle", {})

\* Custom validation or the security manager turns the message down.
Reject(m, dead) ==
    /\ Env(m).suspect
    /\ \E why \in {"validation_failed", "security_denied"} :
          metrics' = [metrics EXCEPT ![why] = @ + 1]
    /\ status' = [status EXCEPT ![m] = "FAILED"]
    /\ dlq' = dead \cup {m}
    /\ UNCHANGED <<tasks, mail, acked>>

\* mutant: no early return, the router delivers once more
SendDirectFallsThrough(t, m, dead) ==
    /\ Env(m).to \in Registered
    /\ Put(t, m, Env(m).to) /\ Suspend(t, m, "routed", {Env(m).to})
    /\ dlq' = dead
    /\ UNCHANGED acked

\* mutant: no early return, the message is forwarded to a peer as well
SendDirectAndForward(t, m, dead) ==
    /\ Env(m).to \in Registered
    /\ Put(t, m, Env(m).to) /\ Suspend(t, m, "forward", {})
    /\ dlq' = dead
    /\ UNCHANGED acked

\* The recipient is a local agent: the router is not consulted.
SendDirect(t, m, dead) ==
    /\ Env(m).to \in Registered
    /\ \/ Put(t, m, Env(m).to) /\ UNCHANGED tasks
       \/ /\ Block(t, m, Env(m).to)
          /\ status' = [status EXCEPT ![m] = "SENT"]
          /\ Suspend(t, m, "direct", {})
    /\ dlq' = dead
    /\ UNCHANGED acked

\* The router found recipients: one delivery coroutine each.
SendRouted(t, m, dead) ==
    /\ Env(m).to \notin Registered /\ Route(m) # {}
    /\ Suspend(t, m, "routed", Route(m))
    /\ status' = [status EXCEPT ![m] = "SENT"]
    /\ dlq' = dead
    /\ UNCHANGED <<mail, metrics, acked>>

\* No recipient and no route: everybody but the sender, or nobody.
Broadcast(t, m, dead) ==
    /\ Env(m).to = None /\ Route(m) = {}
    /\ LET others == Registered \ {Env(m).from} IN
       \/ /\ others # {}
          /\ Suspend(t, m, "broadcast", others)
          /\ status' = [status EXCEPT ![m] = "SENT"]
          /\ UNCHANGED metrics
       \/ /\ others = {}
          /\ status' = [status EXCEPT ![m] = "DELIVERED"]
          /\ metrics' = [metrics EXCEPT !["broadcast"] = @ + 1]
          /\ UNCHANGED tasks
    /\ dlq' = dead
    /\ UNCHANGED <<mail, acked>>

Unroutable(m) == Env(m).to \notin Registered \cup {None} /\ Route(m) = {}

\* The agent is known on a peer: post the message there.
Forward(t, m, dead) ==
    /\ Unroutable(m) /\ Env(m).to \in Remote
    /\ Suspend(t, m, "forward", {})
    /\ status' = [status EXCEPT ![m] = "SENT"]
    /\ dlq' = dead
    /\ UNCHANGED <<mail, metrics, acked>>

\* mutant: not put into the dead letter queue
NotRegisteredForgotten(m, dead) ==
    /\ Unroutable(m)
    /\ status' = [status EXCEPT ![m] = "FAILED"]
    /\ metrics' = [metrics EXCEPT !["failed"] = @ + 1]
    /\ dlq' = dead
    /\ UNCHANGED <<tasks, mail, acked>>

\* No peer holds the agent (any more): dead letter.
NotRegistered(m, dead) ==
    /\ Unroutable(m)
    /\ status' = [status EXCEPT ![m] = "FAILED"]
    /\ metrics' = [metrics EXCEPT !["failed"] = @ + 1]
    /\ dlq' = dead \cup {m}
    /\ UNCHANGED <<tasks, mail, acked>>

\* _do_send up to its first suspension; dead is the dead letter queue it finds.
BeginSend(t, m, dead) ==
    /\ mode[t] = "idle" /\ attempts[m] < MaxAttempts[m]
    /\ attempts' = [attempts EXCEPT ![m] = @ + 1]
    /\ stored' = stored \cup {m}
    /\ refused' = refused \ {m}
    /\ \/ Reject(m, dead)
       \/ SendDirect(t, m, dead)
       \/ SendRouted(t, m, dead)
       \/ Broadcast(t, m, dead)
       \/ Forward(t, m, dead)
       \/ NotRegistered(m, dead)
    /\ UNCHANGED conn

-----------------------------------------------------------------------------
(* Actions                                                                 *)

Init ==
    /\ conn = [a \in Agents |-> "out"]
    /\ cur = [a \in Agents |-> None]
    /\ mode = [t \in Tasks |-> "idle"]
    /\ sending = [t \in Tasks |-> None]
    /\ todo = [t \in Tasks |-> {}]
    /\ audience = [t \in Tasks |-> {}]
    /\ queued = {} /\ waiting = {} /\ hung = {} /\ taken = {} /\ dropped = {}
    /\ counter = 0 /\ now = 0
    /\ stored = {} /\ dlq = {} /\ acked = {} /\ refused = {}
    /\ status = [m \in AllMessages |-> "PENDING"]
    /\ metrics = [k \in Counters |-> 0]
    /\ attempts = [m \in AllMessages |-> 0]

\* A user coroutine sends a message, possibly one it has sent before.
Send(u, m) == BeginSend(u, m, dlq) /\ UNCHANGED cur

\* replay_message: out of the dead letter queue first, then through send.
ReplayMessage(u, m) ==
    /\ m \in stored
    /\ BeginSend(u, m, dlq \ {m})
    /\ UNCHANGED cur

\* A blocked put finds room; a direct send returns with it.
ResumePut(t) ==
    /\ \E e \in waiting :
          /\ e.by = t /\ HasRoom(e.to)
          /\ waiting' = waiting \ {e}
          /\ queued' = queued \cup {e}
    /\ MarkDelivered(sending[t])
    /\ IF mode[t] = "direct" THEN Return(t) ELSE UNCHANGED tasks
    /\ UNCHANGED <<conn, cur, hung, taken, dropped, counter, now,
                   stored, dlq, attempts, acked, refused>>

\* gather starts the delivery to a; the inbox is looked up only now.
StartCopy(t, a) ==
    /\ a \in todo[t]
    /\ todo' = [todo EXCEPT ![t] = @ \ {a}]
    /\ \/ a \in Registered /\ Put(t, sending[t], a)
       \/ a \in Registered /\ Block(t, sending[t], a) /\ UNCHANGED status
       \/ a \notin Registered /\ UNCHANGED <<mail, status, metrics>>
    /\ UNCHANGED <<conn, cur, mode, sending, audience, stored, dlq, attempts, acked, refused>>

\* mutant: returns when the first delivery coroutine has ended
FinishFirstCopy(t) ==
    /\ mode[t] \in {"broadcast", "routed"}
    /\ todo[t] # audience[t] /\ InFlight(t) = {}
    /\ status' = [status EXCEPT ![sending[t]] = "DELIVERED"]
    /\ Return(t)
    /\ UNCHANGED <<conn, cur, mail, stored, dlq, metrics, attempts, acked, refused>>

\* Every delivery coroutine has ended: the send returns DELIVERED.
FinishCopies(t) ==
    /\ mode[t] \in {"broadcast", "routed"}
    /\ todo[t] = {} /\ InFlight(t) = {}
    /\ status' = [status EXCEPT ![sending[t]] = "DELIVERED"]
    /\ metrics' = IF mode[t] = "broadcast"
                  THEN [metrics EXCEPT !["broadcast"] = @ + 1] ELSE metrics
    /\ Return(t)
    /\ UNCHANGED <<conn, cur, mail, stored, dlq, attempts, acked, refused>>

\* forward_message returns True.
ForwardAccepted(t) ==
    /\ mode[t] = "forward"
    /\ status' = [status EXCEPT ![sending[t]] = "DELIVERED"]
    /\ metrics' = [metrics EXCEPT !["forwarded"] = @ + 1]
    /\ acked' = acked \cup {sending[t]}
    /\ Return(t)
    /\ UNCHANGED <<conn, cur, mail, stored, dlq, attempts, refused>>

\* mutant: the result of forward_message is ignored
ForwardFailedIgnored(t) ==
    /\ mode[t] = "forward"
    /\ status' = [status EXCEPT ![sending[t]] = "DELIVERED"]
    /\ metrics' = [metrics EXCEPT !["forwarded"] = @ + 1]
    /\ Return(t)
    /\ UNCHANGED <<conn, cur, mail, stored, dlq, attempts, acked, refused>>

\* forward_message returns False: retries exhausted or circuit open.
ForwardFailed(t) ==
    /\ mode[t] = "forward"
    /\ status' = [status EXCEPT ![sending[t]] = "FAILED"]
    /\ metrics' = [metrics EXCEPT !["failed"] = @ + 1]
    /\ refused' = refused \cup {sending[t]}
    /\ Return(t)
    /\ UNCHANGED <<conn, cur, mail, stored, dlq, attempts, acked>>

\* connect: register with the broker, start the message loop.
Connect(a) ==
    /\ conn[a] = "out"
    /\ conn' = [conn EXCEPT ![a] = "in"]
    /\ UNCHANGED <<cur, tasks, mail, ledger>>

\* disconnect up to `await self._loop_task`: the loop is cancelled wherever it is,
\* and with it the message it processes and the reply it is sending.
CancelLoop(a) ==
    /\ a \in MayLeave /\ conn[a] = "in"
    /\ conn' = [conn EXCEPT ![a] = "leaving"]
    /\ cur' = [cur EXCEPT ![a] = None]
    /\ Return(a)
    /\ waiting' = {e \in waiting : e.by # a}
    /\ hung' = {e \in hung : e.by # a}
    /\ UNCHANGED <<queued, taken, dropped, counter, now, ledger>>

\* mutant: the puts blocked on the inbox are forgotten with it
UnregisterForgettingPuts(a) ==
    /\ conn[a] = "leaving"
    /\ conn' = [conn EXCEPT ![a] = "out"]
    /\ dropped' = dropped \cup Inbox(a)
    /\ queued' = queued \ Inbox(a)
    /\ waiting' = {e \in waiting : e.to # a}
    /\ audience' = [t \in Tasks |-> audience[t] \ {a}]
    /\ UNCHANGED <<cur, mode, sending, todo, taken, hung, counter, now, ledger>>

\* mutant: the inbox is kept for the next registration
UnregisterKeepingInbox(a) ==
    /\ conn[a] = "leaving"
    /\ conn' = [conn EXCEPT ![a] = "out"]
    /\ audience' = [t \in Tasks |-> audience[t] \ {a}]
    /\ UNCHANGED <<cur, mode, sending, todo, mail, ledger>>

\* The rest of disconnect: unregister_agent deletes the inbox.
Unregister(a) ==
    /\ conn[a] = "leaving"
    /\ conn' = [conn EXCEPT ![a] = "out"]
    /\ dropped' = dropped \cup Inbox(a)
    /\ queued' = queued \ Inbox(a)
    /\ hung' = hung \cup {e \in waiting : e.to = a}
    /\ waiting' = {e \in waiting : e.to # a}
    /\ audience' = [t \in Tasks |-> audience[t] \ {a}]
    /\ UNCHANGED <<cur, mode, sending, todo, taken, counter, now, ledger>>

\* The loop takes the first entry of its inbox.
Receive(a) ==
    /\ conn[a] = "in" /\ cur[a] = None /\ mode[a] = "idle"
    /\ \E e \in Inbox(a) :
          /\ \A f \in Inbox(a) \ {e} : Precedes(e, f)
          /\ queued' = queued \ {e}
          /\ taken' = taken \cup {e}
          /\ cur' = [cur EXCEPT ![a] = e.msg]
    /\ UNCHANGED <<conn, tasks, waiting, hung, dropped, counter, now, ledger>>

\* mutant: an exception ends the message loop
HandleAndStop(a) == cur[a] # None /\ UNCHANGED vars

\* The handler ends without a response: none registered, a falsy result, not a
\* request, or a failing hook.
HandleSilently(a) ==
    /\ cur[a] # None
    /\ cur' = [cur EXCEPT ![a] = None]
    /\ UNCHANGED <<conn, tasks, mail, ledger>>

\* The handler's response (or error) to a request is sent.  One reply of an agent
\* to a message is told apart.
HandleWithReply(a) ==
    /\ cur[a] \in Messages /\ Env(cur[a]).request
    /\ attempts[<<cur[a], a>>] = 0
    /\ BeginSend(a, <<cur[a], a>>, dlq)
    /\ cur' = [cur EXCEPT ![a] = None]

Next ==
    \/ \E u \in Users, m \in Messages : Send(u, m)
    \/ \E u \in Users, m \in AllMessages : ReplayMessage(u, m)
    \/ \E t \in Tasks : ResumePut(t)
    \/ \E t \in Tasks, a \in Agents : StartCopy(t, a)
    \/ \E t \in Tasks : FinishCopies(t)
    \/ \E t \in Tasks : ForwardAccepted(t)
    \/ \E t \in Tasks : ForwardFailed(t)
    \/ \E a \in Agents : Connect(a)
    \/ \E a \in Agents : CancelLoop(a)
    \/ \E a \in Agents : Unregister(a)
    \/ \E a \in Agents : Receive(a)
    \/ \E a \in Agents : HandleSilently(a)
    \/ \E a \in Agents : HandleWithReply(a)

Spec == Init /\ [][Next]_vars

\* What the event loop runs once it is ready: every started coroutine, every loop.
\* Handlers are assumed to return and forwards to end; nobody has to call send,
\* connect or disconnect.
Fairness ==
    /\ \A t \in Tasks : /\ WF_vars(ResumePut(t))
                        /\ WF_vars(\E a \in Agents : StartCopy(t, a))
                        /\ WF_vars(FinishCopies(t))
                        /\ WF_vars(ForwardAccepted(t) \/ ForwardFailed(t))
    /\ \A a \in Agents : /\ WF_vars(Unregister(a))
                         /\ WF_vars(Receive(a))
                         /\ WF_vars(HandleSilently(a) \/ HandleWithReply(a))

FairSpec == Spec /\ Fairness

-----------------------------------------------------------------------------
(* Properties                                                              *)

\* Every variable holds values of its type.
TypeOK ==
    /\ conn \in [Agents -> {"out", "in", "leaving"}]
    /\ cur \in [Agents -> AllMessages \cup {None}]
    /\ mode \in [Tasks -> Modes]
    /\ sending \in [Tasks -> AllMessages \cup {None}]
    /\ todo \in [Tasks -> SUBSET Agents]
    /\ audience \in [Tasks -> SUBSET Agents]
    /\ queued \subseteq Entry /\ waiting \subseteq Entry /\ hung \subseteq Entry
    /\ taken \subseteq Entry /\ dropped \subseteq Entry
    /\ counter \in Nat /\ now \in 0 .. MaxTime
    /\ stored \subseteq AllMessages /\ dlq \subseteq AllMessages
    /\ acked \subseteq AllMessages /\ refused \subseteq AllMessages
    /\ status \in [AllMessages -> Statuses]
    /\ metrics \in [Counters -> Nat]
    /\ attempts \in [AllMessages -> Nat]

\* An inbox never holds more than maxsize entries, however many puts were blocked
\* on it and whoever barges in when one of them is woken.
InboxBounded == \A a \in Agents : Cardinality(Inbox(a)) <= Capacity

\* An agent is not handed the same message more often than it was sent or replayed:
\* the fast path returns, a fan-out starts one delivery per recipient, a put that
\* blocked is not repeated.
NoDuplicateDelivery ==
    \A m \in AllMessages, a \in Agents :
        Cardinality({e \in Delivered : e.msg = m /\ e.to = a}) <= attempts[m]

\* A message that was sent once and reported FAILED has reached no inbox and is not
\* about to: a rejected or unroutable message is not also delivered.
FailedMeansUndelivered ==
    \A m \in AllMessages :
        status[m] = "FAILED" /\ attempts[m] = 1
            => \A e \in Delivered \cup waiting \cup hung : e.msg # m

\* A message to an agent id that is reported DELIVERED was put into an inbox of that
\* agent or accepted by a peer.
DeliveredMeansPlaced ==
    \A m \in AllMessages :
        status[m] = "DELIVERED" /\ Env(m).to \in Agents
            => m \in acked \/ \E e \in Delivered : e.msg = m /\ e.to = Env(m).to

\* A failed message is in the dead letter queue, through resends and replays that
\* overlap, unless its last send ended in a failed forward.
FailedIsKept ==
    \A m \in AllMessages : status[m] = "FAILED" => m \in dlq \cup refused

\* docs/persistence.md:37, "Messages that fail to deliver are automatically placed in
\* the DLQ".
FailedIsDeadLettered ==
    \A m \in AllMessages : status[m] = "FAILED" => m \in dlq

\* metrics["delivered"] counts every put exactly once: what is in the inboxes, what
\* agents have received and what was deleted with an inbox.
DeliveredCounted == metrics["delivered"] = Cardinality(Delivered)

\* What was queued or blocked for an agent that has left is never found in the inbox
\* it gets when it connects again.
NoMailForTheAbsent ==
    \A e \in queued \cup waiting : e.to \in Registered

\* While the wall clock is not set back, an agent receives the messages of one
\* sending task and priority in the order they were sent, also when puts blocked.
SenderOrder ==
    \A e \in taken, f \in queued \cup waiting :
        /\ e.by = f.by /\ e.to = f.to
        /\ Env(e.msg).priority = Env(f.msg).priority
        => e.n < f.n

\* When a fan-out returns, every recipient it found that stayed registered has a
\* copy, whatever connected, left or came back meanwhile.
FanOutComplete ==
    [][\A u \in Users :
          mode[u] \in {"broadcast", "routed"} /\ mode'[u] = "idle"
          => \A a \in audience[u] :
                \E e \in Delivered : e.msg = sending[u] /\ e.to = a /\ e.by = u]_vars

\* The broker implements the mailbox specification: entries are numbered, put once,
\* counted once, and leave their inbox once.
Handover == INSTANCE Mailbox WITH registered <- Registered, delivered <- metrics["delivered"]
ImplementsMailbox == Handover!Spec

\* How many entries each inbox holds.
Load == [a \in Agents |-> Cardinality(Inbox(a))]

\* To the broker an agent is out, in or leaving: its inbox is filled while the id is
\* registered, drained only by the one loop of an agent that is in, and emptied when
\* the agent leaves.
Service == INSTANCE Membership WITH Members <- Agents, phase <- conn, mail <- Load
ImplementsMembership == Service!Spec

\* A task is trapped when it waits for a deleted inbox, or for inboxes whose agents'
\* loops are trapped themselves.
Trapped(t) ==
    \E S \in SUBSET Tasks :
        /\ t \in S
        /\ \A s \in S : \E e \in InFlight(s) : e \in hung \/ e.to \in S

\* Nothing the event loop could run is ready: no put has room, no coroutine of a
\* fan-out has to be started and no fan-out has ended, no forward is under way, no
\* disconnect is half way, no loop has a message to handle or to take.
NothingReady ==
    /\ \A e \in waiting : ~HasRoom(e.to)
    /\ \A t \in Tasks :
          /\ todo[t] = {} /\ mode[t] # "forward"
          /\ mode[t] \in {"broadcast", "routed"} => InFlight(t) # {}
    /\ \A a \in Agents :
          /\ conn[a] # "leaving" /\ cur[a] = None
          /\ conn[a] = "in" /\ mode[a] = "idle" => Inbox(a) = {}

\* When nothing is ready, every send that has not returned is trapped and so is the
\* loop of every agent with mail: no wakeup was lost, no recipient forgotten.
OnlyTrappedStall ==
    NothingReady =>
        /\ \A t \in Tasks : mode[t] # "idle" => Trapped(t)
        /\ \A a \in Agents : Inbox(a) # {} => Trapped(a)

\* The only sends that do not return are the trapped ones: a send is never lost
\* behind a wakeup, a starved copy or an agent that leaves.
SendsEndOrAreTrapped ==
    \A t \in Tasks : mode[t] # "idle" ~> (mode[t] = "idle" \/ Trapped(t))

\* What is queued for an agent is received, or goes with its inbox, unless the
\* agent's own loop is trapped in a reply.
MailIsReceived ==
    \A a \in Agents : Inbox(a) # {} ~> (Inbox(a) = {} \/ Trapped(a))
=============================================================================
