---------------------------- MODULE AgentLifecycle ----------------------------
(***************************************************************************)
(* connect and disconnect of agents.py against the registrations of one    *)
(* broker (register_agent and unregister_agent of messaging.py) and its    *)
(* AgentRegistry: several Agent objects, which may carry the same id.      *)
(*                                                                         *)
(* connect runs in one go, disconnect suspends once, where it awaits the   *)
(* message loop it has cancelled.  A handler that disconnects its agent    *)
(* awaits its own task: the cancellation comes back to disconnect, which   *)
(* swallows it, and the loop lives on until the handler returns.  Nothing  *)
(* in the code stops two objects with one id, a second connect, or a       *)
(* connect during a disconnect or before such a handler has returned: the  *)
(* model takes all of these steps.  `orderly` records that callers have so *)
(* far kept one object per id connected and connected it only when it was  *)
(* not and its loop was over, which is what the module Broker relies on.   *)
(***************************************************************************)
EXTENDS Integers

CONSTANTS
    Instances,     \* Agent objects
    Ids,           \* agent ids
    IdOf,          \* agent_id of each object
    Capabilities,
    CapsOf,        \* capabilities each object is constructed with
    None,          \* Python's None
    MaxConnects,   \* bound: calls of connect
    MaxMail        \* bound: messages in an inbox

ASSUME LifecycleAssumption ==
    /\ IdOf \in [Instances -> Ids]
    /\ CapsOf \in [Instances -> SUBSET Capabilities]
    /\ None \notin Instances
    /\ MaxConnects \in Nat /\ MaxMail \in Nat

VARIABLES
    agents,    \* broker._agents
    inboxes,   \* ids with an inbox in broker._agent_inboxes
    mail,      \* messages in the inbox of an id
    registry,  \* registry._agents
    index,     \* registry._capabilities_index: how often it lists an id
    caps,      \* capabilities of an object
    running,   \* _running of an object
    ref,       \* whether its _broker is set
    loop,      \* its _loop_task: "none" (ended), "on", or "handler": in the handler
               \* that has called disconnect
    extra,     \* its message loops that _loop_task no longer refers to
    closing,   \* its disconnect awaits the loop: "no", or called by "handler" or "other"
    connects,  \* calls of connect so far
    orderly,   \* whether connect and disconnect were called in turn
    fixed      \* whether no object's capabilities have changed

broker    == <<agents, inboxes, mail>>
directory == <<registry, index>>
object    == <<running, ref, loop, extra, closing>>
history   == <<connects, orderly, fixed>>
vars      == <<broker, directory, caps, object, history>>

Init ==
    /\ agents = [id \in Ids |-> None]
    /\ inboxes = {} /\ mail = [id \in Ids |-> 0]
    /\ registry = [id \in Ids |-> None]
    /\ index = [entry \in Capabilities \X Ids |-> 0]
    /\ caps = CapsOf
    /\ running = [i \in Instances |-> FALSE]
    /\ ref = [i \in Instances |-> FALSE]
    /\ loop = [i \in Instances |-> "none"]
    /\ extra = [i \in Instances |-> 0]
    /\ closing = [i \in Instances |-> "no"]
    /\ connects = 0 /\ orderly = TRUE /\ fixed = TRUE

\* is_connected
Connected(i) == running[i] /\ ref[i]

-----------------------------------------------------------------------------
(* The registry and the broker's registrations                             *)

\* AgentRegistry.register
Enlist(i) ==
    /\ registry' = [registry EXCEPT ![IdOf[i]] = i]
    /\ index' = [entry \in Capabilities \X Ids |->
                   IF entry[2] = IdOf[i] /\ entry[1] \in caps[i]
                   THEN index[entry] + 1 ELSE index[entry]]

\* Capabilities under which unregister looks for the id, and those it does not find
\* it under: list.remove raises a ValueError there.
Listed(id)  == {c \in caps[registry[id]] : \E x \in Ids : index[<<c, x>>] > 0}
Missing(id) == {c \in Listed(id) : index[<<c, id>>] = 0}

\* mutant: removes an id that is not there
DelistUnchecked(id) ==
    /\ index' = [entry \in Capabilities \X Ids |->
                   IF entry[2] = id /\ entry[1] \in Listed(id)
                   THEN index[entry] - 1 ELSE index[entry]]
    /\ registry' = [registry EXCEPT ![id] = None]

\* AgentRegistry.unregister.  Capabilities gained since register come last in the
\* list, so the ones that are indexed have been removed when it raises.
Delist(id) ==
    /\ index' = [entry \in Capabilities \X Ids |->
                   IF entry[2] = id /\ entry[1] \in Listed(id) \ Missing(id)
                   THEN index[entry] - 1 ELSE index[entry]]
    /\ registry' = IF Missing(id) = {} THEN [registry EXCEPT ![id] = None] ELSE registry

\* register_agent
RegisterAgent(i) ==
    /\ agents' = [agents EXCEPT ![IdOf[i]] = i]
    /\ inboxes' = inboxes \cup {IdOf[i]}
    /\ IF registry[IdOf[i]] = None THEN Enlist(i) ELSE UNCHANGED directory

\* mutant: the registry keeps the agent
UnregisterAgentOnly(i) ==
    /\ agents' = [agents EXCEPT ![IdOf[i]] = None]
    /\ inboxes' = inboxes \ {IdOf[i]}
    /\ mail' = [mail EXCEPT ![IdOf[i]] = 0]
    /\ UNCHANGED directory
    /\ ref' = [ref EXCEPT ![i] = FALSE]

\* unregister_agent, called by disconnect: the id goes whoever holds it now.  If the
\* registry raises, _broker is not reset.
UnregisterAgent(i) ==
    /\ agents' = [agents EXCEPT ![IdOf[i]] = None]
    /\ inboxes' = inboxes \ {IdOf[i]}
    /\ mail' = [mail EXCEPT ![IdOf[i]] = 0]
    /\ IF registry[IdOf[i]] = None THEN UNCHANGED directory ELSE Delist(IdOf[i])
    /\ ref' = [ref EXCEPT ![i] = registry[IdOf[i]] # None /\ Missing(IdOf[i]) # {}]

\* The rest of disconnect, after the loop has ended.
Leave(i) == IF ref[i] THEN UnregisterAgent(i) ELSE UNCHANGED <<broker, directory, ref>>

-----------------------------------------------------------------------------
(* Actions                                                                 *)

\* mutant: the message loop is not started
ConnectNoLoop(i) ==
    /\ connects < MaxConnects /\ connects' = connects + 1
    /\ orderly' = (orderly /\ agents[IdOf[i]] = None /\ loop[i] = "none" /\ closing[i] = "no")
    /\ ref' = [ref EXCEPT ![i] = TRUE]
    /\ IF agents[IdOf[i]] = None
       THEN RegisterAgent(i)
       ELSE agents' = [agents EXCEPT ![IdOf[i]] = i] /\ UNCHANGED <<inboxes, directory>>
    /\ running' = [running EXCEPT ![i] = TRUE]
    /\ UNCHANGED <<mail, caps, closing, fixed, loop, extra>>

\* connect: a registered id only gets its reference replaced; a loop that is alive
\* is left to itself.
Connect(i) ==
    /\ connects < MaxConnects /\ connects' = connects + 1
    /\ orderly' = (orderly /\ agents[IdOf[i]] = None /\ loop[i] = "none" /\ closing[i] = "no")
    /\ ref' = [ref EXCEPT ![i] = TRUE]
    /\ IF agents[IdOf[i]] = None
       THEN RegisterAgent(i)
       ELSE agents' = [agents EXCEPT ![IdOf[i]] = i] /\ UNCHANGED <<inboxes, directory>>
    /\ running' = [running EXCEPT ![i] = TRUE]
    /\ extra' = IF loop[i] # "none" THEN [extra EXCEPT ![i] = @ + 1] ELSE extra
    /\ loop' = [loop EXCEPT ![i] = "on"]
    /\ UNCHANGED <<mail, caps, closing, fixed>>

\* mutant: _broker is reset before the loop has ended
DisconnectEarlyReset(i) ==
    /\ ref[i] /\ closing[i] = "no" /\ loop[i] # "none"
    /\ running' = [running EXCEPT ![i] = FALSE]
    /\ loop' = [loop EXCEPT ![i] = "none"]
    /\ closing' = [closing EXCEPT ![i] = "other"]
    /\ ref' = [ref EXCEPT ![i] = FALSE]
    /\ UNCHANGED <<broker, directory, caps, extra, history>>

\* disconnect: stop, cancel the loop and await it.  A loop that has ended already is
\* not awaited.
Disconnect(i) ==
    /\ ref[i] \/ running[i] \/ loop[i] # "none"
    /\ closing[i] = "no"
    /\ running' = [running EXCEPT ![i] = FALSE]
    /\ IF loop[i] # "none"
       THEN /\ loop' = [loop EXCEPT ![i] = "none"]
            /\ closing' = [closing EXCEPT ![i] = "other"]
            /\ UNCHANGED <<broker, directory, ref>>
       ELSE Leave(i) /\ UNCHANGED <<closing, loop>>
    /\ UNCHANGED <<caps, extra, history>>

\* disconnect called by a handler, inside the loop: its own task is to be cancelled.
DisconnectInHandler(i) ==
    /\ loop[i] = "on" /\ closing[i] = "no"
    /\ running' = [running EXCEPT ![i] = FALSE]
    /\ loop' = [loop EXCEPT ![i] = "handler"]
    /\ closing' = [closing EXCEPT ![i] = "handler"]
    /\ UNCHANGED <<broker, directory, caps, ref, extra, history>>

\* disconnect resumes: the loop has ended, or the CancelledError that the task's await of
\* itself turns into was swallowed.
Disconnected(i) ==
    /\ closing[i] # "no"
    /\ closing' = [closing EXCEPT ![i] = "no"]
    /\ Leave(i)
    /\ UNCHANGED <<running, loop, extra, caps, history>>

\* mutant: the loop does not look at _running again
HandlerReturnsOnly(i) ==
    /\ loop[i] = "handler" /\ closing[i] = "no"
    /\ loop' = [loop EXCEPT ![i] = "on"]
    /\ UNCHANGED <<broker, directory, caps, running, ref, extra, closing, history>>

\* The handler that has called disconnect returns (a response of its is not sent any
\* more), and the loop finds _running False.
HandlerReturns(i) ==
    /\ loop[i] = "handler" /\ closing[i] = "no"
    /\ loop' = [loop EXCEPT ![i] = "none"]
    /\ UNCHANGED <<broker, directory, caps, running, ref, extra, closing, history>>

\* A message is delivered to an id.
Deliver(id) ==
    /\ id \in inboxes /\ mail[id] < MaxMail
    /\ mail' = [mail EXCEPT ![id] = @ + 1]
    /\ UNCHANGED <<agents, inboxes, directory, caps, object, history>>

\* mutant: the loop catches its cancellation and goes on until disconnect has ended
ReceiveUncancelled(i) ==
    /\ loop[i] = "on" \/ extra[i] > 0 \/ closing[i] # "no"
    /\ ref[i] /\ IdOf[i] \in inboxes /\ mail[IdOf[i]] > 0
    /\ mail' = [mail EXCEPT ![IdOf[i]] = @ - 1]
    /\ UNCHANGED <<agents, inboxes, directory, caps, object, history>>

\* Loops that no later disconnect cancels, but for one whose handler is itself still
\* suspended in disconnect, where connect has replaced it.
Stray(i) == extra[i] > (IF closing[i] = "handler" /\ loop[i] = "on" THEN 1 ELSE 0)

\* A loop of the object takes a message, be the object the registered one or not.
Receive(i) ==
    /\ loop[i] = "on" \/ Stray(i)
    /\ ref[i] /\ IdOf[i] \in inboxes /\ mail[IdOf[i]] > 0
    /\ mail' = [mail EXCEPT ![IdOf[i]] = @ - 1]
    /\ UNCHANGED <<agents, inboxes, directory, caps, object, history>>

\* mutant: the loop runs for as long as there is a broker
LoopEndsUnbound(i) ==
    /\ Stray(i) /\ ~ref[i]
    /\ extra' = [extra EXCEPT ![i] = @ - 1]
    /\ UNCHANGED <<broker, directory, caps, running, ref, loop, closing, history>>

\* A loop nobody cancels finds _running False.
LoopEnds(i) ==
    /\ Stray(i) /\ ~running[i]
    /\ extra' = [extra EXCEPT ![i] = @ - 1]
    /\ UNCHANGED <<broker, directory, caps, running, ref, loop, closing, history>>

\* An object is given a capability after its construction.
Learn(i, c) ==
    /\ c \notin caps[i]
    /\ caps' = [caps EXCEPT ![i] = @ \cup {c}]
    /\ fixed' = FALSE
    /\ UNCHANGED <<broker, directory, object, connects, orderly>>

Next ==
    \/ \E i \in Instances : Connect(i)
    \/ \E i \in Instances : Disconnect(i)
    \/ \E i \in Instances : Disconnected(i)
    \/ \E i \in Instances : DisconnectInHandler(i)
    \/ \E i \in Instances : HandlerReturns(i)
    \/ \E id \in Ids : Deliver(id)
    \/ \E i \in Instances : Receive(i)
    \/ \E i \in Instances : LoopEnds(i)
    \/ \E i \in Instances, c \in Capabilities : Learn(i, c)

Spec == Init /\ [][Next]_vars

\* The event loop resumes what is ready: loops and a disconnect that awaits one.  Handlers
\* are assumed to return.
Fairness ==
    \A i \in Instances :
        /\ WF_vars(Disconnected(i)) /\ WF_vars(HandlerReturns(i))
        /\ WF_vars(Receive(i)) /\ WF_vars(LoopEnds(i))

FairSpec == Spec /\ Fairness

-----------------------------------------------------------------------------
(* Properties                                                              *)

\* Objects, registrations and loops have their types; no id is listed a negative
\* number of times under a capability.
TypeOK ==
    /\ agents \in [Ids -> Instances \cup {None}]
    /\ inboxes \subseteq Ids /\ mail \in [Ids -> 0 .. MaxMail]
    /\ registry \in [Ids -> Instances \cup {None}]
    /\ index \in [Capabilities \X Ids -> Nat]
    /\ caps \in [Instances -> SUBSET Capabilities]
    /\ running \in [Instances -> BOOLEAN] /\ ref \in [Instances -> BOOLEAN]
    /\ loop \in [Instances -> {"none", "on", "handler"}]
    /\ closing \in [Instances -> {"no", "handler", "other"}]
    /\ extra \in [Instances -> Nat]
    /\ connects \in 0 .. MaxConnects /\ orderly \in BOOLEAN /\ fixed \in BOOLEAN

\* The three tables stay in step however connects and disconnects interleave: an id
\* is registered when it has an inbox and when the registry knows it, and it is then
\* found once under each capability of the object that enlisted it.
DirectoryConsistent ==
    /\ \A id \in Ids : id \in inboxes <=> agents[id] # None
    /\ fixed => \A id \in Ids :
          /\ registry[id] # None <=> agents[id] # None
          /\ \A c \in Capabilities :
                index[<<c, id>>] = IF registry[id] # None /\ c \in caps[registry[id]]
                                   THEN 1 ELSE 0

\* Whoever is registered can still send and disconnect: it holds the broker.
OwnerHoldsBroker ==
    \A id \in Ids : agents[id] # None => IdOf[agents[id]] = id /\ ref[agents[id]]

\* With orderly callers (and capabilities that stay) an object that says it is connected
\* is the one registered and has exactly one message loop, and no other object has a
\* loop at all, but for one that is still in the handler which disconnected it: a handler
\* that disconnects its agent leaves it unregistered, and its loop does not go on.
OrderlyService ==
    orderly /\ fixed =>
        \A i \in Instances :
            /\ running[i] <=> agents[IdOf[i]] = i /\ closing[i] = "no"
            /\ running[i] <=> loop[i] = "on"
            /\ extra[i] = 0
            /\ ref[i] => agents[IdOf[i]] = i

\* An id is in while the object registered for it is served, and leaving while that
\* object's disconnect awaits the loop.
Phase ==
    [id \in Ids |-> IF agents[id] = None THEN "out"
                    ELSE IF closing[agents[id]] # "no" THEN "leaving" ELSE "in"]

\* With orderly callers the agents are what the broker takes them for: an id is never
\* served by two loops or by one that was stopped, mail is taken by the loop of the
\* registered object only, and what is left of it goes with the registration.
Service == INSTANCE Membership WITH Members <- Ids, phase <- Phase
OrderlyMembership ==
    /\ Service!Init
    /\ [][orderly' /\ fixed' => Service!Next]_(Service!vars)

\* An object that stays disconnected ends up without message loops, also those a second
\* connect has started and one that has called disconnect itself, which nobody cancels.
LoopsEnd ==
    \A i \in Instances : <>[](~running[i]) => <>[](loop[i] = "none" /\ extra[i] = 0)

\* With orderly callers mail never waits for ever: it is taken, or dropped with the
\* inbox of an agent that leaves.
MailIsTaken ==
    []orderly => \A id \in Ids : (mail[id] = MaxMail ~> mail[id] < MaxMail)
=============================================================================
