---------------------------- MODULE BrokerProofs ----------------------------
(***************************************************************************)
(* Theorems about Broker, for every set of agents, users and messages,     *)
(* every capacity and every bound.                                         *)
(***************************************************************************)
EXTENDS Broker, FiniteSetTheorems, WellFoundedInduction, TLAPS

-----------------------------------------------------------------------------
(* Lemmas about the state functions and building blocks                    *)

\* Every message, reply or original, has a well-formed envelope.
LEMMA EnvType == \A m \in AllMessages : Env(m) \in EnvelopeType
<1> SUFFICES ASSUME NEW m \in AllMessages PROVE Env(m) \in EnvelopeType
    OBVIOUS
<1>1. CASE m \in Messages
  BY <1>1, BrokerAssumption DEF Env
<1>2. CASE m \notin Messages
  <2>1. PICK r \in Messages, a \in Agents : m = <<r, a>>
    BY <1>2 DEF AllMessages
  <2>2. Envelope[r] \in EnvelopeType
    BY BrokerAssumption
  <2>3. Env(m) = [from |-> a, to |-> Envelope[r].from, priority |-> Envelope[r].priority,
                  request |-> FALSE, suspect |-> Envelope[r].suspect]
    BY <1>2, <2>1 DEF Env
  <2> QED
    BY <2>2, <2>3, BrokerAssumption DEF EnvelopeType
<1> QED
  BY <1>1, <1>2

\* A key made for a known task, message and agent is an entry.
LEMMA KeyType ==
    ASSUME TypeOK, NEW t \in Tasks, NEW m \in AllMessages, NEW a \in Agents,
           NEW tm \in 0 .. MaxTime
    PROVE  Key(t, m, a, tm) \in Entry
  BY BrokerAssumption DEF Key, Entry, TypeOK

\* Routing and broadcasting address known agents only.
LEMMA RouteType == \A m \in AllMessages : Route(m) \subseteq Agents
  BY DEF Route, Registered

-----------------------------------------------------------------------------
(* The inductive invariant.  A suspended task knows its message, only a    *)
(* fan-out has deliveries to start, and a blocked put belongs to the send  *)
(* its task is suspended in.  An entry has a number below the counter and  *)
(* is in one place, so a new entry is new everywhere; that is what makes   *)
(* the count of delivered messages and the bound of an inbox inductive.    *)

FanOut == {"broadcast", "routed"}

TaskShape ==
    \A t \in Tasks :
        /\ mode[t] # "idle" => sending[t] \in AllMessages
        /\ mode[t] \in FanOut => Env(sending[t]).to \notin Agents
        /\ mode[t] \notin FanOut => todo[t] = {}

FlightShape ==
    \A e \in waiting \cup hung :
        /\ e.msg = sending[e.by]
        /\ mode[e.by] \in FanOut \cup {"direct"}
        /\ mode[e.by] = "direct" =>
              /\ e.to = Env(e.msg).to
              /\ \A f \in waiting \cup hung : f.by = e.by => f = e

Numbered == \A e \in Delivered \cup waiting \cup hung : e.n < counter

Apart ==
    /\ waiting \cap hung = {} /\ (waiting \cup hung) \cap Delivered = {}
    /\ queued \cap taken = {} /\ queued \cap dropped = {} /\ taken \cap dropped = {}

MailInv ==
    /\ Numbered /\ Apart /\ NoMailForTheAbsent
    /\ IsFiniteSet(Delivered) /\ DeliveredCounted /\ InboxBounded

Shape == TypeOK /\ TaskShape /\ FlightShape

IInv == Shape /\ MailInv

-----------------------------------------------------------------------------
(* Type correctness                                                        *)

\* A put that goes straight through keeps the types of mail and ledger.
LEMMA PutType ==
    ASSUME TypeOK, NEW t \in Tasks, NEW m \in AllMessages, NEW a \in Agents, Put(t, m, a)
    PROVE  /\ queued' \subseteq Entry /\ waiting' \subseteq Entry /\ hung' \subseteq Entry
           /\ taken' \subseteq Entry /\ dropped' \subseteq Entry
           /\ counter' \in Nat /\ now' \in 0 .. MaxTime
           /\ status' \in [AllMessages -> Statuses]
           /\ metrics' \in [Counters -> Nat]
<1>1. PICK tm \in 0 .. MaxTime :
          MakeKey(tm) /\ queued' = queued \cup {Key(t, m, a, tm)}
  BY DEF Put
<1>2. Key(t, m, a, tm) \in Entry
  BY KeyType
<1> QED
  BY <1>1, <1>2 DEF Put, MakeKey, MarkDelivered, TypeOK, Statuses, Counters

\* A put that blocks keeps the types of the mail.
LEMMA BlockType ==
    ASSUME TypeOK, NEW t \in Tasks, NEW m \in AllMessages, NEW a \in Agents, Block(t, m, a)
    PROVE  /\ queued' \subseteq Entry /\ waiting' \subseteq Entry /\ hung' \subseteq Entry
           /\ taken' \subseteq Entry /\ dropped' \subseteq Entry
           /\ counter' \in Nat /\ now' \in 0 .. MaxTime
           /\ metrics' \in [Counters -> Nat]
<1>1. PICK tm \in 0 .. MaxTime :
          MakeKey(tm) /\ waiting' = waiting \cup {Key(t, m, a, tm)}
  BY DEF Block
<1>2. Key(t, m, a, tm) \in Entry
  BY KeyType
<1> QED
  BY <1>1, <1>2 DEF Block, MakeKey, TypeOK

\* The types of the tasks variables.
TasksOK ==
    /\ mode \in [Tasks -> Modes]
    /\ sending \in [Tasks -> AllMessages \cup {None}]
    /\ todo \in [Tasks -> SUBSET Agents]
    /\ audience \in [Tasks -> SUBSET Agents]

\* Suspending a task in a known kind of send keeps the types of the tasks.
LEMMA SuspendType ==
    ASSUME TypeOK, NEW t \in Tasks, NEW m \in AllMessages \cup {None}, NEW kind \in Modes,
           NEW rids \in SUBSET Agents, Suspend(t, m, kind, rids)
    PROVE  TasksOK'
  BY DEF Suspend, TypeOK, TasksOK

\* So does returning from a send.
LEMMA ReturnType ==
    ASSUME TypeOK, NEW t \in Tasks, Return(t)
    PROVE  TasksOK'
<1>1. "idle" \in Modes
  BY DEF Modes
<1> QED
  BY <1>1, SuspendType DEF Return

\* A send up to its first suspension keeps every type, on each of its six paths.
LEMMA BeginSendType ==
    ASSUME TypeOK, NEW t \in Tasks, NEW m \in AllMessages, NEW dead \in SUBSET AllMessages,
           BeginSend(t, m, dead), cur' \in [Agents -> AllMessages \cup {None}]
    PROVE  TypeOK'
<1>1. /\ attempts' \in [AllMessages -> Nat]
      /\ stored' \subseteq AllMessages /\ refused' \subseteq AllMessages
      /\ conn' \in [Agents -> {"out", "in", "leaving"}]
  BY DEF BeginSend, TypeOK
<1>2. {"direct", "broadcast", "routed", "forward"} \subseteq Modes
  BY DEF Modes
<1>3. {"SENT", "DELIVERED", "FAILED"} \subseteq Statuses
  BY DEF Statuses
<1>4. CASE Reject(m, dead)
  BY <1>1, <1>3, <1>4 DEF Reject, TypeOK, tasks, mail, Counters
<1>5. CASE SendDirect(t, m, dead)
  <2>1. Env(m).to \in Agents
    BY <1>5 DEF SendDirect, Registered
  <2>2. CASE Put(t, m, Env(m).to) /\ UNCHANGED tasks
    BY <1>1, <1>5, <2>1, <2>2, PutType DEF SendDirect, TypeOK, tasks
  <2>3. CASE /\ Block(t, m, Env(m).to)
             /\ status' = [status EXCEPT ![m] = "SENT"]
             /\ Suspend(t, m, "direct", {})
    BY <1>1, <1>2, <1>3, <1>5, <2>1, <2>3, BlockType, SuspendType DEF SendDirect, TypeOK, TasksOK
  <2> QED
    BY <1>5, <2>2, <2>3 DEF SendDirect
<1>6. CASE SendRouted(t, m, dead)
  <2>1. Route(m) \in SUBSET Agents
    BY RouteType
  <2> QED
    BY <1>1, <1>2, <1>3, <1>6, <2>1, SuspendType DEF SendRouted, TypeOK, TasksOK, mail
<1>7. CASE Broadcast(t, m, dead)
  <2>1. Registered \ {Env(m).from} \in SUBSET Agents
    BY DEF Registered
  <2>2. CASE /\ Suspend(t, m, "broadcast", Registered \ {Env(m).from})
             /\ status' = [status EXCEPT ![m] = "SENT"]
             /\ UNCHANGED metrics
    BY <1>1, <1>2, <1>3, <1>7, <2>1, <2>2, SuspendType DEF Broadcast, TypeOK, TasksOK, mail
  <2>3. CASE /\ status' = [status EXCEPT ![m] = "DELIVERED"]
             /\ metrics' = [metrics EXCEPT !["broadcast"] = @ + 1]
             /\ UNCHANGED tasks
    BY <1>1, <1>3, <1>7, <2>3 DEF Broadcast, TypeOK, mail, tasks, Counters
  <2> QED
    BY <1>7, <2>2, <2>3 DEF Broadcast
<1>8. CASE Forward(t, m, dead)
  BY <1>1, <1>2, <1>3, <1>8, SuspendType DEF Forward, TypeOK, TasksOK, mail
<1>9. CASE NotRegistered(m, dead)
  BY <1>1, <1>3, <1>9 DEF NotRegistered, TypeOK, tasks, mail, Counters
<1> QED
  BY <1>4, <1>5, <1>6, <1>7, <1>8, <1>9 DEF BeginSend

\* Types hold before the first step.
LEMMA InitType == Init => TypeOK
  BY BrokerAssumption DEF Init, TypeOK, Modes, Statuses, Counters

\* Every step keeps every variable in its type.
LEMMA NextType ==
    ASSUME Shape, [Next]_vars
    PROVE  TypeOK'
<1> USE DEF Shape
<1>1. {"DELIVERED", "FAILED"} \subseteq Statuses
  BY DEF Statuses
<1>2. ASSUME NEW u \in Users, NEW m \in Messages, Send(u, m) PROVE TypeOK'
  BY <1>2, BeginSendType DEF Send, TypeOK, Tasks, AllMessages
<1>3. ASSUME NEW u \in Users, NEW m \in AllMessages, ReplayMessage(u, m) PROVE TypeOK'
  <2>1. dlq \ {m} \in SUBSET AllMessages
    BY DEF TypeOK
  <2> QED
    BY <1>3, <2>1, BeginSendType DEF ReplayMessage, TypeOK, Tasks
<1>4. ASSUME NEW t \in Tasks, ResumePut(t) PROVE TypeOK'
  <2>1. /\ waiting' \subseteq Entry /\ queued' \subseteq Entry
        /\ status' \in [AllMessages -> Statuses]
        /\ metrics' \in [Counters -> Nat]
    <3>1. MarkDelivered(sending[t])
      BY <1>4 DEF ResumePut
    <3>2. waiting' \subseteq Entry /\ queued' \subseteq Entry
      BY <1>4 DEF ResumePut, TypeOK
    <3>3. status' \in [AllMessages -> Statuses]
      BY <1>1, <3>1 DEF MarkDelivered, TypeOK
    <3>4. metrics' \in [Counters -> Nat]
      BY <3>1 DEF MarkDelivered, TypeOK, Counters
    <3> QED
      BY <3>2, <3>3, <3>4
  <2>2. CASE Return(t)
    <3>1. TasksOK'
      BY <2>2, ReturnType
    <3> QED
      BY <1>4, <2>1, <3>1 DEF ResumePut, TypeOK, TasksOK
  <2>3. CASE UNCHANGED tasks
    BY <1>4, <2>1, <2>3 DEF ResumePut, TypeOK, tasks
  <2> QED
    BY <1>4, <2>2, <2>3 DEF ResumePut
<1>5. ASSUME NEW t \in Tasks, NEW a \in Agents, StartCopy(t, a) PROVE TypeOK'
  <2>1. todo' \in [Tasks -> SUBSET Agents]
    BY <1>5 DEF StartCopy, TypeOK
  <2>2. sending[t] \in AllMessages
    BY <1>5 DEF StartCopy, TaskShape, FanOut
  <2>3. CASE Put(t, sending[t], a)
    BY <1>5, <2>1, <2>2, <2>3, PutType DEF StartCopy, TypeOK
  <2>4. CASE Block(t, sending[t], a) /\ UNCHANGED status
    BY <1>5, <2>1, <2>2, <2>4, BlockType DEF StartCopy, TypeOK
  <2>5. CASE UNCHANGED <<mail, status, metrics>>
    BY <1>5, <2>1, <2>5 DEF StartCopy, TypeOK, mail
  <2> QED
    BY <1>5, <2>3, <2>4, <2>5 DEF StartCopy
<1>6. ASSUME NEW t \in Tasks, FinishCopies(t) PROVE TypeOK'
  <2>1. TasksOK'
    BY <1>6, ReturnType DEF FinishCopies
  <2>2. metrics' \in [Counters -> Nat]
    BY <1>6 DEF FinishCopies, TypeOK, Counters
  <2> QED
    BY <1>1, <1>6, <2>1, <2>2 DEF FinishCopies, TypeOK, TasksOK, mail
<1>7. ASSUME NEW t \in Tasks, ForwardAccepted(t) PROVE TypeOK'
  <2>1. sending[t] \in AllMessages
    BY <1>7 DEF ForwardAccepted, TaskShape
  <2> QED
    BY <1>1, <1>7, <2>1, ReturnType DEF ForwardAccepted, TypeOK, TasksOK, mail, Counters
<1>8. ASSUME NEW t \in Tasks, ForwardFailed(t) PROVE TypeOK'
  <2>1. sending[t] \in AllMessages
    BY <1>8 DEF ForwardFailed, TaskShape
  <2> QED
    BY <1>1, <1>8, <2>1, ReturnType DEF ForwardFailed, TypeOK, TasksOK, mail, Counters
<1>9. ASSUME NEW a \in Agents, Connect(a) PROVE TypeOK'
  BY <1>9 DEF Connect, TypeOK, tasks, mail, ledger
<1>10. ASSUME NEW a \in Agents, CancelLoop(a) PROVE TypeOK'
  <2>1. a \in Tasks
    BY DEF Tasks
  <2> QED
    BY <1>10, <2>1, ReturnType DEF CancelLoop, TypeOK, TasksOK, ledger
<1>11. ASSUME NEW a \in Agents, Unregister(a) PROVE TypeOK'
  BY <1>11 DEF Unregister, TypeOK, ledger, Inbox
<1>12. ASSUME NEW a \in Agents, Receive(a) PROVE TypeOK'
  BY <1>12 DEF Receive, TypeOK, ledger, tasks, Inbox, Entry
<1>13. ASSUME NEW a \in Agents, HandleSilently(a) PROVE TypeOK'
  BY <1>13 DEF HandleSilently, TypeOK, ledger, tasks, mail
<1>14. ASSUME NEW a \in Agents, HandleWithReply(a) PROVE TypeOK'
  <2>1. <<cur[a], a>> \in AllMessages /\ a \in Tasks /\ dlq \in SUBSET AllMessages
    BY <1>14 DEF HandleWithReply, AllMessages, Tasks, TypeOK
  <2>2. cur' \in [Agents -> AllMessages \cup {None}]
    BY <1>14 DEF HandleWithReply, TypeOK
  <2> QED
    BY <1>14, <2>1, <2>2, BeginSendType DEF HandleWithReply
<1>15. CASE UNCHANGED vars
  BY <1>15 DEF TypeOK, vars, tasks, mail, ledger
<1> QED
  BY <1>2, <1>3, <1>4, <1>5, <1>6, <1>7, <1>8, <1>9, <1>10, <1>11, <1>12, <1>13, <1>14, <1>15
     DEF Next

-----------------------------------------------------------------------------
(* The shape of suspended tasks and blocked puts                           *)

\* A task that is not suspended has no put under way.
LEMMA IdleHasNothingInFlight ==
    ASSUME Shape, NEW t \in Tasks, mode[t] \notin FanOut \cup {"direct"},
           NEW e \in waiting \cup hung
    PROVE  e.by # t
  BY DEF Shape, FlightShape

\* Suspending an idle task keeps the shape, if it has deliveries to start only in a
\* fan-out and fans out only what is not addressed to an agent.
LEMMA SuspendShape ==
    ASSUME Shape, NEW t \in Tasks, NEW m \in AllMessages, NEW kind \in Modes,
           NEW rids \in SUBSET Agents, mode[t] = "idle", Suspend(t, m, kind, rids),
           kind \in FanOut => Env(m).to \notin Agents,
           kind \notin FanOut => rids = {},
           waiting' = waiting, hung' = hung
    PROVE  TaskShape' /\ FlightShape'
<1>1. \A s \in Tasks : s # t => /\ mode'[s] = mode[s] /\ sending'[s] = sending[s]
                               /\ todo'[s] = todo[s]
  BY DEF Shape, TypeOK, Suspend
<1>2. mode'[t] = kind /\ sending'[t] = m /\ todo'[t] = rids
  BY DEF Shape, TypeOK, Suspend
<1>3. TaskShape'
  BY <1>1, <1>2 DEF Shape, TaskShape, Env
<1>4. \A e \in waiting \cup hung : e.by \in Tasks /\ e.by # t
  BY IdleHasNothingInFlight DEF Shape, TypeOK, Entry, FanOut
<1>5. FlightShape'
  BY <1>1, <1>4 DEF Shape, FlightShape, Env
<1> QED
  BY <1>3, <1>5

\* A task that returns and leaves no put behind keeps the shape.
LEMMA ReturnShape ==
    ASSUME Shape, NEW t \in Tasks, Return(t),
           waiting' \cup hung' \subseteq waiting \cup hung,
           \A e \in waiting' \cup hung' : e.by # t
    PROVE  TaskShape' /\ FlightShape'
<1>1. \A s \in Tasks : s # t => /\ mode'[s] = mode[s] /\ sending'[s] = sending[s]
                               /\ todo'[s] = todo[s]
  BY DEF Shape, TypeOK, Return, Suspend
<1>2. mode'[t] = "idle" /\ todo'[t] = {}
  BY DEF Shape, TypeOK, Return, Suspend
<1>3. TaskShape'
  BY <1>1, <1>2 DEF Shape, TaskShape, FanOut, Env
<1>4. \A e \in waiting \cup hung : e.by \in Tasks
  BY DEF Shape, TypeOK, Entry
<1>5. FlightShape'
  BY <1>1, <1>4 DEF Shape, FlightShape, Env
<1> QED
  BY <1>3, <1>5

\* So does a step that suspends nobody and blocks no further put.
LEMMA KeptShape ==
    ASSUME Shape, UNCHANGED <<mode, sending>>,
           \A t \in Tasks : todo'[t] \subseteq todo[t],
           waiting' \cup hung' \subseteq waiting \cup hung
    PROVE  TaskShape' /\ FlightShape'
<1>1. TaskShape'
  BY DEF Shape, TaskShape, Env
<1>2. FlightShape'
  BY DEF Shape, FlightShape, Env
<1> QED
  BY <1>1, <1>2

\* A new send leaves its task idle, or suspended with at most the put it is blocked in.
LEMMA BeginSendShape ==
    ASSUME Shape, NEW t \in Tasks, NEW m \in AllMessages, NEW dead, BeginSend(t, m, dead)
    PROVE  TaskShape' /\ FlightShape'
<1>1. mode[t] = "idle"
  BY DEF BeginSend
<1>2. {"direct", "broadcast", "routed", "forward"} \subseteq Modes
  BY DEF Modes
<1>3. Env(m).to \in Agents => Env(m).to # None /\ Route(m) = {}
  BY BrokerAssumption DEF Route
<1>4. CASE UNCHANGED <<tasks, waiting, hung>>
  BY <1>4, KeptShape DEF tasks
<1>5. CASE SendRouted(t, m, dead)
  <2>1. Suspend(t, m, "routed", Route(m)) /\ waiting' = waiting /\ hung' = hung
    BY <1>5 DEF SendRouted, mail
  <2>2. Env(m).to \notin Agents /\ Route(m) \in SUBSET Agents
    BY <1>3, <1>5, RouteType DEF SendRouted
  <2> QED
    BY <1>1, <1>2, <2>1, <2>2, SuspendShape DEF FanOut
<1>6. CASE /\ Broadcast(t, m, dead)
           /\ Suspend(t, m, "broadcast", Registered \ {Env(m).from})
  <2>1. waiting' = waiting /\ hung' = hung
    BY <1>6 DEF Broadcast, mail
  <2>2. Env(m).to \notin Agents /\ Registered \ {Env(m).from} \in SUBSET Agents
    BY <1>3, <1>6 DEF Broadcast, Registered
  <2> QED
    BY <1>1, <1>2, <1>6, <2>1, <2>2, SuspendShape DEF FanOut
<1>7. CASE Forward(t, m, dead)
  <2>1. Suspend(t, m, "forward", {}) /\ waiting' = waiting /\ hung' = hung
    BY <1>7 DEF Forward, mail
  <2> QED
    BY <1>1, <1>2, <2>1, SuspendShape DEF FanOut
<1>8. CASE Block(t, m, Env(m).to) /\ Suspend(t, m, "direct", {})
  <2>1. PICK tm \in 0 .. MaxTime : waiting' = waiting \cup {Key(t, m, Env(m).to, tm)}
    BY <1>8 DEF Block
  <2> DEFINE new == Key(t, m, Env(m).to, tm)
  <2>2. new.by = t /\ new.msg = m /\ new.to = Env(m).to
    BY DEF Key
  <2>3. hung' = hung
    BY <1>8 DEF Block
  <2>4. \A s \in Tasks : s # t => /\ mode'[s] = mode[s] /\ sending'[s] = sending[s]
                                 /\ todo'[s] = todo[s]
    BY <1>8 DEF Shape, TypeOK, Suspend
  <2>5. mode'[t] = "direct" /\ sending'[t] = m /\ todo'[t] = {}
    BY <1>8 DEF Shape, TypeOK, Suspend
  <2>6. \A e \in waiting \cup hung : e.by \in Tasks /\ e.by # t
    BY <1>1, IdleHasNothingInFlight DEF Shape, TypeOK, Entry, FanOut
  <2>7. TaskShape'
    BY <2>4, <2>5 DEF Shape, TaskShape, FanOut, Env
  <2>8. FlightShape'
    <3> SUFFICES ASSUME NEW e \in waiting' \cup hung'
                 PROVE  /\ e.msg = sending'[e.by]
                        /\ mode'[e.by] \in FanOut \cup {"direct"}
                        /\ mode'[e.by] = "direct" =>
                              /\ e.to = Env(e.msg).to
                              /\ \A f \in waiting' \cup hung' : f.by = e.by => f = e
      BY DEF FlightShape, Env
    <3> HIDE DEF new
    <3>1. CASE e = new
      BY <2>1, <2>2, <2>3, <2>5, <2>6, <3>1 DEF new
    <3>2. CASE e \in waiting \cup hung
      BY <2>1, <2>2, <2>3, <2>4, <2>6, <3>2 DEF Shape, FlightShape, new
    <3> QED
      BY <2>1, <2>3, <3>1, <3>2 DEF new
  <2> QED
    BY <2>7, <2>8
<1> QED
  BY <1>4, <1>5, <1>6, <1>7, <1>8
     DEF BeginSend, Reject, SendDirect, Broadcast, NotRegistered, Put, mail

\* A fan-out delivery starts with a put that belongs to its task.
LEMMA StartCopyShape ==
    ASSUME Shape, NEW t \in Tasks, NEW a \in Agents, StartCopy(t, a)
    PROVE  TaskShape' /\ FlightShape'
<1>1. \A s \in Tasks : todo'[s] \subseteq todo[s]
  BY DEF StartCopy, Shape, TypeOK
<1>2. UNCHANGED <<mode, sending>>
  BY DEF StartCopy
<1>3. mode[t] \in FanOut
  BY DEF StartCopy, Shape, TaskShape
<1>4. CASE UNCHANGED <<waiting, hung>>
  BY <1>1, <1>2, <1>4, KeptShape
<1>5. CASE Block(t, sending[t], a)
  <2>1. PICK new : new.by = t /\ new.msg = sending[t] /\ waiting' = waiting \cup {new}
    BY <1>5 DEF Block, Key
  <2>2. hung' = hung
    BY <1>5 DEF Block
  <2>3. TaskShape'
    BY <1>1, <1>2 DEF Shape, TaskShape, Env
  <2>4. mode[t] # "direct"
    BY <1>3 DEF FanOut
  <2>5. FlightShape'
    BY <1>2, <1>3, <2>1, <2>2, <2>4 DEF Shape, FlightShape, Env
  <2> QED
    BY <2>3, <2>5
<1> QED
  BY <1>4, <1>5 DEF StartCopy, Put, mail

\* No task is suspended and no put under way at the start.
LEMMA InitShape == Init => Shape
  BY InitType DEF Init, Shape, TaskShape, FlightShape, FanOut

\* Every step keeps the shape.
LEMMA NextShape ==
    ASSUME IInv, [Next]_vars
    PROVE  Shape'
<1> USE DEF IInv
<1> SUFFICES TaskShape' /\ FlightShape'
  BY NextType DEF Shape
<1>1. \A e \in waiting \cup hung : e.by \in Tasks
  BY DEF Shape, TypeOK, Entry
<1>2. ASSUME NEW u \in Users, NEW m \in Messages, Send(u, m) PROVE TaskShape' /\ FlightShape'
  BY <1>2, BeginSendShape DEF Send, Tasks, AllMessages
<1>3. ASSUME NEW u \in Users, NEW m \in AllMessages, ReplayMessage(u, m)
      PROVE  TaskShape' /\ FlightShape'
  BY <1>3, BeginSendShape DEF ReplayMessage, Tasks
<1>4. ASSUME NEW t \in Tasks, ResumePut(t) PROVE TaskShape' /\ FlightShape'
  <2>1. PICK e \in waiting : e.by = t /\ waiting' = waiting \ {e}
    BY <1>4 DEF ResumePut
  <2>2. hung' = hung
    BY <1>4 DEF ResumePut
  <2>3. CASE mode[t] = "direct"
    <3>1. Return(t)
      BY <1>4, <2>3 DEF ResumePut
    <3>2. \A f \in waiting \cup hung : f.by = t => f = e
      BY <2>1, <2>3 DEF Shape, FlightShape
    <3>3. e \notin hung
      BY DEF MailInv, Apart
    <3> QED
      BY <2>1, <2>2, <3>1, <3>2, <3>3, ReturnShape
  <2>4. CASE mode[t] # "direct"
    BY <1>4, <2>1, <2>2, <2>4, KeptShape DEF ResumePut, tasks
  <2> QED
    BY <2>3, <2>4
<1>5. ASSUME NEW t \in Tasks, NEW a \in Agents, StartCopy(t, a)
      PROVE  TaskShape' /\ FlightShape'
  BY <1>5, StartCopyShape
<1>6. ASSUME NEW t \in Tasks, FinishCopies(t) PROVE TaskShape' /\ FlightShape'
  BY <1>6, ReturnShape DEF FinishCopies, InFlight, mail
<1>7. ASSUME NEW t \in Tasks, ForwardAccepted(t) \/ ForwardFailed(t)
      PROVE  TaskShape' /\ FlightShape'
  <2>1. Return(t) /\ waiting' = waiting /\ hung' = hung /\ mode[t] = "forward"
    BY <1>7 DEF ForwardAccepted, ForwardFailed, mail
  <2>2. \A e \in waiting \cup hung : e.by # t
    BY <2>1, IdleHasNothingInFlight DEF FanOut
  <2> QED
    BY <2>1, <2>2, ReturnShape
<1>8. ASSUME NEW a \in Agents, CancelLoop(a) PROVE TaskShape' /\ FlightShape'
  <2>1. a \in Tasks
    BY DEF Tasks
  <2> QED
    BY <1>8, <2>1, ReturnShape DEF CancelLoop
<1>9. ASSUME NEW a \in Agents, Unregister(a) PROVE TaskShape' /\ FlightShape'
  BY <1>9, KeptShape DEF Unregister
<1>10. ASSUME NEW a \in Agents, Receive(a) \/ HandleSilently(a) \/ Connect(a)
       PROVE  TaskShape' /\ FlightShape'
  BY <1>10, KeptShape DEF Receive, HandleSilently, Connect, tasks, mail
<1>11. ASSUME NEW a \in Agents, HandleWithReply(a) PROVE TaskShape' /\ FlightShape'
  <2>1. <<cur[a], a>> \in AllMessages /\ a \in Tasks
    BY <1>11 DEF HandleWithReply, AllMessages, Tasks
  <2> QED
    BY <1>11, <2>1, BeginSendShape DEF HandleWithReply
<1>12. CASE UNCHANGED vars
  BY <1>12, KeptShape DEF vars, tasks, mail
<1> QED
  BY <1>2, <1>3, <1>4, <1>5, <1>6, <1>7, <1>8, <1>9, <1>10, <1>11, <1>12 DEF Next

-----------------------------------------------------------------------------
(* The broker implements the mailbox specification                         *)

\* put and a blocked put are the mailbox's Put and Wait of a new entry.
LEMMA PutIsPut ==
    ASSUME TypeOK, MailInv, NEW t \in Tasks, NEW m \in AllMessages, NEW a \in Registered,
           Put(t, m, a), UNCHANGED conn
    PROVE  Handover!Put
<1>1. PICK tm \in 0 .. MaxTime :
          MakeKey(tm) /\ queued' = queued \cup {Key(t, m, a, tm)}
  BY DEF Put
<1> DEFINE e == Key(t, m, a, tm)
<1>2. e.n = counter /\ e.to = a
  BY DEF Key
<1>3. e \notin queued
  BY <1>2 DEF MailInv, Numbered, Delivered, TypeOK
<1>4. metrics'["delivered"] = metrics["delivered"] + 1
  BY DEF Put, MarkDelivered, TypeOK, Counters
<1>5. Registered' = Registered
  BY DEF Registered
<1>6. e \in queued' \ queued
  BY <1>1, <1>3
<1> HIDE DEF e
<1>7. counter' = counter + 1 /\ queued' = queued \cup {e}
  BY <1>1 DEF MakeKey, e
<1>8. Handover!HasRoom(e.to)
  BY <1>2 DEF Put, HasRoom, Inbox, Handover!HasRoom, Handover!Inbox, Cardinality, Handover!Cardinality
<1> QED
  BY <1>2, <1>4, <1>5, <1>6, <1>7, <1>8 DEF Put, Handover!Put, Handover!Arrives

\* A put that blocks is the mailbox's Wait.
LEMMA BlockIsWait ==
    ASSUME TypeOK, MailInv, NEW t \in Tasks, NEW m \in AllMessages, NEW a \in Registered,
           Block(t, m, a), UNCHANGED conn
    PROVE  Handover!Wait
<1>1. PICK tm \in 0 .. MaxTime :
          MakeKey(tm) /\ waiting' = waiting \cup {Key(t, m, a, tm)}
  BY DEF Block
<1> DEFINE e == Key(t, m, a, tm)
<1>2. e.n = counter /\ e.to = a
  BY DEF Key
<1>3. e \notin waiting
  BY <1>2 DEF MailInv, Numbered, TypeOK
<1>4. Registered' = Registered
  BY DEF Registered
<1>5. e \in waiting' \ waiting
  BY <1>1, <1>3
<1> HIDE DEF e
<1>6. counter' = counter + 1 /\ waiting' = waiting \cup {e}
  BY <1>1 DEF MakeKey, e
<1>7. ~Handover!HasRoom(e.to)
  BY <1>2 DEF Block, HasRoom, Inbox, Handover!HasRoom, Handover!Inbox, Cardinality, Handover!Cardinality
<1> QED
  BY <1>2, <1>4, <1>5, <1>6, <1>7 DEF Block, Handover!Wait, Handover!Arrives

\* A new send puts one entry, blocks one, or is invisible to the mailbox.
LEMMA BeginSendMail ==
    ASSUME TypeOK, MailInv, NEW t \in Tasks, NEW m \in AllMessages, NEW dead,
           BeginSend(t, m, dead)
    PROVE  [Handover!Next]_(Handover!vars)
<1>1. UNCHANGED conn
  BY DEF BeginSend
<1>2. Registered' = Registered
  BY <1>1 DEF Registered
<1>3. CASE UNCHANGED <<mail, metrics["delivered"]>>
  BY <1>2, <1>3 DEF Handover!vars, mail
<1>4. CASE SendDirect(t, m, dead)
  BY <1>1, <1>4, PutIsPut, BlockIsWait DEF SendDirect, Handover!Next
<1>5. CASE Reject(m, dead)
  BY <1>3, <1>5 DEF Reject, TypeOK, Counters
<1>6. CASE SendRouted(t, m, dead) \/ Forward(t, m, dead)
  BY <1>3, <1>6 DEF SendRouted, Forward
<1>7. CASE Broadcast(t, m, dead)
  BY <1>3, <1>7 DEF Broadcast, TypeOK, Counters
<1>8. CASE NotRegistered(m, dead)
  BY <1>3, <1>8 DEF NotRegistered, TypeOK, Counters
<1> QED
  BY <1>4, <1>5, <1>6, <1>7, <1>8 DEF BeginSend

\* Every step of the broker is a step of the mailbox, or invisible to it.
LEMMA StepImplements ==
    ASSUME IInv, [Next]_vars
    PROVE  [Handover!Next]_(Handover!vars)
<1> USE DEF IInv, Shape
<1>1. ASSUME UNCHANGED <<conn, mail, metrics["delivered"]>>
      PROVE  UNCHANGED Handover!vars
  BY <1>1 DEF Handover!vars, mail, Registered
<1>2. ASSUME NEW u \in Users, NEW m \in Messages, Send(u, m)
      PROVE  [Handover!Next]_(Handover!vars)
  BY <1>2, BeginSendMail DEF Send, Tasks, AllMessages
<1>3. ASSUME NEW u \in Users, NEW m \in AllMessages, ReplayMessage(u, m)
      PROVE  [Handover!Next]_(Handover!vars)
  BY <1>3, BeginSendMail DEF ReplayMessage, Tasks
<1>4. ASSUME NEW t \in Tasks, ResumePut(t) PROVE Handover!Admit
  <2>1. PICK e \in waiting : /\ e.by = t /\ HasRoom(e.to)
                             /\ waiting' = waiting \ {e} /\ queued' = queued \cup {e}
    BY <1>4 DEF ResumePut
  <2>2. Handover!HasRoom(e.to)
    BY <2>1 DEF HasRoom, Inbox, Handover!HasRoom, Handover!Inbox, Cardinality, Handover!Cardinality
  <2>3. metrics'["delivered"] = metrics["delivered"] + 1
    BY <1>4 DEF ResumePut, MarkDelivered, TypeOK, Counters
  <2> QED
    BY <1>4, <2>1, <2>2, <2>3 DEF ResumePut, Handover!Admit, Registered
<1>5. ASSUME NEW t \in Tasks, NEW a \in Agents, StartCopy(t, a)
      PROVE  [Handover!Next]_(Handover!vars)
  <2>1. sending[t] \in AllMessages
    BY <1>5 DEF StartCopy, TaskShape, FanOut
  <2>2. CASE a \in Registered /\ (Put(t, sending[t], a) \/ Block(t, sending[t], a))
    BY <1>5, <2>1, <2>2, PutIsPut, BlockIsWait DEF StartCopy, Handover!Next
  <2>3. CASE UNCHANGED <<mail, status, metrics>>
    BY <1>1, <1>5, <2>3 DEF StartCopy
  <2> QED
    BY <1>5, <2>2, <2>3 DEF StartCopy
<1>6. ASSUME NEW t \in Tasks, FinishCopies(t) PROVE UNCHANGED Handover!vars
  BY <1>1, <1>6 DEF FinishCopies, TypeOK, Counters
<1>7. ASSUME NEW t \in Tasks, ForwardAccepted(t) \/ ForwardFailed(t)
      PROVE  UNCHANGED Handover!vars
  BY <1>1, <1>7 DEF ForwardAccepted, ForwardFailed, TypeOK, Counters
<1>8. ASSUME NEW a \in Agents, Connect(a) PROVE Handover!Open
  BY <1>8 DEF Connect, Handover!Open, Registered, TypeOK, mail, ledger
<1>9. ASSUME NEW a \in Agents, CancelLoop(a) PROVE Handover!Withdraw
  <2>1. Registered' = Registered
    BY <1>9 DEF CancelLoop, Registered, TypeOK
  <2> QED
    BY <1>9, <2>1 DEF CancelLoop, Handover!Withdraw, ledger
<1>10. ASSUME NEW a \in Agents, Unregister(a) PROVE Handover!Close
  <2>1. a \in Registered /\ Registered' = Registered \ {a}
    BY <1>10 DEF Unregister, Registered, TypeOK
  <2> QED
    BY <1>10, <2>1 DEF Unregister, Handover!Close, Handover!Inbox, Inbox, ledger
<1>11. ASSUME NEW a \in Agents, Receive(a) PROVE Handover!Take
  BY <1>11 DEF Receive, Inbox, Handover!Take, Registered, ledger
<1>12. ASSUME NEW a \in Agents, HandleSilently(a) PROVE UNCHANGED Handover!vars
  BY <1>1, <1>12 DEF HandleSilently, ledger
<1>13. ASSUME NEW a \in Agents, HandleWithReply(a)
       PROVE  [Handover!Next]_(Handover!vars)
  <2>1. <<cur[a], a>> \in AllMessages /\ a \in Tasks
    BY <1>13 DEF HandleWithReply, AllMessages, Tasks
  <2> QED
    BY <1>13, <2>1, BeginSendMail DEF HandleWithReply
<1>14. CASE UNCHANGED vars
  BY <1>1, <1>14 DEF vars, ledger
<1> QED
  BY <1>2, <1>3, <1>4, <1>5, <1>6, <1>7, <1>8, <1>9, <1>10, <1>11, <1>12, <1>13, <1>14
     DEF Next, Handover!Next

-----------------------------------------------------------------------------
(* What follows from the mailbox steps alone                               *)

\* The inbox of an agent is as small as the set of entries it is part of.
LEMMA InboxFinite ==
    ASSUME IsFiniteSet(Delivered), NEW a
    PROVE  IsFiniteSet(Inbox(a)) /\ Cardinality(Inbox(a)) \in Nat
  BY FS_Subset, FS_CardinalityType DEF Delivered, Inbox

\* Adding a new entry to the inbox of r adds one to its size and leaves others alone.
LEMMA InboxGrows ==
    ASSUME MailInv, NEW e, e \notin queued, Handover!HasRoom(e.to),
           queued' = queued \cup {e}
    PROVE  InboxBounded'
<1> SUFFICES ASSUME NEW a \in Agents PROVE Cardinality(Inbox(a)') <= Capacity
  BY DEF InboxBounded
<1>1. IsFiniteSet(Inbox(a)) /\ Cardinality(Inbox(a)) \in Nat
  BY InboxFinite DEF MailInv
<1>2. CASE e.to = a
  <2>1. Inbox(a)' = Inbox(a) \cup {e} /\ e \notin Inbox(a)
    BY <1>2 DEF Inbox
  <2>2. Cardinality(Inbox(a)') = Cardinality(Inbox(a)) + 1
    BY <1>1, <2>1, FS_AddElement
  <2>3. Cardinality(Inbox(a)) < Capacity
    BY <1>2 DEF Inbox, Handover!HasRoom, Handover!Inbox, Cardinality, Handover!Cardinality
  <2> QED
    BY <1>1, <2>2, <2>3, BrokerAssumption
<1>3. CASE e.to # a
  <2>1. Inbox(a)' = Inbox(a)
    BY <1>3 DEF Inbox
  <2> QED
    BY <2>1 DEF MailInv, InboxBounded
<1> QED
  BY <1>2, <1>3

\* Taking entries out of the inboxes keeps them bounded.
LEMMA InboxShrinks ==
    ASSUME MailInv, queued' \subseteq queued
    PROVE  InboxBounded'
<1> SUFFICES ASSUME NEW a \in Agents PROVE Cardinality(Inbox(a)') <= Capacity
  BY DEF InboxBounded
<1>1. IsFiniteSet(Inbox(a)) /\ Cardinality(Inbox(a)) \in Nat
  BY InboxFinite DEF MailInv
<1>2. Inbox(a)' \subseteq Inbox(a)
  BY DEF Inbox
<1>3. Cardinality(Inbox(a)') <= Cardinality(Inbox(a)) /\ Cardinality(Inbox(a)') \in Nat
  BY <1>1, <1>2, FS_Subset, FS_CardinalityType
<1> QED
  BY <1>1, <1>3, BrokerAssumption DEF MailInv, InboxBounded

\* One more entry, one more on the counter.
LEMMA CountGrows ==
    ASSUME MailInv, NEW e, e \notin Delivered, Delivered' = Delivered \cup {e},
           metrics'["delivered"] = metrics["delivered"] + 1
    PROVE  IsFiniteSet(Delivered)' /\ DeliveredCounted'
  BY FS_AddElement DEF MailInv, DeliveredCounted

\* Every step of the mailbox keeps entries apart, counted, bounded and addressed to
\* registered agents: the invariant needs the abstract step only.
LEMMA MailStep ==
    ASSUME TypeOK, MailInv, TypeOK', [Handover!Next]_(Handover!vars)
    PROVE  MailInv'
<1> USE DEF MailInv
<1>1. /\ counter \in Nat
      /\ \A e \in Delivered \cup waiting \cup hung : e.n \in Nat /\ e.n < counter
  BY DEF TypeOK, Entry, Delivered, Numbered
<1>2. CASE Handover!Put
  <2>1. PICK e \in queued' \ queued :
            /\ e.n = counter /\ counter' = counter + 1
            /\ e.to \in Registered /\ Handover!HasRoom(e.to)
            /\ queued' = queued \cup {e}
    BY <1>2 DEF Handover!Put, Handover!Arrives
  <2>2. /\ UNCHANGED <<waiting, hung, taken, dropped>> /\ Registered' = Registered
        /\ metrics'["delivered"] = metrics["delivered"] + 1
    BY <1>2 DEF Handover!Put
  <2>3. e \notin Delivered \cup waiting \cup hung
    BY <1>1, <2>1
  <2>4. Numbered'
    BY <1>1, <2>1, <2>2 DEF Numbered, Delivered
  <2>5. Apart'
    BY <2>1, <2>2, <2>3 DEF Apart, Delivered
  <2>6. NoMailForTheAbsent'
    BY <2>1, <2>2 DEF NoMailForTheAbsent
  <2>7. Delivered' = Delivered \cup {e}
    BY <2>1, <2>2 DEF Delivered
  <2> QED
    BY <2>1, <2>2, <2>3, <2>4, <2>5, <2>6, <2>7, CountGrows, InboxGrows
<1>3. CASE Handover!Wait
  <2>1. PICK e \in waiting' \ waiting :
            /\ e.n = counter /\ counter' = counter + 1
            /\ e.to \in Registered /\ waiting' = waiting \cup {e}
    BY <1>3 DEF Handover!Wait, Handover!Arrives
  <2>2. /\ UNCHANGED <<queued, hung, taken, dropped>> /\ Registered' = Registered
        /\ metrics'["delivered"] = metrics["delivered"] /\ Delivered' = Delivered
    BY <1>3 DEF Handover!Wait, Delivered
  <2>3. e \notin Delivered \cup waiting \cup hung
    BY <1>1, <2>1
  <2>4. Numbered'
    BY <1>1, <2>1, <2>2 DEF Numbered
  <2>5. Apart'
    BY <2>1, <2>2, <2>3 DEF Apart
  <2>6. NoMailForTheAbsent'
    BY <2>1, <2>2 DEF NoMailForTheAbsent
  <2> QED
    BY <2>2, <2>4, <2>5, <2>6, InboxShrinks DEF DeliveredCounted
<1>4. CASE Handover!Admit
  <2>1. PICK e \in waiting : /\ Handover!HasRoom(e.to)
                             /\ waiting' = waiting \ {e} /\ queued' = queued \cup {e}
    BY <1>4 DEF Handover!Admit
  <2>2. /\ UNCHANGED <<hung, taken, dropped, counter>> /\ Registered' = Registered
        /\ metrics'["delivered"] = metrics["delivered"] + 1
        /\ Delivered' = Delivered \cup {e}
    BY <1>4, <2>1 DEF Handover!Admit, Delivered
  <2>3. e \notin Delivered
    BY <2>1 DEF Apart
  <2>4. Numbered'
    BY <1>1, <2>1, <2>2 DEF Numbered
  <2>5. Apart'
    BY <2>1, <2>2, <2>3 DEF Apart, Delivered
  <2>6. NoMailForTheAbsent'
    BY <2>1, <2>2 DEF NoMailForTheAbsent
  <2>7. e \notin queued
    BY <2>3 DEF Delivered
  <2> QED
    BY <2>1, <2>2, <2>3, <2>4, <2>5, <2>6, <2>7, CountGrows, InboxGrows
<1>5. CASE Handover!Withdraw \/ Handover!Open
  <2>1. /\ waiting' \subseteq waiting /\ hung' \subseteq hung
        /\ Registered \subseteq Registered'
        /\ UNCHANGED <<queued, taken, dropped, counter>> /\ Delivered' = Delivered
        /\ metrics'["delivered"] = metrics["delivered"]
    BY <1>5 DEF Handover!Withdraw, Handover!Open, Delivered
  <2> QED
    BY <2>1, InboxShrinks DEF Numbered, Apart, NoMailForTheAbsent, DeliveredCounted
<1>6. CASE Handover!Take
  <2>1. PICK e \in queued : queued' = queued \ {e} /\ taken' = taken \cup {e}
    BY <1>6 DEF Handover!Take
  <2>2. /\ UNCHANGED <<waiting, hung, dropped, counter>> /\ Registered' = Registered
        /\ metrics'["delivered"] = metrics["delivered"] /\ Delivered' = Delivered
    BY <1>6, <2>1 DEF Handover!Take, Delivered
  <2>3. Numbered' /\ NoMailForTheAbsent' /\ DeliveredCounted'
    BY <2>1, <2>2 DEF Numbered, NoMailForTheAbsent, DeliveredCounted
  <2>4. Apart'
    BY <2>1, <2>2 DEF Apart, Delivered
  <2> QED
    BY <2>1, <2>2, <2>3, <2>4, InboxShrinks
<1>7. CASE Handover!Close
  <2>1. PICK r \in Registered :
            /\ Registered' = Registered \ {r}
            /\ dropped' = dropped \cup {e \in queued : e.to = r}
            /\ queued' = queued \ {e \in queued : e.to = r}
            /\ hung' = hung \cup {e \in waiting : e.to = r}
            /\ waiting' = {e \in waiting : e.to # r}
    BY <1>7 DEF Handover!Close, Handover!Inbox
  <2>2. /\ UNCHANGED <<taken, counter>> /\ Delivered' = Delivered
        /\ metrics'["delivered"] = metrics["delivered"]
    BY <1>7, <2>1 DEF Handover!Close, Delivered
  <2>3. Numbered'
    BY <2>1, <2>2 DEF Numbered
  <2>4. Apart'
    BY <2>1, <2>2 DEF Apart, Delivered
  <2>5. NoMailForTheAbsent'
    BY <2>1 DEF NoMailForTheAbsent
  <2>6. queued' \subseteq queued
    BY <2>1
  <2> QED
    BY <2>2, <2>3, <2>4, <2>5, <2>6, InboxShrinks DEF DeliveredCounted
<1>8. CASE UNCHANGED Handover!vars
  <2>1. /\ UNCHANGED <<queued, waiting, hung, taken, dropped, counter>>
        /\ Registered' = Registered /\ Delivered' = Delivered
        /\ metrics'["delivered"] = metrics["delivered"]
    BY <1>8 DEF Handover!vars, Delivered
  <2> QED
    BY <2>1, InboxShrinks DEF Numbered, Apart, NoMailForTheAbsent, DeliveredCounted
<1> QED
  BY <1>2, <1>3, <1>4, <1>5, <1>6, <1>7, <1>8 DEF Handover!Next

\* There is no mail at the start.
LEMMA InitMail == Init => MailInv
<1> SUFFICES ASSUME Init PROVE MailInv
  OBVIOUS
<1>1. Delivered = {} /\ \A a \in Agents : Inbox(a) = {}
  BY DEF Init, Delivered, Inbox
<1>2. IsFiniteSet({}) /\ Cardinality({}) = 0
  BY FS_EmptySet
<1>3. DeliveredCounted
  BY <1>1, <1>2 DEF Init, DeliveredCounted, Counters
<1>4. InboxBounded
  <2>1. Capacity \in Nat
    BY BrokerAssumption
  <2> QED
    BY <1>1, <1>2, <2>1 DEF InboxBounded
<1> QED
  BY <1>1, <1>2, <1>3, <1>4 DEF Init, MailInv, Numbered, Apart, NoMailForTheAbsent

-----------------------------------------------------------------------------
(* Theorems                                                                *)

\* The inductive invariant holds in every reachable state.
LEMMA Invariance == Spec => []IInv
<1>1. Init => IInv
  BY InitShape, InitMail DEF IInv
<1>2. IInv /\ [Next]_vars => IInv'
  <2> SUFFICES ASSUME IInv, [Next]_vars PROVE IInv'
    OBVIOUS
  <2>1. Shape'
    BY NextShape
  <2>2. MailInv'
    BY <2>1, StepImplements, MailStep DEF IInv, Shape
  <2> QED
    BY <2>1, <2>2 DEF IInv
<1> QED
  BY <1>1, <1>2, PTL DEF Spec

\* Every variable of the broker keeps its type.
THEOREM TypeCorrect == Spec => []TypeOK
<1>1. IInv => TypeOK
  BY DEF IInv, Shape
<1> QED
  BY <1>1, Invariance, PTL

\* No inbox ever exceeds maxsize.
THEOREM Bounded == Spec => []InboxBounded
<1>1. IInv => InboxBounded
  BY DEF IInv, MailInv
<1> QED
  BY <1>1, Invariance, PTL

\* metrics["delivered"] is exactly the number of entries that were put.
THEOREM Counted == Spec => []DeliveredCounted
<1>1. IInv => DeliveredCounted
  BY DEF IInv, MailInv
<1> QED
  BY <1>1, Invariance, PTL

\* An agent that comes back finds nothing from before it left.
THEOREM Absent == Spec => []NoMailForTheAbsent
<1>1. IInv => NoMailForTheAbsent
  BY DEF IInv, MailInv
<1> QED
  BY <1>1, Invariance, PTL

\* The broker implements the mailbox specification.
THEOREM Implements == Spec => ImplementsMailbox
<1>1. Init => Handover!Init
  BY DEF Init, Handover!Init, Registered, Counters
<1>2. IInv /\ [Next]_vars => [Handover!Next]_(Handover!vars)
  BY StepImplements
<1> QED
  BY <1>1, <1>2, Invariance, PTL DEF Spec, ImplementsMailbox, Handover!Spec

-----------------------------------------------------------------------------
(* What a status says                                                      *)

\* A send leaves the status of other messages alone, and what is kept of them.
LEMMA BeginSendKeeps ==
    ASSUME TypeOK, NEW t \in Tasks, NEW m \in AllMessages, NEW dead \in SUBSET AllMessages,
           dlq \ {m} \subseteq dead, BeginSend(t, m, dead), FailedIsKept
    PROVE  FailedIsKept'
<1> SUFFICES ASSUME NEW x \in AllMessages, status'[x] = "FAILED"
             PROVE  x \in dlq' \cup refused'
  BY DEF FailedIsKept
<1>1. dead \subseteq dlq' /\ refused' = refused \ {m}
  BY DEF BeginSend, Reject, SendDirect, SendRouted, Broadcast, Forward, NotRegistered
<1>2. \E st : status' = [status EXCEPT ![m] = st]
  BY DEF BeginSend, Reject, SendDirect, SendRouted, Broadcast, Forward, NotRegistered,
         Put, MarkDelivered
<1>3. CASE x # m
  <2>1. status[x] = "FAILED"
    BY <1>2, <1>3 DEF TypeOK
  <2> QED
    BY <1>1, <1>3, <2>1 DEF FailedIsKept
<1>4. CASE x = m
  <2>1. status' # [status EXCEPT ![m] = "SENT"] /\ status' # [status EXCEPT ![m] = "DELIVERED"]
    BY <1>4 DEF TypeOK
  <2>2. Reject(m, dead) \/ NotRegistered(m, dead)
    BY <2>1 DEF BeginSend, SendDirect, SendRouted, Broadcast, Forward, Put, MarkDelivered
  <2> QED
    BY <1>4, <2>2 DEF Reject, NotRegistered
<1> QED
  BY <1>3, <1>4

\* No step loses a failed message.
LEMMA KeepStep ==
    ASSUME IInv, FailedIsKept, [Next]_vars
    PROVE  FailedIsKept'
<1> USE DEF IInv, Shape
<1>1. ASSUME NEW x, \/ status' = [status EXCEPT ![x] = "DELIVERED"]
                    \/ status' = status
                    \/ x \in refused' /\ status' = [status EXCEPT ![x] = "FAILED"],
             dlq' = dlq, refused \subseteq refused'
      PROVE  FailedIsKept'
  BY <1>1 DEF FailedIsKept, TypeOK
<1>2. ASSUME NEW u \in Users, NEW m \in Messages, Send(u, m) PROVE FailedIsKept'
  <2>1. m \in AllMessages /\ u \in Tasks /\ dlq \in SUBSET AllMessages
    BY DEF AllMessages, Tasks, TypeOK
  <2> QED
    BY <1>2, <2>1, BeginSendKeeps DEF Send
<1>3. ASSUME NEW u \in Users, NEW m \in AllMessages, ReplayMessage(u, m) PROVE FailedIsKept'
  <2>1. u \in Tasks /\ dlq \ {m} \in SUBSET AllMessages
    BY DEF Tasks, TypeOK
  <2> QED
    BY <1>3, <2>1, BeginSendKeeps DEF ReplayMessage
<1>4. ASSUME NEW t \in Tasks, ResumePut(t) \/ FinishCopies(t) \/ ForwardAccepted(t)
      PROVE  FailedIsKept'
  BY <1>1, <1>4 DEF ResumePut, FinishCopies, ForwardAccepted, MarkDelivered
<1>5. ASSUME NEW t \in Tasks, NEW a \in Agents, StartCopy(t, a) PROVE FailedIsKept'
  BY <1>1, <1>5 DEF StartCopy, Put, MarkDelivered
<1>6. ASSUME NEW t \in Tasks, ForwardFailed(t) PROVE FailedIsKept'
  BY <1>1, <1>6 DEF ForwardFailed
<1>7. ASSUME NEW a \in Agents, HandleWithReply(a) PROVE FailedIsKept'
  <2>1. <<cur[a], a>> \in AllMessages /\ a \in Tasks /\ dlq \in SUBSET AllMessages
    BY <1>7 DEF HandleWithReply, AllMessages, Tasks, TypeOK
  <2> QED
    BY <1>7, <2>1, BeginSendKeeps DEF HandleWithReply
<1>8. CASE UNCHANGED ledger
  BY <1>1, <1>8 DEF ledger
<1> QED
  BY <1>2, <1>3, <1>4, <1>5, <1>6, <1>7, <1>8
     DEF Next, vars, Connect, CancelLoop, Unregister, Receive, HandleSilently

\* No message is reported FAILED and forgotten, except by a failed forward.
THEOREM FailedKept == Spec => []FailedIsKept
<1>1. Init => FailedIsKept
  BY DEF Init, FailedIsKept
<1>2. IInv /\ FailedIsKept /\ [Next]_vars => FailedIsKept'
  BY KeepStep
<1> QED
  BY <1>1, <1>2, Invariance, PTL DEF Spec

\* What was delivered stays delivered, to an inbox, an agent or the bin.
LEMMA DeliveredGrows ==
    ASSUME [Handover!Next]_(Handover!vars)
    PROVE  Delivered \subseteq Delivered'
  BY DEF Handover!Next, Handover!vars, Handover!Put, Handover!Wait, Handover!Admit,
         Handover!Withdraw, Handover!Take, Handover!Open, Handover!Close, Handover!Inbox,
         Delivered

PlacedFor(m) == m \in acked \/ \E e \in Delivered : e.msg = m /\ e.to = Env(m).to

\* A new send that reports DELIVERED for an agent id has put the message there.
LEMMA BeginSendPlaces ==
    ASSUME IInv, NEW t \in Tasks, NEW m \in AllMessages, NEW dead, BeginSend(t, m, dead),
           NEW x \in AllMessages, status'[x] = "DELIVERED", Env(x).to \in Agents
    PROVE  status[x] = "DELIVERED" \/ PlacedFor(x)'
<1> USE DEF IInv, Shape
<1>1. \E st : status' = [status EXCEPT ![m] = st]
  BY DEF BeginSend, Reject, SendDirect, SendRouted, Broadcast, Forward, NotRegistered,
         Put, MarkDelivered
<1>2. CASE x # m
  BY <1>1, <1>2 DEF TypeOK
<1>3. CASE x = m
  <2>1. status' # [status EXCEPT ![m] = "SENT"] /\ status' # [status EXCEPT ![m] = "FAILED"]
    BY <1>3 DEF TypeOK
  <2>2. ~Broadcast(t, m, dead)
    BY <1>3, BrokerAssumption DEF Broadcast
  <2>3. Put(t, m, Env(m).to)
    BY <2>1, <2>2 DEF BeginSend, Reject, SendDirect, SendRouted, Forward, NotRegistered
  <2>4. PICK tm \in 0 .. MaxTime : queued' = queued \cup {Key(t, m, Env(m).to, tm)}
    BY <2>3 DEF Put
  <2> DEFINE e == Key(t, m, Env(m).to, tm)
  <2>5. e.msg = m /\ e.to = Env(m).to
    BY DEF Key
  <2>6. e \in Delivered'
    BY <2>4 DEF Delivered
  <2> HIDE DEF e
  <2> QED
    BY <1>3, <2>5, <2>6 DEF PlacedFor, Env
<1> QED
  BY <1>2, <1>3

\* No step reports DELIVERED for an agent id without a copy there or an answer of a
\* peer, and none takes that evidence away.
LEMMA PlaceStep ==
    ASSUME IInv, DeliveredMeansPlaced, [Next]_vars
    PROVE  DeliveredMeansPlaced'
<1> USE DEF IInv, Shape
<1> SUFFICES ASSUME NEW x \in AllMessages, status'[x] = "DELIVERED", Env(x).to \in Agents
             PROVE  PlacedFor(x)'
  BY DEF DeliveredMeansPlaced, PlacedFor, Env
<1>1. Delivered \subseteq Delivered' /\ acked \subseteq acked'
  <2>1. acked \subseteq acked'
    BY DEF Next, vars, ledger, Send, ReplayMessage, HandleWithReply, BeginSend, Reject,
           SendDirect, SendRouted, Broadcast, Forward, NotRegistered, ResumePut, StartCopy,
           FinishCopies, ForwardAccepted, ForwardFailed, Connect, CancelLoop, Unregister,
           Receive, HandleSilently
  <2> QED
    BY <2>1, StepImplements, DeliveredGrows
<1>2. CASE status[x] = "DELIVERED"
  BY <1>1, <1>2 DEF DeliveredMeansPlaced, PlacedFor, Env
<1>3. ASSUME NEW t \in Tasks, mode[t] \in FanOut, sending[t] = x PROVE FALSE
  BY <1>3 DEF TaskShape
<1>4. ASSUME NEW t \in Tasks, ResumePut(t), status[x] # "DELIVERED" PROVE PlacedFor(x)'
  <2>1. PICK e \in waiting : e.by = t /\ queued' = queued \cup {e}
    BY <1>4 DEF ResumePut
  <2>2. sending[t] = x
    BY <1>4 DEF ResumePut, MarkDelivered, TypeOK
  <2>3. e.msg = x /\ e.to = Env(x).to
    BY <1>3, <2>1, <2>2 DEF FlightShape
  <2> QED
    BY <2>1, <2>3 DEF PlacedFor, Delivered, Env
<1>5. ASSUME NEW t \in Tasks, NEW a \in Agents, StartCopy(t, a), status[x] # "DELIVERED"
      PROVE  FALSE
  <2>1. mode[t] \in FanOut
    BY <1>5 DEF StartCopy, TaskShape
  <2>2. sending[t] = x
    BY <1>5 DEF StartCopy, Put, MarkDelivered, TypeOK
  <2> QED
    BY <1>3, <2>1, <2>2
<1>6. ASSUME NEW t \in Tasks, FinishCopies(t), status[x] # "DELIVERED" PROVE FALSE
  BY <1>3, <1>6 DEF FinishCopies, TypeOK, FanOut
<1>7. ASSUME NEW t \in Tasks, ForwardAccepted(t), status[x] # "DELIVERED" PROVE PlacedFor(x)'
  BY <1>7 DEF ForwardAccepted, PlacedFor, TypeOK
<1>8. ASSUME NEW t \in Tasks, ForwardFailed(t) PROVE status[x] = "DELIVERED"
  BY <1>8 DEF ForwardFailed, TypeOK
<1>9. ASSUME NEW u \in Users, NEW m \in Messages, Send(u, m) PROVE PlacedFor(x)'
  BY <1>2, <1>9, BeginSendPlaces DEF Send, Tasks, AllMessages
<1>10. ASSUME NEW u \in Users, NEW m \in AllMessages, ReplayMessage(u, m) PROVE PlacedFor(x)'
  BY <1>2, <1>10, BeginSendPlaces DEF ReplayMessage, Tasks
<1>11. ASSUME NEW a \in Agents, HandleWithReply(a) PROVE PlacedFor(x)'
  <2>1. <<cur[a], a>> \in AllMessages /\ a \in Tasks
    BY <1>11 DEF HandleWithReply, AllMessages, Tasks
  <2> QED
    BY <1>2, <1>11, <2>1, BeginSendPlaces DEF HandleWithReply
<1>12. CASE UNCHANGED status
  BY <1>2, <1>12
<1> QED
  BY <1>2, <1>4, <1>5, <1>6, <1>7, <1>8, <1>9, <1>10, <1>11, <1>12
     DEF Next, vars, ledger, Connect, CancelLoop, Unregister, Receive, HandleSilently

\* A message to an agent is reported DELIVERED only once it was put into an inbox of
\* that agent or accepted by a peer.
THEOREM DeliveredPlaced == Spec => []DeliveredMeansPlaced
<1>1. Init => DeliveredMeansPlaced
  BY DEF Init, DeliveredMeansPlaced
<1>2. IInv /\ DeliveredMeansPlaced /\ [Next]_vars => DeliveredMeansPlaced'
  BY PlaceStep
<1> QED
  BY <1>1, <1>2, Invariance, PTL DEF Spec

-----------------------------------------------------------------------------
(* Where entries come from                                                 *)

Entries == Delivered \cup waiting \cup hung

\* One put, which goes through or blocks.
AddsEntry(t, m, a) ==
    \E tm \in 0 .. MaxTime :
        /\ MakeKey(tm)
        /\ \/ queued' = queued \cup {Key(t, m, a, tm)} /\ UNCHANGED waiting
           \/ waiting' = waiting \cup {Key(t, m, a, tm)} /\ UNCHANGED queued
        /\ UNCHANGED <<hung, taken, dropped>>

\* What a new send of m by t does to tasks and mail.
Begins(t, m) ==
    /\ mode[t] = "idle" /\ attempts' = [attempts EXCEPT ![m] = @ + 1]
    /\ \A s \in Tasks \ {t} :
          mode'[s] = mode[s] /\ sending'[s] = sending[s] /\ todo'[s] = todo[s]
    /\ mode'[t] # "idle" => sending'[t] = m
    /\ \/ UNCHANGED mail
       \/ Env(m).to \in Agents /\ AddsEntry(t, m, Env(m).to)
          /\ todo'[t] = {} /\ mode'[t] # "forward"
    /\ mode'[t] = "idle" => todo'[t] = {}

\* What a step does that neither begins a send nor starts a delivery.
Wanes ==
    /\ Entries' \subseteq Entries
    /\ waiting' \cup hung' \subseteq waiting \cup hung
    /\ queued' \cup waiting' \subseteq queued \cup waiting
    /\ \A s \in Tasks :
          /\ todo'[s] \subseteq todo[s]
          /\ mode'[s] # "idle" => mode'[s] = mode[s] /\ sending'[s] = sending[s]
    /\ UNCHANGED <<attempts, counter, now>>

\* Put and Block add one entry.
LEMMA PutAdds ==
    ASSUME NEW t, NEW m, NEW a, Put(t, m, a) \/ Block(t, m, a)
    PROVE  AddsEntry(t, m, a)
  BY DEF Put, Block, AddsEntry

\* What AddsEntry adds is new.
LEMMA Added ==
    ASSUME IInv, NEW t \in Tasks, NEW m \in AllMessages, NEW a \in Agents, AddsEntry(t, m, a)
    PROVE  \E e \in Entry :
              /\ e.by = t /\ e.msg = m /\ e.to = a /\ e.n = counter
              /\ e.time = now' /\ (ClockStepsBack \/ now' >= now) /\ counter' = counter + 1
              /\ e \notin Entries /\ Entries' = Entries \cup {e}
              /\ \/ queued' = queued \cup {e} /\ waiting' = waiting
                 \/ waiting' = waiting \cup {e} /\ queued' = queued
              /\ hung' = hung /\ taken' = taken
<1>1. PICK tm \in 0 .. MaxTime :
        /\ MakeKey(tm)
        /\ \/ queued' = queued \cup {Key(t, m, a, tm)} /\ UNCHANGED waiting
           \/ waiting' = waiting \cup {Key(t, m, a, tm)} /\ UNCHANGED queued
        /\ UNCHANGED <<hung, taken, dropped>>
  BY DEF AddsEntry
<1> DEFINE e == Key(t, m, a, tm)
<1>2. e \in Entry BY KeyType DEF IInv, Shape
<1>3. e.by = t /\ e.msg = m /\ e.to = a /\ e.n = counter /\ e.time = tm BY DEF Key
<1>4. /\ tm = now' /\ counter' = counter + 1 /\ (ClockStepsBack \/ now' >= now)
  BY <1>1 DEF MakeKey
<1> HIDE DEF e
<1>5. e \notin Entries
  <2>1. counter \in Nat /\ \A f \in Entries : f.n < counter
    BY DEF IInv, Shape, TypeOK, MailInv, Numbered, Entries
  <2> QED BY <1>3, <2>1
<1>6. /\ \/ queued' = queued \cup {e} /\ waiting' = waiting
         \/ waiting' = waiting \cup {e} /\ queued' = queued
      /\ hung' = hung /\ taken' = taken /\ dropped' = dropped
  BY <1>1 DEF e
<1>7. Entries' = Entries \cup {e}
  BY <1>6 DEF Entries, Delivered
<1> QED BY <1>2, <1>3, <1>4, <1>5, <1>6, <1>7

\* Every way to begin a send.
LEMMA BeginSendBegins ==
    ASSUME IInv, NEW t \in Tasks, NEW m \in AllMessages, NEW dead, BeginSend(t, m, dead)
    PROVE  Begins(t, m)
<1> USE DEF IInv, Shape
<1>1. mode[t] = "idle" /\ attempts' = [attempts EXCEPT ![m] = @ + 1] BY DEF BeginSend
<1>2. todo[t] = {} BY <1>1 DEF TaskShape, FanOut
<1>3. ASSUME NEW kind, NEW rids, Suspend(t, m, kind, rids)
      PROVE  /\ \A s \in Tasks \ {t} :
                   mode'[s] = mode[s] /\ sending'[s] = sending[s] /\ todo'[s] = todo[s]
             /\ mode'[t] = kind /\ sending'[t] = m /\ todo'[t] = rids
  BY <1>3 DEF Suspend, TypeOK
<1>4. CASE UNCHANGED <<tasks, mail>>
  BY <1>1, <1>2, <1>4 DEF Begins, tasks
<1>5. CASE UNCHANGED tasks /\ Env(m).to \in Registered /\ Put(t, m, Env(m).to)
  BY <1>1, <1>2, <1>5, PutAdds DEF Begins, tasks, Registered
<1>6. CASE /\ Env(m).to \in Registered /\ Block(t, m, Env(m).to) /\ Suspend(t, m, "direct", {})
  BY <1>1, <1>3, <1>6, PutAdds DEF Begins, Registered
<1>7. CASE UNCHANGED mail /\ \E kind \in {"routed", "broadcast", "forward"} : \E rids :
                                 Suspend(t, m, kind, rids)
  BY <1>1, <1>3, <1>7 DEF Begins
<1> QED
  BY <1>4, <1>5, <1>6, <1>7 DEF BeginSend, Reject, SendDirect, SendRouted, Broadcast, Forward,
                                NotRegistered

\* Every step begins a send, starts a delivery, or wanes.
LEMMA KindsOfSteps ==
    ASSUME IInv, Next
    PROVE  \/ \E t \in Tasks, m \in AllMessages : \E dead : Begins(t, m) /\ BeginSend(t, m, dead)
           \/ \E t \in Tasks, a \in Agents : StartCopy(t, a)
           \/ /\ Wanes
              /\ \/ \E t \in Tasks : ResumePut(t)
                 \/ \E t \in Tasks : FinishCopies(t) \/ ForwardAccepted(t)
                 \/ \E t \in Tasks : ForwardFailed(t)
                 \/ \E a \in Agents : Receive(a)
                 \/ UNCHANGED <<status, taken>>
<1> USE DEF IInv, Shape
<1>1. ASSUME NEW t \in Tasks, Return(t)
      PROVE  \A s \in Tasks : /\ todo'[s] \subseteq todo[s]
                              /\ mode'[s] # "idle" =>
                                    mode'[s] = mode[s] /\ sending'[s] = sending[s]
  BY <1>1 DEF Return, Suspend, TypeOK
<1>2. ASSUME NEW u \in Users, NEW m \in Messages, Send(u, m)
      PROVE  \E t \in Tasks, x \in AllMessages : \E dead : Begins(t, x) /\ BeginSend(t, x, dead)
  BY <1>2, BeginSendBegins DEF Send, Tasks, AllMessages
<1>3. ASSUME NEW u \in Users, NEW m \in AllMessages, ReplayMessage(u, m)
      PROVE  \E t \in Tasks, x \in AllMessages : \E dead : Begins(t, x) /\ BeginSend(t, x, dead)
  BY <1>3, BeginSendBegins DEF ReplayMessage, Tasks
<1>4. ASSUME NEW a \in Agents, HandleWithReply(a)
      PROVE  \E t \in Tasks, x \in AllMessages : \E dead : Begins(t, x) /\ BeginSend(t, x, dead)
  <2>1. <<cur[a], a>> \in AllMessages /\ a \in Tasks
    BY <1>4 DEF HandleWithReply, AllMessages, Tasks
  <2> QED BY <1>4, <2>1, BeginSendBegins DEF HandleWithReply
<1>5. ASSUME NEW t \in Tasks, ResumePut(t) PROVE Wanes
  <2>1. Return(t) \/ UNCHANGED tasks BY <1>5 DEF ResumePut
  <2>2. \A s \in Tasks : /\ todo'[s] \subseteq todo[s]
                         /\ mode'[s] # "idle" => mode'[s] = mode[s] /\ sending'[s] = sending[s]
    BY <1>1, <2>1 DEF tasks
  <2> QED BY <1>5, <2>2 DEF ResumePut, Wanes, Entries, Delivered
<1>6. ASSUME NEW t \in Tasks, FinishCopies(t) \/ ForwardAccepted(t) \/ ForwardFailed(t)
      PROVE  Wanes
  <2>1. Return(t) /\ UNCHANGED <<mail, attempts>>
    BY <1>6 DEF FinishCopies, ForwardAccepted, ForwardFailed
  <2> QED BY <1>1, <2>1 DEF Wanes, Entries, Delivered, mail
<1>7. ASSUME NEW a \in Agents, CancelLoop(a) PROVE Wanes
  <2>1. a \in Tasks BY DEF Tasks
  <2> QED BY <1>1, <1>7, <2>1 DEF CancelLoop, Wanes, Entries, Delivered, ledger
<1>8. ASSUME NEW a \in Agents, Unregister(a) PROVE Wanes
  BY <1>8 DEF Unregister, Wanes, Entries, Delivered, Inbox, ledger
<1>9. ASSUME NEW a \in Agents, Receive(a) PROVE Wanes
  BY <1>9 DEF Receive, Wanes, Entries, Delivered, Inbox, ledger, tasks
<1>10. ASSUME NEW a \in Agents, HandleSilently(a) \/ Connect(a) PROVE Wanes
  BY <1>10 DEF HandleSilently, Connect, Wanes, Entries, Delivered, ledger, tasks, mail
<1>11. ASSUME NEW a \in Agents,
              Connect(a) \/ CancelLoop(a) \/ Unregister(a) \/ HandleSilently(a)
       PROVE  UNCHANGED <<status, taken>>
  BY <1>11 DEF Connect, CancelLoop, Unregister, HandleSilently, ledger, mail
<1> QED
  BY <1>2, <1>3, <1>4, <1>5, <1>6, <1>7, <1>8, <1>9, <1>10, <1>11 DEF Next


-----------------------------------------------------------------------------
(* What was sent once                                                      *)

Copies(m)  == {e \in Entries : e.msg = m}
Senders(m) == {t \in Tasks : mode[t] # "idle" /\ sending[t] = m}

\* A message that was sent at most once has one sender at most, none and no copy
\* before it was sent or once it has FAILED, and no copy while it is forwarded.
SentOnce(m) ==
    /\ attempts[m] = 0 \/ status[m] = "FAILED" => Copies(m) = {} /\ Senders(m) = {}
    /\ \A s, t \in Senders(m) : s = t
    /\ \A t \in Senders(m) : mode[t] = "forward" => Copies(m) = {}

SendOnce == \A m \in AllMessages : attempts[m] <= 1 => SentOnce(m)

\* A step that keeps the number of attempts, and from copies to modes only takes away,
\* keeps what is known of a message unless it makes it FAILED.
LEMMA SentOnceKept ==
    ASSUME IInv, SendOnce, NEW m \in AllMessages, attempts'[m] <= 1,
           attempts'[m] = attempts[m],
           Copies(m)' \subseteq Copies(m), Senders(m)' \subseteq Senders(m),
           \A t \in Senders(m)' : mode'[t] = mode[t],
           status'[m] = "FAILED" =>
               status[m] = "FAILED" \/ (Copies(m)' = {} /\ Senders(m)' = {})
    PROVE  SentOnce(m)'
<1>1. SentOnce(m) BY DEF SendOnce
<1> QED BY <1>1 DEF SentOnce

\* A new send changes the status of its own message only.
LEMMA BeginSendStatus ==
    ASSUME IInv, NEW t \in Tasks, NEW m \in AllMessages, NEW dead, BeginSend(t, m, dead)
    PROVE  /\ \A x \in AllMessages \ {m} : status'[x] = status[x]
           /\ status'[m] = "FAILED" => UNCHANGED <<tasks, mail>>
<1> USE DEF IInv, Shape
<1>1. \E st \in Statuses : /\ status' = [status EXCEPT ![m] = st]
                           /\ st = "FAILED" => UNCHANGED <<tasks, mail>>
  BY DEF BeginSend, Reject, SendDirect, SendRouted, Broadcast, Forward, NotRegistered,
         Put, MarkDelivered, Statuses
<1> QED BY <1>1 DEF TypeOK

\* Every step keeps what is known of messages sent once.
LEMMA SendOnceStep == IInv /\ IInv' /\ SendOnce /\ [Next]_vars => SendOnce'
<1> SUFFICES ASSUME IInv, IInv', SendOnce, [Next]_vars,
                    NEW m \in AllMessages, attempts'[m] <= 1
             PROVE  SentOnce(m)'
  BY DEF SendOnce
<1>1. ASSUME NEW t \in Tasks, NEW x \in AllMessages, NEW dead,
             Begins(t, x), BeginSend(t, x, dead)
      PROVE  SentOnce(m)'
  <2>1. /\ \A y \in AllMessages \ {x} : status'[y] = status[y]
        /\ status'[x] = "FAILED" => UNCHANGED <<tasks, mail>>
    BY <1>1, BeginSendStatus
  <2>2. Entries' = Entries \/ \E e \in Entry : e.msg = x /\ Entries' = Entries \cup {e}
    <3>1. CASE UNCHANGED mail BY <3>1 DEF mail, Entries, Delivered
    <3>2. CASE Env(x).to \in Agents /\ AddsEntry(t, x, Env(x).to) BY <3>2, Added
    <3> QED BY <1>1, <3>1, <3>2 DEF Begins
  <2>3. \A s \in Tasks \ {t} : mode'[s] = mode[s] /\ sending'[s] = sending[s]
    BY <1>1 DEF Begins
  <2>4. mode[t] = "idle" /\ (mode'[t] # "idle" => sending'[t] = x) BY <1>1 DEF Begins
  <2>5. attempts' = [attempts EXCEPT ![x] = @ + 1] /\ attempts \in [AllMessages -> Nat]
    BY <1>1 DEF Begins, IInv, Shape, TypeOK
  <2>6. CASE m # x
    <3>1. Copies(m)' = Copies(m) BY <2>2, <2>6 DEF Copies
    <3>2. Senders(m)' = Senders(m) BY <2>3, <2>4, <2>6 DEF Senders
    <3>3. \A s \in Senders(m)' : mode'[s] = mode[s] BY <2>3, <2>4, <3>2 DEF Senders
    <3> QED BY <2>1, <2>5, <2>6, <3>1, <3>2, <3>3, SentOnceKept
  <2>7. CASE m = x
    <3>1. attempts[x] = 0 /\ attempts'[x] = 1 BY <2>5, <2>7
    <3>2. Copies(x) = {} /\ Senders(x) = {} BY <3>1 DEF SendOnce, SentOnce
    <3>3. Senders(x)' \subseteq {t} BY <2>3, <3>2 DEF Senders
    <3>4. UNCHANGED mail => Copies(x)' = {} BY <3>2 DEF mail, Copies, Entries, Delivered
    <3>5. UNCHANGED tasks => Senders(x)' = {} BY <3>2 DEF tasks, Senders
    <3>6. mode'[t] = "forward" => UNCHANGED mail BY <1>1 DEF Begins
    <3> QED BY <2>1, <2>7, <3>1, <3>3, <3>4, <3>5, <3>6 DEF SentOnce
  <2> QED BY <2>6, <2>7
<1>2. ASSUME NEW t \in Tasks, NEW a \in Agents, StartCopy(t, a) PROVE SentOnce(m)'
  <2> DEFINE x == sending[t]
  <2>1. mode[t] \in FanOut /\ x \in AllMessages
    BY <1>2 DEF StartCopy, IInv, Shape, TaskShape, FanOut
  <2>2. t \in Senders(x) /\ mode[t] # "forward" BY <2>1 DEF Senders, FanOut
  <2>3. /\ attempts' = attempts /\ mode' = mode /\ sending' = sending
        /\ \/ Put(t, x, a)
           \/ Block(t, x, a) /\ status' = status
           \/ UNCHANGED <<mail, status>>
    BY <1>2 DEF StartCopy
  <2>4. Senders(m)' = Senders(m) BY <2>3 DEF Senders
  <2>5. Entries' = Entries \/ \E e \in Entry : e.msg = x /\ Entries' = Entries \cup {e}
    <3>1. CASE UNCHANGED mail BY <3>1 DEF mail, Entries, Delivered
    <3>2. CASE Put(t, x, a) \/ Block(t, x, a) BY <2>1, <3>2, PutAdds, Added
    <3> QED BY <2>3, <3>1, <3>2
  <2>6. /\ \A y \in AllMessages \ {x} : status'[y] = status[y]
        /\ status'[x] \in {status[x], "DELIVERED"}
    BY <2>1, <2>3 DEF Put, MarkDelivered, IInv, Shape, TypeOK
  <2> HIDE DEF x
  <2>7. CASE m # x
    <3>1. Copies(m)' = Copies(m) BY <2>5, <2>7 DEF Copies
    <3> QED BY <2>3, <2>4, <2>6, <2>7, <3>1, SentOnceKept
  <2>8. CASE m = x
    <3>1. SentOnce(m) /\ t \in Senders(m) BY <2>2, <2>3, <2>8 DEF SendOnce
    <3>2. attempts[m] # 0 /\ status[m] # "FAILED" /\ \A s \in Senders(m) : s = t
      BY <3>1 DEF SentOnce
    <3>3. attempts'[m] # 0 /\ status'[m] # "FAILED" BY <2>3, <2>6, <2>8, <3>2
    <3>4. \A s \in Senders(m)' : s = t /\ mode'[s] # "forward" BY <2>2, <2>3, <2>4, <3>2
    <3> QED BY <3>3, <3>4 DEF SentOnce
  <2> QED BY <2>7, <2>8
<1>3. ASSUME Wanes PROVE /\ attempts' = attempts
                         /\ Copies(m)' \subseteq Copies(m) /\ Senders(m)' \subseteq Senders(m)
                         /\ \A t \in Senders(m)' : mode'[t] = mode[t]
  BY <1>3 DEF Wanes, Copies, Senders
<1>4. ASSUME Wanes, status'[m] # "FAILED" \/ status'[m] = status[m] PROVE SentOnce(m)'
  BY <1>3, <1>4, SentOnceKept
<1>5. ASSUME NEW t \in Tasks, ResumePut(t) \/ FinishCopies(t) \/ ForwardAccepted(t)
      PROVE  status'[m] # "FAILED" \/ status'[m] = status[m]
  BY <1>5 DEF ResumePut, FinishCopies, ForwardAccepted, MarkDelivered, IInv, Shape, TypeOK
<1>6. ASSUME NEW t \in Tasks, ForwardFailed(t), Wanes PROVE SentOnce(m)'
  <2> DEFINE x == sending[t]
  <2>1. mode[t] = "forward" /\ status' = [status EXCEPT ![x] = "FAILED"]
        /\ mode' = [mode EXCEPT ![t] = "idle"] /\ mail' = mail
    BY <1>6 DEF ForwardFailed, Return, Suspend
  <2>2. mode'[t] = "idle" BY <2>1 DEF IInv, Shape, TypeOK
  <2>3. CASE m # x
    BY <1>4, <1>6, <2>1, <2>3 DEF IInv, Shape, TypeOK
  <2>4. CASE m = x
    <3>1. SentOnce(m) BY <1>3, <1>6 DEF SendOnce
    <3>2. t \in Senders(m) BY <2>1, <2>4 DEF Senders
    <3>3. Copies(m)' = {} BY <1>3, <1>6, <2>1, <3>1, <3>2 DEF SentOnce
    <3>4. Senders(m)' = {} BY <1>3, <1>6, <2>2, <3>1, <3>2 DEF SentOnce, Senders
    <3> QED BY <1>3, <1>6, <3>3, <3>4, SentOnceKept
  <2> QED BY <2>3, <2>4
<1>7. ASSUME NEW a \in Agents, Receive(a) PROVE status' = status
  BY <1>7 DEF Receive, ledger
<1>8. CASE UNCHANGED vars
  <2>1. Wanes /\ status' = status BY <1>8 DEF vars, tasks, mail, ledger, Wanes, Entries, Delivered
  <2> QED BY <1>4, <2>1
<1>9. ASSUME Next PROVE SentOnce(m)'
  BY <1>1, <1>2, <1>4, <1>5, <1>6, <1>7, <1>9, KindsOfSteps
<1> QED BY <1>8, <1>9

\* A message that was sent once and reported FAILED has reached no inbox and is not
\* about to (messaging.py, send: every branch that fails returns without a delivery).
THEOREM FailedNowhere == Spec => []FailedMeansUndelivered
<1>1. Init => SendOnce
  BY DEF Init, SendOnce, SentOnce, Copies, Senders, Entries, Delivered
<1>2. IInv /\ IInv' /\ SendOnce /\ [Next]_vars => SendOnce'
  BY SendOnceStep
<1>3. SendOnce => FailedMeansUndelivered
  <2> SUFFICES ASSUME SendOnce, NEW m \in AllMessages, status[m] = "FAILED", attempts[m] = 1,
                      NEW e \in Delivered \cup waiting \cup hung, e.msg = m
               PROVE  FALSE
    BY DEF FailedMeansUndelivered
  <2>1. SentOnce(m) BY DEF SendOnce
  <2> QED BY <2>1 DEF SentOnce, Copies, Entries
<1> QED
  BY <1>1, <1>2, <1>3, Invariance, PTL DEF Spec

-----------------------------------------------------------------------------
(* Copies are not more than sends                                          *)

CopiesTo(m, a) == {e \in Entries : e.msg = m /\ e.to = a}
Starting(m, a) == {t \in Tasks : a \in todo[t] /\ sending[t] = m}

\* Each attempt to send m accounts for one copy of it to a, started or not.
Accounted(m, a) ==
    /\ IsFiniteSet(CopiesTo(m, a)) /\ IsFiniteSet(Starting(m, a))
    /\ Cardinality(CopiesTo(m, a)) + Cardinality(Starting(m, a)) <= attempts[m]

AllAccounted == \A m \in AllMessages, a \in Agents : Accounted(m, a)

\* Fewer copies, and as many attempts: the account stays balanced.
LEMMA AccountShrinks ==
    ASSUME NEW m \in AllMessages, NEW a \in Agents, Accounted(m, a),
           attempts[m] \in Nat, attempts'[m] = attempts[m],
           CopiesTo(m, a)' \subseteq CopiesTo(m, a), Starting(m, a)' \subseteq Starting(m, a)
    PROVE  Accounted(m, a)'
<1> DEFINE C == CopiesTo(m, a)
           S == Starting(m, a)
           D == CopiesTo(m, a)'
           T == Starting(m, a)'
<1>1. IsFiniteSet(C) /\ IsFiniteSet(S) /\ D \subseteq C /\ T \subseteq S
  BY DEF Accounted
<1>2. Cardinality(C) + Cardinality(S) <= attempts[m] BY DEF Accounted
<1> HIDE DEF C, S, D, T
<1>3. IsFiniteSet(D) /\ Cardinality(D) <= Cardinality(C) BY <1>1, FS_Subset
<1>4. IsFiniteSet(T) /\ Cardinality(T) <= Cardinality(S) BY <1>1, FS_Subset
<1>5. /\ Cardinality(C) \in Nat /\ Cardinality(S) \in Nat
      /\ Cardinality(D) \in Nat /\ Cardinality(T) \in Nat
  BY <1>1, <1>3, <1>4, FS_CardinalityType
<1>6. Cardinality(D) + Cardinality(T) <= attempts'[m] BY <1>2, <1>3, <1>4, <1>5
<1> QED BY <1>3, <1>4, <1>6 DEF Accounted, D, T

\* A step that adds a copy or a recipient to start, with a new attempt.
LEMMA AccountGrows ==
    ASSUME NEW m \in AllMessages, NEW a \in Agents, Accounted(m, a),
           attempts[m] \in Nat, attempts'[m] = attempts[m] + 1, NEW e, NEW t,
           \/ /\ CopiesTo(m, a)' \subseteq CopiesTo(m, a) \cup {e}
              /\ Starting(m, a)' \subseteq Starting(m, a)
           \/ /\ CopiesTo(m, a)' \subseteq CopiesTo(m, a)
              /\ Starting(m, a)' \subseteq Starting(m, a) \cup {t}
    PROVE  Accounted(m, a)'
<1> DEFINE C == CopiesTo(m, a)
           S == Starting(m, a)
           D == CopiesTo(m, a)'
           T == Starting(m, a)'
<1>1. /\ IsFiniteSet(C) /\ IsFiniteSet(S)
      /\ Cardinality(C) + Cardinality(S) <= attempts[m]
  BY DEF Accounted
<1>2. \/ D \subseteq C \cup {e} /\ T \subseteq S
      \/ D \subseteq C /\ T \subseteq S \cup {t}
  OBVIOUS
<1> HIDE DEF C, S, D, T
<1>3. /\ IsFiniteSet(C \cup {e}) /\ Cardinality(C \cup {e}) <= Cardinality(C) + 1
      /\ IsFiniteSet(S \cup {t}) /\ Cardinality(S \cup {t}) <= Cardinality(S) + 1
      /\ Cardinality(C) \in Nat /\ Cardinality(S) \in Nat
      /\ Cardinality(C \cup {e}) \in Nat /\ Cardinality(S \cup {t}) \in Nat
  <2>1. Cardinality(C) \in Nat /\ Cardinality(S) \in Nat BY <1>1, FS_CardinalityType
  <2>2. /\ IsFiniteSet(C \cup {e})
        /\ Cardinality(C \cup {e}) \in {Cardinality(C), Cardinality(C) + 1}
    BY <1>1, <2>1, FS_AddElement
  <2>3. /\ IsFiniteSet(S \cup {t})
        /\ Cardinality(S \cup {t}) \in {Cardinality(S), Cardinality(S) + 1}
    BY <1>1, <2>1, FS_AddElement
  <2> QED BY <2>1, <2>2, <2>3
<1>4. CASE D \subseteq C \cup {e} /\ T \subseteq S
  <2>1. IsFiniteSet(D) /\ Cardinality(D) <= Cardinality(C \cup {e}) BY <1>3, <1>4, FS_Subset
  <2>2. IsFiniteSet(T) /\ Cardinality(T) <= Cardinality(S) BY <1>1, <1>4, FS_Subset
  <2>3. Cardinality(D) \in Nat /\ Cardinality(T) \in Nat BY <2>1, <2>2, FS_CardinalityType
  <2>4. Cardinality(D) + Cardinality(T) <= attempts'[m] BY <1>1, <1>3, <2>1, <2>2, <2>3
  <2> QED BY <2>1, <2>2, <2>4 DEF Accounted, D, T
<1>5. CASE D \subseteq C /\ T \subseteq S \cup {t}
  <2>1. IsFiniteSet(D) /\ Cardinality(D) <= Cardinality(C) BY <1>1, <1>5, FS_Subset
  <2>2. IsFiniteSet(T) /\ Cardinality(T) <= Cardinality(S \cup {t}) BY <1>3, <1>5, FS_Subset
  <2>3. Cardinality(D) \in Nat /\ Cardinality(T) \in Nat BY <2>1, <2>2, FS_CardinalityType
  <2>4. Cardinality(D) + Cardinality(T) <= attempts'[m] BY <1>1, <1>3, <2>1, <2>2, <2>3
  <2> QED BY <2>1, <2>2, <2>4 DEF Accounted, D, T
<1> QED BY <1>2, <1>4, <1>5

\* A started delivery turns a recipient to start into a copy, or into nothing.
LEMMA AccountMoves ==
    ASSUME NEW m \in AllMessages, NEW a \in Agents, Accounted(m, a),
           attempts[m] \in Nat, attempts'[m] = attempts[m], NEW e, NEW t \in Starting(m, a),
           CopiesTo(m, a)' \subseteq CopiesTo(m, a) \cup {e},
           Starting(m, a)' \subseteq Starting(m, a) \ {t}
    PROVE  Accounted(m, a)'
<1> DEFINE C == CopiesTo(m, a)
           S == Starting(m, a)
           D == CopiesTo(m, a)'
           T == Starting(m, a)'
<1>1. /\ IsFiniteSet(C) /\ IsFiniteSet(S)
      /\ Cardinality(C) + Cardinality(S) <= attempts[m]
  BY DEF Accounted
<1>2. D \subseteq C \cup {e} /\ T \subseteq S \ {t} /\ t \in S OBVIOUS
<1> HIDE DEF C, S, D, T
<1>3. /\ IsFiniteSet(C \cup {e}) /\ Cardinality(C \cup {e}) <= Cardinality(C) + 1
      /\ IsFiniteSet(S \ {t}) /\ Cardinality(S \ {t}) = Cardinality(S) - 1
      /\ Cardinality(C) \in Nat /\ Cardinality(S) \in Nat
      /\ Cardinality(C \cup {e}) \in Nat /\ Cardinality(S \ {t}) \in Nat
  BY <1>1, <1>2, FS_AddElement, FS_RemoveElement, FS_CardinalityType
<1>4. IsFiniteSet(D) /\ Cardinality(D) <= Cardinality(C \cup {e}) BY <1>2, <1>3, FS_Subset
<1>5. IsFiniteSet(T) /\ Cardinality(T) <= Cardinality(S \ {t}) BY <1>2, <1>3, FS_Subset
<1>6. Cardinality(D) \in Nat /\ Cardinality(T) \in Nat BY <1>4, <1>5, FS_CardinalityType
<1>7. Cardinality(D) + Cardinality(T) <= attempts'[m] BY <1>1, <1>3, <1>4, <1>5, <1>6
<1> QED BY <1>4, <1>5, <1>7 DEF Accounted, D, T

\* A new send of x makes a copy for its recipient, or leaves recipients to start.
LEMMA BeginsAccounted ==
    ASSUME IInv, AllAccounted, NEW t \in Tasks, NEW x \in AllMessages, Begins(t, x),
           NEW m \in AllMessages, NEW a \in Agents
    PROVE  Accounted(m, a)'
<1>1. Accounted(m, a) BY DEF AllAccounted
<1>2. /\ attempts \in [AllMessages -> Nat] /\ todo[t] = {}
      /\ attempts' = [attempts EXCEPT ![x] = @ + 1]
  BY DEF Begins, IInv, Shape, TypeOK, TaskShape, FanOut
<1>3. /\ \A s \in Tasks \ {t} : sending'[s] = sending[s] /\ todo'[s] = todo[s]
      /\ todo'[t] = {} \/ sending'[t] = x
  BY DEF Begins
<1>4. CASE m # x
  <2>1. CopiesTo(m, a)' \subseteq CopiesTo(m, a)
    <3>1. CASE UNCHANGED mail BY <3>1 DEF mail, CopiesTo, Entries, Delivered
    <3>2. CASE Env(x).to \in Agents /\ AddsEntry(t, x, Env(x).to)
      BY <1>4, <3>2, Added DEF CopiesTo
    <3> QED BY <3>1, <3>2 DEF Begins
  <2>2. Starting(m, a)' \subseteq Starting(m, a) BY <1>3, <1>4 DEF Starting
  <2>3. attempts[m] \in Nat /\ attempts'[m] = attempts[m] BY <1>2, <1>4
  <2> QED BY <1>1, <2>1, <2>2, <2>3, AccountShrinks
<1>5. CASE m = x
  <2>1. attempts[m] \in Nat /\ attempts'[m] = attempts[m] + 1 BY <1>2, <1>5
  <2>2. CASE UNCHANGED mail
    <3>1. CopiesTo(m, a)' \subseteq CopiesTo(m, a)
      BY <2>2 DEF mail, CopiesTo, Entries, Delivered
    <3>2. Starting(m, a)' \subseteq Starting(m, a) \cup {t} BY <1>3 DEF Starting
    <3> QED BY <1>1, <2>1, <3>1, <3>2, AccountGrows
  <2>3. CASE AddsEntry(t, x, Env(x).to) /\ Env(x).to \in Agents /\ todo'[t] = {}
    <3>1. PICK e : Entries' = Entries \cup {e} BY <2>3, Added
    <3>2. CopiesTo(m, a)' \subseteq CopiesTo(m, a) \cup {e} BY <3>1 DEF CopiesTo
    <3>3. Starting(m, a)' \subseteq Starting(m, a) BY <1>3, <2>3 DEF Starting
    <3> QED BY <1>1, <2>1, <3>2, <3>3, AccountGrows
  <2> QED BY <2>2, <2>3 DEF Begins
<1> QED BY <1>4, <1>5

\* The delivery to b of t's message is started.
LEMMA StartAccounted ==
    ASSUME IInv, AllAccounted, NEW t \in Tasks, NEW b \in Agents, StartCopy(t, b),
           NEW m \in AllMessages, NEW a \in Agents
    PROVE  Accounted(m, a)'
<1>1. Accounted(m, a) BY DEF AllAccounted
<1>2. /\ attempts[m] \in Nat /\ attempts' = attempts /\ sending' = sending
      /\ b \in todo[t] /\ todo' = [todo EXCEPT ![t] = @ \ {b}] /\ todo \in [Tasks -> SUBSET Agents]
  BY DEF StartCopy, IInv, Shape, TypeOK
<1>3. PICK x \in AllMessages : x = sending[t]
  BY <1>2 DEF IInv, Shape, TaskShape, FanOut
<1>4. \E e : /\ Entries' \subseteq Entries \cup {e}
             /\ (e.msg = x /\ e.to = b) \/ Entries' = Entries
  <2>1. CASE UNCHANGED mail BY <2>1 DEF mail, Entries, Delivered
  <2>2. CASE AddsEntry(t, x, b) BY <2>2, Added
  <2> QED BY <1>3, <2>1, <2>2, PutAdds DEF StartCopy
<1>5. PICK e : /\ Entries' \subseteq Entries \cup {e}
               /\ (e.msg = x /\ e.to = b) \/ Entries' = Entries
  BY <1>4
<1>6. Starting(m, a)' \subseteq Starting(m, a) BY <1>2 DEF Starting
<1>7. CASE m = x /\ a = b
  <2>1. t \in Starting(m, a) BY <1>2, <1>3, <1>7 DEF Starting
  <2>2. t \notin Starting(m, a)' BY <1>2, <1>7 DEF Starting
  <2>3. CopiesTo(m, a)' \subseteq CopiesTo(m, a) \cup {e} BY <1>5 DEF CopiesTo
  <2>4. Starting(m, a)' \subseteq Starting(m, a) \ {t} BY <1>6, <2>2
  <2> QED BY <1>1, <1>2, <2>1, <2>3, <2>4, AccountMoves
<1>8. CASE m # x \/ a # b
  <2>1. CopiesTo(m, a)' \subseteq CopiesTo(m, a) BY <1>5, <1>8 DEF CopiesTo
  <2> QED BY <1>1, <1>2, <1>6, <2>1, AccountShrinks
<1> QED BY <1>7, <1>8

\* Every step keeps the accounts.
LEMMA AccountStep == IInv /\ IInv' /\ AllAccounted /\ [Next]_vars => AllAccounted'
<1> SUFFICES ASSUME IInv, IInv', AllAccounted, [Next]_vars,
                    NEW m \in AllMessages, NEW a \in Agents
             PROVE  Accounted(m, a)'
  BY DEF AllAccounted
<1>1. ASSUME Wanes PROVE Accounted(m, a)'
  <2>1. Accounted(m, a) /\ attempts[m] \in Nat /\ attempts' = attempts
    BY <1>1 DEF AllAccounted, Wanes, IInv, Shape, TypeOK
  <2>2. CopiesTo(m, a)' \subseteq CopiesTo(m, a) BY <1>1 DEF Wanes, CopiesTo
  <2>3. \A t \in Tasks : mode'[t] = "idle" => todo'[t] = {}
    BY DEF IInv, Shape, TaskShape, FanOut
  <2>4. Starting(m, a)' \subseteq Starting(m, a) BY <1>1, <2>3 DEF Wanes, Starting
  <2> QED BY <2>1, <2>2, <2>4, AccountShrinks
<1>2. CASE UNCHANGED vars
  <2>1. Wanes BY <1>2 DEF vars, tasks, mail, ledger, Wanes, Entries, Delivered
  <2> QED BY <1>1, <2>1
<1>3. CASE Next
  BY <1>1, <1>3, KindsOfSteps, BeginsAccounted, StartAccounted
<1> QED BY <1>2, <1>3

\* An agent is not handed a message more often than it was sent or replayed
\* (messaging.py, send and _deliver_locally).
THEOREM NotTwice == Spec => []NoDuplicateDelivery
<1>1. Init => AllAccounted
  <2> SUFFICES ASSUME Init, NEW m \in AllMessages, NEW a \in Agents PROVE Accounted(m, a)
    BY DEF AllAccounted
  <2>1. CopiesTo(m, a) = {} /\ Starting(m, a) = {} /\ attempts[m] = 0
    BY DEF Init, CopiesTo, Starting, Entries, Delivered
  <2> QED BY <2>1, FS_EmptySet DEF Accounted
<1>2. IInv /\ IInv' /\ AllAccounted /\ [Next]_vars => AllAccounted'
  BY AccountStep
<1>3. IInv /\ AllAccounted => NoDuplicateDelivery
  <2> SUFFICES ASSUME IInv, AllAccounted, NEW m \in AllMessages, NEW a \in Agents
               PROVE  Cardinality({e \in Delivered : e.msg = m /\ e.to = a}) <= attempts[m]
    BY DEF NoDuplicateDelivery
  <2> DEFINE D == {e \in Delivered : e.msg = m /\ e.to = a}
             C == CopiesTo(m, a)
             S == Starting(m, a)
  <2>1. /\ IsFiniteSet(C) /\ IsFiniteSet(S)
        /\ Cardinality(C) + Cardinality(S) <= attempts[m] /\ attempts[m] \in Nat
    BY DEF AllAccounted, Accounted, IInv, Shape, TypeOK
  <2>2. D \subseteq C BY DEF CopiesTo, Entries
  <2> HIDE DEF D, C, S
  <2>3. IsFiniteSet(D) /\ Cardinality(D) <= Cardinality(C) BY <2>1, <2>2, FS_Subset
  <2>4. /\ Cardinality(D) \in Nat /\ Cardinality(C) \in Nat /\ Cardinality(S) \in Nat
    BY <2>1, <2>3, FS_CardinalityType
  <2>5. Cardinality(D) <= attempts[m] BY <2>1, <2>3, <2>4
  <2> QED BY <2>5 DEF D
<1> QED
  BY <1>1, <1>2, <1>3, Invariance, PTL DEF Spec

-----------------------------------------------------------------------------
(* The order of a sender's messages                                        *)

\* While the clock is not set back, keys are made in increasing order.
Timely ==
    /\ \A e \in Entries : e.time <= now
    /\ \A e, f \in Entries : e # f => e.n # f.n /\ (e.n < f.n => e.time <= f.time)

\* A blocked put is its task's latest to that inbox, and not to be started again.
Latest ==
    \A f \in waiting \cup hung :
        /\ f.to \notin todo[f.by]
        /\ \A e \in Entries : e.by = f.by /\ e.to = f.to /\ e # f => e.n < f.n

Ordered == Timely /\ Latest /\ SenderOrder

\* A new entry of a task that has no put to this inbox under way comes last.
LEMMA OrderedAdds ==
    ASSUME IInv, Ordered, ~ClockStepsBack, NEW t \in Tasks, NEW m \in AllMessages,
           NEW a \in Agents, AddsEntry(t, m, a),
           \A f \in waiting \cup hung : f.by = t => f.to # a,
           a \notin todo'[t], \A s \in Tasks : s # t => todo'[s] \subseteq todo[s],
           \A f \in waiting \cup hung : f.by = t => f.to \notin todo'[t]
    PROVE  Ordered'
<1>1. PICK e \in Entry :
        /\ e.by = t /\ e.msg = m /\ e.to = a /\ e.n = counter
        /\ e.time = now' /\ now' >= now /\ counter' = counter + 1
        /\ e \notin Entries /\ Entries' = Entries \cup {e}
        /\ \/ queued' = queued \cup {e} /\ waiting' = waiting
           \/ waiting' = waiting \cup {e} /\ queued' = queued
        /\ hung' = hung /\ taken' = taken
  BY Added
<1>2. Entries \subseteq Entry /\ counter \in Nat /\ \A f \in Entries : f.n < counter
  BY DEF Entries, Delivered, IInv, Shape, TypeOK, MailInv, Numbered
<1>3. now \in Nat /\ now' \in Nat
  <2>1. now \in 0 .. MaxTime /\ MaxTime \in Nat BY BrokerAssumption DEF IInv, Shape, TypeOK
  <2>2. now' = e.time BY <1>1
  <2> QED BY <2>1, <2>2 DEF Entry
<1>4. \A f \in Entries : f.n \in Nat /\ f.time \in Nat /\ f.by \in Tasks
  BY <1>2 DEF Entry
<1>5. Timely'
  <2>1. \A f \in Entries : f.time <= now BY DEF Ordered, Timely
  <2>2. \A f \in Entries : f.time <= now' /\ f.time <= e.time
    BY <1>1, <1>3, <1>4, <2>1
  <2>3. \A f \in Entries' : f.time <= now' BY <1>1, <1>3, <2>2
  <2>4. \A f, g \in Entries' : f # g => f.n # g.n /\ (f.n < g.n => f.time <= g.time)
    <3> SUFFICES ASSUME NEW f \in Entries', NEW g \in Entries', f # g
                 PROVE  f.n # g.n /\ (f.n < g.n => f.time <= g.time)
      OBVIOUS
    <3>1. CASE f \in Entries /\ g \in Entries BY <3>1 DEF Ordered, Timely
    <3>2. CASE f \in Entries /\ g = e BY <1>1, <1>2, <1>4, <2>2, <3>2
    <3>3. CASE f = e /\ g \in Entries BY <1>1, <1>2, <1>4, <3>3
    <3> QED BY <1>1, <3>1, <3>2, <3>3
  <2> QED BY <2>3, <2>4 DEF Timely
<1>6. Latest'
  <2> SUFFICES ASSUME NEW f \in waiting' \cup hung'
               PROVE  /\ f.to \notin todo'[f.by]
                      /\ \A g \in Entries' : g.by = f.by /\ g.to = f.to /\ g # f => g.n < f.n
    BY DEF Latest
  <2>1. CASE f = e
    <3>1. f.to \notin todo'[f.by] BY <1>1, <2>1
    <3>2. \A g \in Entries : g.n < f.n BY <1>1, <1>2, <2>1
    <3> QED BY <1>1, <2>1, <3>1, <3>2
  <2>2. CASE f \in waiting \cup hung
    <3>1. f.by \in Tasks /\ f.to \notin todo[f.by] BY <1>4, <2>2 DEF Ordered, Latest, Entries
    <3>2. f.to \notin todo'[f.by] BY <2>2, <3>1
    <3>3. ~(e.by = f.by /\ e.to = f.to) BY <1>1, <2>2
    <3> QED BY <1>1, <2>2, <3>2, <3>3 DEF Ordered, Latest
  <2> QED BY <1>1, <2>1, <2>2
<1>7. SenderOrder'
  <2> SUFFICES ASSUME NEW g \in taken', NEW f \in (queued \cup waiting)',
                      g.by = f.by, g.to = f.to, Env(g.msg).priority = Env(f.msg).priority
               PROVE  g.n < f.n
    BY DEF SenderOrder, Env
  <2>1. g \in taken /\ g \in Entries BY <1>1 DEF Entries, Delivered
  <2>2. CASE f = e BY <1>1, <1>2, <2>1, <2>2
  <2>3. CASE f \in queued \cup waiting BY <2>1, <2>3 DEF Ordered, SenderOrder
  <2> QED BY <1>1, <2>2, <2>3
<1> QED BY <1>5, <1>6, <1>7 DEF Ordered

\* A step without new entries keeps the keys and the blocked puts in order.
LEMMA OrderedWanes ==
    ASSUME Ordered, Entries' \subseteq Entries, UNCHANGED now,
           waiting' \cup hung' \subseteq waiting \cup hung,
           \A f \in waiting' \cup hung' : todo'[f.by] \subseteq todo[f.by]
    PROVE  Timely' /\ Latest'
<1>1. Timely' BY DEF Ordered, Timely
<1>2. Latest' BY DEF Ordered, Latest
<1> QED BY <1>1, <1>2

\* The first entry of an inbox is the oldest of its sender and priority.
LEMMA ReceiveOrdered ==
    ASSUME IInv, Ordered, NEW a \in Agents, Receive(a)
    PROVE  SenderOrder'
<1>1. PICK e \in Inbox(a) : /\ \A f \in Inbox(a) \ {e} : Precedes(e, f)
                            /\ queued' = queued \ {e} /\ taken' = taken \cup {e}
  BY DEF Receive
<1>2. waiting' = waiting BY DEF Receive
<1> SUFFICES ASSUME NEW g \in taken', NEW f \in (queued \cup waiting)',
                    g.by = f.by, g.to = f.to, Env(g.msg).priority = Env(f.msg).priority
             PROVE  g.n < f.n
  BY DEF SenderOrder, Env
<1>3. f \in queued \cup waiting /\ f # e
  BY <1>1, <1>2 DEF IInv, MailInv, Apart, Delivered, Inbox
<1>4. CASE g \in taken BY <1>3, <1>4 DEF Ordered, SenderOrder
<1>5. CASE g = e /\ f \in waiting
  <2>1. e \in Entries BY DEF Inbox, Entries, Delivered
  <2> QED BY <1>3, <1>5, <2>1 DEF Ordered, Latest
<1>6. CASE g = e /\ f \in queued
  <2>1. /\ e \in Entries /\ f \in Entries /\ f \in Inbox(a) \ {e}
    BY <1>3, <1>6 DEF Inbox, Entries, Delivered
  <2>2. /\ e.n \in Nat /\ f.n \in Nat /\ e.time \in Nat /\ f.time \in Nat
        /\ e.msg \in AllMessages
    BY <1>6, <1>1 DEF IInv, Shape, TypeOK, Entry, Inbox
  <2>3. Env(e.msg).priority \in Nat
    BY <2>2, EnvType DEF EnvelopeType
  <2>4. e.time < f.time \/ (e.time = f.time /\ e.n < f.n)
    BY <1>1, <1>6, <2>1, <2>3 DEF Precedes
  <2>5. f.n # e.n /\ (f.n < e.n => f.time <= e.time)
    BY <1>3, <2>1 DEF Ordered, Timely
  <2> QED BY <1>6, <2>2, <2>4, <2>5
<1> QED BY <1>1, <1>3, <1>4, <1>5, <1>6

\* Every step keeps the order.
LEMMA OrderedStep ==
    ASSUME ~ClockStepsBack, IInv, IInv', Ordered, [Next]_vars
    PROVE  Ordered'
<1>1. waiting \cup hung \subseteq Entry BY DEF IInv, Shape, TypeOK
<1>2. ASSUME NEW t \in Tasks, NEW m \in AllMessages, Begins(t, m) PROVE Ordered'
  <2>1. mode[t] \notin FanOut \cup {"direct"} BY <1>2 DEF Begins, FanOut
  <2>2. \A f \in waiting \cup hung : f.by # t
    BY <2>1, IdleHasNothingInFlight DEF IInv
  <2>3. \A s \in Tasks \ {t} : todo'[s] = todo[s] BY <1>2 DEF Begins
  <2>4. CASE UNCHANGED mail
    <3>1. \A f \in waiting \cup hung : todo'[f.by] = todo[f.by]
      BY <1>1, <2>2, <2>3 DEF Entry
    <3>2. /\ Entries' = Entries /\ now' = now /\ taken' = taken
          /\ queued' = queued /\ waiting' = waiting /\ hung' = hung
      BY <2>4 DEF mail, Entries, Delivered
    <3>3. Timely' /\ Latest' BY <3>1, <3>2, OrderedWanes
    <3>4. SenderOrder' BY <3>2 DEF Ordered, SenderOrder, Env
    <3> QED BY <3>3, <3>4 DEF Ordered
  <2>5. CASE Env(m).to \in Agents /\ AddsEntry(t, m, Env(m).to) /\ todo'[t] = {}
    BY <2>2, <2>3, <2>5, OrderedAdds
  <2> QED BY <1>2, <2>4, <2>5 DEF Begins
<1>3. ASSUME NEW t \in Tasks, NEW a \in Agents, StartCopy(t, a) PROVE Ordered'
  <2>1. /\ a \in todo[t] /\ todo' = [todo EXCEPT ![t] = @ \ {a}]
        /\ todo \in [Tasks -> SUBSET Agents]
    BY <1>3 DEF StartCopy, IInv, Shape, TypeOK
  <2>2. \A s \in Tasks : todo'[s] \subseteq todo[s] BY <2>1
  <2>3. a \notin todo'[t] BY <2>1
  <2>4. PICK m \in AllMessages : m = sending[t]
    BY <2>1 DEF IInv, Shape, TaskShape, FanOut
  <2>5. \A f \in waiting \cup hung : f.to \notin todo[f.by] BY DEF Ordered, Latest
  <2>6. CASE UNCHANGED mail
    <3>1. /\ Entries' = Entries /\ now' = now /\ taken' = taken
          /\ queued' = queued /\ waiting' = waiting /\ hung' = hung
      BY <2>6 DEF mail, Entries, Delivered
    <3>2. Timely' /\ Latest' BY <1>1, <2>2, <3>1, OrderedWanes DEF Entry
    <3>3. SenderOrder' BY <3>1 DEF Ordered, SenderOrder, Env
    <3> QED BY <3>2, <3>3 DEF Ordered
  <2>7. CASE AddsEntry(t, m, a)
    <3>1. \A f \in waiting \cup hung : f.by = t => f.to # a BY <2>1, <2>5
    <3>2. \A f \in waiting \cup hung : f.by = t => f.to \notin todo'[t] BY <2>2, <2>5
    <3> QED BY <2>2, <2>3, <2>7, <3>1, <3>2, OrderedAdds
  <2> QED BY <1>3, <2>4, <2>6, <2>7, PutAdds DEF StartCopy
<1>4. ASSUME Wanes PROVE Timely' /\ Latest'
  BY <1>1, <1>4, OrderedWanes DEF Wanes, Entry
<1>5. ASSUME Wanes, taken' = taken PROVE Ordered'
  <2>1. SenderOrder' BY <1>5 DEF Wanes, Ordered, SenderOrder, Env
  <2> QED BY <1>4, <1>5, <2>1 DEF Ordered
<1>6. ASSUME NEW t \in Tasks,
             ResumePut(t) \/ FinishCopies(t) \/ ForwardAccepted(t) \/ ForwardFailed(t)
      PROVE  taken' = taken
  BY <1>6 DEF ResumePut, FinishCopies, ForwardAccepted, ForwardFailed, mail
<1>7. ASSUME NEW a \in Agents, Receive(a), Wanes PROVE Ordered'
  BY <1>4, <1>7, ReceiveOrdered DEF Ordered
<1>8. CASE UNCHANGED vars
  <2>1. Wanes /\ taken' = taken
    BY <1>8 DEF vars, tasks, mail, ledger, Wanes, Entries, Delivered
  <2> QED BY <1>5, <2>1
<1>9. CASE Next
  BY <1>2, <1>3, <1>5, <1>6, <1>7, <1>9, KindsOfSteps
<1> QED BY <1>8, <1>9

\* While the clock is not set back, an agent receives what one task sent it with one
\* priority in the order of sending (messaging.py, _deliver_locally: the key is made
\* before the put that may block).
THEOREM InOrder == ASSUME ClockStepsBack = FALSE PROVE Spec => []SenderOrder
<1>1. Init => Ordered
  BY DEF Init, Ordered, Timely, Latest, SenderOrder, Entries, Delivered
<1>2. IInv /\ IInv' /\ Ordered /\ [Next]_vars => Ordered'
  BY OrderedStep
<1>3. Ordered => SenderOrder
  BY DEF Ordered
<1> QED
  BY <1>1, <1>2, <1>3, Invariance, PTL DEF Spec

-----------------------------------------------------------------------------
(* What a fan-out of a user owes                                           *)

\* A recipient of a fan-out that has stayed registered is still to be started or has an
\* entry of its own.
Owes(u) ==
    mode[u] \in FanOut =>
        \A a \in audience[u] :
            /\ a \in Registered
            /\ \/ a \in todo[u]
               \/ \E e \in Entries : e.msg = sending[u] /\ e.to = a /\ e.by = u

\* A step that leaves the frame of u alone, but for recipients that leave.
LEMMA OwesKept ==
    ASSUME NEW u, Owes(u), mode'[u] = mode[u], sending'[u] = sending[u], todo'[u] = todo[u],
           audience'[u] \subseteq audience[u] \cap (Registered' \cup (Agents \ Registered)),
           \A e \in Entries : e.by = u => e \in Entries'
    PROVE  Owes(u)'
  BY DEF Owes

\* Suspending a task concerns no other task.
LEMMA SuspendOne ==
    ASSUME TypeOK, NEW t \in Tasks, NEW m, NEW kind, NEW rids, Suspend(t, m, kind, rids)
    PROVE  /\ \A s \in Tasks \ {t} :
                 /\ mode'[s] = mode[s] /\ sending'[s] = sending[s]
                 /\ todo'[s] = todo[s] /\ audience'[s] = audience[s]
           /\ mode'[t] = kind /\ sending'[t] = m /\ todo'[t] = rids /\ audience'[t] = rids
  BY DEF Suspend, TypeOK

\* A new send owes a delivery to everybody it has found.
LEMMA BeginSendOwes ==
    ASSUME IInv, NEW u \in Users, Owes(u),
           NEW t \in Tasks, NEW m \in AllMessages, NEW dead, BeginSend(t, m, dead)
    PROVE  /\ Owes(u)'
           /\ mode[u] \in FanOut => mode'[u] = mode[u]
<1> USE DEF IInv, Shape
<1>1. mode[t] = "idle" /\ conn' = conn /\ u \in Tasks BY DEF BeginSend, Tasks
<1>2. Registered' = Registered BY <1>1 DEF Registered
<1>3. Entries \subseteq Entries'
  <2>1. CASE UNCHANGED mail BY <2>1 DEF mail, Entries, Delivered
  <2>2. CASE Env(m).to \in Agents /\ AddsEntry(t, m, Env(m).to) BY <2>2, Added
  <2> QED BY <2>1, <2>2, BeginSendBegins DEF Begins
<1>4. \/ UNCHANGED tasks
      \/ Suspend(t, m, "direct", {}) \/ Suspend(t, m, "forward", {})
      \/ \E kind \in FanOut, rids \in SUBSET Registered : Suspend(t, m, kind, rids)
  BY DEF BeginSend, Reject, SendDirect, SendRouted, Broadcast, Forward, NotRegistered, Route,
         FanOut
<1>5. CASE u # t
  <2>1. /\ mode'[u] = mode[u] /\ sending'[u] = sending[u] /\ todo'[u] = todo[u]
        /\ audience'[u] = audience[u]
    BY <1>1, <1>4, <1>5, SuspendOne DEF tasks
  <2>2. audience[u] \subseteq Agents BY <1>1 DEF TypeOK
  <2> QED BY <1>2, <1>3, <2>1, <2>2, OwesKept
<1>6. CASE u = t
  <2>1. mode[u] \notin FanOut BY <1>1, <1>6 DEF FanOut
  <2>2. mode'[u] \in FanOut => audience'[u] = todo'[u] /\ todo'[u] \subseteq Registered
    BY <1>1, <1>4, <1>6, <2>1, SuspendOne DEF tasks, FanOut
  <2> QED BY <1>2, <2>1, <2>2 DEF Owes
<1> QED BY <1>5, <1>6

\* A delivery that is started to a registered agent leaves an entry.
LEMMA StartCopyOwes ==
    ASSUME IInv, NEW u \in Users, Owes(u), NEW t \in Tasks, NEW a \in Agents, StartCopy(t, a)
    PROVE  Owes(u)' /\ mode' = mode
<1> USE DEF IInv, Shape
<1>1. /\ a \in todo[t] /\ todo' = [todo EXCEPT ![t] = @ \ {a}]
      /\ mode' = mode /\ sending' = sending /\ audience' = audience /\ conn' = conn
  BY DEF StartCopy
<1>2. Registered' = Registered BY <1>1 DEF Registered
<1>3. PICK m \in AllMessages : m = sending[t] BY <1>1 DEF TaskShape, FanOut
<1>4. \/ a \in Registered /\ AddsEntry(t, m, a)
      \/ a \notin Registered /\ UNCHANGED mail
  BY <1>3, PutAdds DEF StartCopy
<1>5. Entries \subseteq Entries'
  <2>1. CASE UNCHANGED mail BY <2>1 DEF mail, Entries, Delivered
  <2>2. CASE AddsEntry(t, m, a) BY <2>2, Added
  <2> QED BY <1>4, <2>1, <2>2
<1>6. a \in Registered => \E e \in Entries' : e.msg = m /\ e.to = a /\ e.by = t
  BY <1>4, Added
<1>7. todo'[u] = IF u = t THEN todo[u] \ {a} ELSE todo[u]
  BY <1>1 DEF TypeOK, Tasks
<1> QED BY <1>1, <1>2, <1>3, <1>5, <1>6, <1>7 DEF Owes

\* Every step keeps what a user's fan-out owes; it ends with FinishCopies only.
LEMMA OwesStep ==
    ASSUME IInv, NEW u \in Users, Owes(u), [Next]_vars
    PROVE  /\ Owes(u)'
           /\ mode[u] \in FanOut => mode'[u] = mode[u] \/ FinishCopies(u)
<1> USE DEF IInv, Shape
<1>1. u \in Tasks /\ u \notin Agents BY BrokerAssumption DEF Tasks
<1>2. audience[u] \subseteq Agents BY <1>1 DEF TypeOK
<1>3. ASSUME NEW t \in Tasks, Return(t), t # u, UNCHANGED <<conn, mail>>
      PROVE  Owes(u)' /\ mode'[u] = mode[u]
  <2>1. /\ mode'[u] = mode[u] /\ sending'[u] = sending[u] /\ todo'[u] = todo[u]
        /\ audience'[u] = audience[u]
    BY <1>1, <1>3, SuspendOne DEF Return
  <2>2. Registered' = Registered /\ Entries' = Entries
    BY <1>3 DEF Registered, mail, Entries, Delivered
  <2> QED BY <1>2, <2>1, <2>2, OwesKept
<1>4. ASSUME Return(u) PROVE Owes(u)' /\ mode'[u] = "idle"
  <2>1. mode'[u] = "idle" BY <1>1, <1>4, SuspendOne DEF Return
  <2> QED BY <2>1 DEF Owes, FanOut
<1>5. ASSUME NEW x \in Users, NEW m \in Messages, Send(x, m)
      PROVE  Owes(u)' /\ (mode[u] \in FanOut => mode'[u] = mode[u])
  BY <1>5, BeginSendOwes DEF Send, Tasks, AllMessages
<1>6. ASSUME NEW x \in Users, NEW m \in AllMessages, ReplayMessage(x, m)
      PROVE  Owes(u)' /\ (mode[u] \in FanOut => mode'[u] = mode[u])
  BY <1>6, BeginSendOwes DEF ReplayMessage, Tasks
<1>7. ASSUME NEW a \in Agents, HandleWithReply(a)
      PROVE  Owes(u)' /\ (mode[u] \in FanOut => mode'[u] = mode[u])
  <2>1. <<cur[a], a>> \in AllMessages /\ a \in Tasks
    BY <1>7 DEF HandleWithReply, AllMessages, Tasks
  <2> QED BY <1>7, <2>1, BeginSendOwes DEF HandleWithReply
<1>8. ASSUME NEW t \in Tasks, ResumePut(t)
      PROVE  Owes(u)' /\ (mode[u] \in FanOut => mode'[u] = mode[u])
  <2>1. Registered' = Registered /\ Entries' = Entries
    BY <1>8 DEF ResumePut, Registered, Entries, Delivered
  <2>2. CASE UNCHANGED tasks BY <1>2, <2>1, <2>2, OwesKept DEF tasks
  <2>3. CASE mode[t] = "direct" /\ Return(t) /\ t # u
    <3>1. /\ mode'[u] = mode[u] /\ sending'[u] = sending[u] /\ todo'[u] = todo[u]
          /\ audience'[u] = audience[u]
      BY <1>1, <2>3, SuspendOne DEF Return
    <3> QED BY <1>2, <2>1, <3>1, OwesKept
  <2>4. CASE mode[t] = "direct" /\ Return(t) /\ t = u BY <1>4, <2>4 DEF FanOut
  <2> QED BY <1>8, <2>2, <2>3, <2>4 DEF ResumePut
<1>9. ASSUME NEW t \in Tasks, FinishCopies(t)
      PROVE  Owes(u)' /\ (mode'[u] = mode[u] \/ FinishCopies(u))
  BY <1>3, <1>4, <1>9 DEF FinishCopies
<1>10. ASSUME NEW t \in Tasks, ForwardAccepted(t) \/ ForwardFailed(t)
       PROVE  Owes(u)' /\ (mode[u] \in FanOut => mode'[u] = mode[u])
  BY <1>3, <1>4, <1>10 DEF ForwardAccepted, ForwardFailed, FanOut
<1>11. ASSUME NEW a \in Agents, CancelLoop(a) PROVE Owes(u)' /\ mode'[u] = mode[u]
  <2>1. a \in Tasks /\ a # u BY <1>1 DEF Tasks
  <2>2. /\ mode'[u] = mode[u] /\ sending'[u] = sending[u] /\ todo'[u] = todo[u]
        /\ audience'[u] = audience[u]
    BY <1>1, <1>11, <2>1, SuspendOne DEF CancelLoop, Return
  <2>3. Registered' = Registered BY <1>11 DEF CancelLoop, Registered, TypeOK
  <2>4. \A e \in Entries : e.by = u => e \in Entries'
    BY <1>11, <2>1 DEF CancelLoop, Entries, Delivered
  <2> QED BY <1>2, <2>2, <2>3, <2>4, OwesKept
<1>12. ASSUME NEW a \in Agents, Unregister(a) PROVE Owes(u)' /\ mode'[u] = mode[u]
  <2>1. Registered' = Registered \ {a} BY <1>12 DEF Unregister, Registered, TypeOK
  <2>2. /\ mode'[u] = mode[u] /\ sending'[u] = sending[u] /\ todo'[u] = todo[u]
        /\ audience'[u] = audience[u] \ {a}
    BY <1>1, <1>12 DEF Unregister
  <2>3. Entries' = Entries BY <1>12 DEF Unregister, Entries, Delivered, Inbox
  <2> QED BY <1>2, <2>1, <2>2, <2>3, OwesKept
<1>13. CASE UNCHANGED tasks /\ Registered \subseteq Registered' /\ Entries' = Entries
  BY <1>2, <1>13, OwesKept DEF tasks
<1>14. ASSUME NEW a \in Agents, Connect(a) \/ Receive(a) \/ HandleSilently(a)
       PROVE  UNCHANGED tasks /\ Registered \subseteq Registered' /\ Entries' = Entries
  <2>1. UNCHANGED tasks BY <1>14 DEF Connect, Receive, HandleSilently
  <2>2. Registered \subseteq Registered'
    BY <1>14 DEF Connect, Receive, HandleSilently, Registered, TypeOK
  <2>3. Entries' = Entries
    BY <1>14 DEF Connect, Receive, HandleSilently, Entries, Delivered, mail, Inbox
  <2> QED BY <2>1, <2>2, <2>3
<1>15. CASE UNCHANGED vars
  BY <1>13, <1>15 DEF vars, tasks, mail, Registered, Entries, Delivered
<1>16. ASSUME UNCHANGED tasks /\ Registered \subseteq Registered' /\ Entries' = Entries
       PROVE  Owes(u)' /\ mode'[u] = mode[u]
  BY <1>13, <1>16 DEF tasks
<1>17. ASSUME Next
       PROVE  Owes(u)' /\ (mode[u] \in FanOut => mode'[u] = mode[u] \/ FinishCopies(u))
  BY <1>5, <1>6, <1>7, <1>8, <1>9, <1>10, <1>11, <1>12, <1>14, <1>16, <1>17, StartCopyOwes
     DEF Next
<1> QED BY <1>15, <1>17

\* A fan-out returns only when every recipient that has stayed registered has its copy
\* (messaging.py, send and _broadcast: gather starts and awaits one delivery each).
THEOREM FanOutEnds == Spec => FanOutComplete
<1> DEFINE Owing == \A u \in Users : Owes(u)
<1>1. Init => Owing
  BY DEF Init, Owes, FanOut, Tasks
<1>2. IInv /\ Owing /\ [Next]_vars => Owing'
  BY OwesStep
<1>3. IInv /\ Owing /\ [Next]_vars =>
        [\A u \in Users :
            mode[u] \in {"broadcast", "routed"} /\ mode'[u] = "idle"
            => \A a \in audience[u] :
                  \E e \in Delivered : e.msg = sending[u] /\ e.to = a /\ e.by = u]_vars
  <2> SUFFICES ASSUME IInv, Owing, [Next]_vars, NEW u \in Users, mode[u] \in FanOut,
                      mode'[u] = "idle", NEW a \in audience[u]
               PROVE  \E e \in Delivered : e.msg = sending[u] /\ e.to = a /\ e.by = u
    BY DEF FanOut
  <2>1. FinishCopies(u) BY OwesStep DEF FanOut
  <2>2. todo[u] = {} /\ InFlight(u) = {} BY <2>1 DEF FinishCopies
  <2> QED BY <2>2 DEF Owes, Entries, InFlight
<1> HIDE DEF Owing
<1> QED
  BY <1>1, <1>2, <1>3, Invariance, PTL DEF Spec, FanOutComplete

-----------------------------------------------------------------------------
(* What can stall                                                          *)

\* A direct send is suspended in a put of its own.
DirectBlocked == \A t \in Tasks : mode[t] = "direct" => InFlight(t) # {}

\* Blocked puts stay blocked, of their own tasks, when tasks begin to send.
LEMMA BeginSendBlocks ==
    ASSUME IInv, NEW t \in Tasks, NEW m \in AllMessages, NEW dead, BeginSend(t, m, dead)
    PROVE  /\ waiting \subseteq waiting' /\ hung' = hung
           /\ mode'[t] = "direct" => InFlight(t)' # {}
<1>1. CASE UNCHANGED <<tasks, waiting, hung>>
  BY <1>1 DEF tasks, BeginSend
<1>2. ASSUME NEW kind \in {"routed", "broadcast", "forward"}, NEW rids,
             Suspend(t, m, kind, rids), UNCHANGED mail
      PROVE  waiting' = waiting /\ hung' = hung /\ mode'[t] # "direct"
  BY <1>2 DEF Suspend, mail, IInv, Shape, TypeOK
<1>3. CASE Block(t, m, Env(m).to)
  <2>1. PICK e : e.by = t /\ waiting' = waiting \cup {e} /\ hung' = hung
    BY <1>3 DEF Block, Key
  <2>2. e \in InFlight(t)' BY <2>1 DEF InFlight
  <2> QED BY <2>1, <2>2
<1> QED
  BY <1>1, <1>2, <1>3
     DEF BeginSend, Reject, SendDirect, SendRouted, Broadcast, Forward, NotRegistered, Put, mail

\* No step leaves a direct send suspended without its put.
LEMMA DirectStep == IInv /\ DirectBlocked /\ [Next]_vars => DirectBlocked'
<1> SUFFICES ASSUME IInv, DirectBlocked, [Next]_vars, NEW s \in Tasks, mode'[s] = "direct"
             PROVE  InFlight(s)' # {}
  BY DEF DirectBlocked, InFlight
<1>0. mode[s] = "direct" => InFlight(s) # {} BY DEF DirectBlocked
<1>1. ASSUME mode'[s] = mode[s], InFlight(s) \subseteq InFlight(s)' PROVE InFlight(s)' # {}
  BY <1>0, <1>1
<1>2. ASSUME NEW t \in Tasks, NEW m \in AllMessages, NEW dead,
             Begins(t, m), BeginSend(t, m, dead)
      PROVE  InFlight(s)' # {}
  <2>1. /\ waiting \subseteq waiting' /\ hung' = hung
        /\ mode'[t] = "direct" => InFlight(t)' # {}
    BY <1>2, BeginSendBlocks
  <2>2. InFlight(s) \subseteq InFlight(s)' BY <2>1 DEF InFlight
  <2>3. s # t => mode'[s] = mode[s] BY <1>2 DEF Begins
  <2> QED BY <1>1, <2>1, <2>2, <2>3
<1>3. ASSUME NEW t \in Tasks, NEW a \in Agents, StartCopy(t, a) PROVE InFlight(s)' # {}
  <2>1. mode' = mode /\ waiting \subseteq waiting' /\ hung' = hung
    BY <1>3 DEF StartCopy, Put, Block, mail
  <2> QED BY <1>1, <2>1 DEF InFlight
<1>4. ASSUME NEW t \in Tasks, Return(t) PROVE s # t /\ mode'[s] = mode[s]
  BY <1>4 DEF Return, Suspend, IInv, Shape, TypeOK
<1>5. ASSUME NEW t \in Tasks, ResumePut(t) PROVE InFlight(s)' # {}
  <2>1. PICK e \in waiting : e.by = t /\ waiting' = waiting \ {e}
    BY <1>5 DEF ResumePut
  <2>2. hung' = hung /\ (Return(t) \/ (mode[t] # "direct" /\ mode' = mode))
    BY <1>5 DEF ResumePut, tasks
  <2>3. s # t /\ mode'[s] = mode[s] BY <1>4, <2>2
  <2> QED BY <1>1, <2>1, <2>2, <2>3 DEF InFlight
<1>6. ASSUME NEW t \in Tasks, FinishCopies(t) \/ ForwardAccepted(t) \/ ForwardFailed(t)
      PROVE  InFlight(s)' # {}
  <2>1. Return(t) /\ waiting' = waiting /\ hung' = hung
    BY <1>6 DEF FinishCopies, ForwardAccepted, ForwardFailed, mail
  <2> QED BY <1>1, <1>4, <2>1 DEF InFlight
<1>7. ASSUME NEW a \in Agents, CancelLoop(a) PROVE InFlight(s)' # {}
  <2>1. a \in Tasks BY DEF Tasks
  <2>2. s # a /\ mode'[s] = mode[s] BY <1>4, <1>7, <2>1 DEF CancelLoop
  <2>3. waiting' = {e \in waiting : e.by # a} /\ hung' = {e \in hung : e.by # a}
    BY <1>7 DEF CancelLoop
  <2> QED BY <1>1, <2>2, <2>3 DEF InFlight
<1>8. ASSUME NEW a \in Agents, Unregister(a) PROVE InFlight(s)' # {}
  BY <1>1, <1>8 DEF Unregister, InFlight
<1>9. ASSUME NEW a \in Agents, Connect(a) \/ Receive(a) \/ HandleSilently(a)
      PROVE  InFlight(s)' # {}
  BY <1>1, <1>9 DEF Connect, Receive, HandleSilently, tasks, mail, InFlight
<1>10. ASSUME NEW u \in Users, NEW m \in AllMessages, Send(u, m) \/ ReplayMessage(u, m)
       PROVE  InFlight(s)' # {}
  BY <1>2, <1>10, BeginSendBegins DEF Send, ReplayMessage, Tasks
<1>11. ASSUME NEW a \in Agents, HandleWithReply(a) PROVE InFlight(s)' # {}
  <2>1. <<cur[a], a>> \in AllMessages /\ a \in Tasks
    BY <1>11 DEF HandleWithReply, AllMessages, Tasks
  <2> QED BY <1>2, <1>11, <2>1, BeginSendBegins DEF HandleWithReply
<1>12. CASE UNCHANGED vars
  BY <1>1, <1>12 DEF vars, tasks, mail, InFlight
<1>13. Messages \subseteq AllMessages BY DEF AllMessages
<1> QED
  BY <1>3, <1>5, <1>6, <1>7, <1>8, <1>9, <1>10, <1>11, <1>12, <1>13 DEF Next

\* Where the event loop has nothing to run, a suspended task waits for a hung put or
\* for the inbox of an agent whose loop is suspended as well.
LEMMA StalledIsTrapped ==
    ASSUME IInv, DirectBlocked, NothingReady
    PROVE  OnlyTrappedStall
<1> DEFINE S == {t \in Tasks : mode[t] # "idle"}
<1>1. ASSUME NEW e \in queued \cup waiting, Inbox(e.to) # {} PROVE e.to \in S
  <2>1. e.to \in Registered BY DEF IInv, MailInv, NoMailForTheAbsent
  <2>2. e.to \in Agents /\ conn[e.to] = "in"
    BY <2>1 DEF Registered, NothingReady, IInv, Shape, TypeOK
  <2> QED BY <1>1, <2>2 DEF NothingReady, Tasks
<1>2. ASSUME NEW t \in S PROVE \E e \in InFlight(t) : e \in hung \/ e.to \in S
  <2>1. InFlight(t) # {}
    BY <1>2 DEF NothingReady, DirectBlocked, Modes, IInv, Shape, TypeOK
  <2>2. PICK e \in waiting \cup hung : e \in InFlight(t) BY <2>1 DEF InFlight
  <2>3. CASE e \in waiting
    <3>1. ~HasRoom(e.to) /\ e.to \in Agents
      BY <2>3 DEF NothingReady, IInv, Shape, TypeOK, Entry
    <3>2. Inbox(e.to) # {}
      <4>1. Cardinality({}) = 0 /\ 0 < Capacity BY FS_EmptySet, BrokerAssumption
      <4> QED BY <3>1, <4>1 DEF HasRoom
    <3>3. e.to \in S BY <1>1, <2>3, <3>2
    <3> QED BY <2>2, <3>3
  <2> QED BY <2>2, <2>3
<1>3. \A t \in S : Trapped(t)
  <2>1. S \in SUBSET Tasks OBVIOUS
  <2> HIDE DEF S
  <2> QED BY <1>2, <2>1 DEF Trapped
<1>4. ASSUME NEW a \in Agents, Inbox(a) # {} PROVE a \in S
  <2>1. PICK e \in queued : e.to = a BY <1>4 DEF Inbox
  <2> QED BY <1>1, <1>4, <2>1
<1> QED BY <1>3, <1>4 DEF OnlyTrappedStall

\* When nothing is ready, every send that has not returned waits for a deleted inbox or
\* in a circle of full inboxes, and so does the loop of every agent with mail
\* (messaging.py, send and unregister_agent; agents.py, _message_loop).
THEOREM Stalls == Spec => []OnlyTrappedStall
<1>1. Init => DirectBlocked
  BY DEF Init, DirectBlocked
<1>2. IInv /\ DirectBlocked /\ [Next]_vars => DirectBlocked'
  BY DirectStep
<1>3. IInv /\ DirectBlocked => OnlyTrappedStall
  BY StalledIsTrapped DEF OnlyTrappedStall
<1> QED
  BY <1>1, <1>2, <1>3, Invariance, PTL DEF Spec

-----------------------------------------------------------------------------
(* The broker implements the membership specification                      *)

\* A new entry adds one to the load of its inbox.
LEMMA LoadGrows ==
    ASSUME IInv, NEW e, e \notin queued, e.to \in Agents, queued' = queued \cup {e}
    PROVE  Load' = [Load EXCEPT ![e.to] = @ + 1]
<1>1. ASSUME NEW a \in Agents, a # e.to PROVE Inbox(a)' = Inbox(a)
  BY <1>1 DEF Inbox
<1>2. Cardinality(Inbox(e.to)') = Cardinality(Inbox(e.to)) + 1
  <2>1. IsFiniteSet(Inbox(e.to)) BY InboxFinite DEF IInv, MailInv
  <2>2. Inbox(e.to)' = Inbox(e.to) \cup {e} /\ e \notin Inbox(e.to) BY DEF Inbox
  <2> QED BY <2>1, <2>2, FS_AddElement
<1> QED BY <1>1, <1>2 DEF Load

\* An entry that is taken leaves an inbox that was not empty.
LEMMA LoadShrinks ==
    ASSUME IInv, NEW e \in queued, e.to \in Agents, queued' = queued \ {e}
    PROVE  Load[e.to] > 0 /\ Load' = [Load EXCEPT ![e.to] = @ - 1]
<1>1. ASSUME NEW a \in Agents, a # e.to PROVE Inbox(a)' = Inbox(a)
  BY <1>1 DEF Inbox
<1>2. /\ Cardinality(Inbox(e.to)') = Cardinality(Inbox(e.to)) - 1
      /\ Cardinality(Inbox(e.to)) > 0
  <2>1. IsFiniteSet(Inbox(e.to)) /\ Cardinality(Inbox(e.to)) \in Nat
    BY InboxFinite DEF IInv, MailInv
  <2>2. Inbox(e.to)' = Inbox(e.to) \ {e} /\ e \in Inbox(e.to) BY DEF Inbox
  <2>3. Cardinality(Inbox(e.to)') = Cardinality(Inbox(e.to)) - 1
    BY <2>1, <2>2, FS_RemoveElement
  <2>4. Cardinality(Inbox(e.to)) # 0 BY <2>1, <2>2, FS_EmptySet
  <2> QED BY <2>1, <2>3, <2>4
<1> QED BY <1>1, <1>2 DEF Load

\* A put that goes through is an arrival for a registered agent.
LEMMA PutArrives ==
    ASSUME IInv, NEW t \in Tasks, NEW m \in AllMessages, NEW a \in Registered, Put(t, m, a),
           UNCHANGED conn
    PROVE  Service!Next
<1>1. a \in Agents /\ conn[a] # "out" BY DEF Registered
<1>2. PICK e : e.to = a /\ e \notin queued /\ queued' = queued \cup {e}
  <2>1. Handover!Put BY PutIsPut DEF IInv, Shape
  <2>2. PICK e \in queued' \ queued : queued' = queued \cup {e}
    BY <2>1 DEF Handover!Put
  <2>3. PICK tm \in 0 .. MaxTime : queued' = queued \cup {Key(t, m, a, tm)}
    BY DEF Put
  <2>4. e = Key(t, m, a, tm) BY <2>2, <2>3
  <2>5. e.to = a BY <2>4 DEF Key
  <2> QED BY <2>2, <2>5
<1>3. Load' = [Load EXCEPT ![a] = @ + 1] BY <1>1, <1>2, LoadGrows
<1> QED BY <1>1, <1>3 DEF Service!Next, Service!Arrive

\* A new send fills the inbox of a registered agent or none.
LEMMA BeginSendServes ==
    ASSUME IInv, NEW t \in Tasks, NEW m \in AllMessages, NEW dead, BeginSend(t, m, dead)
    PROVE  [Service!Next]_(Service!vars)
<1>1. conn' = conn BY DEF BeginSend
<1>2. ASSUME UNCHANGED queued PROVE UNCHANGED Service!vars
  BY <1>1, <1>2 DEF Service!vars, Load, Inbox
<1>3. CASE Env(m).to \in Registered /\ Put(t, m, Env(m).to)
  BY <1>1, <1>3, PutArrives
<1>4. \/ UNCHANGED queued
      \/ Env(m).to \in Registered /\ Put(t, m, Env(m).to)
  BY DEF BeginSend, Reject, SendDirect, SendRouted, Broadcast, Forward, NotRegistered,
         Block, mail
<1> QED BY <1>2, <1>3, <1>4

\* Every step of the broker is a step of the membership or invisible to it.
LEMMA StepServes == IInv /\ [Next]_vars => [Service!Next]_(Service!vars)
<1> SUFFICES ASSUME IInv, [Next]_vars PROVE [Service!Next]_(Service!vars)
  OBVIOUS
<1> USE DEF IInv, Shape
<1>1. ASSUME UNCHANGED <<conn, queued>> PROVE UNCHANGED Service!vars
  BY <1>1 DEF Service!vars, Load, Inbox
<1>2. ASSUME UNCHANGED queued PROVE UNCHANGED Load
  BY <1>2 DEF Load, Inbox
<1>3. ASSUME NEW u \in Users, NEW m \in AllMessages, Send(u, m) \/ ReplayMessage(u, m)
      PROVE  [Service!Next]_(Service!vars)
  BY <1>3, BeginSendServes DEF Send, ReplayMessage, Tasks
<1>4. ASSUME NEW a \in Agents, HandleWithReply(a) PROVE [Service!Next]_(Service!vars)
  <2>1. <<cur[a], a>> \in AllMessages /\ a \in Tasks
    BY <1>4 DEF HandleWithReply, AllMessages, Tasks
  <2> QED BY <1>4, <2>1, BeginSendServes DEF HandleWithReply
<1>5. ASSUME NEW t \in Tasks, ResumePut(t) PROVE Service!Next
  <2>1. PICK e \in waiting : queued' = queued \cup {e} BY <1>5 DEF ResumePut
  <2>2. e \notin queued BY DEF MailInv, Apart, Delivered
  <2>3. e.to \in Agents /\ conn[e.to] # "out"
    BY DEF MailInv, NoMailForTheAbsent, Registered
  <2>4. Load' = [Load EXCEPT ![e.to] = @ + 1] BY <2>1, <2>2, <2>3, LoadGrows
  <2> QED BY <1>5, <2>3, <2>4 DEF ResumePut, Service!Next, Service!Arrive
<1>6. ASSUME NEW t \in Tasks, NEW a \in Agents, StartCopy(t, a)
      PROVE  [Service!Next]_(Service!vars)
  <2>1. sending[t] \in AllMessages BY <1>6 DEF StartCopy, TaskShape, FanOut
  <2>2. CASE a \in Registered /\ Put(t, sending[t], a)
    BY <1>6, <2>1, <2>2, PutArrives DEF StartCopy
  <2>3. CASE UNCHANGED queued BY <1>1, <1>6, <2>3 DEF StartCopy
  <2> QED BY <1>6, <2>2, <2>3 DEF StartCopy, Block, mail
<1>7. ASSUME NEW t \in Tasks, FinishCopies(t) \/ ForwardAccepted(t) \/ ForwardFailed(t)
      PROVE  UNCHANGED Service!vars
  BY <1>1, <1>7 DEF FinishCopies, ForwardAccepted, ForwardFailed, mail
<1>8. ASSUME NEW a \in Agents, Connect(a) PROVE Service!Next
  BY <1>2, <1>8 DEF Connect, mail, Service!Next, Service!Join, Service!Moves
<1>9. ASSUME NEW a \in Agents, CancelLoop(a) PROVE Service!Next
  BY <1>2, <1>9 DEF CancelLoop, Service!Next, Service!Retire, Service!Moves
<1>10. ASSUME NEW a \in Agents, Unregister(a) PROVE Service!Next
  <2>1. \A b \in Agents \ {a} : Inbox(b)' = Inbox(b) BY <1>10 DEF Unregister, Inbox
  <2>2. Inbox(a)' = {} BY <1>10 DEF Unregister, Inbox
  <2>3. Load' = [Load EXCEPT ![a] = 0] BY <2>1, <2>2, FS_EmptySet DEF Load
  <2> QED BY <1>10, <2>3 DEF Unregister, Service!Next, Service!Leave, Service!Moves
<1>11. ASSUME NEW a \in Agents, Receive(a) PROVE Service!Next
  <2>1. PICK e \in queued : e.to = a /\ queued' = queued \ {e} BY <1>11 DEF Receive, Inbox
  <2>2. Load[a] > 0 /\ Load' = [Load EXCEPT ![a] = @ - 1] BY <2>1, LoadShrinks
  <2> QED BY <1>11, <2>2 DEF Receive, Service!Next, Service!Serve
<1>12. ASSUME NEW a \in Agents, HandleSilently(a) PROVE UNCHANGED Service!vars
  BY <1>1, <1>12 DEF HandleSilently, mail
<1>13. CASE UNCHANGED vars BY <1>1, <1>13 DEF vars, mail
<1>14. Messages \subseteq AllMessages BY DEF AllMessages
<1>15. ASSUME Next PROVE [Service!Next]_(Service!vars)
  BY <1>3, <1>4, <1>5, <1>6, <1>7, <1>8, <1>9, <1>10, <1>11, <1>12, <1>14, <1>15 DEF Next
<1> QED BY <1>13, <1>15

\* The broker takes agents for members that join, are served by one loop, and leave with
\* their mail: it relies on no more of connect and disconnect (agents.py) than that.
THEOREM ServesMembers == Spec => ImplementsMembership
<1>1. Init => Service!Init
  <2> SUFFICES ASSUME Init PROVE Service!Init
    OBVIOUS
  <2>1. \A a \in Agents : Inbox(a) = {} BY DEF Init, Inbox
  <2>2. Load = [a \in Agents |-> 0] BY <2>1, FS_EmptySet DEF Load
  <2> QED BY <2>2 DEF Init, Service!Init
<1>2. IInv /\ [Next]_vars => [Service!Next]_(Service!vars)
  BY StepServes
<1> QED
  BY <1>1, <1>2, Invariance, PTL DEF Spec, ImplementsMembership, Service!Spec

-----------------------------------------------------------------------------
(* The head of an inbox                                                    *)

\* Entries are told apart by their numbers.
Distinct == \A e, f \in Entries : e.n = f.n => e = f

\* An inbox that is not empty has one first entry: the counter in the key breaks every
\* tie of priority and time, so that the heap never compares two messages.
InboxHasHead ==
    \A a \in Agents :
        Inbox(a) # {} => \E e \in Inbox(a) : \A f \in Inbox(a) \ {e} :
                            Precedes(e, f) /\ ~Precedes(f, e)

\* Every step keeps the numbers apart, whatever the clock does.
LEMMA DistinctStep == IInv /\ Distinct /\ [Next]_vars => Distinct'
<1> SUFFICES ASSUME IInv, Distinct, [Next]_vars PROVE Distinct'
  OBVIOUS
<1>1. ASSUME Entries' \subseteq Entries PROVE Distinct'
  BY <1>1 DEF Distinct
<1>2. ASSUME NEW t \in Tasks, NEW m \in AllMessages, NEW a \in Agents, AddsEntry(t, m, a)
      PROVE  Distinct'
  <2>1. PICK e : e.n = counter /\ Entries' = Entries \cup {e} BY <1>2, Added
  <2>2. counter \in Nat /\ \A f \in Entries : f.n \in Nat /\ f.n < counter
    BY DEF IInv, Shape, TypeOK, MailInv, Numbered, Entries, Delivered, Entry
  <2>3. \A f \in Entries : f.n # e.n BY <2>1, <2>2
  <2> QED BY <2>1, <2>3 DEF Distinct
<1>3. ASSUME UNCHANGED mail PROVE Entries' = Entries
  BY <1>3 DEF mail, Entries, Delivered
<1>4. ASSUME NEW t \in Tasks, NEW m \in AllMessages, Begins(t, m) PROVE Distinct'
  BY <1>1, <1>2, <1>3, <1>4 DEF Begins
<1>5. ASSUME NEW t \in Tasks, NEW a \in Agents, StartCopy(t, a) PROVE Distinct'
  <2>1. sending[t] \in AllMessages BY <1>5 DEF StartCopy, IInv, Shape, TaskShape, FanOut
  <2>2. AddsEntry(t, sending[t], a) \/ UNCHANGED mail BY <1>5, PutAdds DEF StartCopy
  <2> QED BY <1>1, <1>2, <1>3, <2>1, <2>2
<1>6. ASSUME Wanes PROVE Distinct'
  BY <1>1, <1>6 DEF Wanes
<1>7. CASE UNCHANGED vars
  BY <1>1, <1>3, <1>7 DEF vars
<1>8. ASSUME Next PROVE Distinct'
  BY <1>4, <1>5, <1>6, <1>8, KindsOfSteps
<1> QED BY <1>7, <1>8

\* The heap keys of entries with different numbers are strictly ordered.
LEMMA KeyOrder ==
    ASSUME NEW I, I \subseteq Entry, \A e, f \in I : e.n = f.n => e = f
    PROVE  /\ \A e \in I : ~Precedes(e, e)
           /\ \A e, f \in I : e # f => Precedes(e, f) \/ Precedes(f, e)
           /\ \A e, f, g \in I : Precedes(e, f) /\ Precedes(f, g) => Precedes(e, g)
<1>1. \A e \in I : Env(e.msg).priority \in Nat /\ e.time \in Nat /\ e.n \in Nat
  BY EnvType DEF Entry, EnvelopeType
<1> QED BY <1>1 DEF Precedes

\* A set of numbers that is not empty has a least one.
LEMMA LeastNumber ==
    ASSUME NEW T, T \subseteq Nat, T # {}
    PROVE  \E n \in T : \A k \in T : n <= k
<1>1. PICK n \in T : \A k \in T : ~(<<k, n>> \in OpToRel(<, Nat))
  BY NatLessThanWellFounded, WFMin, Zenon
<1>2. \A k \in T : ~(k < n)
  BY <1>1 DEF OpToRel
<1> QED BY <1>2

\* Of finitely many entries the one with the fewest before it comes before all others.
LEMMA FirstEntry ==
    ASSUME NEW I, I \subseteq Entry, IsFiniteSet(I), I # {}, \A e, f \in I : e.n = f.n => e = f
    PROVE  \E e \in I : \A f \in I \ {e} : Precedes(e, f) /\ ~Precedes(f, e)
<1> DEFINE Before(e) == {f \in I : Precedes(f, e)}
           Sizes == {Cardinality(Before(e)) : e \in I}
<1>1. \A e \in I : IsFiniteSet(Before(e)) /\ Cardinality(Before(e)) \in Nat
  BY FS_Subset, FS_CardinalityType
<1>2. PICK e \in I : \A f \in I : Cardinality(Before(e)) <= Cardinality(Before(f))
  <2> HIDE DEF Before
  <2>1. Sizes \subseteq Nat /\ Sizes # {} BY <1>1
  <2>2. PICK n \in Sizes : \A k \in Sizes : n <= k BY <2>1, LeastNumber
  <2> QED BY <2>2
<1>3. ASSUME NEW f \in I, Precedes(f, e) PROVE FALSE
  <2>1. Before(f) \subseteq Before(e) /\ f \in Before(e) /\ f \notin Before(f)
    BY <1>3, KeyOrder
  <2> HIDE DEF Before
  <2>2. Cardinality(Before(f)) < Cardinality(Before(e))
    <3>1. /\ Before(f) \subseteq Before(e) \ {f} /\ IsFiniteSet(Before(e) \ {f})
          /\ Cardinality(Before(e) \ {f}) = Cardinality(Before(e)) - 1
      BY <1>1, <2>1, FS_RemoveElement
    <3>2. Cardinality(Before(f)) <= Cardinality(Before(e) \ {f}) BY <3>1, FS_Subset
    <3> QED BY <1>1, <3>1, <3>2
  <2> QED BY <1>1, <1>2, <2>2
<1>4. \A f \in I \ {e} : Precedes(e, f) /\ ~Precedes(f, e)
  BY <1>3, KeyOrder
<1> QED BY <1>4

\* A loop whose inbox is not empty can take a message, and which one is determined
\* (messaging.py, _deliver_locally: the key is (-priority, time_ns, counter)).
THEOREM InboxHeads == Spec => []InboxHasHead
<1>1. Init => Distinct
  BY DEF Init, Distinct, Entries, Delivered
<1>2. IInv /\ Distinct /\ [Next]_vars => Distinct'
  BY DistinctStep
<1>3. IInv /\ Distinct => InboxHasHead
  <2> SUFFICES ASSUME IInv, Distinct, NEW a \in Agents, Inbox(a) # {}
               PROVE  \E e \in Inbox(a) : \A f \in Inbox(a) \ {e} :
                          Precedes(e, f) /\ ~Precedes(f, e)
    BY DEF InboxHasHead
  <2>1. IsFiniteSet(Inbox(a)) BY InboxFinite DEF IInv, MailInv
  <2>2. Inbox(a) \subseteq Entry /\ Inbox(a) \subseteq Entries
    BY DEF Inbox, Entries, Delivered, IInv, Shape, TypeOK
  <2>3. \A e, f \in Inbox(a) : e.n = f.n => e = f BY <2>2 DEF Distinct
  <2> QED BY <2>1, <2>2, <2>3, FirstEntry
<1> QED
  BY <1>1, <1>2, <1>3, Invariance, PTL DEF Spec
=============================================================================
