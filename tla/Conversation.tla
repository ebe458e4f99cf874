---------------------------- MODULE Conversation ----------------------------
(***************************************************************************)
(* Requests and their answers: MessageBroker.request and set_response      *)
(* (messaging.py), the replies of agents (agents.py, protocol.py), a       *)
(* StreamBridgeAgent with its request map (bridge.py) and the JSON-RPC     *)
(* adapter between it and an external system (adapters.py).                *)
(*                                                                         *)
(* `log` lists the messages given to broker.send; the id of a message is   *)
(* its place there.  Sending saves a message (Store) and puts it into the  *)
(* inboxes, in one step except for request, whose send may be blocked; what *)
(* else may happen to a send is the subject of Broker.  An agent's inbox   *)
(* keeps requests only: its handlers answer nothing else.                  *)
(***************************************************************************)
EXTENDS Store

CONSTANTS
    Agents,      \* agents whose handlers reply, connected throughout
    Bridge,      \* the bridge agent
    Callers,     \* calls of broker.request; their uuid4 correlation ids
    Threads,     \* correlation ids agents choose themselves
    Externals,   \* ids of the requests the external system makes
    None,        \* Python's None
    Nobody,      \* the empty sender id of broker.request
    MapSize,     \* requests a bridge remembers, 1000 in the code
    MaxAsks,     \* bound: requests agents send to the bridge
    MaxAnswers,  \* bound: answers of the external system to one request
    MaxLines,    \* bound: frames in the stream
    MaxMessages  \* bound: messages

Parties      == Agents \cup {Bridge}
Correlations == Threads \cup Callers \cup Externals \cup Ids
Types        == {"request", "response", "error", "notification"}
Frames       == [kind : {"answer", "null", "junk", "ask"}, id : Ids \cup Externals]

Message == [type : Types, from : Parties \cup {Nobody},
            to : Parties \cup {None, Nobody}, corr : Correlations, re : Ids \cup {None}]

ASSUME ConversationAssumption ==
    /\ MapSize \in Nat \ {0} /\ MaxAsks \in Nat /\ MaxAnswers \in Nat
    /\ MaxLines \in Nat /\ MaxMessages \in Nat
    /\ Ids = 1 .. MaxMessages
    /\ Keys = Parties \cup Correlations
    /\ Bridge \notin Agents
    /\ {None, Nobody} \cap Keys = {} /\ None # Nobody
    /\ Parties \cap Correlations = {}
    /\ Callers \cap (Ids \cup Threads \cup Externals) = {}
    /\ Ids \cap (Threads \cup Externals) = {}

VARIABLES
    log,       \* messages given to send, in order
    inbox,     \* of a party: messages waiting for its loop
    caller,    \* of a request call: "idle", "sending", "waiting", "expired" or "cut" by
               \* its timer, or its end
    pending,   \* keys of _pending_messages
    resolved,  \* calls whose future has a result
    conn,      \* of the bridge: "new", "in", "closing", "out"
    reading,   \* _external_message_loop runs
    link,      \* the external system is there
    map,       \* keys of _request_map
    took,      \* requests the bridge took, in order: the order of _request_map
    wire,      \* messages written to the external system
    line,      \* frames it has written, not yet read
    given      \* answers it gave to a request

store  == <<saved, history, members>>
calls  == <<caller, pending, resolved>>
bridge == <<conn, reading, map, took>>
peer   == <<link, wire, line, given>>
vars   == <<store, log, inbox, calls, bridge, peer>>

-----------------------------------------------------------------------------
(* State functions                                                         *)

NextId == Len(log) + 1

Registered == IF conn \in {"in", "closing"} THEN Parties ELSE Agents

\* Whom send finds: everybody but the sender without a recipient, else the recipient.
Recipients(m) ==
    IF m.to = None THEN Registered \ {m.from} ELSE {m.to} \cap Registered

Letter(type, from, to, corr, re) ==
    [type |-> type, from |-> from, to |-> to, corr |-> corr, re |-> re]

\* Inboxes once message i, m, is put into those of its recipients.
With(i, m) ==
    [p \in Parties |->
        IF p \in Recipients(m) /\ (p = Bridge \/ m.type = "request")
        THEN inbox[p] \cup {i} ELSE inbox[p]]

-----------------------------------------------------------------------------
(* Sending                                                                 *)

\* broker.send up to the put: the message is saved for its sender, recipient and thread.
Record(m) ==
    /\ NextId \in Ids
    /\ log' = Append(log, m)
    /\ Save(NextId, {m.from, m.to, m.corr} \cap Keys)

Send(m) == Record(m) /\ inbox' = With(NextId, m)

\* An agent asks the bridge; without a correlation id the message gets its own id.
Ask(a, corr) ==
    /\ Cardinality({i \in Ids \cap DOMAIN log : log[i].from \in Agents /\ log[i].to = Bridge
                                                /\ log[i].type = "request"}) < MaxAsks
    /\ Send(Letter("request", a, Bridge, IF corr = None THEN NextId ELSE corr, None))
    /\ UNCHANGED <<calls, bridge, peer>>

-----------------------------------------------------------------------------
(* request and set_response                                                *)

InCall == {"sending", "waiting", "expired", "cut"}

\* request: the future is entered, then the message sent, by nobody.
Request(c, p) ==
    LET m == Letter("request", Nobody, p, c, None) IN
    /\ caller[c] = "idle"
    /\ pending' = pending \cup {c}
    /\ \/ Send(m) /\ caller' = [caller EXCEPT ![c] = "waiting"]
       \/ /\ p \in Registered   \* the inbox is full
          /\ Record(m) /\ caller' = [caller EXCEPT ![c] = "sending"]
          /\ UNCHANGED inbox
    /\ UNCHANGED <<resolved, bridge, peer>>

\* The blocked send returns; the timeout of wait_for begins only now.
RequestSent(c) ==
    /\ caller[c] = "sending"
    /\ \E i \in DOMAIN log :
          /\ log[i].corr = c /\ log[i].type = "request"
          /\ log[i].to \in Registered
          /\ inbox' = With(i, log[i])
    /\ caller' = [caller EXCEPT ![c] = "waiting"]
    /\ UNCHANGED <<store, log, pending, resolved, bridge, peer>>

\* The timer of wait_for fires, perhaps when the result is there already; the caller runs
\* later.  Python 3.11 wakes the caller ("expired"), and later versions cancel it, and with
\* it a future that is pending ("cut").
Expire(c) ==
    /\ caller[c] = "waiting"
    /\ \E s \in {"expired", "cut"} : caller' = [caller EXCEPT ![c] = s]
    /\ UNCHANGED <<store, log, inbox, pending, resolved, bridge, peer>>

\* The caller runs on: it returns the result or, without one or when cut, None; the
\* finally clause pops the future.
Return(c) ==
    /\ \/ /\ caller[c] = "cut" \/ (caller[c] = "expired" /\ c \notin resolved)
          /\ caller' = [caller EXCEPT ![c] = "timeout"]
       \/ /\ caller[c] \in {"waiting", "expired"} /\ c \in resolved
          /\ caller' = [caller EXCEPT ![c] = "answered"]
    /\ pending' = pending \ {c}
    /\ UNCHANGED <<store, log, inbox, resolved, bridge, peer>>

\* mutant: the future is popped on a timeout only
CancelKeeping(c) ==
    /\ caller[c] \in InCall
    /\ caller' = [caller EXCEPT ![c] = "cancelled"]
    /\ UNCHANGED <<store, log, inbox, pending, resolved, bridge, peer>>

\* The task that called request is cancelled.
Cancel(c) ==
    /\ caller[c] \in InCall
    /\ caller' = [caller EXCEPT ![c] = "cancelled"]
    /\ pending' = pending \ {c}
    /\ UNCHANGED <<store, log, inbox, resolved, bridge, peer>>

\* set_response, called by the handler of a request with its correlation id.  The future
\* of a call that was cut is cancelled, and one that expired may be, when its caller ran
\* and waits for the cancellation.
SetResponse(a, i) ==
    LET c == log[i].corr IN
    /\ i \in inbox[a] /\ c \in pending
    /\ pending' = pending \ {c}
    /\ \/ caller[c] # "cut" /\ resolved' = resolved \cup {c}
       \/ caller[c] \in {"expired", "cut"} /\ UNCHANGED resolved
    /\ UNCHANGED <<store, log, inbox, caller, bridge, peer>>

-----------------------------------------------------------------------------
(* Agents                                                                  *)

\* create_reply: a response, or an error when the handler raised, to the sender.
Reply(a, i, type) ==
    /\ i \in inbox[a]
    /\ Record(Letter(type, a, log[i].from, log[i].corr, i))
    /\ inbox' = [With(NextId, log'[NextId]) EXCEPT ![a] = @ \ {i}]
    /\ UNCHANGED <<calls, bridge, peer>>

-----------------------------------------------------------------------------
(* The bridge                                                              *)

Connect ==
    /\ conn = "new"
    /\ conn' = "in" /\ reading' = TRUE
    /\ UNCHANGED <<store, log, inbox, calls, map, took, peer>>

Oldest(S, order) == {i \in S : \E n \in DOMAIN order :
                                 order[n] = i /\ \A k \in 1 .. n - 1 : order[k] \notin S}

\* mutant: one entry more is kept
BeyondOffByOne(S, order) == IF Cardinality(S) > MapSize + 1 THEN Oldest(S, order) ELSE {}

\* mutant: popitem() takes the newest
BeyondNewest(S, order) == IF Cardinality(S) > MapSize THEN {order[Len(order)]} ELSE {}

\* popitem(last=False) when the map has grown beyond its limit.
Beyond(S, order) == IF Cardinality(S) > MapSize THEN Oldest(S, order) ELSE {}

\* The bridge's loop takes a message: a request is remembered; the frame is written,
\* unless the stream is closed or lost, which is logged and forgotten.
Take(i) ==
    /\ conn \in {"in", "closing"} /\ i \in inbox[Bridge]
    /\ inbox' = [inbox EXCEPT ![Bridge] = @ \ {i}]
    /\ IF log[i].type = "request"
       THEN /\ took' = Append(took, i)
            /\ map' = (map \cup {i}) \ Beyond(map \cup {i}, took')
       ELSE UNCHANGED <<map, took>>
    /\ wire' = IF conn = "in" /\ link THEN wire \cup {i} ELSE wire
    /\ UNCHANGED <<store, log, calls, conn, reading, link, line, given>>

NextFrame(keep) ==
    /\ conn = "in" /\ reading /\ line # <<>>
    /\ line' = Tail(line)
    /\ reading' = keep
    /\ UNCHANGED <<calls, conn, took, link, wire, given>>

\* mutant: get() for pop()
ReadAnswerKeeping ==
    LET id   == Head(line).id
        home == IF id \in map /\ log[id].from # Nobody THEN log[id].from ELSE None
    IN
    /\ NextFrame(TRUE) /\ Head(line).kind = "answer"
    /\ Send(Letter("response", Bridge, home, id, None))
    /\ UNCHANGED map

\* A result or an error: the requester is looked up by the id and forgotten; an
\* unknown id, or a requester without a name, makes it a broadcast.
ReadAnswer ==
    LET id    == Head(line).id
        known == map \cap {id}
        home  == IF known # {} /\ log[id].from # Nobody THEN log[id].from ELSE None
    IN
    /\ NextFrame(TRUE) /\ Head(line).kind = "answer"
    /\ Send(Letter("response", Bridge, home, id, None))
    /\ map' = map \ known

\* A null result is taken for a notification, a call for a request; both are broadcast.
ReadOther ==
    /\ NextFrame(TRUE) /\ Head(line).kind \in {"null", "ask"}
    /\ Send(Letter(IF Head(line).kind = "ask" THEN "request" ELSE "notification",
                   Bridge, None, Head(line).id, None))
    /\ UNCHANGED map

\* mutant: an exception ends the loop
ReadJunkAndStop ==
    /\ NextFrame(FALSE) /\ Head(line).kind = "junk"
    /\ UNCHANGED <<store, log, inbox, map>>

\* What json, the adapter or AgentMessage refuses (a result that is no object, say) is
\* logged and dropped.
ReadJunk ==
    /\ NextFrame(TRUE) /\ Head(line).kind = "junk"
    /\ UNCHANGED <<store, log, inbox, map>>

\* End of file: the reading loop ends; the bridge stays connected.
ReadEnd ==
    /\ conn = "in" /\ reading /\ line = <<>> /\ ~link
    /\ reading' = FALSE
    /\ UNCHANGED <<store, log, inbox, calls, conn, map, took, peer>>

\* disconnect up to wait_closed: the reading loop is cancelled, the writer closed, and
\* the message loop goes on.
Disconnect ==
    /\ conn = "in"
    /\ conn' = "closing" /\ reading' = FALSE /\ line' = <<>>
    /\ UNCHANGED <<store, log, inbox, calls, map, took, link, wire, given>>

\* The rest of disconnect: the loop is cancelled and the inbox deleted.
Disconnected ==
    /\ conn = "closing"
    /\ conn' = "out"
    /\ inbox' = [inbox EXCEPT ![Bridge] = {}]
    /\ UNCHANGED <<store, log, calls, reading, map, took, peer>>

-----------------------------------------------------------------------------
(* The external system                                                     *)

Write(kind, id) ==
    /\ link /\ conn \in {"new", "in"} /\ Len(line) < MaxLines
    /\ line' = Append(line, [kind |-> kind, id |-> id])
    /\ UNCHANGED <<store, log, inbox, calls, bridge, link, wire>>

\* It answers a request, in any order, perhaps more than once.
ExternalAnswers(i, kind) ==
    /\ i \in wire /\ log[i].type = "request" /\ given[i] < MaxAnswers
    /\ given' = [given EXCEPT ![i] = @ + 1]
    /\ Write(kind, i)

\* It makes a request of its own.
ExternalAsks(x) ==
    /\ \A i \in DOMAIN log : log[i].corr # x
    /\ \A n \in DOMAIN line : line[n].id # x
    /\ Write("ask", x) /\ UNCHANGED given

HangUp ==
    /\ link /\ link' = FALSE
    /\ UNCHANGED <<store, log, inbox, calls, bridge, wire, line, given>>

-----------------------------------------------------------------------------
Init ==
    /\ StoreInit
    /\ log = <<>> /\ inbox = [p \in Parties |-> {}]
    /\ caller = [c \in Callers |-> "idle"] /\ pending = {} /\ resolved = {}
    /\ conn = "new" /\ reading = FALSE /\ map = {} /\ took = <<>>
    /\ link = TRUE /\ wire = {} /\ line = <<>> /\ given = [i \in Ids |-> 0]

Next ==
    \/ \E a \in Agents, corr \in Threads \cup {None} : Ask(a, corr)
    \/ \E c \in Callers, p \in Parties : Request(c, p)
    \/ \E c \in Callers : RequestSent(c)
    \/ \E c \in Callers : Expire(c)
    \/ \E c \in Callers : Return(c)
    \/ \E c \in Callers : Cancel(c)
    \/ \E a \in Agents, i \in Ids : SetResponse(a, i)
    \/ \E a \in Agents, i \in Ids, type \in {"response", "error"} : Reply(a, i, type)
    \/ Connect
    \/ \E i \in Ids : Take(i)
    \/ ReadAnswer \/ ReadOther \/ ReadJunk \/ ReadEnd
    \/ Disconnect \/ Disconnected
    \/ \E i \in Ids, kind \in {"answer", "null", "junk"} : ExternalAnswers(i, kind)
    \/ \E x \in Externals : ExternalAsks(x)
    \/ HangUp

Spec == Init /\ [][Next]_vars

\* The loop that reads the stream runs when there is a line.
Fairness == WF_vars(ReadAnswer \/ ReadOther \/ ReadJunk)

FairSpec == Spec /\ Fairness

-----------------------------------------------------------------------------
(* Properties                                                              *)

\* Every variable holds values of its type, and a bridge remembers at most MapSize
\* requests, also those never answered and those lost with the stream.
TypeOK ==
    /\ StoreTypeOK
    /\ log \in Seq(Message) /\ Len(log) <= MaxMessages
    /\ inbox \in [Parties -> SUBSET DOMAIN log]
    /\ caller \in [Callers -> InCall \cup {"idle", "answered", "timeout", "cancelled"}]
    /\ pending \subseteq Callers /\ resolved \subseteq Callers
    /\ conn \in {"new", "in", "closing", "out"}
    /\ reading \in BOOLEAN /\ link \in BOOLEAN
    /\ took \in Seq(DOMAIN log) /\ map \subseteq Elements(took)
    /\ Cardinality(map) <= MapSize
    /\ wire \subseteq DOMAIN log
    /\ line \in Seq(Frames)
    /\ given \in [Ids -> Nat]

IsAnswer(i) == log[i].type = "response" /\ log[i].from = Bridge

\* An answer from outside that the bridge addresses to an agent goes to the one that
\* sent the request it answers, and only one does, in whatever order and however
\* often the external system answers, and whatever the map has forgotten.
AnswersGoHome ==
    \A i \in DOMAIN log :
        IsAnswer(i) /\ log[i].to # None =>
            /\ log[i].corr \in Elements(took)
            /\ log[log[i].corr].from = log[i].to
            /\ \A j \in DOMAIN log :
                  IsAnswer(j) /\ log[j].to # None /\ log[j].corr = log[i].corr => i = j

\* An answer is broadcast to agents it does not concern only if its request came from
\* broker.request, was answered before, or was followed by MapSize others.
AnswersAreNotLeaked ==
    \A i \in DOMAIN log :
        IsAnswer(i) /\ log[i].to = None =>
            \/ log[log[i].corr].from = Nobody
            \/ \E j \in 1 .. i - 1 : IsAnswer(j) /\ log[j].corr = log[i].corr
            \/ \E n \in DOMAIN took : took[n] = log[i].corr /\ n + MapSize <= Len(took)

\* Every future in the table is awaited and has no result, so that no end of a call
\* leaves one behind; a call that no timer has ended has its future in the table or its
\* result; only a result makes a call return one.  (The converse fails since Python 3.12: a
\* timer that fires after set_response and before the caller runs makes request return
\* None although its result was set.)
FuturesSettled ==
    \A c \in Callers :
        /\ c \in pending => caller[c] \in InCall /\ c \notin resolved
        /\ caller[c] \in {"sending", "waiting"} => c \in pending \cup resolved
        /\ caller[c] = "answered" => c \in resolved

Concerns(k) == {i \in DOMAIN log : k \in {log[i].from, log[i].to, log[i].corr}}

\* get_history(k, n) and get_conversation(k) list, in the order they were sent, the
\* newest of the messages sent by, addressed to or correlated with k; the deque and the
\* set behind it stay in step.
HistoryIsRecent ==
    /\ HistoriesSound
    /\ \A k \in Keys, n \in 1 .. MaxHistory :
          LET ids == Read(k, n) IN
          /\ Elements(ids) = {i \in Concerns(k) : Cardinality({j \in Concerns(k) : j > i}) < n}
          /\ \A x, y \in 1 .. Len(ids) : x < y => ids[x] < ids[y]

\* messaging.py:370, "This is called internally when a response message is received":
\* a call does not time out once the broker was given the response to its request.
RequestResolves ==
    [][\A c \in Callers :
          caller[c] = "waiting" /\ caller'[c] \in {"expired", "cut"}
          => \A i \in DOMAIN log : ~(log[i].type = "response" /\ log[i].corr = c)]_vars

\* Frames from outside are read, whatever was wrong with the ones before, until the
\* bridge is disconnected.
LinesAreRead ==
    line # <<>> ~> (line = <<>> \/ conn # "in" \/ Len(log) = MaxMessages)
=============================================================================
