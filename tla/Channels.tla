------------------------------ MODULE Channels ------------------------------
(***************************************************************************)
(* A channel made by ChannelRegistry.create: which class it is decides     *)
(* which operations there are.  TCPSocketChannel has a module of its own.  *)
(***************************************************************************)
EXTENDS HTTPChannel, WebSocketChannel

vars == <<channel, http, sockets>>

Init == ChannelInit /\ HttpInit /\ SocketInit

\* LocalChannel hands the message to broker.send and returns the status it finds then;
\* start and stop only set the flag, whatever is under way.
LocalSend(s) == Calls(s) /\ Suspend(s, "broker") /\ UNCHANGED <<kind, running, stop, starts, status>>

LocalReturns(s) ==
    /\ pc[s] = "broker"
    /\ \E outcome \in Statuses \ {"none"} : Returned(s, outcome)
    /\ UNCHANGED <<kind, running, stop, starts>>

LocalStart == Started /\ UNCHANGED <<pc, status>>

LocalStop == running /\ running' = FALSE /\ UNCHANGED <<kind, stop, starts, pc, status>>

LocalNext ==
    \/ \E s \in Senders : LocalSend(s) \/ LocalReturns(s)
    \/ LocalStart \/ LocalStop

Next ==
    \/ \E s \in Senders : SendRaises(s) /\ UNCHANGED <<http, sockets>>
    \/ kind = "local" /\ LocalNext /\ UNCHANGED <<http, sockets>>
    \/ kind = "http" /\ HttpNext /\ UNCHANGED sockets
    \/ kind = "websocket" /\ SocketNext /\ UNCHANGED http

Spec == Init /\ [][Next]_vars

Fairness == HttpFairness /\ SocketFairness

FairSpec == Spec /\ Fairness

\* Every variable holds values of its type.
TypeOK ==
    /\ kind \in Kinds /\ running \in BOOLEAN /\ stop \in {"idle", "server", "rest"}
    /\ starts \in 0 .. MaxStarts
    /\ pc \in [Senders -> {"idle", "posting", "failing", "backoff", "writing", "broker"}]
    /\ status \in [Senders -> Statuses]
    /\ HttpTypeOK /\ SocketTypeOK

\* A send by HTTP returns whatever the other side and stop do; the stop of a WebSocket
\* channel returns unless a handler is caught in broker.send.
CallsReturn == SendsEnd /\ StopEnds
=============================================================================
