--------------------------- MODULE WebSocketChannel ---------------------------
(***************************************************************************)
(* WebSocketChannel of channels.py: the handlers of incoming connections,  *)
(* the table of connections by agent id they share, sends through it, and  *)
(* stop.  The websockets library is external: it closes connections, and   *)
(* its wait_closed waits for the handlers.                                 *)
(***************************************************************************)
EXTENDS Channel

CONSTANTS
    Names,      \* agent ids that connect
    Nameless,   \* what identify without an agent_id stores
    MaxConns    \* bound: connections

ASSUME SocketAssumption == Nameless \notin Names /\ MaxConns \in Nat

Conns == 1 .. MaxConns

VARIABLES
    handler,   \* of a connection: "none", "new", "reading", "delivering", "ended"
    up,        \* connections whose transport is open
    who,       \* agent_id in the handler's frame, Nameless before it is known
    table,     \* _connections: the connection of an agent, 0 without
    via,       \* the connection a send writes to
    shared     \* agents that had two connections at once

sockets == <<handler, up, who, table, via, shared>>

SocketInit ==
    /\ handler = [w \in Conns |-> "none"] /\ up = {}
    /\ who = [w \in Conns |-> Nameless]
    /\ table = [a \in Names \cup {Nameless} |-> 0]
    /\ via = [s \in Senders |-> 0] /\ shared = {}

Live(a) == {w \in Conns : who[w] = a /\ handler[w] \in {"reading", "delivering"}}

Move(w, where) == handler' = [handler EXCEPT ![w] = where]

\* A connection comes in while the server listens.
Accept(w) ==
    /\ running /\ stop = "idle"
    /\ handler[w] = "none" /\ \A v \in 1 .. w - 1 : handler[v] # "none"
    /\ Move(w, "new") /\ up' = up \cup {w}
    /\ UNCHANGED <<channel, who, table, via, shared>>

\* The first message identifies the agent; the newest connection takes the entry.
Identify(w, a) ==
    /\ handler[w] = "new" /\ w \in up
    /\ Move(w, "reading")
    /\ who' = [who EXCEPT ![w] = a]
    /\ table' = [table EXCEPT ![a] = w]
    /\ shared' = IF Live(a) # {} THEN shared \cup {a} ELSE shared
    /\ UNCHANGED <<channel, up, via>>

\* A message is handed to the broker, whose send may be suspended.
Deliver(w) ==
    /\ handler[w] = "reading" /\ w \in up
    /\ Move(w, "delivering")
    /\ UNCHANGED <<channel, up, who, table, via, shared>>

Delivered(w) ==
    /\ handler[w] = "delivering"
    /\ Move(w, "reading")
    /\ UNCHANGED <<channel, up, who, table, via, shared>>

Lost(w) ==
    /\ w \in up /\ up' = up \ {w}
    /\ UNCHANGED <<channel, handler, who, table, via, shared>>

\* mutant: no finally clause
EndKeeping(w) ==
    /\ handler[w] \in {"new", "reading"} /\ w \notin up
    /\ Move(w, "ended")
    /\ UNCHANGED <<channel, up, who, table, via, shared>>

\* mutant: a handler that never identified is not ended by a closed connection
EndIdentified(w) ==
    /\ handler[w] = "reading"
    /\ Move(w, "ended") /\ up' = up \ {w}
    /\ table' = IF who[w] # Nameless THEN [table EXCEPT ![who[w]] = 0] ELSE table
    /\ UNCHANGED <<channel, who, via, shared>>

\* The handler ends: the connection is closed, the message is bad, or the first one does
\* not identify.  The finally clause deletes whatever entry the agent has by now.
End(w) ==
    /\ handler[w] \in {"new", "reading"}
    /\ Move(w, "ended") /\ up' = up \ {w}
    /\ table' = IF who[w] # Nameless THEN [table EXCEPT ![who[w]] = 0] ELSE table
    /\ UNCHANGED <<channel, who, via, shared>>

\* broker.send raises in the handler.
DeliveryRaises(w) ==
    /\ handler[w] = "delivering"
    /\ Move(w, "ended") /\ up' = up \ {w}
    /\ table' = IF who[w] # Nameless THEN [table EXCEPT ![who[w]] = 0] ELSE table
    /\ UNCHANGED <<channel, who, via, shared>>

\* send finds no connection, or writes to the one it finds.
SocketSend(s, a) ==
    /\ Calls(s)
    /\ \/ table[a] = 0 /\ Returned(s, "FAILED") /\ UNCHANGED via
       \/ table[a] # 0 /\ Suspend(s, "writing") /\ via' = [via EXCEPT ![s] = table[a]]
          /\ UNCHANGED status
    /\ UNCHANGED <<kind, running, stop, starts, handler, up, who, table, shared>>

\* ws.send returns, or raises because the connection is closed.
Written(s) ==
    /\ pc[s] = "writing"
    /\ \/ via[s] \in up /\ Returned(s, "DELIVERED")
       \/ via[s] \notin up /\ Returned(s, "FAILED")
    /\ UNCHANGED <<kind, running, stop, starts, sockets>>

SocketStart == Started /\ UNCHANGED <<pc, status, sockets>>

\* server.close closes every connection.
SocketStop ==
    /\ StopCalled
    /\ up' = {}
    /\ UNCHANGED <<pc, status, handler, who, table, via, shared>>

\* wait_closed returns when all handlers have ended; the table is cleared.
ServerClosed ==
    /\ stop = "server"
    /\ \A w \in Conns : handler[w] \in {"none", "ended"}
    /\ stop' = "rest"
    /\ table' = [a \in DOMAIN table |-> 0]
    /\ UNCHANGED <<kind, running, starts, pc, status, handler, up, who, via, shared>>

SocketStopped == StopReturns /\ UNCHANGED <<pc, status, sockets>>

SocketNext ==
    \/ \E w \in Conns, a \in Names \cup {Nameless} : Identify(w, a)
    \/ \E w \in Conns : Accept(w) \/ Deliver(w) \/ Delivered(w) \/ Lost(w)
                        \/ End(w) \/ DeliveryRaises(w)
    \/ \E s \in Senders, a \in Names : SocketSend(s, a)
    \/ \E s \in Senders : Written(s)
    \/ SocketStart \/ SocketStop \/ ServerClosed \/ SocketStopped

\* Handlers see that their connection is closed; stop goes on.  Nothing is assumed of
\* broker.send.
SocketFairness ==
    /\ \A w \in Conns : WF_<<channel, sockets>>(w \notin up /\ End(w))
    /\ WF_<<channel, sockets>>(kind = "websocket" /\ (ServerClosed \/ SocketStopped))

-----------------------------------------------------------------------------
(* Properties                                                              *)

SocketTypeOK ==
    /\ handler \in [Conns -> {"none", "new", "reading", "delivering", "ended"}]
    /\ up \subseteq Conns
    /\ who \in [Conns -> Names \cup {Nameless}]
    /\ table \in [Names \cup {Nameless} -> 0 .. MaxConns]
    /\ via \in [Senders -> 0 .. MaxConns]
    /\ shared \subseteq Names \cup {Nameless}

\* The entry of an agent leads to a connection of that agent whose handler has not
\* ended, and an agent whose connections never overlapped is in the table as long as it
\* is connected: sends to it do not fail for want of an entry.  A stop that has returned
\* leaves no handler and no entry, nameless ones included.
TableSound ==
    /\ \A a \in Names :
          /\ table[a] # 0 => table[a] \in Live(a)
          /\ a \notin shared => \A w \in Live(a) : table[a] = w
    /\ kind = "websocket" /\ ~running =>
          /\ \A w \in Conns : handler[w] \in {"none", "ended"}
          /\ \A a \in DOMAIN table : table[a] = 0

\* stop returns, unless a handler is caught in broker.send.
StopEnds ==
    kind = "websocket" /\ stop # "idle"
        ~> (stop = "idle" \/ \E w \in Conns : handler[w] = "delivering")
=============================================================================
