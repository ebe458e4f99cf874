------------------------------ MODULE MCBroker ------------------------------
(* Instances of Broker for TLC.                                            *)
EXTENDS Broker, TLC

CONSTANTS a1, a2, request, notice, back, shout, routed, far, pattern, elsewhere

McAgents    == {a1, a2}
McAddresses == {a1, a2, pattern, elsewhere}
McRoutes    == [x \in McAddresses \cup {None} |-> IF x = pattern THEN McAgents ELSE {}]

Letter(from, to, priority, isRequest, suspect) ==
    [from |-> from, to |-> to, priority |-> priority,
     request |-> isRequest, suspect |-> suspect]

\* A request and a notice from a1 to a2, a request back from a2 to a1, a broadcast, a
\* message to a capability pattern both agents serve, and one for an agent on a peer.
\* The checks may turn the first request and the message to the peer down.
McEnvelope ==
    [m \in Messages |->
        CASE m = request -> Letter(a1, a2, 1, TRUE, TRUE)
          [] m = notice  -> Letter(a1, a2, 1, FALSE, FALSE)
          [] m = back    -> Letter(a2, a1, 1, TRUE, FALSE)
          [] m = shout   -> Letter(a1, None, 1, FALSE, FALSE)
          [] m = routed  -> Letter(a1, pattern, 1, FALSE, FALSE)
          [] m = far     -> Letter(a2, elsewhere, 1, FALSE, TRUE)]

McOnce   == [m \in AllMessages |-> 1]
McResent == [m \in AllMessages |-> IF m \in {notice, far} THEN 2 ELSE 1]

UserSymmetry == Permutations(Users)
=============================================================================
