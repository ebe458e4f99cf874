---------------------------- MODULE MCTCPChannel ----------------------------
(***************************************************************************)
(* An instance of TCPChannel for TLC.  It is explored while one of three   *)
(* scenarios holds, which say how much others do, and restrict nothing     *)
(* that the channel does with it.                                          *)
(***************************************************************************)
EXTENDS TCPChannel

Busy(T) == {t \in T : pc[t] # "idle"}
Hosts   == {i \in Incoming : handler[i] # "none"}

\* Both senders send anywhere while a remote host is connected and the channel stops.
Stops == starts <= 1 /\ Hosts \subseteq {CHOOSE i \in Incoming : TRUE}

\* Both send anywhere while the channel stops, starts again and stops; no host connects.
Restarts == Hosts = {}

\* Hosts connect in any number while the channel restarts; one connection is opened.
Connects == opened <= 1 /\ Cardinality(Busy(Senders)) <= 1

Scenarios == Stops \/ Restarts \/ Connects
=============================================================================
