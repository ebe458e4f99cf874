------------------------------- MODULE Channel -------------------------------
(***************************************************************************)
(* What the channels of channels.py have in common: the registry makes one *)
(* by its name, coroutines send through it, each one message, and stop     *)
(* clears `_running` in its last line.                                     *)
(***************************************************************************)
EXTENDS Integers, FiniteSets

CONSTANTS
    Senders,    \* coroutines that call send, and the message of each
    MaxStarts   \* bound: calls of start

ASSUME ChannelAssumption == MaxStarts \in Nat

VARIABLES
    kind,       \* which class ChannelRegistry.create instantiated
    running,    \* _running
    stop,       \* where stop is: "idle", "server" or "rest"
    starts,
    pc,         \* where a send is suspended, "idle" outside
    status      \* what it returned: "none" before, "RAISED" for an exception

channel == <<kind, running, stop, starts, pc, status>>

Kinds    == {"local", "http", "websocket"}
Statuses == {"none", "DELIVERED", "FAILED", "RAISED"}

ChannelInit ==
    /\ kind \in Kinds
    /\ running = FALSE /\ stop = "idle" /\ starts = 0
    /\ pc = [s \in Senders |-> "idle"]
    /\ status = [s \in Senders |-> "none"]

Suspend(s, where) == pc' = [pc EXCEPT ![s] = where]

Returned(s, outcome) ==
    /\ pc' = [pc EXCEPT ![s] = "idle"]
    /\ status' = [status EXCEPT ![s] = outcome]

\* A send of a channel that does not run raises RuntimeError.
SendRaises(s) ==
    /\ ~running /\ pc[s] = "idle" /\ status[s] = "none"
    /\ Returned(s, "RAISED")
    /\ UNCHANGED <<kind, running, stop, starts>>

Calls(s) == running /\ pc[s] = "idle" /\ status[s] = "none"

Started ==
    /\ ~running /\ stop = "idle" /\ starts < MaxStarts
    /\ running' = TRUE /\ starts' = starts + 1
    /\ UNCHANGED <<kind, stop>>

StopCalled ==
    /\ running /\ stop = "idle"
    /\ stop' = "server"
    /\ UNCHANGED <<kind, running, starts>>

StopReturns ==
    /\ stop = "rest"
    /\ stop' = "idle" /\ running' = FALSE
    /\ UNCHANGED <<kind, starts>>
=============================================================================
