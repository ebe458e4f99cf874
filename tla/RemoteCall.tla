------------------------------ MODULE RemoteCall ------------------------------
(***************************************************************************)
(* What a call of another node that is tried several times promises to its *)
(* caller: it says "yes" only if the other side has acted on it, and the   *)
(* other side acts on it at most once per try, though perhaps after the    *)
(* caller has been told "no".  ClusterPeer (forward_message) and           *)
(* HTTPChannel (send) implement this specification.                        *)
(***************************************************************************)
EXTENDS Integers

CONSTANTS
    Callers, \* who calls
    Limit    \* tries of a call

VARIABLES
    outcome,  \* of a call: "none", "pending", "yes" or "no"
    copies    \* how often the other side has acted on it

vars == <<outcome, copies>>

Init ==
    /\ outcome = [c \in Callers |-> "none"]
    /\ copies = [c \in Callers |-> 0]

\* A call begins, or is refused without a try.
Begin(c) ==
    /\ outcome[c] # "pending"
    /\ \E o \in {"pending", "no"} : outcome' = [outcome EXCEPT ![c] = o]
    /\ copies' = [copies EXCEPT ![c] = 0]

\* The other side acts on a try, which may have outlived its call.
Act(c) ==
    /\ outcome[c] # "none" /\ copies[c] < Limit
    /\ copies' = [copies EXCEPT ![c] = @ + 1]
    /\ UNCHANGED outcome

\* The caller is told, perhaps in the step in which the other side acts.
Report(c, o) ==
    /\ outcome[c] = "pending" /\ outcome' = [outcome EXCEPT ![c] = o]
    /\ \E k \in {copies[c], copies[c] + 1} :
          /\ k <= Limit /\ (o = "yes" => k >= 1)
          /\ copies' = [copies EXCEPT ![c] = k]

\* The caller is cancelled, and its try with it.
Abandon(c) ==
    /\ outcome[c] = "pending" /\ outcome' = [outcome EXCEPT ![c] = "none"]
    /\ UNCHANGED copies

Next ==
    \E c \in Callers :
        Begin(c) \/ Act(c) \/ Abandon(c) \/ \E o \in {"yes", "no"} : Report(c, o)

Spec == Init /\ [][Next]_vars
=============================================================================
