------------------------------ MODULE Membership ------------------------------
(***************************************************************************)
(* What the broker relies on in the agents that come and go: an id is out, *)
(* in (registered and served by one message loop) or leaving (registered   *)
(* while its loop has been stopped).  Mail arrives only for a registered   *)
(* id, is taken only while the id is in, and is gone when the id has left. *)
(*                                                                         *)
(* Broker takes this for granted of every agent and implements it;         *)
(* AgentLifecycle, where connect and disconnect are modelled in full,      *)
(* implements it for as long as its callers are orderly.                   *)
(***************************************************************************)
EXTENDS Integers

CONSTANT Members

VARIABLES
    phase,  \* of a member: "out", "in" or "leaving"
    mail    \* of a member: messages in its inbox

vars == <<phase, mail>>

Init ==
    /\ phase = [r \in Members |-> "out"]
    /\ mail = [r \in Members |-> 0]

Moves(r, from, to) == phase[r] = from /\ phase' = [phase EXCEPT ![r] = to]

Join(r)   == Moves(r, "out", "in") /\ UNCHANGED mail
Retire(r) == Moves(r, "in", "leaving") /\ UNCHANGED mail
Leave(r)  == Moves(r, "leaving", "out") /\ mail' = [mail EXCEPT ![r] = 0]

Arrive(r) ==
    /\ phase[r] # "out" /\ mail' = [mail EXCEPT ![r] = @ + 1]
    /\ UNCHANGED phase

Serve(r) ==
    /\ phase[r] = "in" /\ mail[r] > 0 /\ mail' = [mail EXCEPT ![r] = @ - 1]
    /\ UNCHANGED phase

Next == \E r \in Members : Join(r) \/ Retire(r) \/ Leave(r) \/ Arrive(r) \/ Serve(r)

Spec == Init /\ [][Next]_vars
=============================================================================
