-------------------------- MODULE MCAgentLifecycle --------------------------
(* Instances of AgentLifecycle for TLC: two objects with one id, and a third *)
(* with an id of its own that shares a capability with the first.            *)
EXTENDS AgentLifecycle

CONSTANTS i1, i2, i3, x, y, c

MCInstances == {i1, i2, i3}
MCIdOf == [i \in MCInstances |-> IF i = i3 THEN y ELSE x]
MCCapsOf == [i \in MCInstances |-> IF i = i2 THEN {} ELSE {c}]
=============================================================================
