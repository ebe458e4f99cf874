--------------------------- MODULE MCConversation ---------------------------
(***************************************************************************)
(* An instance of Conversation for TLC.  Timers and futures do not touch   *)
(* the bridge, so one of them is explored in full at a time: a scenario    *)
(* restricts what callers or the external system and the agents start.     *)
(***************************************************************************)
EXTENDS Conversation

McIds  == 1 .. MaxMessages
McKeys == Parties \cup Correlations

\* Agents ask the bridge, the external system answers and asks; nobody calls request.
Stream ==
    /\ \A c \in Callers : caller[c] = "idle"
    /\ \A i \in DOMAIN log : log[i].corr \in Threads => i > 1
    /\ \A i \in DOMAIN log : log[i].corr = i => i = 1

\* Callers ask whom they like, with every end of a call; agents only reply, and the
\* external system only answers, once, and only while one call was made.
Futures ==
    /\ \A i \in DOMAIN log : log[i].type = "request" => log[i].from = Nobody
    /\ \A n \in DOMAIN line : line[n].kind # "ask"
    /\ \A i \in McIds : given[i] <= 1 /\ (given[i] = 0 \/ \E c \in Callers : caller[c] = "idle")
    /\ link /\ Len(log) <= 3

Scenarios == Stream \/ Futures
=============================================================================
