------------------------------- MODULE Mailbox -------------------------------
(***************************************************************************)
(* What the broker promises about inboxes, whoever sends and however:      *)
(* every entry gets a number of its own, is put at most once, into an      *)
(* inbox that exists and has room, is counted when it is put, and leaves   *)
(* the inbox once, taken by its owner or discarded with the inbox.  A put  *)
(* may wait, be withdrawn by its sender, or be stranded when the inbox is  *)
(* closed.  Broker implements this specification.                          *)
(***************************************************************************)
EXTENDS Integers, FiniteSets

CONSTANT Capacity

VARIABLES
    registered,  \* owners that have an inbox
    queued, waiting, hung, taken, dropped,   \* entries, by where they are
    counter,     \* number of the next entry
    delivered    \* how many puts were counted

vars == <<registered, queued, waiting, hung, taken, dropped, counter, delivered>>

Inbox(r) == {e \in queued : e.to = r}
HasRoom(r) == Cardinality(Inbox(r)) < Capacity

\* e is a new entry for an existing inbox.
Arrives(e) ==
    /\ e.n = counter /\ counter' = counter + 1
    /\ e.to \in registered

Init ==
    /\ registered = {} /\ counter = 0 /\ delivered = 0
    /\ queued = {} /\ waiting = {} /\ hung = {} /\ taken = {} /\ dropped = {}

\* The new entry is whatever the step adds, so that no set of all entries is needed.
Put ==
    /\ \E e \in queued' \ queued :
          /\ Arrives(e) /\ HasRoom(e.to)
          /\ queued' = queued \cup {e}
    /\ delivered' = delivered + 1
    /\ UNCHANGED <<registered, waiting, hung, taken, dropped>>

Wait ==
    /\ \E e \in waiting' \ waiting :
          /\ Arrives(e) /\ ~HasRoom(e.to)
          /\ waiting' = waiting \cup {e}
    /\ UNCHANGED <<registered, queued, hung, taken, dropped, delivered>>

Admit ==
    /\ \E e \in waiting :
          /\ HasRoom(e.to)
          /\ waiting' = waiting \ {e}
          /\ queued' = queued \cup {e}
    /\ delivered' = delivered + 1
    /\ UNCHANGED <<registered, hung, taken, dropped, counter>>

Withdraw ==
    /\ waiting' \subseteq waiting /\ hung' \subseteq hung
    /\ UNCHANGED <<registered, queued, taken, dropped, counter, delivered>>

Take ==
    /\ \E e \in queued : queued' = queued \ {e} /\ taken' = taken \cup {e}
    /\ UNCHANGED <<registered, waiting, hung, dropped, counter, delivered>>

Open ==
    /\ registered \subseteq registered'
    /\ UNCHANGED <<queued, waiting, hung, taken, dropped, counter, delivered>>

Close ==
    /\ \E r \in registered :
          /\ registered' = registered \ {r}
          /\ dropped' = dropped \cup Inbox(r)
          /\ queued' = queued \ Inbox(r)
          /\ hung' = hung \cup {e \in waiting : e.to = r}
          /\ waiting' = {e \in waiting : e.to # r}
    /\ UNCHANGED <<taken, counter, delivered>>

Next == Put \/ Wait \/ Admit \/ Withdraw \/ Take \/ Open \/ Close

Spec == Init /\ [][Next]_vars
=============================================================================
