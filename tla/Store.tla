------------------------------- MODULE Store -------------------------------
(***************************************************************************)
(* The histories of InMemoryMessageStore (persistence.py): for every agent *)
(* and every correlation id a deque of at most MAX_HISTORY message ids and *)
(* the set of the same ids, which makes saving an id again cheap.          *)
(*                                                                         *)
(* Agent histories and conversations are filled by one function, so both   *)
(* are entries of `history`, under different keys.  The dead letter queue  *)
(* is part of Broker.                                                      *)
(***************************************************************************)
EXTENDS Integers, Sequences, FiniteSets

CONSTANTS
    Ids,        \* ids of messages
    Keys,       \* agent ids and correlation ids
    MaxHistory  \* MAX_HISTORY

ASSUME StoreAssumption == MaxHistory \in Nat \ {0}

VARIABLES
    saved,      \* keys of _messages, which nothing removes
    history,    \* _agent_history and _conversations
    members     \* _agent_history_sets and _conversation_sets

storeVars == <<saved, history, members>>

Elements(s) == {s[i] : i \in 1 .. Len(s)}

StoreInit ==
    /\ saved = {}
    /\ history = [k \in Keys |-> <<>>]
    /\ members = [k \in Keys |-> {}]

Full(k) == Len(history[k]) = MaxHistory

\* mutant: pop() for popleft()
KeptOldest(k) == IF Full(k) THEN SubSeq(history[k], 1, MaxHistory - 1) ELSE history[k]

\* What popleft leaves of a deque when an id is about to be added.
Kept(k) == IF Full(k) THEN Tail(history[k]) ELSE history[k]

\* What the set of a key loses with it.
Evicted(k) == IF Full(k) THEN {Head(history[k])} ELSE {}

\* save_message: the id is added under every key that does not know it.
Save(id, keys) ==
    LET fresh == {k \in keys : id \notin members[k]} IN
    /\ saved' = saved \cup {id}
    /\ history' = [k \in Keys |-> IF k \in fresh THEN Append(Kept(k), id) ELSE history[k]]
    /\ members' = [k \in Keys |->
                      IF k \in fresh THEN (members[k] \ Evicted(k)) \cup {id} ELSE members[k]]

\* get_history: ids[-limit:], which is the whole list for a limit of 0.
Read(k, limit) ==
    LET n == Len(history[k]) IN
    IF limit = 0 \/ limit > n THEN history[k] ELSE SubSeq(history[k], n - limit + 1, n)

StoreNext == \E id \in Ids, keys \in SUBSET Keys : Save(id, keys)

StoreSpec == StoreInit /\ [][StoreNext]_storeVars

-----------------------------------------------------------------------------
(* Properties                                                              *)

\* The store's variables hold values of their types.
StoreTypeOK ==
    /\ saved \subseteq Ids
    /\ history \in [Keys -> Seq(Ids)]
    /\ members \in [Keys -> SUBSET Ids]

\* The deque and the set of a key stay in step through evictions and saves of ids
\* evicted before: no id is listed twice, none is kept out by a stale member, and
\* reading a history finds every message it lists.
HistoriesSound ==
    \A k \in Keys :
        /\ members[k] = Elements(history[k])
        /\ \A i, j \in 1 .. Len(history[k]) : history[k][i] = history[k][j] => i = j
        /\ Len(history[k]) <= MaxHistory
        /\ members[k] \subseteq saved
=============================================================================
