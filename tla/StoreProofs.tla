----------------------------- MODULE StoreProofs -----------------------------
(***************************************************************************)
(* Proofs about Store, for any ids, keys and MAX_HISTORY: a deque and its  *)
(* set stay in step, whatever is saved again after it was evicted.         *)
(***************************************************************************)
EXTENDS Store, TLAPS

Distinct(s) == \A i, j \in 1 .. Len(s) : s[i] = s[j] => i = j

StoreInv == StoreTypeOK /\ HistoriesSound

-----------------------------------------------------------------------------
(* Sequences of distinct elements                                          *)

\* popleft removes one element from a deque that lists none twice.
LEMMA TailOfDistinct ==
    ASSUME NEW S, NEW s \in Seq(S), Len(s) > 0, Distinct(s)
    PROVE  /\ Tail(s) \in Seq(S) /\ Len(Tail(s)) = Len(s) - 1
           /\ Elements(Tail(s)) = Elements(s) \ {Head(s)}
           /\ Distinct(Tail(s))
<1>1. /\ Tail(s) \in Seq(S) /\ Len(Tail(s)) = Len(s) - 1 /\ Head(s) = s[1]
      /\ \A i \in 1 .. Len(s) - 1 : Tail(s)[i] = s[i + 1]
  OBVIOUS
<1>2. Distinct(Tail(s))
  <2> SUFFICES ASSUME NEW i \in 1 .. Len(s) - 1, NEW j \in 1 .. Len(s) - 1,
                      Tail(s)[i] = Tail(s)[j]
               PROVE  i = j
    BY <1>1 DEF Distinct
  <2>1. i + 1 \in 1 .. Len(s) /\ j + 1 \in 1 .. Len(s) /\ s[i + 1] = s[j + 1]
    BY <1>1
  <2>2. i + 1 = j + 1 BY <2>1 DEF Distinct
  <2> QED BY <2>2
<1>3. Elements(Tail(s)) \subseteq Elements(s) \ {Head(s)}
  <2> SUFFICES ASSUME NEW i \in 1 .. Len(s) - 1
               PROVE  Tail(s)[i] \in Elements(s) /\ Tail(s)[i] # Head(s)
    BY <1>1 DEF Elements
  <2>1. i + 1 \in 1 .. Len(s) /\ 1 \in 1 .. Len(s) /\ i + 1 # 1 OBVIOUS
  <2>2. s[i + 1] # s[1] BY <2>1 DEF Distinct
  <2> QED BY <1>1, <2>1, <2>2 DEF Elements
<1>4. Elements(s) \ {Head(s)} \subseteq Elements(Tail(s))
  <2> SUFFICES ASSUME NEW i \in 1 .. Len(s), s[i] # Head(s)
               PROVE  s[i] \in Elements(Tail(s))
    BY DEF Elements
  <2>1. i - 1 \in 1 .. Len(s) - 1 BY <1>1
  <2>2. Tail(s)[i - 1] = s[i] BY <1>1, <2>1
  <2> QED BY <1>1, <2>1, <2>2 DEF Elements
<1> QED BY <1>1, <1>2, <1>3, <1>4

\* append adds one element, and lists none twice if it is new.
LEMMA AppendToDistinct ==
    ASSUME NEW S, NEW s \in Seq(S), NEW e \in S
    PROVE  /\ Append(s, e) \in Seq(S) /\ Len(Append(s, e)) = Len(s) + 1
           /\ Elements(Append(s, e)) = Elements(s) \cup {e}
           /\ Distinct(s) /\ e \notin Elements(s) => Distinct(Append(s, e))
<1>1. /\ Append(s, e) \in Seq(S) /\ Len(Append(s, e)) = Len(s) + 1
      /\ \A i \in 1 .. Len(s) : Append(s, e)[i] = s[i]
      /\ Append(s, e)[Len(s) + 1] = e
      /\ 1 .. Len(s) + 1 = (1 .. Len(s)) \cup {Len(s) + 1}
  OBVIOUS
<1>2. Elements(Append(s, e)) = Elements(s) \cup {e}
  BY <1>1 DEF Elements
<1>3. Distinct(s) /\ e \notin Elements(s) => Distinct(Append(s, e))
  BY <1>1 DEF Distinct, Elements
<1> QED BY <1>1, <1>2, <1>3

-----------------------------------------------------------------------------
(* save_message                                                            *)

\* What is left of a deque makes room for an id, and its set for the same.
LEMMA KeptInStep ==
    ASSUME StoreInv, NEW k \in Keys
    PROVE  /\ Kept(k) \in Seq(Ids) /\ Len(Kept(k)) < MaxHistory
           /\ Elements(Kept(k)) = members[k] \ Evicted(k)
           /\ Distinct(Kept(k))
<1>1. /\ history[k] \in Seq(Ids) /\ Len(history[k]) \in Nat
      /\ Len(history[k]) <= MaxHistory /\ Distinct(history[k])
      /\ members[k] = Elements(history[k])
  BY DEF StoreInv, StoreTypeOK, HistoriesSound, Distinct
<1>2. CASE Full(k)
  <2>1. Len(history[k]) > 0 BY <1>2, StoreAssumption DEF Full
  <2> QED BY <1>1, <1>2, <2>1, TailOfDistinct, StoreAssumption DEF Kept, Evicted, Full
<1>3. CASE ~Full(k)
  BY <1>1, <1>3, StoreAssumption DEF Kept, Evicted, Full
<1> QED BY <1>2, <1>3

\* Saving keeps deque and set in step, for new ids and for ids saved before.
LEMMA SaveKeeps ==
    ASSUME StoreInv, NEW id \in Ids, NEW keys \in SUBSET Keys, Save(id, keys)
    PROVE  StoreInv'
<1> DEFINE fresh == {k \in keys : id \notin members[k]}
<1>1. ASSUME NEW k \in Keys
      PROVE  /\ history'[k] \in Seq(Ids) /\ Len(history'[k]) <= MaxHistory
             /\ members'[k] = Elements(history'[k]) /\ Distinct(history'[k])
             /\ members'[k] \subseteq members[k] \cup {id}
  <2>1. CASE k \in fresh
    <3>1. history'[k] = Append(Kept(k), id)
      BY <2>1 DEF Save
    <3>2. members'[k] = (members[k] \ Evicted(k)) \cup {id}
      BY <2>1 DEF Save
    <3>3. id \notin Elements(Kept(k)) BY <2>1, KeptInStep
    <3>4. /\ history'[k] \in Seq(Ids) /\ Len(history'[k]) = Len(Kept(k)) + 1
          /\ Elements(history'[k]) = Elements(Kept(k)) \cup {id}
          /\ Distinct(history'[k])
      BY <3>1, <3>3, KeptInStep, AppendToDistinct
    <3>5. Len(Kept(k)) + 1 <= MaxHistory BY KeptInStep, StoreAssumption
    <3> QED BY <3>2, <3>4, <3>5, KeptInStep
  <2>2. CASE k \notin fresh
    <3>1. history'[k] = history[k] /\ members'[k] = members[k]
      BY <2>2 DEF Save
    <3> QED BY <3>1 DEF StoreInv, StoreTypeOK, HistoriesSound, Distinct
  <2> QED BY <2>1, <2>2
<1>2. saved' = saved \cup {id} BY DEF Save
<1>3. history' \in [Keys -> Seq(Ids)]
  <2>1. history' = [k \in Keys |-> history'[k]] BY DEF Save
  <2> QED BY <1>1, <2>1
<1>4. members' \in [Keys -> SUBSET Ids]
  <2>1. members' = [k \in Keys |-> members'[k]] BY DEF Save
  <2>2. \A k \in Keys : members'[k] \in SUBSET Ids
    BY <1>1 DEF StoreInv, StoreTypeOK
  <2> QED BY <2>1, <2>2
<1>5. \A k \in Keys : members'[k] \subseteq saved'
  BY <1>1, <1>2 DEF StoreInv, HistoriesSound
<1> QED BY <1>1, <1>2, <1>3, <1>4, <1>5
        DEF StoreInv, StoreTypeOK, HistoriesSound, Distinct

-----------------------------------------------------------------------------
(* The theorems                                                            *)

\* The invariant holds of an empty store.
LEMMA StoreInitInv == StoreInit => StoreInv
  BY StoreAssumption DEF StoreInit, StoreInv, StoreTypeOK, HistoriesSound, Elements

\* Every step keeps the invariant.
LEMMA StoreStepInv == StoreInv /\ [StoreNext]_storeVars => StoreInv'
<1>1. ASSUME StoreInv, StoreNext PROVE StoreInv'
  BY <1>1, SaveKeeps DEF StoreNext
<1>2. ASSUME StoreInv, UNCHANGED storeVars PROVE StoreInv'
  BY <1>2 DEF storeVars, StoreInv, StoreTypeOK, HistoriesSound
<1> QED BY <1>1, <1>2

\* The store keeps its types.
THEOREM StoreTypeCorrect == StoreSpec => []StoreTypeOK
<1> StoreInv => StoreTypeOK BY DEF StoreInv
<1> QED BY StoreInitInv, StoreStepInv, PTL DEF StoreSpec

\* Deque and set of every history stay in step, without duplicates and within the limit.
THEOREM HistoriesInStep == StoreSpec => []HistoriesSound
<1> StoreInv => HistoriesSound BY DEF StoreInv
<1> QED BY StoreInitInv, StoreStepInv, PTL DEF StoreSpec
=============================================================================
