-------------------------- MODULE ClusterPeerProofs --------------------------
(***************************************************************************)
(* Proofs about ClusterPeer, for any number of forwards and any threshold, *)
(* timeout and number of retries.                                          *)
(*                                                                         *)
(* IInv is the inductive invariant.  The breaker's count is the streak of  *)
(* failures since the last success, the last failure is never older than   *)
(* the opening, and a forward that is under way has made as many posts as  *)
(* it has retries, so it cannot have reached the peer more often.          *)
(***************************************************************************)
EXTENDS ClusterPeer, TLAPS

\* The breaker's part of the invariant.
BreakerInv ==
    /\ failureCount = streak
    /\ ClosedBelowThreshold
    /\ age <= openAge

\* Posts of a forward that is under way have all failed, one per attempt.
CallInv ==
    \A c \in Calls :
        /\ pc[c] # "idle" => arrived[c] <= attempt[c]
        /\ pc[c] = "idle" => arrived[c] <= MaxRetries + 1
        /\ result[c] = "true" /\ pc[c] = "idle" => arrived[c] >= 1

IInv == TypeOK /\ BreakerInv /\ CallInv

-----------------------------------------------------------------------------
(* The breaker's handlers                                                  *)

\* A recorded success leaves the breaker well typed and its invariant intact.
LEMMA SuccessKeeps ==
    ASSUME TypeOK, BreakerInv, OnSuccess
    PROVE  /\ state' \in {"CLOSED", "OPEN", "HALF_OPEN"}
           /\ failureCount' \in 0 .. MaxCount /\ streak' \in 0 .. MaxCount
           /\ age' \in 0 .. Recovery + 1 /\ openAge' \in 0 .. Recovery + 1
           /\ BreakerInv'
  BY PeerAssumption DEF TypeOK, BreakerInv, ClosedBelowThreshold, OnSuccess

\* So does a recorded failure.
LEMMA FailureKeeps ==
    ASSUME TypeOK, BreakerInv, OnFailure
    PROVE  /\ state' \in {"CLOSED", "OPEN", "HALF_OPEN"}
           /\ failureCount' \in 0 .. MaxCount /\ streak' \in 0 .. MaxCount
           /\ age' \in 0 .. Recovery + 1 /\ openAge' \in 0 .. Recovery + 1
           /\ BreakerInv'
<1>1. /\ failureCount' \in 0 .. MaxCount /\ streak' \in 0 .. MaxCount
      /\ failureCount' = streak'
  BY PeerAssumption DEF TypeOK, BreakerInv, OnFailure, Counted
<1>2. CASE Trips
  BY <1>1, <1>2, PeerAssumption
     DEF TypeOK, BreakerInv, ClosedBelowThreshold, OnFailure
<1>3. CASE ~Trips
  BY <1>1, <1>3, PeerAssumption
     DEF TypeOK, BreakerInv, ClosedBelowThreshold, OnFailure, Trips
<1> QED BY <1>2, <1>3

-----------------------------------------------------------------------------
(* The inductive invariant                                                 *)

\* The invariant holds initially.
LEMMA InitInv == Init => IInv
  BY PeerAssumption
     DEF Init, IInv, TypeOK, BreakerInv, ClosedBelowThreshold, CallInv

\* Every step keeps the invariant.
LEMMA StepInv == IInv /\ [Next]_vars => IInv'
<1> SUFFICES ASSUME IInv, [Next]_vars PROVE IInv'
  OBVIOUS
<1> USE PeerAssumption DEF IInv
<1>1. ASSUME NEW c \in Calls, Admit(c) PROVE IInv'
  <2>1. TypeOK' BY <1>1 DEF TypeOK, Admit, outside, watch
  <2>2. BreakerInv' BY <1>1 DEF TypeOK, BreakerInv, ClosedBelowThreshold, Admit, watch
  <2>3. CallInv' BY <1>1 DEF TypeOK, CallInv, Admit
  <2> QED BY <2>1, <2>2, <2>3
<1>2. ASSUME NEW c \in Calls, FailFast(c) PROVE IInv'
  <2>1. TypeOK' BY <1>2 DEF TypeOK, FailFast, breaker, outside, watch
  <2>2. BreakerInv'
    BY <1>2 DEF BreakerInv, ClosedBelowThreshold, FailFast, breaker, watch
  <2>3. CallInv' BY <1>2 DEF TypeOK, CallInv, FailFast
  <2> QED BY <2>1, <2>2, <2>3
<1>3. ASSUME NEW c \in Calls, Answered(c) PROVE IInv'
  <2>1. OnSuccess /\ UNCHANGED <<attempt, outside>> BY <1>3 DEF Answered
  <2>2. TypeOK' BY <1>3, <2>1, SuccessKeeps DEF TypeOK, Answered, Ends, outside
  <2>3. BreakerInv' BY <2>1, SuccessKeeps
  <2>4. CallInv' BY <1>3 DEF TypeOK, CallInv, Answered, Ends
  <2> QED BY <2>2, <2>3, <2>4
<1>4. ASSUME NEW c \in Calls, PostFails(c) PROVE IInv'
  <2> PICK k \in {0, 1} : arrived' = [arrived EXCEPT ![c] = @ + k]
    BY <1>4 DEF PostFails
  <2>1. CASE BackOff(c)
    <3>1. TypeOK' BY <1>4, <2>1 DEF TypeOK, PostFails, BackOff, breaker, outside, watch
    <3>2. BreakerInv'
      BY <2>1 DEF BreakerInv, ClosedBelowThreshold, BackOff, breaker, watch
    <3>3. CallInv' BY <1>4, <2>1 DEF TypeOK, CallInv, PostFails, BackOff
    <3> QED BY <3>1, <3>2, <3>3
  <2>2. CASE attempt[c] >= MaxRetries /\ Raise(c) /\ UNCHANGED attempt
    <3>1. OnFailure BY <2>2 DEF Raise
    <3>2. TypeOK'
      BY <1>4, <2>2, <3>1, FailureKeeps DEF TypeOK, PostFails, Raise, Ends, outside
    <3>3. BreakerInv' BY <3>1, FailureKeeps
    <3>4. CallInv' BY <1>4, <2>2 DEF TypeOK, CallInv, PostFails, Raise, Ends
    <3> QED BY <3>2, <3>3, <3>4
  <2> QED BY <1>4, <2>1, <2>2 DEF PostFails
<1>5. ASSUME NEW c \in Calls, Retry(c) PROVE IInv'
  <2>1. TypeOK' BY <1>5 DEF TypeOK, Retry, breaker, outside, watch
  <2>2. BreakerInv' BY <1>5 DEF BreakerInv, ClosedBelowThreshold, Retry, breaker, watch
  <2>3. CallInv' BY <1>5 DEF TypeOK, CallInv, Retry
  <2> QED BY <2>1, <2>2, <2>3
<1>6. ASSUME NEW c \in Calls, Cancel(c) PROVE IInv'
  <2>1. TypeOK' BY <1>6 DEF TypeOK, Cancel, Ends, breaker, watch
  <2>2. BreakerInv' BY <1>6 DEF BreakerInv, ClosedBelowThreshold, Cancel, breaker, watch
  <2>3. CallInv' BY <1>6 DEF TypeOK, CallInv, Cancel, Ends
  <2> QED BY <2>1, <2>2, <2>3
<1>7. CASE Tick
  <2>1. TypeOK' BY <1>7 DEF TypeOK, Tick, Older, calls, outside
  <2>2. BreakerInv'
    BY <1>7 DEF TypeOK, BreakerInv, ClosedBelowThreshold, Tick, Older
  <2>3. CallInv' BY <1>7 DEF CallInv, Tick, calls
  <2> QED BY <2>1, <2>2, <2>3
<1>8. CASE PeerChanges
  <2>1. TypeOK' BY <1>8 DEF TypeOK, PeerChanges, breaker, calls, watch
  <2>2. BreakerInv'
    BY <1>8 DEF BreakerInv, ClosedBelowThreshold, PeerChanges, breaker, watch
  <2>3. CallInv' BY <1>8 DEF CallInv, PeerChanges, calls
  <2> QED BY <2>1, <2>2, <2>3
<1>9. CASE UNCHANGED vars
  BY <1>9 DEF vars, breaker, calls, outside, watch,
              TypeOK, BreakerInv, ClosedBelowThreshold, CallInv
<1> QED BY <1>1, <1>2, <1>3, <1>4, <1>5, <1>6, <1>7, <1>8, <1>9 DEF Next

\* The invariant is one of the specification.
LEMMA Invariance == Spec => []IInv
  BY InitInv, StepInv, PTL DEF Spec

-----------------------------------------------------------------------------
(* The theorems                                                            *)

\* Breaker and forwards keep their types.
THEOREM TypeCorrect == Spec => []TypeOK
<1> IInv => TypeOK BY DEF IInv
<1> QED BY Invariance, PTL

\* A closed circuit has counted fewer failures than its threshold, whatever the
\* interleaving of the forwards that report to it.
THEOREM BelowThreshold == Spec => []ClosedBelowThreshold
<1> IInv => ClosedBelowThreshold BY DEF IInv, BreakerInv
<1> QED BY Invariance, PTL

\* A forward reported True has reached the peer, and none reaches it more often than
\* the retry policy allows.
THEOREM Honest == Spec => []ForwardHonest
<1>1. IInv => ForwardHonest
  <2> SUFFICES ASSUME IInv, NEW c \in Calls
               PROVE  /\ arrived[c] <= MaxRetries + 1
                      /\ result[c] = "true" /\ pc[c] = "idle" => arrived[c] >= 1
    BY DEF ForwardHonest
  <2>1. attempt[c] \in 0 .. MaxRetries /\ arrived[c] \in Nat
    BY DEF IInv, TypeOK
  <2>2. arrived[c] <= attempt[c] \/ arrived[c] <= MaxRetries + 1
    BY DEF IInv, CallInv
  <2>3. result[c] = "true" /\ pc[c] = "idle" => arrived[c] >= 1
    BY DEF IInv, CallInv
  <2> QED BY <2>1, <2>2, <2>3, PeerAssumption
<1> QED BY <1>1, Invariance, PTL

\* What a step may do to the state of the circuit.
LEMMA StepState ==
    ASSUME IInv, [Next]_vars
    PROVE  /\ state = "CLOSED" => (state' = "OPEN" <=> streak' >= Threshold)
           /\ state = "OPEN" /\ state' # "OPEN" => state' = "HALF_OPEN" /\ openAge > Recovery
<1> USE PeerAssumption DEF IInv
<1>0. state = "CLOSED" => streak < Threshold /\ streak \in Nat
  BY DEF TypeOK, BreakerInv, ClosedBelowThreshold
<1>1. ASSUME NEW c \in Calls, Admit(c)
      PROVE  /\ state = "CLOSED" => state' = "CLOSED" /\ streak' = streak
             /\ state = "OPEN" => state' = "HALF_OPEN" /\ openAge > Recovery
  BY <1>1 DEF TypeOK, BreakerInv, Admit, Elapsed, watch
<1>2. CASE OnSuccess
  BY <1>2 DEF TypeOK, OnSuccess
<1>3. CASE OnFailure
  <2>1. failureCount' = streak' /\ failureCount' = Counted(failureCount)
    BY <1>3 DEF BreakerInv, OnFailure
  <2> QED BY <1>3, <2>1 DEF TypeOK, OnFailure, Trips
<1>4. CASE UNCHANGED <<state, streak>>
  BY <1>0, <1>4 DEF TypeOK
<1>5. \/ \E c \in Calls : Admit(c)
      \/ OnSuccess \/ OnFailure \/ UNCHANGED <<state, streak>>
  BY DEF Next, vars, breaker, watch, FailFast, Answered, PostFails, BackOff, Raise, Retry,
         Cancel, Tick, PeerChanges
<1> QED BY <1>0, <1>1, <1>2, <1>3, <1>4, <1>5

\* A closed circuit opens with the failure that completes a streak of Threshold.
THEOREM TripsOnStreak == Spec => TripsExactly
<1> IInv /\ [Next]_vars
      => [state = "CLOSED" => (state' = "OPEN" <=> streak' >= Threshold)]_vars
  BY StepState
<1> QED BY Invariance, PTL DEF Spec, TripsExactly

\* An open circuit rejects for the whole recovery timeout and is probed before it closes.
THEOREM RespectsWindow == Spec => WindowRespected
<1> IInv /\ [Next]_vars
      => [state = "OPEN" /\ state' # "OPEN"
            => state' = "HALF_OPEN" /\ openAge > Recovery]_vars
  BY StepState
<1> QED BY Invariance, PTL DEF Spec, WindowRespected

-----------------------------------------------------------------------------
(* A forward is a remote call                                              *)

\* What the caller of a forward is told changes with its own frame only.
LEMMA OutcomeOf ==
    ASSUME NEW c \in Calls
    PROVE  /\ pc[c] # "idle" => Outcome[c] = "pending"
           /\ pc[c] = "idle" /\ result[c] = "true" => Outcome[c] = "yes"
           /\ pc[c] = "idle" /\ result[c] = "false" => Outcome[c] = "no"
           /\ pc[c] = "idle" /\ result[c] = "none" => Outcome[c] = "none"
  BY DEF Outcome

\* A step of one call leaves the outcome of the others.
LEMMA OutcomeStep ==
    ASSUME NEW c \in Calls, NEW p, NEW r, TypeOK,
           pc' = [pc EXCEPT ![c] = p], result' = [result EXCEPT ![c] = r]
    PROVE  /\ p # "idle" => Outcome' = [Outcome EXCEPT ![c] = "pending"]
           /\ p = "idle" /\ r = "true" => Outcome' = [Outcome EXCEPT ![c] = "yes"]
           /\ p = "idle" /\ r = "false" => Outcome' = [Outcome EXCEPT ![c] = "no"]
           /\ p = "idle" /\ r = "none" => Outcome' = [Outcome EXCEPT ![c] = "none"]
<1>1. pc'[c] = p /\ result'[c] = r BY DEF TypeOK
<1>2. \A d \in Calls : d # c => pc'[d] = pc[d] /\ result'[d] = result[d] BY DEF TypeOK
<1>3. ASSUME NEW o, Outcome'[c] = o PROVE Outcome' = [Outcome EXCEPT ![c] = o]
  <2>1. Outcome = [d \in Calls |-> Outcome[d]] /\ Outcome' = [d \in Calls |-> Outcome'[d]]
    BY DEF Outcome
  <2>2. \A d \in Calls : d # c => Outcome'[d] = Outcome[d] BY <1>2 DEF Outcome
  <2> QED BY <2>1, <2>2, <1>3
<1>4. /\ p # "idle" => Outcome'[c] = "pending"
      /\ p = "idle" /\ r = "true" => Outcome'[c] = "yes"
      /\ p = "idle" /\ r = "false" => Outcome'[c] = "no"
      /\ p = "idle" /\ r = "none" => Outcome'[c] = "none"
  BY <1>1 DEF Outcome
<1> QED BY <1>3, <1>4

\* Every step is a step of the remote call or changes nothing its caller or the other
\* side can see.
LEMMA StepCalls == IInv /\ [Next]_vars => [Remote!Next]_(Remote!vars)
<1> SUFFICES ASSUME IInv, [Next]_vars PROVE Remote!Next \/ UNCHANGED Remote!vars
  OBVIOUS
<1> USE PeerAssumption DEF IInv, Remote!vars
<1>0. Outcome = [d \in Calls |-> Outcome[d]] /\ Outcome' = [d \in Calls |-> Outcome'[d]]
  BY DEF Outcome
<1>1. ASSUME NEW c \in Calls, Admit(c) PROVE Remote!Begin(c)
  <2>1. Outcome' = [Outcome EXCEPT ![c] = "pending"]
    <3>1. pc' = [pc EXCEPT ![c] = "posting"] /\ result' = [result EXCEPT ![c] = result[c]]
      BY <1>1 DEF Admit, TypeOK
    <3> QED BY <3>1, OutcomeStep
  <2>2. Outcome[c] # "pending" BY <1>1, OutcomeOf DEF Admit, TypeOK
  <2> QED BY <1>1, <2>1, <2>2 DEF Remote!Begin, Admit
<1>2. ASSUME NEW c \in Calls, FailFast(c) PROVE Remote!Begin(c)
  <2>1. Outcome' = [Outcome EXCEPT ![c] = "no"]
    <3>1. pc' = [pc EXCEPT ![c] = "idle"] /\ result' = [result EXCEPT ![c] = "false"]
      BY <1>2 DEF FailFast, TypeOK
    <3> QED BY <3>1, OutcomeStep
  <2>2. Outcome[c] # "pending" BY <1>2, OutcomeOf DEF FailFast, TypeOK
  <2> QED BY <1>2, <2>1, <2>2 DEF Remote!Begin, FailFast
<1>3. ASSUME NEW c \in Calls, pc[c] = "posting"
      PROVE  /\ Outcome[c] = "pending"
             /\ arrived[c] \in Nat /\ arrived[c] + 1 <= MaxRetries + 1
  BY <1>3, OutcomeOf DEF TypeOK, CallInv
<1>4. ASSUME NEW c \in Calls, Answered(c)
      PROVE  Remote!Report(c, "yes") \/ Remote!Report(c, "no")
  <2> PICK r \in {"true", "false"} : Ends(c, r) BY <1>4 DEF Answered
  <2>1. pc[c] = "posting" /\ arrived' = [arrived EXCEPT ![c] = arrived[c] + 1]
    BY <1>4 DEF Answered
  <2>2. \/ Outcome' = [Outcome EXCEPT ![c] = "yes"]
        \/ Outcome' = [Outcome EXCEPT ![c] = "no"]
    BY OutcomeStep DEF Ends
  <2> QED BY <1>3, <2>1, <2>2 DEF Remote!Report
<1>5. ASSUME NEW c \in Calls, PostFails(c)
      PROVE  \/ Remote!Report(c, "no") \/ Remote!Act(c) \/ UNCHANGED Remote!vars
  <2>1. pc[c] = "posting" BY <1>5 DEF PostFails
  <2> PICK k \in {0, 1} : arrived' = [arrived EXCEPT ![c] = arrived[c] + k]
    BY <1>5 DEF PostFails
  <2>2. CASE BackOff(c)
    <3>1. Outcome' = [Outcome EXCEPT ![c] = "pending"]
      <4>1. pc' = [pc EXCEPT ![c] = "backoff"] /\ result' = [result EXCEPT ![c] = result[c]]
        BY <2>2 DEF BackOff, TypeOK
      <4> QED BY <4>1, OutcomeStep
    <3>2. UNCHANGED Outcome BY <1>0, <1>3, <2>1, <3>1
    <3>3. CASE k = 0
      <4>1. UNCHANGED arrived BY <3>3 DEF TypeOK
      <4> QED BY <3>2, <4>1
    <3>4. CASE k = 1
      BY <1>3, <2>1, <3>2, <3>4 DEF Remote!Act
    <3> QED BY <3>3, <3>4
  <2>3. CASE Raise(c)
    <3>1. Outcome' = [Outcome EXCEPT ![c] = "no"]
      BY <2>3, OutcomeStep DEF Raise, Ends
    <3>2. arrived[c] + k \in {arrived[c], arrived[c] + 1} /\ arrived[c] + k <= MaxRetries + 1
      BY <1>3, <2>1
    <3> QED BY <1>3, <2>1, <3>1, <3>2 DEF Remote!Report
  <2> QED BY <1>5, <2>2, <2>3 DEF PostFails
<1>6. ASSUME NEW c \in Calls, Retry(c) PROVE UNCHANGED Remote!vars
  <2>1. pc' = [pc EXCEPT ![c] = "posting"] /\ result' = [result EXCEPT ![c] = result[c]]
        /\ pc[c] # "idle"
    BY <1>6 DEF Retry, TypeOK
  <2>2. Outcome' = [Outcome EXCEPT ![c] = "pending"] /\ Outcome[c] = "pending"
    BY <2>1, OutcomeStep, OutcomeOf
  <2> QED BY <1>0, <1>6, <2>2 DEF Retry
<1>7. ASSUME NEW c \in Calls, Cancel(c) PROVE Remote!Abandon(c)
  <2>1. Outcome' = [Outcome EXCEPT ![c] = "none"] BY <1>7, OutcomeStep DEF Cancel, Ends
  <2>2. Outcome[c] = "pending" BY <1>7, OutcomeOf DEF Cancel
  <2> QED BY <1>7, <2>1, <2>2 DEF Remote!Abandon, Cancel
<1>8. CASE Tick \/ PeerChanges \/ UNCHANGED vars
  BY <1>8 DEF Tick, PeerChanges, vars, calls, Outcome
<1>9. CASE \E c \in Calls : Remote!Begin(c) \/ Remote!Act(c) \/ Remote!Abandon(c)
                            \/ Remote!Report(c, "yes") \/ Remote!Report(c, "no")
  BY <1>9 DEF Remote!Next
<1> QED BY <1>1, <1>2, <1>4, <1>5, <1>6, <1>7, <1>8, <1>9 DEF Next

\* forward_message implements the remote call, for any number of forwards that share
\* the breaker and any number of retries.
THEOREM CallsRemote == Spec => ImplementsRemoteCall
<1>1. Init => Remote!Init
  BY DEF Init, Remote!Init, Outcome
<1> QED BY <1>1, Invariance, StepCalls, PTL DEF Spec, ImplementsRemoteCall, Remote!Spec
-----------------------------------------------------------------------------
(* What Recovers rests on: forwards end, and while the peer answers the    *)
(* breaker moves one way, from open over half open to closed               *)

\* The steps a forward has left: a post for each try to come and a sleep before it.
StepsLeft(c) ==
    IF pc[c] = "idle" THEN 0
    ELSE 2 * (MaxRetries - attempt[c]) + (IF pc[c] = "posting" THEN 1 ELSE 2)

\* Whatever happens to a forward under way brings it nearer to its end.
ForwardsRunOut ==
    [][\A c \in Calls : pc[c] # "idle" =>
        \/ StepsLeft(c)' < StepsLeft(c)
        \/ pc'[c] = pc[c] /\ attempt'[c] = attempt[c]]_vars

\* While the peer answers, nothing opens the circuit or extends its window, which shuts
\* with time; a forward is let through after it, and the next answer closes the circuit,
\* be it of that forward or of one admitted before.
UpHeals ==
    [][up =>
        /\ state = "OPEN" /\ state' = "OPEN" => age' >= age
        /\ Tick => age' > age \/ Elapsed
        /\ state # "OPEN" => state' # "OPEN"
        /\ state = "CLOSED" => state' = "CLOSED"
        /\ state = "HALF_OPEN" /\ (\E c \in Calls : Answered(c)) => state' = "CLOSED"]_vars

\* A step brings every forward under way nearer to its end, or leaves it where it is.
LEMMA StepsFewer ==
    ASSUME IInv, [Next]_vars, NEW c \in Calls, pc[c] # "idle"
    PROVE  \/ StepsLeft(c)' < StepsLeft(c)
           \/ pc'[c] = pc[c] /\ attempt'[c] = attempt[c]
<1>0. /\ pc \in [Calls -> {"idle", "posting", "backoff"}]
      /\ attempt \in [Calls -> 0 .. MaxRetries] /\ MaxRetries \in Nat
      /\ pc[c] \in {"posting", "backoff"}
  BY PeerAssumption DEF IInv, TypeOK
<1>1. ASSUME pc'[c] = "idle" PROVE StepsLeft(c)' < StepsLeft(c)
  BY <1>0, <1>1 DEF StepsLeft
<1>2. ASSUME NEW d \in Calls, Admit(d)
      PROVE  pc'[c] = pc[c] /\ attempt'[c] = attempt[c]
  BY <1>0, <1>2 DEF Admit
<1>3. ASSUME NEW d \in Calls, Answered(d) \/ Cancel(d)
      PROVE  pc'[c] = "idle" \/ (pc'[c] = pc[c] /\ attempt'[c] = attempt[c])
  BY <1>0, <1>3 DEF Answered, Cancel, Ends
<1>4. ASSUME NEW d \in Calls, PostFails(d)
      PROVE  \/ StepsLeft(c)' < StepsLeft(c)
             \/ pc'[c] = pc[c] /\ attempt'[c] = attempt[c]
  <2>1. CASE d # c BY <1>0, <1>4, <2>1 DEF PostFails, BackOff, Raise, Ends
  <2>2. CASE d = c /\ BackOff(c)
    <3>1. /\ pc[c] = "posting" /\ pc'[c] = "backoff"
          /\ attempt[c] < MaxRetries /\ attempt'[c] = attempt[c] + 1
      BY <1>0, <1>4, <2>2 DEF PostFails, BackOff
    <3> QED BY <1>0, <3>1 DEF StepsLeft
  <2>3. CASE d = c /\ Raise(c) BY <1>0, <1>1, <2>3 DEF Raise, Ends
  <2> QED BY <1>4, <2>1, <2>2, <2>3 DEF PostFails
<1>5. ASSUME NEW d \in Calls, Retry(d)
      PROVE  \/ StepsLeft(c)' < StepsLeft(c)
             \/ pc'[c] = pc[c] /\ attempt'[c] = attempt[c]
  <2>1. CASE d # c BY <1>0, <1>5, <2>1 DEF Retry
  <2>2. CASE d = c
    <3>1. pc[c] = "backoff" /\ pc'[c] = "posting" /\ attempt'[c] = attempt[c]
      BY <1>0, <1>5, <2>2 DEF Retry
    <3> QED BY <1>0, <3>1 DEF StepsLeft
  <2> QED BY <2>1, <2>2
<1>6. CASE Tick \/ PeerChanges \/ UNCHANGED vars \/ \E d \in Calls : FailFast(d)
  BY <1>6 DEF Tick, PeerChanges, FailFast, vars, calls
<1> QED BY <1>1, <1>2, <1>3, <1>4, <1>5, <1>6 DEF Next

\* While the peer is up the breaker records no failure.
LEMMA UpStep ==
    ASSUME IInv, [Next]_vars, up
    PROVE  /\ state = "OPEN" /\ state' = "OPEN" => age' >= age
           /\ state # "OPEN" => state' # "OPEN"
           /\ state = "CLOSED" => state' = "CLOSED"
<1>0. age \in Nat /\ Recovery \in Nat
  BY PeerAssumption DEF IInv, TypeOK
<1>1. CASE Tick
  <2>1. state' = state /\ age' = Older(age) BY <1>1 DEF Tick
  <2> QED BY <1>0, <2>1 DEF Older
<1>2. ASSUME NEW c \in Calls, Admit(c)
      PROVE  age' = age /\ state' = IF state = "OPEN" THEN "HALF_OPEN" ELSE state
  BY <1>2 DEF Admit
<1>3. ASSUME NEW c \in Calls, Answered(c)
      PROVE  age' = age /\ state' = IF state = "HALF_OPEN" THEN "CLOSED" ELSE state
  BY <1>3 DEF Answered, OnSuccess
<1>4. ASSUME NEW c \in Calls, PostFails(c)
      PROVE  FALSE
  BY <1>4 DEF PostFails
<1>5. ASSUME \/ \E c \in Calls : FailFast(c) \/ Retry(c) \/ Cancel(c)
             \/ PeerChanges \/ UNCHANGED vars
      PROVE  age' = age /\ state' = state
  BY <1>5 DEF FailFast, Retry, Cancel, PeerChanges, vars, breaker
<1> QED BY <1>0, <1>1, <1>2, <1>3, <1>4, <1>5 DEF Next

\* Time extends the age of a failure until the window is over.
LEMMA TickAges ==
    ASSUME IInv, Tick
    PROVE  age' > age \/ Elapsed
<1>1. age' = Older(age) /\ age \in Nat /\ Recovery \in Nat
  BY PeerAssumption DEF Tick, IInv, TypeOK
<1> QED BY <1>1 DEF Older, Elapsed

\* The success of a probe closes the circuit.
LEMMA ProbeCloses ==
    ASSUME state = "HALF_OPEN", NEW c \in Calls, Answered(c)
    PROVE  state' = "CLOSED"
BY DEF Answered, OnSuccess

\* A forward ends after at most two steps for each of its tries, whatever the peer does.
\* While the peer answers, the breaker never opens, an open one keeps growing older until
\* it lets a forward through, and the next answer closes it: all that Recovers needs
\* besides the fairness of the steps.
THEOREM Heals == Spec => ForwardsRunOut /\ UpHeals
<1>1. IInv /\ [Next]_vars =>
        [\A c \in Calls : pc[c] # "idle" =>
            \/ StepsLeft(c)' < StepsLeft(c)
            \/ pc'[c] = pc[c] /\ attempt'[c] = attempt[c]]_vars
  BY StepsFewer
<1>2. IInv /\ [Next]_vars =>
        [up =>
            /\ state = "OPEN" /\ state' = "OPEN" => age' >= age
            /\ Tick => age' > age \/ Elapsed
            /\ state # "OPEN" => state' # "OPEN"
            /\ state = "CLOSED" => state' = "CLOSED"
            /\ state = "HALF_OPEN" /\ (\E c \in Calls : Answered(c)) => state' = "CLOSED"]_vars
  BY UpStep, TickAges, ProbeCloses
<1> QED BY Invariance, <1>1, <1>2, PTL DEF Spec, ForwardsRunOut, UpHeals
=============================================================================
