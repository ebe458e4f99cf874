----------------------------- MODULE ClusterPeer -----------------------------
(***************************************************************************)
(* forward_message of cluster.py: an HTTP post to a peer broker, retried   *)
(* by a RetryPolicy inside a CircuitBreaker (resilience.py) that all       *)
(* forwards to the peer share.                                             *)
(*                                                                         *)
(* The breaker is consulted once per forward, its retries run inside it,   *)
(* and every forward suspends while it posts or backs off: the outcome of  *)
(* one arrives whatever the others have made of the breaker meanwhile.     *)
(* The peer and the network are external: a post may be answered, or fail  *)
(* before or after the peer has acted on it.                               *)
(***************************************************************************)
EXTENDS Integers

CONSTANTS
    Calls,       \* coroutines that forward, each one message at a time
    Threshold,   \* failure_threshold
    Recovery,    \* recovery_timeout, in ticks
    MaxRetries,  \* max_retries
    MaxCount,    \* bound: failures counted, above the threshold
    MaxCancels   \* bound: forwards whose task is cancelled

ASSUME PeerAssumption ==
    /\ Threshold \in Nat \ {0} /\ Recovery \in Nat /\ MaxRetries \in Nat
    /\ MaxCount \in Nat /\ MaxCount > Threshold
    /\ MaxCancels \in Nat

VARIABLES
    state,         \* CircuitState
    failureCount,  \* _failure_count
    age,           \* ticks since _last_failure_time, up to Recovery + 1
    pc,            \* of a call: "idle", "posting" or "backoff"
    attempt,       \* of a call: retries made
    result,        \* of a call: what the last forward_message returned
    arrived,       \* of a call: copies of the message the peer acted on
    up,            \* whether the peer answers
    cancels,       \* forwards cancelled so far
    streak,        \* failed forwards since the last successful one
    openAge        \* ticks since the circuit last opened, up to Recovery + 1

breaker == <<state, failureCount, age>>
calls   == <<pc, attempt, result, arrived>>
watch   == <<streak, openAge>>
outside == <<up, cancels>>
vars    == <<breaker, calls, outside, watch>>

Older(n) == IF n > Recovery THEN n ELSE n + 1
Counted(n) == IF n < MaxCount THEN n + 1 ELSE n

Init ==
    /\ state = "CLOSED" /\ failureCount = 0
    /\ age = Recovery + 1 /\ openAge = Recovery + 1 /\ streak = 0
    /\ pc = [c \in Calls |-> "idle"]
    /\ attempt = [c \in Calls |-> 0]
    /\ result = [c \in Calls |-> "none"]
    /\ arrived = [c \in Calls |-> 0]
    /\ up = TRUE /\ cancels = 0

-----------------------------------------------------------------------------
(* CircuitBreaker                                                          *)

\* mutant: the state is left as it was
OnSuccessStayingOpen ==
    /\ failureCount' = 0 /\ streak' = 0
    /\ UNCHANGED <<state, age, openAge>>

\* _on_success
OnSuccess ==
    /\ state' = IF state = "HALF_OPEN" THEN "CLOSED" ELSE state
    /\ failureCount' = 0
    /\ streak' = 0
    /\ UNCHANGED <<age, openAge>>

\* mutant: one failure too many before it trips
TripsLate ==
    \/ state = "CLOSED" /\ Counted(failureCount) > Threshold
    \/ state = "HALF_OPEN"

\* The failure that opens the circuit: enough of them, or a failed probe.
Trips ==
    \/ state = "CLOSED" /\ Counted(failureCount) >= Threshold
    \/ state = "HALF_OPEN"

\* mutant: _last_failure_time only set when a closed circuit trips
OnFailureKeepingTime ==
    /\ failureCount' = Counted(failureCount)
    /\ streak' = Counted(streak)
    /\ age' = IF state = "CLOSED" THEN 0 ELSE age
    /\ IF Trips THEN state' = "OPEN" /\ openAge' = 0 ELSE UNCHANGED <<state, openAge>>

\* _on_failure
OnFailure ==
    /\ failureCount' = Counted(failureCount)
    /\ streak' = Counted(streak)
    /\ age' = 0
    /\ IF Trips THEN state' = "OPEN" /\ openAge' = 0 ELSE UNCHANGED <<state, openAge>>

-----------------------------------------------------------------------------
(* forward_message                                                         *)

Elapsed == age > Recovery

Ends(c, res) ==
    /\ pc' = [pc EXCEPT ![c] = "idle"]
    /\ result' = [result EXCEPT ![c] = res]

\* The breaker lets the forward through; an open one turns half open first.
Admit(c) ==
    /\ pc[c] = "idle" /\ (state = "OPEN" => Elapsed)
    /\ state' = IF state = "OPEN" THEN "HALF_OPEN" ELSE state
    /\ pc' = [pc EXCEPT ![c] = "posting"]
    /\ attempt' = [attempt EXCEPT ![c] = 0]
    /\ arrived' = [arrived EXCEPT ![c] = 0]
    /\ UNCHANGED <<failureCount, age, result, outside, watch>>

\* CircuitBreakerError: False without a post.
FailFast(c) ==
    /\ pc[c] = "idle" /\ state = "OPEN" /\ ~Elapsed
    /\ result' = [result EXCEPT ![c] = "false"]
    /\ arrived' = [arrived EXCEPT ![c] = 0]
    /\ UNCHANGED <<breaker, pc, attempt, outside, watch>>

\* 200: True.  Another 2xx passes raise_for_status: False, but a success for the
\* breaker.
Answered(c) ==
    /\ pc[c] = "posting" /\ up
    /\ arrived' = [arrived EXCEPT ![c] = @ + 1]
    /\ \E res \in {"true", "false"} : Ends(c, res)
    /\ OnSuccess
    /\ UNCHANGED <<attempt, outside>>

\* mutant: the retry policy swallows the last exception
RaiseSwallowed(c) == Ends(c, "true") /\ OnFailure

\* Retries are exhausted: the exception reaches the breaker and is turned into False.
Raise(c) == Ends(c, "false") /\ OnFailure

\* mutant: one attempt too many
BackOffOnce(c) ==
    /\ attempt[c] <= MaxRetries
    /\ attempt' = [attempt EXCEPT ![c] = @ + 1]
    /\ pc' = [pc EXCEPT ![c] = "backoff"]
    /\ UNCHANGED <<breaker, result, watch>>

BackOff(c) ==
    /\ attempt[c] < MaxRetries
    /\ attempt' = [attempt EXCEPT ![c] = @ + 1]
    /\ pc' = [pc EXCEPT ![c] = "backoff"]
    /\ UNCHANGED <<breaker, result, watch>>

\* The post fails: the peer has acted on it (late answer, error after delivery) or not.
PostFails(c) ==
    /\ pc[c] = "posting" /\ ~up
    /\ \E k \in {0, 1} : arrived' = [arrived EXCEPT ![c] = @ + k]
    /\ \/ BackOff(c)
       \/ attempt[c] >= MaxRetries /\ Raise(c) /\ UNCHANGED attempt
    /\ UNCHANGED outside

\* asyncio.sleep(delay) is over.
Retry(c) ==
    /\ pc[c] = "backoff"
    /\ pc' = [pc EXCEPT ![c] = "posting"]
    /\ UNCHANGED <<breaker, attempt, result, arrived, outside, watch>>

\* CancelledError is no Exception: neither retried nor recorded.
Cancel(c) ==
    /\ cancels < MaxCancels /\ pc[c] # "idle"
    /\ cancels' = cancels + 1
    /\ Ends(c, "none")
    /\ UNCHANGED <<breaker, attempt, arrived, up, watch>>

Tick ==
    /\ age' = Older(age) /\ openAge' = Older(openAge)
    /\ UNCHANGED <<state, failureCount, calls, outside, streak>>

\* The peer becomes unreachable or answers again.
PeerChanges ==
    /\ up' = ~up
    /\ UNCHANGED <<breaker, calls, cancels, watch>>

Next ==
    \/ \E c \in Calls : Admit(c)
    \/ \E c \in Calls : FailFast(c)
    \/ \E c \in Calls : Answered(c)
    \/ \E c \in Calls : PostFails(c)
    \/ \E c \in Calls : Retry(c)
    \/ \E c \in Calls : Cancel(c)
    \/ Tick
    \/ PeerChanges

Spec == Init /\ [][Next]_vars

\* Time passes, posts and sleeps end, and the broker goes on forwarding.
Fairness ==
    /\ WF_vars(Tick)
    /\ \A c \in Calls : /\ WF_vars(Admit(c))
                        /\ WF_vars(Answered(c) \/ PostFails(c))
                        /\ WF_vars(Retry(c))

FairSpec == Spec /\ Fairness

-----------------------------------------------------------------------------
(* Properties                                                              *)

\* Breaker and forwards have their types, and no forward exceeds its retries.
TypeOK ==
    /\ state \in {"CLOSED", "OPEN", "HALF_OPEN"}
    /\ failureCount \in 0 .. MaxCount /\ streak \in 0 .. MaxCount
    /\ age \in 0 .. Recovery + 1 /\ openAge \in 0 .. Recovery + 1
    /\ pc \in [Calls -> {"idle", "posting", "backoff"}]
    /\ attempt \in [Calls -> 0 .. MaxRetries]
    /\ result \in [Calls -> {"none", "true", "false"}]
    /\ arrived \in [Calls -> Nat]
    /\ up \in BOOLEAN /\ cancels \in 0 .. MaxCancels

\* A closed circuit has counted fewer failures than its threshold.
ClosedBelowThreshold == state = "CLOSED" => failureCount < Threshold

\* A closed circuit opens with the failure that makes Threshold of them with no success
\* between, neither earlier nor later, though failures of forwards admitted before it
\* reopened and closed are counted too.
TripsExactly ==
    [][state = "CLOSED" => (state' = "OPEN" <=> streak' >= Threshold)]_vars

\* Once open, the circuit rejects for the whole recovery timeout, also after a failed
\* probe, and is probed before it closes: the success of a forward admitted before it
\* opened does not close it.
WindowRespected ==
    [][state = "OPEN" /\ state' # "OPEN" => state' = "HALF_OPEN" /\ openAge > Recovery]_vars

\* A forward reported True has reached the peer, and however often it was retried the
\* peer has acted on it at most MaxRetries + 1 times.
ForwardHonest ==
    \A c \in Calls :
        /\ arrived[c] <= MaxRetries + 1
        /\ result[c] = "true" /\ pc[c] = "idle" => arrived[c] >= 1

\* A call as its caller sees it: what was returned, or that nothing has been yet.
Outcome ==
    [c \in Calls |->
        CASE pc[c] # "idle" -> "pending"
          [] pc[c] = "idle" /\ result[c] = "true" -> "yes"
          [] pc[c] = "idle" /\ result[c] = "false" -> "no"
          [] OTHER -> "none"]

Remote == INSTANCE RemoteCall
              WITH Callers <- Calls, Limit <- MaxRetries + 1, outcome <- Outcome, copies <- arrived

\* forward_message implements the remote call: the breaker and the forwards that share
\* it change when a call is answered, not what its answer means.
ImplementsRemoteCall == Remote!Spec

\* When the peer answers for good, the circuit closes again and again (and a probe
\* that was half way does not leave it half open for ever).
Recovers == <>[]up => []<>(state = "CLOSED")
=============================================================================
