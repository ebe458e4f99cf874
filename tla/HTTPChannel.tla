----------------------------- MODULE HTTPChannel -----------------------------
(***************************************************************************)
(* HTTPChannel of channels.py: a send posts its message to an endpoint,    *)
(* with a RetryPolicy around the post and one timeout around all retries   *)
(* (TimeoutManager, resilience.py), and the handler of the endpoint, which *)
(* is the one of another HTTPChannel.                                      *)
(*                                                                         *)
(* Post <<s, n>> is the n-th try of sender s.  It lives on when the client *)
(* has given it up: the handler may read it, and broker.send may return,   *)
(* at any later time.                                                      *)
(***************************************************************************)
EXTENDS Channel

CONSTANT MaxRetries   \* max_retries

ASSUME HttpAssumption == MaxRetries \in Nat

Tries == 1 .. MaxRetries + 1

VARIABLES
    session,   \* _session: "none", "open" or "closed"
    attempt,   \* tries begun of a send
    post,      \* of a try: "none", "sent", "handling", "ok", or "refused"
    timedOut   \* sends whose timeout has fired

http == <<session, attempt, post, timedOut>>

HttpInit ==
    /\ session = "none"
    /\ attempt = [s \in Senders |-> 0]
    /\ post = [p \in Senders \X Tries |-> "none"]
    /\ timedOut = {}

\* session.post: nothing leaves a closed client, which raises.
Post(s, n) ==
    /\ attempt' = [attempt EXCEPT ![s] = n]
    /\ \/ session = "open" /\ post' = [post EXCEPT ![<<s, n>>] = "sent"]
       \/ session = "closed" /\ UNCHANGED post
    /\ Suspend(s, IF session = "open" THEN "posting" ELSE "failing")

HttpSend(s) ==
    /\ Calls(s)
    /\ Post(s, 1)
    /\ UNCHANGED <<kind, running, stop, starts, status, session, timedOut>>

AnsweredAnyhow(s) ==   \* mutant: the status of the answer is not looked at
    /\ pc[s] = "posting" /\ post[<<s, attempt[s]>>] \in {"ok", "refused"}
    /\ Returned(s, "DELIVERED")
    /\ UNCHANGED <<kind, running, stop, starts, http>>

\* The answer to the post is 200.
Answered(s) ==
    /\ pc[s] = "posting" /\ post[<<s, attempt[s]>>] = "ok"
    /\ Returned(s, "DELIVERED")
    /\ UNCHANGED <<kind, running, stop, starts, http>>

\* The post raises: an error status, no answer, a lost one, httpx's own timeout, or a
\* closed client.  RetryPolicy sleeps and tries again, or gives up.
PostFails(s) ==
    /\ pc[s] \in {"posting", "failing"}
    /\ \/ attempt[s] = MaxRetries + 1 /\ Returned(s, "FAILED")
       \/ attempt[s] <= MaxRetries /\ Suspend(s, "backoff") /\ UNCHANGED status
    /\ UNCHANGED <<kind, running, stop, starts, http>>

\* The session is looked up again: a channel restarted meanwhile has a new one.
Retry(s) ==
    /\ pc[s] = "backoff"
    /\ Post(s, attempt[s] + 1)
    /\ UNCHANGED <<kind, running, stop, starts, status, session, timedOut>>

\* run_with_timeout cancels whatever the send awaits.
TimeOut(s) ==
    /\ pc[s] # "idle"
    /\ Returned(s, "FAILED")
    /\ timedOut' = timedOut \cup {s}
    /\ UNCHANGED <<kind, running, stop, starts, session, attempt, post>>

\* The task that called send is cancelled: no status.
HttpCancel(s) ==
    /\ pc[s] # "idle"
    /\ Returned(s, "RAISED")
    /\ UNCHANGED <<kind, running, stop, starts, http>>

\* _handle_request reads the post and calls broker.send.
Handle(p) ==
    /\ post[p] = "sent"
    /\ post' = [post EXCEPT ![p] = "handling"]
    /\ UNCHANGED <<channel, session, attempt, timedOut>>

\* broker.send has returned, whatever the status: 200 is written.
Handled(p) ==
    /\ post[p] = "handling"
    /\ post' = [post EXCEPT ![p] = "ok"]
    /\ UNCHANGED <<channel, session, attempt, timedOut>>

\* Another path (404), a broken request, an exception of the broker or a server that is
\* gone: no 200.
Refuse(p) ==
    /\ post[p] \in {"sent", "handling"}
    /\ post' = [post EXCEPT ![p] = "refused"]
    /\ UNCHANGED <<channel, session, attempt, timedOut>>

HttpStart ==
    /\ Started
    /\ session' = "open"
    /\ UNCHANGED <<pc, status, attempt, post, timedOut>>

HttpStop == StopCalled /\ UNCHANGED <<pc, status, http>>

\* The server has closed; aclose ends the posts under way.
CloseSession ==
    /\ stop = "server"
    /\ stop' = "rest" /\ session' = "closed"
    /\ pc' = [s \in Senders |-> IF pc[s] = "posting" THEN "failing" ELSE pc[s]]
    /\ UNCHANGED <<kind, running, starts, status, attempt, post, timedOut>>

HttpStopped == StopReturns /\ UNCHANGED <<pc, status, http>>

HttpNext ==
    \/ \E s \in Senders : HttpSend(s) \/ Answered(s) \/ PostFails(s) \/ Retry(s)
                          \/ TimeOut(s) \/ HttpCancel(s)
    \/ \E p \in Senders \X Tries : Handle(p) \/ Handled(p) \/ Refuse(p)
    \/ HttpStart \/ HttpStop \/ CloseSession \/ HttpStopped

\* Posts end (httpx has timeouts of its own) and sleeps are over some time.
HttpFairness ==
    \A s \in Senders : WF_<<channel, http>>(Answered(s) \/ PostFails(s) \/ Retry(s))

-----------------------------------------------------------------------------
(* Properties                                                              *)

HttpTypeOK ==
    /\ session \in {"none", "open", "closed"}
    /\ attempt \in [Senders -> 0 .. MaxRetries + 1]
    /\ post \in [Senders \X Tries -> {"none", "sent", "handling", "ok", "refused"}]
    /\ timedOut \subseteq Senders

\* A send says DELIVERED only if its last try went through the other side's broker.send,
\* and FAILED only when the time was up or every try has failed; the message may have
\* been handled all the same, once per try at most.
StatusHonest ==
    kind = "http" =>
        \A s \in Senders :
            /\ status[s] = "DELIVERED" => attempt[s] > 0 /\ post[<<s, attempt[s]>>] = "ok"
            /\ status[s] = "FAILED" => s \in timedOut \/ attempt[s] = MaxRetries + 1
            /\ \A n \in Tries : n > attempt[s] => post[<<s, n>>] = "none"

\* Tries whose message went through the other side's broker.send.
Copies == [s \in Senders |-> Cardinality({n \in Tries : post[<<s, n>>] = "ok"})]

\* A send as its caller sees it.  One that was cancelled never has an outcome, and its
\* posts live on.
Outcome ==
    [s \in Senders |->
        IF kind # "http" \/ attempt[s] = 0 THEN "none"
        ELSE CASE status[s] = "DELIVERED" -> "yes"
               [] status[s] = "FAILED" -> "no"
               [] OTHER -> "pending"]

Remote == INSTANCE RemoteCall
              WITH Callers <- Senders, Limit <- MaxRetries + 1, outcome <- Outcome, copies <- Copies

\* send implements the remote call: whatever retries, timeouts, cancellations, restarts
\* and late handlers do, DELIVERED means handled and no try counts twice.
ImplementsRemoteCall == Remote!Spec

\* A send returns though the other side never answers and the channel is stopped.
SendsEnd == \A s \in Senders : kind = "http" /\ pc[s] # "idle" ~> pc[s] = "idle"
=============================================================================
