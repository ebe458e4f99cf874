---------------------------- MODULE ChannelsProofs ----------------------------
(***************************************************************************)
(* Proofs about Channels, for any senders, agents, connections and number  *)
(* of retries.                                                             *)
(*                                                                         *)
(* IInv is the inductive invariant.  Of an HTTP channel it says that a     *)
(* send has begun no try before it is called and begins none once it has   *)
(* returned; of a WebSocket channel that a handler which has not           *)
(* identified its agent has none, and that a stop which has waited for the *)
(* handlers, or has returned, leaves nothing behind.                       *)
(***************************************************************************)
EXTENDS Channels, FiniteSetTheorems, TLAPS

Places == [Senders -> {"idle", "posting", "failing", "backoff", "writing", "broker"}]

\* Apart from the others: the provers treat Booleans and numbers separately.
FlagOK == running \in BOOLEAN

BaseTypeOK ==
    /\ kind \in Kinds /\ stop \in {"idle", "server", "rest"}
    /\ starts \in 0 .. MaxStarts
    /\ pc \in Places
    /\ status \in [Senders -> Statuses]

HttpInv ==
    kind = "http" =>
        /\ StatusHonest
        /\ \A s \in Senders :
              /\ status[s] # "none" => pc[s] = "idle"
              /\ pc[s] = "idle" /\ status[s] = "none" => attempt[s] = 0
              /\ pc[s] # "idle" => attempt[s] >= 1
              /\ pc[s] = "backoff" => attempt[s] <= MaxRetries

Quiet ==
    /\ \A w \in Conns : handler[w] \in {"none", "ended"}
    /\ \A a \in Names \cup {Nameless} : table[a] = 0

EntriesSound ==
    \A a \in Names :
        /\ table[a] # 0 => table[a] \in Live(a)
        /\ a \notin shared => \A w \in Live(a) : table[a] = w

SocketInv ==
    /\ EntriesSound
    /\ \A w \in Conns : handler[w] \in {"none", "new"} => who[w] = Nameless
    /\ kind = "websocket" =>
          /\ stop # "idle" => running
          /\ stop = "rest" \/ ~running => Quiet

IInv == FlagOK /\ BaseTypeOK /\ HttpTypeOK /\ SocketTypeOK /\ HttpInv /\ SocketInv

-----------------------------------------------------------------------------
(* Initial states, and steps that leave a part alone                       *)

\* The invariant holds initially.
LEMMA InitInv == Init => IInv
<1> SUFFICES ASSUME Init PROVE IInv
  OBVIOUS
<1> USE HttpAssumption, SocketAssumption, ChannelAssumption DEF Init
<1>1. BaseTypeOK
  BY DEF BaseTypeOK, Places, ChannelInit, Kinds, Statuses
<1>2. HttpTypeOK BY DEF HttpTypeOK, HttpInit
<1>3. SocketTypeOK BY DEF SocketTypeOK, SocketInit
<1>4. HttpInv
  <2>1. \A s \in Senders : pc[s] = "idle" /\ status[s] = "none" /\ attempt[s] = 0
    BY DEF ChannelInit, HttpInit
  <2>2. \A s \in Senders, n \in Tries : post[<<s, n>>] = "none"
    BY DEF HttpInit
  <2> QED BY <2>1, <2>2 DEF HttpInv, StatusHonest
<1>5. SocketInv
  BY DEF SocketInv, EntriesSound, Quiet, Live, ChannelInit, SocketInit
<1>6. FlagOK BY DEF FlagOK, ChannelInit
<1> QED BY <1>1, <1>2, <1>3, <1>4, <1>5, <1>6 DEF IInv

\* A channel of another class does not touch the table of connections.
LEMMA SocketFrame ==
    ASSUME SocketTypeOK, SocketInv, kind # "websocket", UNCHANGED <<kind, sockets>>
    PROVE  SocketTypeOK' /\ SocketInv'
  BY DEF sockets, SocketTypeOK, SocketInv, EntriesSound, Live

\* A channel of another class does not touch the posts.
LEMMA HttpFrame ==
    ASSUME HttpTypeOK, kind # "http", UNCHANGED <<kind, http>>
    PROVE  HttpTypeOK' /\ HttpInv'
  BY DEF http, HttpTypeOK, HttpInv

-----------------------------------------------------------------------------
(* Local channels                                                          *)

\* Operations of a local channel keep the invariant.
LEMMA LocalStep ==
    ASSUME IInv, kind = "local", LocalNext, UNCHANGED <<http, sockets>>
    PROVE  IInv'
<1>1. BaseTypeOK' /\ UNCHANGED kind
  <2>1. ASSUME NEW s \in Senders, LocalSend(s) PROVE BaseTypeOK' /\ UNCHANGED kind
    BY <2>1 DEF IInv, BaseTypeOK, Places, LocalSend, Suspend
  <2>2. ASSUME NEW s \in Senders, LocalReturns(s) PROVE BaseTypeOK' /\ UNCHANGED kind
    BY <2>2 DEF IInv, BaseTypeOK, Places, LocalReturns, Returned
  <2>3. CASE LocalStart \/ LocalStop
    BY <2>3, ChannelAssumption DEF IInv, BaseTypeOK, Places, LocalStart, LocalStop, Started
  <2> QED BY <2>1, <2>2, <2>3 DEF LocalNext
<1>2. kind # "websocket" /\ kind # "http" OBVIOUS
<1>3. FlagOK'
  BY DEF IInv, FlagOK, LocalNext, LocalSend, LocalReturns, LocalStart, LocalStop, Started
<1> QED BY <1>1, <1>2, <1>3, SocketFrame, HttpFrame DEF IInv

-----------------------------------------------------------------------------
(* HTTP channels                                                           *)

\* A try begins: none of its number or a later one was made before.
LEMMA PostKeeps ==
    ASSUME IInv, kind = "http", NEW s \in Senders, NEW n \in Tries, Post(s, n),
           status[s] = "none", n = attempt[s] + 1,
           UNCHANGED <<kind, running, stop, starts, status, session, timedOut>>
    PROVE  FlagOK' /\ BaseTypeOK' /\ HttpTypeOK' /\ HttpInv'
<1> USE HttpAssumption DEF IInv
<1>1. BaseTypeOK' BY DEF BaseTypeOK, Places, Post, Suspend
<1>2. HttpTypeOK' BY DEF HttpTypeOK, Post, Tries
<1>3. /\ attempt' = [attempt EXCEPT ![s] = n]
      /\ post' = [post EXCEPT ![<<s, n>>] = "sent"] \/ post' = post
      /\ pc' = [pc EXCEPT ![s] = "posting"] \/ pc' = [pc EXCEPT ![s] = "failing"]
  BY DEF Post, Suspend
<1>4. \A t \in Senders, k \in Tries : <<t, k>> # <<s, n>> => post'[<<t, k>>] = post[<<t, k>>]
  BY <1>3 DEF HttpTypeOK
<1>5. StatusHonest'
  <2> SUFFICES ASSUME NEW t \in Senders
        PROVE /\ status'[t] = "DELIVERED" => attempt'[t] > 0 /\ post'[<<t, attempt'[t]>>] = "ok"
              /\ status'[t] = "FAILED" => t \in timedOut' \/ attempt'[t] = MaxRetries + 1
              /\ \A k \in Tries : k > attempt'[t] => post'[<<t, k>>] = "none"
    BY DEF StatusHonest
  <2>1. CASE t = s
    <3>1. attempt'[s] = n /\ status'[s] = "none" BY <1>3 DEF HttpTypeOK
    <3>2. ASSUME NEW k \in Tries, k > n PROVE post'[<<s, k>>] = "none"
      <4>1. attempt[s] \in Nat /\ n \in Nat /\ k \in Nat BY DEF HttpTypeOK, Tries
      <4>2. k # n /\ k > attempt[s] BY <3>2, <4>1
      <4>3. post'[<<s, k>>] = post[<<s, k>>] BY <1>4, <4>2
      <4> QED BY <4>2, <4>3 DEF HttpInv, StatusHonest
    <3> QED BY <2>1, <3>1, <3>2
  <2>2. CASE t # s
    <3>1. attempt'[t] = attempt[t] /\ attempt[t] \in 0 .. MaxRetries + 1
      BY <1>3, <2>2 DEF HttpTypeOK
    <3>2. \A k \in Tries : post'[<<t, k>>] = post[<<t, k>>] BY <1>4, <2>2
    <3>3. attempt[t] > 0 => attempt[t] \in Tries BY <3>1 DEF Tries
    <3> QED BY <3>1, <3>2, <3>3 DEF HttpInv, StatusHonest
  <2> QED BY <2>1, <2>2
<1>6. HttpInv'
  <2>1. \A t \in Senders :
           \/ pc'[t] = pc[t] /\ attempt'[t] = attempt[t] /\ status'[t] = status[t]
           \/ pc'[t] \in {"posting", "failing"} /\ attempt'[t] = n /\ status'[t] = "none"
    <3> TAKE t \in Senders
    <3>1. /\ attempt'[t] = IF t = s THEN n ELSE attempt[t]
          /\ t # s => pc'[t] = pc[t]
      BY <1>3 DEF HttpTypeOK, BaseTypeOK, Places
    <3>2. t = s => pc'[t] \in {"posting", "failing"}
      BY <1>3 DEF BaseTypeOK, Places
    <3> QED BY <3>1, <3>2
  <2>2. n >= 1 BY DEF Tries
  <2> QED BY <1>5, <2>1, <2>2 DEF HttpInv
<1>7. FlagOK' BY DEF FlagOK
<1> QED BY <1>1, <1>2, <1>6, <1>7

\* A send returns an outcome its tries justify.
LEMMA ReturnKeeps ==
    ASSUME IInv, kind = "http", NEW s \in Senders, NEW outcome \in Statuses,
           Returned(s, outcome), outcome # "none",
           outcome = "DELIVERED" => attempt[s] > 0 /\ post[<<s, attempt[s]>>] = "ok",
           outcome = "FAILED" => s \in timedOut' \/ attempt[s] = MaxRetries + 1,
           timedOut \subseteq timedOut', timedOut' \subseteq Senders,
           UNCHANGED <<kind, running, stop, starts, session, attempt, post>>
    PROVE  FlagOK' /\ BaseTypeOK' /\ HttpTypeOK' /\ HttpInv'
<1> USE DEF IInv
<1>1. BaseTypeOK' BY DEF BaseTypeOK, Places, Returned
<1>2. HttpTypeOK' BY DEF HttpTypeOK
<1>3. \A t \in Senders :
         /\ pc'[t] = IF t = s THEN "idle" ELSE pc[t]
         /\ status'[t] = IF t = s THEN outcome ELSE status[t]
  BY DEF BaseTypeOK, Places, Returned
<1>4. HttpInv' BY <1>3 DEF HttpInv, StatusHonest
<1>5. FlagOK' BY DEF FlagOK
<1> QED BY <1>1, <1>2, <1>4, <1>5

\* Answers of the other side change a post that is not "ok" yet.
LEMMA AnswerKeeps ==
    ASSUME IInv, kind = "http", NEW p \in Senders \X Tries, post[p] \in {"sent", "handling"},
           NEW to \in {"handling", "ok", "refused"}, post' = [post EXCEPT ![p] = to],
           UNCHANGED <<channel, session, attempt, timedOut>>
    PROVE  FlagOK' /\ BaseTypeOK' /\ HttpTypeOK' /\ HttpInv'
<1> USE HttpAssumption DEF IInv
<1>1. BaseTypeOK' BY DEF BaseTypeOK, Places, channel
<1>2. HttpTypeOK' BY DEF HttpTypeOK
<1>3. \A q \in Senders \X Tries : post[q] \in {"ok", "none"} => post'[q] = post[q]
  BY DEF HttpTypeOK
<1>4. StatusHonest'
  <2> SUFFICES ASSUME NEW t \in Senders
        PROVE /\ status[t] = "DELIVERED" => attempt[t] > 0 /\ post'[<<t, attempt[t]>>] = "ok"
              /\ status[t] = "FAILED" => t \in timedOut \/ attempt[t] = MaxRetries + 1
              /\ \A k \in Tries : k > attempt[t] => post'[<<t, k>>] = "none"
    BY DEF StatusHonest, channel
  <2>1. attempt[t] > 0 => attempt[t] \in Tries BY DEF HttpTypeOK, Tries
  <2>2. \A k \in Tries : <<t, k>> \in Senders \X Tries OBVIOUS
  <2> QED BY <1>3, <2>1, <2>2 DEF HttpInv, StatusHonest
<1>5. HttpInv' BY <1>4 DEF HttpInv, channel
<1>6. FlagOK' BY DEF FlagOK, channel
<1> QED BY <1>1, <1>2, <1>5, <1>6

\* The types of what a step may leave alone.
LEMMA OwnTypes ==
    ASSUME IInv, UNCHANGED <<running, stop, starts, session>>
    PROVE  /\ FlagOK' /\ stop' \in {"idle", "server", "rest"}
           /\ starts' \in 0 .. MaxStarts /\ session' \in {"none", "open", "closed"}
  BY DEF IInv, FlagOK, BaseTypeOK, HttpTypeOK

\* A suspended send moves on without a try and without a result.
LEMMA MoveKeeps ==
    ASSUME IInv, kind = "http", pc' \in Places,
           \A s \in Senders : /\ pc'[s] = "idle" <=> pc[s] = "idle"
                              /\ pc'[s] = "backoff" => attempt[s] <= MaxRetries,
           FlagOK', stop' \in {"idle", "server", "rest"},
           starts' \in 0 .. MaxStarts, session' \in {"none", "open", "closed"},
           UNCHANGED <<kind, status, attempt, post, timedOut>>
    PROVE  FlagOK' /\ BaseTypeOK' /\ HttpTypeOK' /\ HttpInv'
<1> USE DEF IInv, Places
<1>1. BaseTypeOK' BY DEF BaseTypeOK, Places
<1>2. HttpTypeOK' BY DEF HttpTypeOK
<1>3. HttpInv' BY DEF HttpInv, StatusHonest
<1>4. FlagOK' BY DEF FlagOK
<1> QED BY <1>1, <1>2, <1>3, <1>4

\* Operations of an HTTP channel keep the invariant.
LEMMA HttpStep ==
    ASSUME IInv, kind = "http", HttpNext, UNCHANGED sockets
    PROVE  IInv'
<1> DEFINE Kept == FlagOK' /\ BaseTypeOK' /\ HttpTypeOK' /\ HttpInv' /\ UNCHANGED kind
<1>1. ASSUME NEW s \in Senders, HttpSend(s) PROVE Kept
  <2>1. 1 \in Tries /\ status[s] = "none" /\ attempt[s] = 0
    BY <1>1, HttpAssumption DEF IInv, Tries, HttpSend, Calls, HttpInv
  <2>2. 1 = attempt[s] + 1 BY <2>1
  <2> QED BY <1>1, <2>1, <2>2, PostKeeps DEF HttpSend
<1>2. ASSUME NEW s \in Senders, Answered(s) PROVE Kept
  <2>1. attempt[s] > 0 /\ timedOut \subseteq Senders
    BY <1>2 DEF IInv, Answered, HttpInv, HttpTypeOK
  <2> QED BY <1>2, <2>1, ReturnKeeps DEF Answered, http, Statuses
<1>3. ASSUME NEW s \in Senders, PostFails(s) PROVE Kept
  <2>1. CASE attempt[s] = MaxRetries + 1 /\ Returned(s, "FAILED")
    <3>1. timedOut \subseteq Senders BY DEF IInv, HttpTypeOK
    <3> QED BY <1>3, <2>1, <3>1, ReturnKeeps DEF PostFails, http, Statuses
  <2>2. CASE attempt[s] <= MaxRetries /\ Suspend(s, "backoff") /\ UNCHANGED status
    <3>1. pc' = [pc EXCEPT ![s] = "backoff"] /\ pc[s] # "idle"
      BY <1>3, <2>2 DEF PostFails, Suspend
    <3>2. \A t \in Senders : /\ pc'[t] = "idle" <=> pc[t] = "idle"
                             /\ pc'[t] = "backoff" => attempt[t] <= MaxRetries
      BY <2>2, <3>1 DEF IInv, BaseTypeOK, Places, HttpInv
    <3>3. pc' \in Places BY <3>1 DEF IInv, BaseTypeOK, Places
    <3>4. /\ UNCHANGED <<kind, status, attempt, post, timedOut>>
          /\ UNCHANGED <<running, stop, starts, session>>
      BY <1>3, <2>2 DEF PostFails, http
    <3> QED BY <3>2, <3>3, <3>4, MoveKeeps, OwnTypes
  <2> QED BY <1>3, <2>1, <2>2 DEF PostFails
<1>4. ASSUME NEW s \in Senders, Retry(s) PROVE Kept
  <2>1. attempt[s] + 1 \in Tries /\ status[s] = "none"
    BY <1>4, HttpAssumption DEF IInv, Retry, HttpInv, HttpTypeOK, Tries, BaseTypeOK, Places
  <2> QED BY <1>4, <2>1, PostKeeps DEF Retry
<1>5. ASSUME NEW s \in Senders, TimeOut(s) PROVE Kept
  <2>1. timedOut \subseteq Senders BY DEF IInv, HttpTypeOK
  <2> QED BY <1>5, <2>1, ReturnKeeps DEF TimeOut, Statuses
<1>6. ASSUME NEW s \in Senders, HttpCancel(s) PROVE Kept
  <2>1. timedOut \subseteq Senders BY DEF IInv, HttpTypeOK
  <2> QED BY <1>6, <2>1, ReturnKeeps DEF HttpCancel, Statuses, http
<1>7. ASSUME NEW p \in Senders \X Tries, Handle(p) \/ Handled(p) \/ Refuse(p) PROVE Kept
  BY <1>7, AnswerKeeps DEF Handle, Handled, Refuse, channel
<1>8. ASSUME HttpStart \/ HttpStop \/ HttpStopped PROVE Kept
  <2>1. UNCHANGED <<kind, pc, status, attempt, post, timedOut>>
    BY <1>8 DEF HttpStart, HttpStop, HttpStopped, Started, StopCalled, StopReturns, http
  <2>2. /\ stop' \in {"idle", "server", "rest"}
        /\ starts' \in 0 .. MaxStarts /\ session' \in {"none", "open", "closed"}
    BY <1>8, ChannelAssumption
       DEF HttpStart, HttpStop, HttpStopped, Started, StopCalled, StopReturns, http,
           IInv, BaseTypeOK, HttpTypeOK
  <2>3. /\ pc' \in Places
        /\ \A s \in Senders : /\ pc'[s] = "idle" <=> pc[s] = "idle"
                              /\ pc'[s] = "backoff" => attempt[s] <= MaxRetries
    BY <2>1 DEF IInv, BaseTypeOK, HttpInv, Places
  <2>4. FlagOK'
    BY <1>8 DEF IInv, FlagOK, HttpStart, HttpStop, HttpStopped, Started, StopCalled,
                StopReturns
  <2> QED BY <2>1, <2>2, <2>3, <2>4, MoveKeeps
<1>9. ASSUME CloseSession PROVE Kept
  <2>1. \A s \in Senders : /\ pc'[s] = "idle" <=> pc[s] = "idle"
                           /\ pc'[s] = "backoff" => attempt[s] <= MaxRetries
    BY <1>9 DEF IInv, CloseSession, HttpInv
  <2>2. pc' \in Places BY <1>9 DEF IInv, CloseSession, BaseTypeOK, Places
  <2>3. /\ stop' \in {"idle", "server", "rest"}
        /\ starts' \in 0 .. MaxStarts /\ session' \in {"none", "open", "closed"}
    BY <1>9 DEF IInv, CloseSession, BaseTypeOK, Places
  <2>4. UNCHANGED <<kind, status, attempt, post, timedOut>> BY <1>9 DEF CloseSession
  <2>5. FlagOK' BY <1>9 DEF IInv, FlagOK, CloseSession
  <2> QED BY <2>1, <2>2, <2>3, <2>4, <2>5, MoveKeeps
<1> HIDE DEF Kept
<1>10. Kept
  BY <1>1, <1>2, <1>3, <1>4, <1>5, <1>6, <1>7, <1>8, <1>9 DEF HttpNext
<1>11. FlagOK' /\ BaseTypeOK' /\ HttpTypeOK' /\ HttpInv' /\ UNCHANGED kind BY <1>10 DEF Kept
<1>12. kind # "websocket" OBVIOUS
<1> QED BY <1>11, <1>12, SocketFrame DEF IInv

-----------------------------------------------------------------------------
(* WebSocket channels                                                      *)

\* The table stays sound while the same handlers are alive and it is left alone.
LEMMA SameHandlers ==
    ASSUME SocketTypeOK, EntriesSound, UNCHANGED <<who, table, shared>>,
           \A w \in Conns : handler'[w] \in {"reading", "delivering"}
                              <=> handler[w] \in {"reading", "delivering"}
    PROVE  EntriesSound'
<1>1. \A a \in Names : Live(a)' = Live(a) BY DEF Live
<1> QED BY <1>1 DEF EntriesSound

\* A handler ends and takes the entry of its agent with it.
LEMMA EndKeeps ==
    ASSUME SocketTypeOK, EntriesSound, NEW w \in Conns,
           handler[w] \in {"reading", "delivering"} \/ who[w] = Nameless,
           Move(w, "ended"), UNCHANGED <<who, shared>>,
           table' = IF who[w] # Nameless THEN [table EXCEPT ![who[w]] = 0] ELSE table
    PROVE  EntriesSound'
<1> SUFFICES ASSUME NEW a \in Names
             PROVE  /\ table'[a] # 0 => table'[a] \in Live(a)'
                    /\ a \notin shared' => \A v \in Live(a)' : table'[a] = v
  BY DEF EntriesSound
<1> USE SocketAssumption
<1>1. /\ table[a] # 0 => table[a] \in Live(a)
      /\ a \notin shared => \A v \in Live(a) : table[a] = v
  BY DEF EntriesSound
<1>2. Live(a)' = Live(a) \ {w}
  BY DEF Live, Move, SocketTypeOK
<1>3. CASE who[w] = a
  <2>1. table'[a] = 0 BY <1>3 DEF SocketTypeOK
  <2>2. w \in Live(a) BY <1>3 DEF Live
  <2> QED BY <1>1, <1>2, <2>1, <2>2
<1>4. CASE who[w] # a
  <2>1. table'[a] = table[a] BY <1>4 DEF SocketTypeOK
  <2>2. w \notin Live(a) BY <1>4 DEF Live
  <2> QED BY <1>1, <1>2, <2>1, <2>2
<1> QED BY <1>3, <1>4

\* A connection that identifies its agent takes the entry over.
LEMMA IdentifyKeeps ==
    ASSUME SocketTypeOK, EntriesSound, NEW w \in Conns, NEW b \in Names \cup {Nameless},
           Identify(w, b)
    PROVE  EntriesSound'
<1> SUFFICES ASSUME NEW a \in Names
             PROVE  /\ table'[a] # 0 => table'[a] \in Live(a)'
                    /\ a \notin shared' => \A v \in Live(a)' : table'[a] = v
  BY DEF EntriesSound
<1>1. /\ table[a] # 0 => table[a] \in Live(a)
      /\ a \notin shared => \A v \in Live(a) : table[a] = v
  BY DEF EntriesSound
<1>2. w \notin Live(a) BY DEF Identify, Live
<1>3. CASE a = b
  <2>1. table'[a] = w BY <1>3 DEF Identify, SocketTypeOK
  <2>2. Live(a)' = Live(a) \cup {w}
    BY <1>2, <1>3 DEF Live, Move, Identify, SocketTypeOK
  <2>3. a \notin shared' => Live(a) = {} BY <1>3 DEF Identify
  <2> QED BY <2>1, <2>2, <2>3
<1>4. CASE a # b
  <2>1. table'[a] = table[a] /\ shared \subseteq shared'
    BY <1>4 DEF Identify, SocketTypeOK
  <2>2. Live(a)' = Live(a)
    BY <1>2, <1>4 DEF Live, Move, Identify, SocketTypeOK
  <2> QED BY <1>1, <2>1, <2>2
<1> QED BY <1>3, <1>4

\* A handler acts: whoever waits for the handlers to end waits on.
LEMMA HandlerStep ==
    ASSUME IInv, kind = "websocket", NEW w \in Conns,
           \/ Accept(w) \/ Deliver(w) \/ Delivered(w) \/ Lost(w) \/ End(w)
           \/ DeliveryRaises(w) \/ \E a \in Names \cup {Nameless} : Identify(w, a)
    PROVE  SocketTypeOK' /\ SocketInv' /\ UNCHANGED channel
<1>1. UNCHANGED channel
  BY DEF Accept, Deliver, Delivered, Lost, End, DeliveryRaises, Identify
<1>2. SocketTypeOK /\ EntriesSound BY DEF IInv, SocketInv
<1>3. SocketTypeOK'
  <2>1. CASE \E a \in Names \cup {Nameless} : Identify(w, a)
    BY <1>2, <2>1, SocketAssumption DEF SocketTypeOK, Identify, Move, Conns
  <2>2. CASE Accept(w) \/ Deliver(w) \/ Delivered(w) \/ Lost(w)
    BY <1>2, <2>2 DEF SocketTypeOK, Accept, Deliver, Delivered, Lost, Move
  <2>3. CASE End(w) \/ DeliveryRaises(w)
    BY <1>2, <2>3, SocketAssumption DEF SocketTypeOK, End, DeliveryRaises, Move
  <2> QED BY <2>1, <2>2, <2>3
<1>4. EntriesSound'
  <2>1. CASE \E a \in Names \cup {Nameless} : Identify(w, a)
    BY <1>2, <2>1, IdentifyKeeps
  <2>2. CASE Accept(w) \/ Deliver(w) \/ Delivered(w) \/ Lost(w)
    <3>1. \A v \in Conns : handler'[v] \in {"reading", "delivering"}
                             <=> handler[v] \in {"reading", "delivering"}
      BY <1>2, <2>2 DEF SocketTypeOK, Accept, Deliver, Delivered, Lost, Move
    <3>2. UNCHANGED <<who, table, shared>>
      BY <2>2 DEF Accept, Deliver, Delivered, Lost
    <3> QED BY <1>2, <3>1, <3>2, SameHandlers
  <2>3. CASE End(w) \/ DeliveryRaises(w)
    <3>1. handler[w] \in {"reading", "delivering"} \/ who[w] = Nameless
      BY <2>3 DEF End, DeliveryRaises, IInv, SocketInv
    <3> QED BY <1>2, <2>3, <3>1, EndKeeps DEF End, DeliveryRaises
  <2> QED BY <2>1, <2>2, <2>3
<1>5. \A v \in Conns : handler'[v] \in {"none", "new"} => who'[v] = Nameless
  <2>1. \A v \in Conns : handler[v] \in {"none", "new"} => who[v] = Nameless
    BY DEF IInv, SocketInv
  <2> QED BY <1>2, <2>1 DEF SocketTypeOK, Accept, Deliver, Delivered, Lost, End,
                            DeliveryRaises, Identify, Move
<1>6. stop = "rest" \/ ~running => Quiet'
  <2> SUFFICES ASSUME stop = "rest" \/ ~running PROVE Quiet'
    OBVIOUS
  <2>1. Quiet BY DEF IInv, SocketInv
  <2>2. ~Accept(w) BY DEF Accept
  <2>3. UNCHANGED <<handler, table>>
    BY <2>1, <2>2 DEF Quiet, Deliver, Delivered, Lost, End, DeliveryRaises, Identify
  <2> QED BY <2>1, <2>3 DEF Quiet
<1>7. stop # "idle" => running BY DEF IInv, SocketInv
<1> QED BY <1>1, <1>3, <1>4, <1>5, <1>6, <1>7 DEF SocketInv, channel

\* Handlers and table are left alone by what does not concern them.
LEMMA TableStays ==
    ASSUME IInv, kind = "websocket", UNCHANGED <<handler, who, table, shared>>,
           stop' # "idle" => running', stop' = "rest" \/ ~running' => Quiet,
           SocketTypeOK'
    PROVE  SocketInv'
<1>1. EntriesSound' BY SameHandlers DEF IInv, SocketInv
<1>2. Quiet => Quiet' BY DEF Quiet
<1> QED BY <1>1, <1>2 DEF IInv, SocketInv

\* Operations of a WebSocket channel keep the invariant.
LEMMA SocketStep ==
    ASSUME IInv, kind = "websocket", SocketNext, UNCHANGED http
    PROVE  IInv'
<1> DEFINE Kept == FlagOK' /\ BaseTypeOK' /\ SocketTypeOK' /\ SocketInv' /\ UNCHANGED kind
<1>0. FlagOK /\ BaseTypeOK /\ SocketTypeOK BY DEF IInv
<1>1. ASSUME UNCHANGED channel PROVE FlagOK' /\ BaseTypeOK' /\ UNCHANGED kind
  BY <1>0, <1>1 DEF FlagOK, BaseTypeOK, channel
<1>2. ASSUME NEW w \in Conns,
             \/ Accept(w) \/ Deliver(w) \/ Delivered(w) \/ Lost(w) \/ End(w)
             \/ DeliveryRaises(w) \/ \E a \in Names \cup {Nameless} : Identify(w, a)
      PROVE  Kept
  BY <1>1, <1>2, HandlerStep
<1>3. ASSUME NEW s \in Senders, (\E a \in Names : SocketSend(s, a)) \/ Written(s)
      PROVE  Kept
  <2>1. UNCHANGED <<kind, running, stop, starts, handler, up, who, table, shared>>
    BY <1>3 DEF SocketSend, Written, sockets
  <2>2. pc' \in Places /\ status' \in [Senders -> Statuses]
    BY <1>0, <1>3 DEF BaseTypeOK, Places, Statuses, SocketSend, Written, Returned, Suspend
  <2>3. via' \in [Senders -> 0 .. MaxConns]
    BY <1>0, <1>3 DEF SocketTypeOK, SocketSend, Written, sockets
  <2>4. FlagOK' /\ BaseTypeOK' BY <1>0, <2>1, <2>2 DEF FlagOK, BaseTypeOK
  <2>5. SocketTypeOK' BY <1>0, <2>1, <2>3 DEF SocketTypeOK
  <2>6. SocketInv'
    <3>1. stop' # "idle" => running' BY <2>1 DEF IInv, SocketInv
    <3>2. stop' = "rest" \/ ~running' => Quiet BY <2>1 DEF IInv, SocketInv
    <3> QED BY <2>1, <2>5, <3>1, <3>2, TableStays
  <2> QED BY <2>1, <2>4, <2>5, <2>6
<1>4. ASSUME SocketStart \/ SocketStop \/ SocketStopped PROVE Kept
  <2>1. UNCHANGED <<kind, pc, status, handler, who, table, via, shared>>
    BY <1>4 DEF SocketStart, SocketStop, SocketStopped, Started, StopCalled, StopReturns,
                sockets
  <2>2. FlagOK'
    BY <1>0, <1>4 DEF FlagOK, SocketStart, SocketStop, SocketStopped, Started, StopCalled,
                      StopReturns
  <2>3. starts' \in 0 .. MaxStarts /\ stop' \in {"idle", "server", "rest"}
    BY <1>0, <1>4, ChannelAssumption
       DEF BaseTypeOK, SocketStart, SocketStop, SocketStopped, Started, StopCalled,
           StopReturns
  <2>4. up' \subseteq Conns
    BY <1>0, <1>4 DEF SocketTypeOK, SocketStart, SocketStop, SocketStopped, sockets
  <2>5. BaseTypeOK' BY <1>0, <2>1, <2>3 DEF BaseTypeOK
  <2>6. SocketTypeOK' BY <1>0, <2>1, <2>4 DEF SocketTypeOK
  <2>7. SocketInv'
    <3>1. /\ stop # "idle" => running
          /\ stop = "rest" \/ ~running => Quiet
      BY DEF IInv, SocketInv
    <3>2. stop' # "idle" => running'
      BY <1>4 DEF SocketStart, SocketStop, SocketStopped, Started, StopCalled, StopReturns
    <3>3. stop' = "rest" \/ ~running' => Quiet
      BY <1>4, <3>1
         DEF SocketStart, SocketStop, SocketStopped, Started, StopCalled, StopReturns
    <3> QED BY <2>1, <2>6, <3>2, <3>3, TableStays
  <2> QED BY <2>1, <2>2, <2>5, <2>6, <2>7
<1>5. ASSUME ServerClosed PROVE Kept
  <2>1. /\ UNCHANGED <<kind, running, starts, pc, status, handler, up, who, via, shared>>
        /\ stop = "server" /\ stop' = "rest"
    BY <1>5 DEF ServerClosed
  <2>2. \A w \in Conns : handler'[w] \in {"none", "ended"}
    BY <1>5, <2>1 DEF ServerClosed
  <2>3. table' = [a \in Names \cup {Nameless} |-> 0]
    BY <1>0, <1>5 DEF ServerClosed, SocketTypeOK
  <2>4. FlagOK' /\ UNCHANGED kind BY <1>0, <2>1 DEF FlagOK
  <2>5. BaseTypeOK' BY <1>0, <2>1 DEF BaseTypeOK
  <2>6. SocketTypeOK' BY <1>0, <2>1, <2>3, SocketAssumption DEF SocketTypeOK
  <2>7. Quiet' BY <2>2, <2>3 DEF Quiet
  <2>8. EntriesSound' BY <2>2, <2>3 DEF EntriesSound, Live
  <2>9. /\ running'
        /\ \A w \in Conns : handler'[w] \in {"none", "new"} => who'[w] = Nameless
    BY <2>1 DEF IInv, SocketInv
  <2> QED BY <2>4, <2>5, <2>6, <2>7, <2>8, <2>9 DEF SocketInv
<1> HIDE DEF Kept
<1>6. Kept
  <2>1. CASE \E w \in Conns, a \in Names \cup {Nameless} : Identify(w, a)
    BY <1>2, <2>1
  <2>2. CASE \E w \in Conns : Accept(w) \/ Deliver(w) \/ Delivered(w) \/ Lost(w)
                              \/ End(w) \/ DeliveryRaises(w)
    BY <1>2, <2>2
  <2>3. CASE \/ \E s \in Senders, a \in Names : SocketSend(s, a)
             \/ \E s \in Senders : Written(s)
    BY <1>3, <2>3
  <2> QED BY <1>4, <1>5, <2>1, <2>2, <2>3 DEF SocketNext
<1>7. kind # "http" OBVIOUS
<1>8. FlagOK' /\ BaseTypeOK' /\ SocketTypeOK' /\ SocketInv' /\ UNCHANGED kind
  BY <1>6 DEF Kept
<1> QED BY <1>7, <1>8, HttpFrame DEF IInv

-----------------------------------------------------------------------------
(* The theorems                                                            *)

\* A send that raises at once leaves everything else alone.
LEMMA RaisesStep ==
    ASSUME IInv, NEW s \in Senders, SendRaises(s), UNCHANGED <<http, sockets>>
    PROVE  IInv'
<1>1. UNCHANGED <<kind, running, stop, starts>> BY DEF SendRaises
<1>2. CASE kind = "http"
  <2>1. timedOut \subseteq Senders BY DEF IInv, HttpTypeOK
  <2>2. FlagOK' /\ BaseTypeOK' /\ HttpTypeOK' /\ HttpInv'
    BY <1>2, <2>1, ReturnKeeps DEF SendRaises, Statuses, http
  <2>3. kind # "websocket" BY <1>2
  <2> QED BY <1>1, <2>2, <2>3, SocketFrame DEF IInv
<1>3. CASE kind # "http"
  <2>1. FlagOK' BY <1>1 DEF IInv, FlagOK
  <2>2. BaseTypeOK'
    BY <1>1 DEF IInv, BaseTypeOK, Places, SendRaises, Returned, Statuses
  <2>3. SocketTypeOK' BY DEF IInv, SocketTypeOK, sockets
  <2>4. SocketInv'
    <3>1. EntriesSound' BY SameHandlers DEF IInv, SocketInv, sockets
    <3>2. Quiet => Quiet' BY DEF Quiet, sockets
    <3> QED BY <1>1, <3>1, <3>2 DEF IInv, SocketInv, sockets
  <2> QED BY <1>1, <1>3, <2>1, <2>2, <2>3, <2>4, HttpFrame DEF IInv
<1> QED BY <1>2, <1>3

\* Every step keeps the invariant.
LEMMA StepInv == IInv /\ [Next]_vars => IInv'
<1> SUFFICES ASSUME IInv, [Next]_vars PROVE IInv'
  OBVIOUS
<1>1. CASE \E s \in Senders : SendRaises(s) /\ UNCHANGED <<http, sockets>>
  BY <1>1, RaisesStep
<1>2. CASE kind = "local" /\ LocalNext /\ UNCHANGED <<http, sockets>>
  BY <1>2, LocalStep
<1>3. CASE kind = "http" /\ HttpNext /\ UNCHANGED sockets
  BY <1>3, HttpStep
<1>4. CASE kind = "websocket" /\ SocketNext /\ UNCHANGED http
  BY <1>4, SocketStep
<1>5. CASE UNCHANGED vars
  <2>1. FlagOK' BY <1>5 DEF IInv, FlagOK, vars, channel
  <2>2. BaseTypeOK' BY <1>5 DEF IInv, BaseTypeOK, vars, channel
  <2>3. HttpTypeOK' /\ HttpInv'
    BY <1>5 DEF IInv, HttpTypeOK, HttpInv, StatusHonest, vars, channel, http
  <2>4. SocketTypeOK' BY <1>5 DEF IInv, SocketTypeOK, vars, sockets
  <2>5. SocketInv'
    <3>1. EntriesSound' BY <1>5, SameHandlers DEF IInv, SocketInv, vars, sockets
    <3>2. Quiet => Quiet' BY <1>5 DEF Quiet, vars, sockets
    <3> QED BY <1>5, <3>1, <3>2 DEF IInv, SocketInv, vars, channel, sockets
  <2> QED BY <2>1, <2>2, <2>3, <2>4, <2>5 DEF IInv
<1> QED BY <1>1, <1>2, <1>3, <1>4, <1>5 DEF Next

\* The invariant is one of the specification.
LEMMA Invariance == Spec => []IInv
  BY InitInv, StepInv, PTL DEF Spec

\* Channels, posts and connections keep their types.
THEOREM TypeCorrect == Spec => []TypeOK
<1> IInv => TypeOK
  BY DEF IInv, TypeOK, FlagOK, BaseTypeOK, Places
<1> QED BY Invariance, PTL

\* What an HTTP send reports is justified by its tries.
THEOREM Honest == Spec => []StatusHonest
<1> IInv => StatusHonest BY DEF IInv, HttpInv, StatusHonest
<1> QED BY Invariance, PTL

\* The table of a WebSocket channel leads to connected agents, and to all of them whose
\* connections did not overlap; a stopped channel has no handlers and no entries.
THEOREM EntriesLead == Spec => []TableSound
<1> IInv => TableSound
  <2> SUFFICES ASSUME IInv PROVE TableSound
    OBVIOUS
  <2>1. EntriesSound BY DEF IInv, SocketInv
  <2>2. kind = "websocket" /\ ~running => Quiet BY DEF IInv, SocketInv
  <2>3. DOMAIN table = Names \cup {Nameless} BY DEF IInv, SocketTypeOK
  <2> QED BY <2>1, <2>2, <2>3 DEF TableSound, EntriesSound, Quiet
<1> QED BY Invariance, PTL

-----------------------------------------------------------------------------
(* A send by HTTP is a remote call                                         *)

OkTries(s) == {n \in Tries : post[<<s, n>>] = "ok"}

\* The other side has handled at most as many copies as there are tries.
LEMMA CopiesCount ==
    ASSUME NEW s \in Senders
    PROVE  /\ IsFiniteSet(OkTries(s)) /\ Copies[s] = Cardinality(OkTries(s))
           /\ Copies[s] \in Nat /\ Copies[s] <= MaxRetries + 1
<1>1. IsFiniteSet(Tries) /\ Cardinality(Tries) = MaxRetries + 1
  BY HttpAssumption, FS_Interval DEF Tries
<1>2. OkTries(s) \in SUBSET Tries BY DEF OkTries
<1>3. Copies[s] = Cardinality(OkTries(s)) BY DEF Copies, OkTries
<1> QED BY <1>1, <1>2, <1>3, FS_Subset, FS_CardinalityType

\* Steps that finish no handler change no count.
LEMMA CopiesStay ==
    ASSUME \A s \in Senders, n \in Tries : post'[<<s, n>>] = "ok" <=> post[<<s, n>>] = "ok"
    PROVE  UNCHANGED Copies
<1>1. \A s \in Senders : OkTries(s)' = OkTries(s) BY DEF OkTries
<1>2. Copies = [s \in Senders |-> Cardinality(OkTries(s))] BY DEF Copies, OkTries
<1>3. Copies' = [s \in Senders |-> Cardinality(OkTries(s)')] BY DEF Copies, OkTries
<1> QED BY <1>1, <1>2, <1>3

\* A handler that finishes adds one copy to the count of its sender.
LEMMA CopiesGrow ==
    ASSUME HttpTypeOK, NEW s \in Senders, NEW n \in Tries, Handled(<<s, n>>)
    PROVE  Copies' = [Copies EXCEPT ![s] = @ + 1] /\ Copies[s] < MaxRetries + 1
<1>1. post[<<s, n>>] = "handling" /\ post' = [post EXCEPT ![<<s, n>>] = "ok"]
  BY DEF Handled
<1>2. \A t \in Senders, k \in Tries :
         post'[<<t, k>>] = IF t = s /\ k = n THEN "ok" ELSE post[<<t, k>>]
  BY <1>1 DEF HttpTypeOK
<1>3. OkTries(s)' = OkTries(s) \cup {n} /\ n \notin OkTries(s) BY <1>1, <1>2 DEF OkTries
<1>4. \A t \in Senders : t # s => OkTries(t)' = OkTries(t) BY <1>2 DEF OkTries
<1>5. Cardinality(OkTries(s)') = Copies[s] + 1 /\ Copies[s] \in Nat
  BY <1>3, CopiesCount, FS_AddElement
<1>6. Copies[s] + 1 <= MaxRetries + 1
  <2>1. IsFiniteSet(Tries) /\ Cardinality(Tries) = MaxRetries + 1
    BY HttpAssumption, FS_Interval DEF Tries
  <2>2. OkTries(s)' \in SUBSET Tries BY DEF OkTries
  <2> QED BY <1>5, <2>1, <2>2, FS_Subset
<1>7. Copies = [t \in Senders |-> Cardinality(OkTries(t))] BY DEF Copies, OkTries
<1>8. Copies' = [t \in Senders |-> Cardinality(OkTries(t)')] BY DEF Copies, OkTries
<1> QED BY <1>4, <1>5, <1>6, <1>7, <1>8, HttpAssumption, CopiesCount

\* What a sender is told is decided by its own try and status.
LEMMA OutcomeStep ==
    ASSUME NEW s \in Senders, kind' = kind,
           \A t \in Senders : t # s => attempt'[t] = attempt[t] /\ status'[t] = status[t]
    PROVE  Outcome' = [Outcome EXCEPT ![s] = Outcome'[s]]
<1>1. \A t \in Senders : t # s => Outcome'[t] = Outcome[t] BY DEF Outcome
<1>2. Outcome = [t \in Senders |-> Outcome[t]] /\ Outcome' = [t \in Senders |-> Outcome'[t]]
  BY DEF Outcome
<1> QED BY <1>1, <1>2

\* Nothing that leaves class, tries and statuses alone changes an outcome.
LEMMA OutcomeStays == UNCHANGED <<kind, attempt, status>> => UNCHANGED Outcome
  BY DEF Outcome

\* A send under way is pending; a value of its own for every status.
LEMMA OutcomeOf ==
    ASSUME NEW s \in Senders, kind = "http", attempt[s] # 0
    PROVE  Outcome[s] = CASE status[s] = "DELIVERED" -> "yes"
                          [] status[s] = "FAILED" -> "no"
                          [] OTHER -> "pending"
  BY DEF Outcome

\* A send that returns reports to its caller, or leaves it pending when it is cancelled.
LEMMA ReturnReports ==
    ASSUME IInv, kind = "http", NEW s \in Senders, pc[s] # "idle",
           NEW o \in Statuses, Returned(s, o), UNCHANGED <<kind, attempt, post>>
    PROVE  /\ o = "DELIVERED" /\ post[<<s, attempt[s]>>] = "ok" => Remote!Report(s, "yes")
           /\ o = "FAILED" => Remote!Report(s, "no")
           /\ o = "RAISED" => UNCHANGED Remote!vars
<1>1. status[s] = "none" /\ attempt[s] >= 1 /\ attempt[s] \in 0 .. MaxRetries + 1
  BY DEF IInv, HttpInv, HttpTypeOK
<1>2. status' = [status EXCEPT ![s] = o] /\ status \in [Senders -> Statuses]
  BY DEF Returned, IInv, BaseTypeOK
<1>3. attempt[s] # 0 BY <1>1
<1>4. Outcome[s] = "pending" BY <1>1, <1>3, OutcomeOf
<1>5. Outcome'[s] = CASE o = "DELIVERED" -> "yes" [] o = "FAILED" -> "no" [] OTHER -> "pending"
  BY <1>2, <1>3 DEF Outcome
<1>6. Outcome' = [Outcome EXCEPT ![s] = Outcome'[s]] BY <1>2, OutcomeStep
<1>7. UNCHANGED Copies BY CopiesStay
<1>8. Copies' = [Copies EXCEPT ![s] = Copies[s]]
  BY <1>7 DEF Copies
<1>9. ASSUME o = "RAISED" PROVE UNCHANGED Remote!vars
  <2>1. Outcome'[s] = Outcome[s] BY <1>4, <1>5, <1>9
  <2> QED BY <1>6, <1>7, <2>1 DEF Outcome, Remote!vars
<1>10. ASSUME o = "FAILED" PROVE Remote!Report(s, "no")
  <2>1. Outcome' = [Outcome EXCEPT ![s] = "no"] BY <1>5, <1>6, <1>10
  <2> QED BY <1>4, <1>8, <2>1, CopiesCount DEF Remote!Report
<1>11. ASSUME o = "DELIVERED", post[<<s, attempt[s]>>] = "ok" PROVE Remote!Report(s, "yes")
  <2>1. Outcome' = [Outcome EXCEPT ![s] = "yes"] BY <1>5, <1>6, <1>11
  <2>2. attempt[s] \in OkTries(s) BY <1>1, <1>11, HttpAssumption DEF OkTries, Tries
  <2>3. Copies[s] # 0 BY <2>2, CopiesCount, FS_EmptySet
  <2>4. Copies[s] >= 1 BY <2>3, CopiesCount
  <2> QED BY <1>4, <1>8, <2>1, <2>4, CopiesCount DEF Remote!Report
<1> QED BY <1>9, <1>10, <1>11

\* A try that begins has been handled by nobody; the first one begins the call.
LEMMA PostBegins ==
    ASSUME IInv, kind = "http", NEW s \in Senders, NEW n \in Tries, Post(s, n),
           status[s] = "none", n = attempt[s] + 1, UNCHANGED <<kind, status>>
    PROVE  Remote!Begin(s) \/ UNCHANGED Remote!vars
<1>1. /\ attempt' = [attempt EXCEPT ![s] = n]
      /\ post' = [post EXCEPT ![<<s, n>>] = "sent"] \/ post' = post
  BY DEF Post
<1>2. attempt \in [Senders -> 0 .. MaxRetries + 1] /\ n \in Nat /\ n # 0
  BY HttpAssumption DEF IInv, HttpTypeOK, Tries
<1>3. \A k \in Tries : k > attempt[s] => post[<<s, k>>] = "none"
  BY DEF IInv, HttpInv, StatusHonest
<1>4. post[<<s, n>>] = "none" BY <1>2, <1>3
<1>5. UNCHANGED Copies
  <2>1. \A t \in Senders, k \in Tries : <<t, k>> # <<s, n>> => post'[<<t, k>>] = post[<<t, k>>]
    BY <1>1 DEF IInv, HttpTypeOK
  <2>2. post'[<<s, n>>] # "ok" BY <1>1, <1>4 DEF IInv, HttpTypeOK
  <2> QED BY <1>4, <2>1, <2>2, CopiesStay
<1>6. Outcome'[s] = "pending" BY <1>1, <1>2 DEF Outcome
<1>7. Outcome' = [Outcome EXCEPT ![s] = "pending"] BY <1>1, <1>2, <1>6, OutcomeStep
<1>8. CASE attempt[s] = 0
  <2>1. Outcome[s] # "pending" BY <1>8 DEF Outcome
  <2>2. OkTries(s) = {}
    <3>1. \A k \in Tries : k > 0 BY HttpAssumption DEF Tries
    <3> QED BY <1>3, <1>8, <3>1 DEF OkTries
  <2>3. Copies[s] = 0 BY <2>2, CopiesCount, FS_EmptySet
  <2>4. Copies' = [Copies EXCEPT ![s] = 0] BY <1>5, <2>3 DEF Copies
  <2> QED BY <1>7, <2>1, <2>4 DEF Remote!Begin
<1>9. CASE attempt[s] # 0
  <2>1. Outcome[s] = "pending" BY <1>9, OutcomeOf
  <2>2. UNCHANGED Outcome BY <1>7, <2>1 DEF Outcome
  <2> QED BY <1>5, <2>2 DEF Remote!vars
<1> QED BY <1>8, <1>9

\* Every step of an HTTP channel is a step of the remote call or a stutter.
LEMMA HttpCalls ==
    ASSUME IInv, kind = "http", HttpNext
    PROVE  Remote!Next \/ UNCHANGED Remote!vars
<1> USE DEF Remote!vars
<1>1. ASSUME NEW s \in Senders, HttpSend(s) \/ Retry(s)
      PROVE  Remote!Begin(s) \/ UNCHANGED Remote!vars
  <2>1. attempt[s] \in 0 .. MaxRetries + 1 BY DEF IInv, HttpTypeOK
  <2>2. CASE HttpSend(s)
    <3>1. attempt[s] = 0 BY <2>2 DEF HttpSend, Calls, IInv, HttpInv
    <3>2. 1 \in Tries /\ 1 = attempt[s] + 1 BY <3>1, HttpAssumption DEF Tries
    <3> QED BY <2>2, <3>2, PostBegins DEF HttpSend, Calls
  <2>3. CASE Retry(s)
    <3>1. attempt[s] <= MaxRetries /\ status[s] = "none" BY <2>3 DEF Retry, IInv, HttpInv
    <3>2. attempt[s] + 1 \in Tries BY <2>1, <3>1, HttpAssumption DEF Tries
    <3> QED BY <2>3, <3>1, <3>2, PostBegins DEF Retry
  <2> QED BY <1>1, <2>2, <2>3
<1>2. ASSUME NEW s \in Senders, Answered(s) \/ PostFails(s) \/ TimeOut(s) \/ HttpCancel(s)
      PROVE  \/ Remote!Report(s, "yes") \/ Remote!Report(s, "no") \/ UNCHANGED Remote!vars
  <2>1. pc[s] # "idle" /\ UNCHANGED <<kind, attempt, post>>
    BY <1>2 DEF Answered, PostFails, TimeOut, HttpCancel, http
  <2>2. \/ Returned(s, "DELIVERED") /\ post[<<s, attempt[s]>>] = "ok"
        \/ Returned(s, "FAILED") \/ Returned(s, "RAISED") \/ UNCHANGED status
    BY <1>2 DEF Answered, PostFails, TimeOut, HttpCancel
  <2>3. CASE UNCHANGED status BY <2>1, <2>3, OutcomeStays, CopiesStay
  <2> QED BY <2>1, <2>2, <2>3, ReturnReports DEF Statuses
<1>3. ASSUME NEW p \in Senders \X Tries, Handle(p) \/ Refuse(p) PROVE UNCHANGED Remote!vars
  <2>1. UNCHANGED <<kind, attempt, status>> BY <1>3 DEF Handle, Refuse, channel
  <2>2. \A s \in Senders, n \in Tries : post'[<<s, n>>] = "ok" <=> post[<<s, n>>] = "ok"
    BY <1>3 DEF IInv, HttpTypeOK, Handle, Refuse
  <2> QED BY <2>1, <2>2, OutcomeStays, CopiesStay
<1>4. ASSUME NEW s \in Senders, NEW n \in Tries, Handled(<<s, n>>) PROVE Remote!Act(s)
  <2>1. UNCHANGED <<kind, attempt, status>> BY <1>4 DEF Handled, channel
  <2>2. attempt[s] # 0
    <3>1. post[<<s, n>>] # "none" BY <1>4 DEF Handled
    <3>2. ~(n > attempt[s]) BY <3>1 DEF IInv, HttpInv, StatusHonest
    <3> QED BY <3>2, HttpAssumption DEF Tries, IInv, HttpTypeOK
  <2>3. Outcome[s] # "none" BY <2>2, OutcomeOf
  <2>4. Copies' = [Copies EXCEPT ![s] = @ + 1] /\ Copies[s] < MaxRetries + 1
    BY <1>4, CopiesGrow DEF IInv
  <2> QED BY <2>1, <2>3, <2>4, OutcomeStays DEF Remote!Act
<1>5. CASE HttpStart \/ HttpStop \/ CloseSession \/ HttpStopped
  <2>1. UNCHANGED <<kind, attempt, status, post>>
    BY <1>5 DEF HttpStart, HttpStop, CloseSession, HttpStopped, Started, StopCalled,
                StopReturns, http
  <2> QED BY <2>1, OutcomeStays, CopiesStay
<1>6. \A p \in Senders \X Tries : Handled(p) => \E s \in Senders : Remote!Act(s)
  BY <1>4
<1>7. CASE \E s \in Senders : \/ Remote!Begin(s) \/ Remote!Act(s)
                              \/ Remote!Report(s, "yes") \/ Remote!Report(s, "no")
  BY <1>7 DEF Remote!Next
<1> QED BY <1>1, <1>2, <1>3, <1>5, <1>6, <1>7 DEF HttpNext

\* So is every step of a channel of any class.
LEMMA StepCalls == IInv /\ [Next]_vars => [Remote!Next]_(Remote!vars)
<1> SUFFICES ASSUME IInv, [Next]_vars PROVE Remote!Next \/ UNCHANGED Remote!vars
  OBVIOUS
<1>1. ASSUME NEW s \in Senders, SendRaises(s), UNCHANGED http PROVE UNCHANGED Remote!vars
  <2>1. /\ kind' = kind /\ attempt' = attempt /\ post' = post
        /\ status' = [status EXCEPT ![s] = "RAISED"]
    BY <1>1 DEF SendRaises, Returned, http
  <2>2. kind = "http" => attempt[s] = 0 BY <1>1 DEF SendRaises, IInv, HttpInv
  <2>3. Outcome'[s] = Outcome[s] BY <2>1, <2>2 DEF Outcome
  <2>4. Outcome' = [Outcome EXCEPT ![s] = Outcome'[s]]
    BY <2>1, OutcomeStep DEF IInv, BaseTypeOK
  <2>5. UNCHANGED Outcome BY <2>3, <2>4 DEF Outcome
  <2> QED BY <2>1, <2>5, CopiesStay DEF Remote!vars
<1>2. ASSUME kind # "http", UNCHANGED <<kind, http>> PROVE UNCHANGED Remote!vars
  BY <1>2, CopiesStay DEF Outcome, http, Remote!vars
<1>3. CASE kind = "local" /\ LocalNext /\ UNCHANGED <<http, sockets>>
  <2>1. UNCHANGED kind
    BY <1>3 DEF LocalNext, LocalSend, LocalReturns, LocalStart, LocalStop, Started
  <2> QED BY <1>2, <1>3, <2>1
<1>4. CASE kind = "websocket" /\ SocketNext /\ UNCHANGED http
  <2>1. UNCHANGED kind
    BY <1>4 DEF SocketNext, Accept, Identify, Deliver, Delivered, Lost, End, DeliveryRaises,
                SocketSend, Written, SocketStart, SocketStop, ServerClosed, SocketStopped,
                Started, StopCalled, StopReturns, channel
  <2> QED BY <1>2, <1>4, <2>1
<1>5. CASE UNCHANGED vars
  BY <1>5, OutcomeStays, CopiesStay DEF vars, channel, http, Remote!vars
<1> QED BY <1>1, <1>3, <1>4, <1>5, HttpCalls DEF Next

\* HTTPChannel.send implements the remote call, for any senders, retries and restarts.
THEOREM CallsRemote == Spec => ImplementsRemoteCall
<1>1. Init => Remote!Init
  <2> SUFFICES ASSUME Init PROVE Remote!Init
    OBVIOUS
  <2>1. \A s \in Senders : attempt[s] = 0 /\ OkTries(s) = {}
    BY DEF Init, HttpInit, OkTries
  <2>2. Outcome = [s \in Senders |-> "none"]
    BY <2>1 DEF Outcome
  <2>3. Copies = [s \in Senders |-> Cardinality(OkTries(s))] BY DEF Copies, OkTries
  <2> QED BY <2>1, <2>2, <2>3, FS_EmptySet DEF Remote!Init
<1> QED BY <1>1, Invariance, StepCalls, PTL DEF Spec, ImplementsRemoteCall, Remote!Spec

-----------------------------------------------------------------------------
(* What CallsReturn rests on: no call is stuck, and none goes on for ever  *)
(* (fairness, which lets what can go on do so, is left to TLC)             *)

\* Places an HTTP send may be in, a session once there is something to send, and no
\* open connection while a WebSocket server waits for its handlers.
CallInv ==
    /\ kind = "http" =>
          /\ \A s \in Senders : pc[s] \in {"idle", "posting", "failing", "backoff"}
          /\ running \/ (\E s \in Senders : pc[s] # "idle") => session # "none"
    /\ kind = "websocket" /\ stop = "server" => up = {}

\* A send under way has a step to take that needs nobody else: its post may fail (within
\* the tries there are), or its sleep be over and a session be there to post with.
SendsGoOn ==
    kind = "http" =>
        \A s \in Senders : pc[s] # "idle" =>
            \/ pc[s] \in {"posting", "failing"} /\ attempt[s] \in Tries
            \/ pc[s] = "backoff" /\ attempt[s] + 1 \in Tries /\ session \in {"open", "closed"}

\* The steps a send has left: three places for every try to come, and where it is.
StepsLeft(s) ==
    IF pc[s] = "idle" THEN 0
    ELSE 3 * (MaxRetries + 1 - attempt[s])
         + (CASE pc[s] = "posting" -> 3 [] pc[s] = "failing" -> 2 [] OTHER -> 1)

\* Whatever happens to a send under way brings it nearer to its end.
SendsRunOut ==
    [][kind = "http" =>
        \A s \in Senders : pc[s] # "idle" =>
            \/ StepsLeft(s)' < StepsLeft(s)
            \/ pc'[s] = pc[s] /\ attempt'[s] = attempt[s]]_vars

Alive      == {w \in Conns : handler[w] \in {"new", "reading", "delivering"}}
Delivering == {w \in Conns : handler[w] = "delivering"}

\* A stop of a WebSocket channel can go on, or a handler that keeps it waiting can end,
\* or is waiting for broker.send.
StopGoesOn ==
    kind = "websocket" /\ stop # "idle" =>
        \/ stop = "rest" \/ Alive = {} \/ Delivering # {}
        \/ \E w \in Alive : handler[w] \in {"new", "reading"} /\ w \notin up

\* While stop waits no handler begins, none delivers another message, and every step of
\* one brings stop nearer to its end.
StopRunsOut ==
    [][kind = "websocket" /\ stop = "server" /\ stop' = "server" =>
        /\ Alive' \subseteq Alive /\ Delivering' \subseteq Delivering
        /\ \/ UNCHANGED handler
           \/ Alive' # Alive \/ Delivering' # Delivering]_vars

\* An HTTP channel keeps its part.
LEMMA HttpCallStep ==
    ASSUME IInv, CallInv, kind = "http", HttpNext
    PROVE  /\ kind' = kind
           /\ \A s \in Senders : pc'[s] \in {"idle", "posting", "failing", "backoff"}
           /\ running' \/ (\E s \in Senders : pc'[s] # "idle") => session' # "none"
<1> DEFINE P == {"idle", "posting", "failing", "backoff"}
<1>0. /\ pc \in [Senders -> P]
      /\ running \/ (\E s \in Senders : pc[s] # "idle") => session # "none"
  BY DEF CallInv, IInv, BaseTypeOK, Places
<1>1. ASSUME NEW s \in Senders,
             HttpSend(s) \/ Answered(s) \/ PostFails(s) \/ Retry(s) \/ TimeOut(s) \/ HttpCancel(s)
      PROVE  /\ kind' = kind /\ running' = running
             /\ \E w \in P : pc' = [pc EXCEPT ![s] = w]
             /\ session # "none" /\ session' = session
  <2>1. session # "none" /\ session' = session /\ kind' = kind /\ running' = running
    BY <1>0, <1>1
       DEF HttpSend, Calls, Answered, PostFails, Retry, TimeOut, HttpCancel, http
  <2>2. \E w \in P : pc' = [pc EXCEPT ![s] = w]
    BY <1>1 DEF HttpSend, Post, Suspend, Answered, PostFails, Retry, TimeOut, HttpCancel,
                Returned
  <2> QED BY <2>1, <2>2
<1>2. ASSUME NEW p \in Senders \X Tries, Handle(p) \/ Handled(p) \/ Refuse(p)
      PROVE  UNCHANGED <<kind, running, pc, session>>
  BY <1>2 DEF Handle, Handled, Refuse, channel
<1>3. CASE HttpStart \/ HttpStop \/ HttpStopped
  <2>1. UNCHANGED <<kind, pc>> /\ (session' = session \/ session' = "open")
    BY <1>3 DEF HttpStart, HttpStop, HttpStopped, Started, StopCalled, StopReturns, http
  <2>2. session' = "open" \/ (running' => running)
    BY <1>3 DEF HttpStart, HttpStop, HttpStopped, StopCalled, StopReturns
  <2> QED BY <1>0, <2>1, <2>2
<1>4. CASE CloseSession
  <2>1. kind' = kind /\ session' = "closed"
        /\ pc' = [s \in Senders |-> IF pc[s] = "posting" THEN "failing" ELSE pc[s]]
    BY <1>4 DEF CloseSession
  <2> QED BY <1>0, <2>1
<1>5. CASE \E s \in Senders :
             HttpSend(s) \/ Answered(s) \/ PostFails(s) \/ Retry(s) \/ TimeOut(s) \/ HttpCancel(s)
  BY <1>0, <1>1, <1>5
<1>6. CASE \E p \in Senders \X Tries : Handle(p) \/ Handled(p) \/ Refuse(p)
  BY <1>0, <1>2, <1>6
<1> QED BY <1>3, <1>4, <1>5, <1>6 DEF HttpNext

\* So does a WebSocket channel: nobody connects while it stops.
LEMMA SocketCallStep ==
    ASSUME CallInv, kind = "websocket", SocketNext
    PROVE  kind' = kind /\ (stop' = "server" => up' = {})
<1>0. stop = "server" => up = {} BY DEF CallInv
<1>1. ASSUME NEW w \in Conns, \/ \E a \in Names \cup {Nameless} : Identify(w, a)
                              \/ Accept(w) \/ Deliver(w) \/ Delivered(w) \/ Lost(w)
                              \/ End(w) \/ DeliveryRaises(w)
      PROVE  /\ UNCHANGED <<kind, stop>>
             /\ up' \subseteq up \/ stop = "idle"
  BY <1>1 DEF Identify, Accept, Deliver, Delivered, Lost, End, DeliveryRaises, channel
<1>2. ASSUME NEW s \in Senders, (\E a \in Names : SocketSend(s, a)) \/ Written(s)
      PROVE  UNCHANGED <<kind, stop, up>>
  BY <1>2 DEF SocketSend, Written, sockets
<1>3. CASE SocketStart \/ SocketStop \/ ServerClosed \/ SocketStopped
  BY <1>0, <1>3 DEF SocketStart, SocketStop, ServerClosed, SocketStopped, Started, StopCalled,
                    StopReturns, sockets
<1> QED BY <1>0, <1>1, <1>2, <1>3 DEF SocketNext

\* CallInv is an invariant.
LEMMA CallInvariance == Spec => []CallInv
<1>1. Init => CallInv
  BY DEF Init, CallInv, ChannelInit
<1>2. IInv /\ CallInv /\ [Next]_vars => CallInv'
  <2> SUFFICES ASSUME IInv, CallInv, [Next]_vars PROVE CallInv'
    OBVIOUS
  <2>1. ASSUME NEW s \in Senders, SendRaises(s), UNCHANGED <<http, sockets>> PROVE CallInv'
    <3>1. /\ UNCHANGED <<kind, running, stop, session, up>>
          /\ pc[s] = "idle" /\ pc' = [pc EXCEPT ![s] = "idle"]
      BY <2>1 DEF SendRaises, Returned, http, sockets
    <3>2. pc' = pc BY <3>1 DEF IInv, BaseTypeOK, Places
    <3> QED BY <3>1, <3>2 DEF CallInv
  <2>2. CASE kind = "local" /\ LocalNext /\ UNCHANGED <<http, sockets>>
    <3>1. kind' = "local"
      BY <2>2 DEF LocalNext, LocalSend, LocalReturns, LocalStart, LocalStop, Started
    <3> QED BY <3>1 DEF CallInv
  <2>3. CASE kind = "http" /\ HttpNext /\ UNCHANGED sockets
    BY <2>3, HttpCallStep DEF CallInv
  <2>4. CASE kind = "websocket" /\ SocketNext /\ UNCHANGED http
    BY <2>4, SocketCallStep DEF CallInv
  <2>5. CASE UNCHANGED vars
    BY <2>5 DEF CallInv, vars, channel, http, sockets
  <2> QED BY <2>1, <2>2, <2>3, <2>4, <2>5 DEF Next
<1> QED BY <1>1, <1>2, Invariance, PTL DEF Spec

\* A step of an HTTP channel brings every send under way nearer to its end, or leaves it
\* where it is.
LEMMA StepsFewer ==
    ASSUME IInv, CallInv, [Next]_vars, kind = "http", NEW s \in Senders, pc[s] # "idle"
    PROVE  \/ StepsLeft(s)' < StepsLeft(s)
           \/ pc'[s] = pc[s] /\ attempt'[s] = attempt[s]
<1> DEFINE Same == pc'[s] = pc[s] /\ attempt'[s] = attempt[s]
<1>0. /\ pc \in Places /\ attempt \in [Senders -> 0 .. MaxRetries + 1] /\ MaxRetries \in Nat
      /\ pc[s] \in {"posting", "failing", "backoff"}
  BY HttpAssumption DEF IInv, BaseTypeOK, HttpTypeOK, CallInv
<1>1. StepsLeft(s) \in Nat /\ StepsLeft(s) > 0
  BY <1>0 DEF StepsLeft
<1>2. ASSUME pc'[s] = "idle" PROVE StepsLeft(s)' < StepsLeft(s)
  BY <1>1, <1>2 DEF StepsLeft
<1>3. ASSUME NEW t \in Senders, t # s, NEW w, pc' = [pc EXCEPT ![t] = w],
             \/ attempt' = attempt \/ \E n : attempt' = [attempt EXCEPT ![t] = n]
      PROVE  Same
  BY <1>0, <1>3 DEF Places
<1>4. ASSUME NEW t \in Senders, Answered(t) \/ TimeOut(t) \/ HttpCancel(t) \/ SendRaises(t),
             attempt' = attempt
      PROVE  Same \/ StepsLeft(s)' < StepsLeft(s)
  <2>1. pc' = [pc EXCEPT ![t] = "idle"]
    BY <1>4 DEF Answered, TimeOut, HttpCancel, SendRaises, Returned
  <2>2. CASE t = s BY <1>0, <1>2, <2>1, <2>2 DEF Places
  <2> QED BY <1>3, <1>4, <2>1, <2>2
<1>5. ASSUME NEW t \in Senders, PostFails(t) PROVE Same \/ StepsLeft(s)' < StepsLeft(s)
  <2>1. attempt' = attempt BY <1>5 DEF PostFails, http
  <2>2. /\ pc[t] \in {"posting", "failing"}
        /\ pc' = [pc EXCEPT ![t] = "idle"] \/ pc' = [pc EXCEPT ![t] = "backoff"]
    BY <1>5 DEF PostFails, Returned, Suspend
  <2>3. CASE t = s /\ pc' = [pc EXCEPT ![t] = "backoff"]
    <3>1. pc'[s] = "backoff" /\ pc[s] \in {"posting", "failing"} /\ attempt'[s] = attempt[s]
      BY <1>0, <2>1, <2>2, <2>3 DEF Places
    <3> QED BY <1>0, <3>1 DEF StepsLeft
  <2>4. CASE t = s /\ pc' = [pc EXCEPT ![t] = "idle"] BY <1>0, <1>2, <2>4 DEF Places
  <2> QED BY <1>3, <2>1, <2>2, <2>3, <2>4
<1>6. ASSUME NEW t \in Senders, HttpSend(t) \/ Retry(t)
      PROVE  Same \/ StepsLeft(s)' < StepsLeft(s)
  <2>1. /\ \E n : attempt' = [attempt EXCEPT ![t] = n]
        /\ \E w \in {"posting", "failing"} : pc' = [pc EXCEPT ![t] = w]
    BY <1>6 DEF HttpSend, Retry, Post, Suspend
  <2>2. CASE t # s BY <1>3, <2>1, <2>2
  <2>3. CASE t = s
    <3>1. Retry(s) BY <1>0, <1>6, <2>3 DEF HttpSend, Calls
    <3>2. pc[s] = "backoff" /\ attempt'[s] = attempt[s] + 1
          /\ pc'[s] \in {"posting", "failing"}
      BY <1>0, <2>1, <2>3, <3>1 DEF Retry, Post, Places
    <3> QED BY <1>0, <3>2 DEF StepsLeft
  <2> QED BY <2>2, <2>3
<1>7. CASE CloseSession
  <2>1. attempt' = attempt /\ pc'[s] = IF pc[s] = "posting" THEN "failing" ELSE pc[s]
    BY <1>7 DEF CloseSession
  <2> QED BY <1>0, <2>1 DEF StepsLeft
<1>8. CASE UNCHANGED <<pc, attempt>> BY <1>8
<1>9. ASSUME NEW p \in Senders \X Tries, Handle(p) \/ Handled(p) \/ Refuse(p)
      PROVE  UNCHANGED <<pc, attempt>>
  BY <1>9 DEF Handle, Handled, Refuse, channel
<1>10. CASE HttpStart \/ HttpStop \/ HttpStopped
  BY <1>8, <1>10 DEF HttpStart, HttpStop, HttpStopped, http
<1>11. CASE HttpNext
  <2>1. CASE \E t \in Senders : Answered(t) \/ TimeOut(t) \/ HttpCancel(t)
    BY <1>4, <2>1 DEF Answered, TimeOut, HttpCancel, http
  <2> QED BY <1>5, <1>6, <1>7, <1>8, <1>9, <1>10, <1>11, <2>1 DEF HttpNext
<1>12. CASE \E t \in Senders : SendRaises(t) /\ UNCHANGED <<http, sockets>>
  BY <1>4, <1>12 DEF http
<1>13. CASE UNCHANGED vars BY <1>8, <1>13 DEF vars, channel, http
<1> QED BY <1>11, <1>12, <1>13 DEF Next

\* A send by HTTP is never stuck and takes at most three steps for each of its tries,
\* whatever the other side, the timeout, stop and start do: with fairness it returns.
THEOREM SendsTerminate == Spec => []SendsGoOn /\ SendsRunOut
<1>1. IInv /\ CallInv => SendsGoOn
  <2> SUFFICES ASSUME IInv, CallInv, kind = "http", NEW s \in Senders, pc[s] # "idle"
               PROVE  \/ pc[s] \in {"posting", "failing"} /\ attempt[s] \in Tries
                      \/ /\ pc[s] = "backoff" /\ attempt[s] + 1 \in Tries
                         /\ session \in {"open", "closed"}
    BY DEF SendsGoOn
  <2>1. /\ pc[s] \in {"posting", "failing", "backoff"}
        /\ attempt[s] \in 0 .. MaxRetries + 1 /\ attempt[s] >= 1
        /\ pc[s] = "backoff" => attempt[s] <= MaxRetries
        /\ session \in {"open", "closed"}
    BY DEF IInv, CallInv, HttpInv, HttpTypeOK
  <2> QED BY <2>1, HttpAssumption DEF Tries
<1>2. IInv /\ CallInv /\ [Next]_vars
        => [kind = "http" =>
             \A s \in Senders : pc[s] # "idle" =>
                 \/ StepsLeft(s)' < StepsLeft(s)
                 \/ pc'[s] = pc[s] /\ attempt'[s] = attempt[s]]_vars
  BY StepsFewer
<1> QED BY <1>1, <1>2, Invariance, CallInvariance, PTL DEF Spec, SendsRunOut

\* While stop waits for the handlers of a WebSocket channel, they only end.
LEMMA HandlersFewer ==
    ASSUME IInv, CallInv, [Next]_vars, kind = "websocket", stop = "server", stop' = "server"
    PROVE  /\ Alive' \subseteq Alive /\ Delivering' \subseteq Delivering
           /\ \/ UNCHANGED handler
              \/ Alive' # Alive \/ Delivering' # Delivering
<1>0. up = {} /\ handler \in [Conns -> {"none", "new", "reading", "delivering", "ended"}]
  BY DEF CallInv, IInv, SocketTypeOK
<1>1. CASE UNCHANGED handler BY <1>1 DEF Alive, Delivering
<1>2. ASSUME NEW w \in Conns, Delivered(w)
      PROVE  Alive' \subseteq Alive /\ Delivering' \subseteq Delivering
             /\ w \in Delivering /\ w \notin Delivering'
  BY <1>0, <1>2 DEF Delivered, Move, Alive, Delivering
<1>3. ASSUME NEW w \in Conns, End(w) \/ DeliveryRaises(w)
      PROVE  Alive' \subseteq Alive /\ Delivering' \subseteq Delivering
             /\ w \in Alive /\ w \notin Alive'
  BY <1>0, <1>3 DEF End, DeliveryRaises, Move, Alive, Delivering
<1>4. ASSUME NEW w \in Conns,
             \/ \E a \in Names \cup {Nameless} : Identify(w, a)
             \/ Accept(w) \/ Deliver(w)
      PROVE  FALSE
  BY <1>0, <1>4 DEF Identify, Accept, Deliver
<1>5. CASE SocketNext
  <2>1. ASSUME NEW w \in Conns, Lost(w) PROVE UNCHANGED handler
    BY <2>1 DEF Lost
  <2>2. ASSUME NEW s \in Senders, (\E a \in Names : SocketSend(s, a)) \/ Written(s)
        PROVE  UNCHANGED handler
    BY <2>2 DEF SocketSend, Written, sockets
  <2>3. CASE SocketStart \/ SocketStop \/ ServerClosed \/ SocketStopped
    BY <1>1, <2>3 DEF SocketStart, SocketStop, ServerClosed, SocketStopped, sockets
  <2> QED BY <1>1, <1>2, <1>3, <1>4, <1>5, <2>1, <2>2, <2>3 DEF SocketNext
<1>6. CASE UNCHANGED sockets BY <1>1, <1>6 DEF sockets
<1> QED BY <1>5, <1>6 DEF Next, vars

\* The stop of a WebSocket channel is never stuck but in front of broker.send, and waits
\* for at most two steps of each handler: with fairness it returns.
THEOREM StopTerminates == Spec => []StopGoesOn /\ StopRunsOut
<1>1. IInv /\ CallInv => StopGoesOn
  <2> SUFFICES ASSUME IInv, CallInv, kind = "websocket", stop # "idle", stop # "rest",
                      Alive # {}, Delivering = {}
               PROVE  \E w \in Alive : handler[w] \in {"new", "reading"} /\ w \notin up
    BY DEF StopGoesOn
  <2>1. up = {} BY DEF IInv, BaseTypeOK, CallInv
  <2> PICK w \in Alive : TRUE OBVIOUS
  <2>2. handler[w] \in {"new", "reading"} BY DEF Alive, Delivering
  <2> QED BY <2>1, <2>2
<1>2. IInv /\ CallInv /\ [Next]_vars
        => [kind = "websocket" /\ stop = "server" /\ stop' = "server" =>
             /\ Alive' \subseteq Alive /\ Delivering' \subseteq Delivering
             /\ \/ UNCHANGED handler
                \/ Alive' # Alive \/ Delivering' # Delivering]_vars
  BY HandlersFewer
<1> QED BY <1>1, <1>2, Invariance, CallInvariance, PTL DEF Spec, StopRunsOut
=============================================================================
