------------------------- MODULE AgentLifecycleProofs -------------------------
(***************************************************************************)
(* Proofs about AgentLifecycle, for any objects, ids and capabilities.     *)
(*                                                                         *)
(* The four invariants are inductive together.  That the tables stay in    *)
(* step needs no orderly caller; it makes unregister find the id under     *)
(* every capability, so that disconnect gets to reset the object's broker; *)
(* and that keeps an object which left from disconnecting its successor.   *)
(***************************************************************************)
EXTENDS AgentLifecycle, TLAPS

IInv == TypeOK /\ DirectoryConsistent /\ OwnerHoldsBroker /\ OrderlyService

-----------------------------------------------------------------------------
(* The registry and the broker's registrations                             *)

\* The part of the invariant about the directory of one id.
LEMMA EnlistKeeps ==
    ASSUME TypeOK, DirectoryConsistent, NEW i \in Instances,
           agents[IdOf[i]] = None, RegisterAgent(i), UNCHANGED <<caps, fixed>>
    PROVE  /\ agents' \in [Ids -> Instances \cup {None}] /\ inboxes' \subseteq Ids
           /\ registry' \in [Ids -> Instances \cup {None}]
           /\ index' \in [Capabilities \X Ids -> Nat]
           /\ DirectoryConsistent'
<1> DEFINE id == IdOf[i]
<1> USE LifecycleAssumption
<1>0. id \in Ids OBVIOUS
<1>1. /\ agents' \in [Ids -> Instances \cup {None}] /\ inboxes' \subseteq Ids
      /\ registry' \in [Ids -> Instances \cup {None}]
  BY <1>0 DEF TypeOK, RegisterAgent, Enlist, directory
<1>2. index' \in [Capabilities \X Ids -> Nat]
  BY <1>0 DEF TypeOK, RegisterAgent, Enlist, directory
<1>3. \A x \in Ids : x \in inboxes' <=> agents'[x] # None
  BY <1>0 DEF TypeOK, DirectoryConsistent, RegisterAgent
<1>4. ASSUME fixed', NEW x \in Ids
      PROVE  /\ registry'[x] # None <=> agents'[x] # None
             /\ \A c \in Capabilities :
                   index'[<<c, x>>] = IF registry'[x] # None /\ c \in caps'[registry'[x]]
                                      THEN 1 ELSE 0
  <2>1. fixed /\ registry[id] = None /\ Enlist(i) /\ caps' = caps
    BY <1>0, <1>4 DEF DirectoryConsistent, RegisterAgent
  <2>2. registry'[x] # None <=> agents'[x] # None
    BY <1>0, <2>1 DEF TypeOK, DirectoryConsistent, RegisterAgent, Enlist
  <2>3. ASSUME NEW c \in Capabilities
        PROVE  index'[<<c, x>>] = IF registry'[x] # None /\ c \in caps'[registry'[x]]
                                  THEN 1 ELSE 0
    <3>1. index'[<<c, x>>] = IF x = id /\ c \in caps[i] THEN index[<<c, x>>] + 1
                                                       ELSE index[<<c, x>>]
      BY <2>1 DEF Enlist
    <3>2. index[<<c, x>>] = IF registry[x] # None /\ c \in caps[registry[x]] THEN 1 ELSE 0
      BY <2>1 DEF DirectoryConsistent
    <3>3. registry'[x] = IF x = id THEN i ELSE registry[x]
      BY <1>0, <2>1 DEF TypeOK, Enlist
    <3> QED BY <2>1, <3>1, <3>2, <3>3
  <2> QED BY <2>2, <2>3
<1> QED BY <1>1, <1>2, <1>3, <1>4 DEF DirectoryConsistent

\* As long as capabilities stay, unregister finds the id wherever it looks for it.
LEMMA NothingMissing ==
    ASSUME DirectoryConsistent, fixed, NEW id \in Ids, registry[id] # None,
           caps[registry[id]] \subseteq Capabilities
    PROVE  Missing(id) = {}
  BY DEF DirectoryConsistent, Missing, Listed

\* unregister_agent keeps the tables in step, and reports a clean end.
LEMMA DelistKeeps ==
    ASSUME TypeOK, DirectoryConsistent, NEW i \in Instances,
           UnregisterAgent(i), UNCHANGED <<caps, fixed>>
    PROVE  /\ agents' \in [Ids -> Instances \cup {None}] /\ inboxes' \subseteq Ids
           /\ mail' \in [Ids -> 0 .. MaxMail]
           /\ registry' \in [Ids -> Instances \cup {None}]
           /\ index' \in [Capabilities \X Ids -> Nat]
           /\ ref' \in [Instances -> BOOLEAN]
           /\ DirectoryConsistent'
           /\ fixed => ref' = [ref EXCEPT ![i] = FALSE]
<1> DEFINE id == IdOf[i]
<1> USE LifecycleAssumption
<1>0. id \in Ids OBVIOUS
<1>1. /\ agents' \in [Ids -> Instances \cup {None}] /\ inboxes' \subseteq Ids
      /\ mail' \in [Ids -> 0 .. MaxMail]
  BY <1>0 DEF TypeOK, UnregisterAgent
<1>2. registry' \in [Ids -> Instances \cup {None}]
  BY <1>0 DEF TypeOK, UnregisterAgent, Delist, directory
<1>3. index' \in [Capabilities \X Ids -> Nat]
  <2>1. CASE registry[id] = None
    BY <2>1 DEF TypeOK, UnregisterAgent, directory
  <2>2. CASE registry[id] # None
    <3>1. Delist(id) BY <2>2 DEF UnregisterAgent
    <3>2. ASSUME NEW e \in Capabilities \X Ids
          PROVE  (IF e[2] = id /\ e[1] \in Listed(id) \ Missing(id)
                  THEN index[e] - 1 ELSE index[e]) \in Nat
      <4>1. index[e] \in Nat BY DEF TypeOK
      <4>2. ASSUME e[2] = id, e[1] \in Listed(id) \ Missing(id) PROVE index[e] # 0
        <5>1. e = <<e[1], id>> BY <4>2
        <5>2. index[<<e[1], id>>] # 0 BY <4>2 DEF Missing
        <5> QED BY <5>1, <5>2
      <4> QED BY <4>1, <4>2
    <3> QED BY <3>1, <3>2 DEF Delist
  <2> QED BY <2>1, <2>2
<1>4. ref' \in [Instances -> BOOLEAN]
  <2>1. (registry[id] # None /\ Missing(id) # {}) \in BOOLEAN OBVIOUS
  <2> QED BY <2>1 DEF TypeOK, UnregisterAgent
<1>5. \A x \in Ids : x \in inboxes' <=> agents'[x] # None
  BY <1>0 DEF TypeOK, DirectoryConsistent, UnregisterAgent
<1>6. ASSUME fixed, registry[id] # None PROVE Missing(id) = {}
  BY <1>0, <1>6, NothingMissing DEF TypeOK
<1>7. ASSUME fixed', NEW x \in Ids
      PROVE  /\ registry'[x] # None <=> agents'[x] # None
             /\ \A c \in Capabilities :
                   index'[<<c, x>>] = IF registry'[x] # None /\ c \in caps'[registry'[x]]
                                      THEN 1 ELSE 0
  <2>1. fixed /\ caps' = caps BY <1>7
  <2>2. registry'[x] = IF x = id THEN None ELSE registry[x]
    BY <1>0, <1>6, <2>1 DEF TypeOK, UnregisterAgent, Delist, directory
  <2>3. agents'[x] = IF x = id THEN None ELSE agents[x]
    BY <1>0 DEF TypeOK, UnregisterAgent
  <2>4. registry[x] # None <=> agents[x] # None
    BY <2>1 DEF DirectoryConsistent
  <2>5. ASSUME NEW c \in Capabilities
        PROVE  index'[<<c, x>>] = IF registry'[x] # None /\ c \in caps'[registry'[x]]
                                  THEN 1 ELSE 0
    <3>1. index[<<c, x>>] = IF registry[x] # None /\ c \in caps[registry[x]] THEN 1 ELSE 0
      BY <2>1 DEF DirectoryConsistent
    <3>2. CASE registry[id] = None
      BY <2>1, <2>2, <3>1, <3>2 DEF UnregisterAgent, directory
    <3>3. CASE registry[id] # None
      <4>1. index'[<<c, x>>] = IF x = id /\ c \in Listed(id)
                               THEN index[<<c, x>>] - 1 ELSE index[<<c, x>>]
        BY <1>6, <2>1, <3>3 DEF UnregisterAgent, Delist
      <4>2. x = id => (c \in Listed(id) <=> c \in caps[registry[id]])
        BY <1>0, <3>1, <3>3 DEF Listed
      <4> QED BY <2>1, <2>2, <3>1, <3>3, <4>1, <4>2
    <3> QED BY <3>2, <3>3
  <2> QED BY <2>2, <2>3, <2>4, <2>5
<1>8. ASSUME fixed PROVE ref' = [ref EXCEPT ![i] = FALSE]
  <2>1. (registry[id] # None /\ Missing(id) # {}) = FALSE BY <1>6, <1>8
  <2> QED BY <2>1 DEF UnregisterAgent
<1> QED BY <1>1, <1>2, <1>3, <1>4, <1>5, <1>7, <1>8 DEF DirectoryConsistent

-----------------------------------------------------------------------------
(* The rest of disconnect                                                  *)

\* Leaving keeps the tables in step, whether or not the object still has a broker;
\* with capabilities that stay, the object has none afterwards, and its id none either.
LEMMA LeaveKeeps ==
    ASSUME IInv, NEW i \in Instances, Leave(i), UNCHANGED <<caps, fixed>>
    PROVE  /\ agents' \in [Ids -> Instances \cup {None}] /\ inboxes' \subseteq Ids
           /\ mail' \in [Ids -> 0 .. MaxMail]
           /\ registry' \in [Ids -> Instances \cup {None}]
           /\ index' \in [Capabilities \X Ids -> Nat]
           /\ ref' \in [Instances -> BOOLEAN]
           /\ DirectoryConsistent'
           /\ OwnerHoldsBroker'
<1> USE LifecycleAssumption DEF IInv
<1>1. CASE ~ref[i]
  <2>1. UNCHANGED <<broker, directory, ref>> BY <1>1 DEF Leave
  <2> QED BY <2>1 DEF broker, directory, TypeOK, DirectoryConsistent, OwnerHoldsBroker
<1>2. CASE ref[i]
  <2>1. UnregisterAgent(i) BY <1>2 DEF Leave
  <2>2. /\ agents' \in [Ids -> Instances \cup {None}] /\ inboxes' \subseteq Ids
        /\ mail' \in [Ids -> 0 .. MaxMail]
        /\ registry' \in [Ids -> Instances \cup {None}]
        /\ index' \in [Capabilities \X Ids -> Nat]
        /\ ref' \in [Instances -> BOOLEAN]
        /\ DirectoryConsistent'
    BY <2>1, DelistKeeps
  <2>3. ASSUME NEW x \in Ids, agents'[x] # None
        PROVE  IdOf[agents'[x]] = x /\ ref'[agents'[x]]
    <3>1. x # IdOf[i] /\ agents'[x] = agents[x]
      BY <2>1, <2>3 DEF TypeOK, UnregisterAgent
    <3>2. IdOf[agents[x]] = x /\ ref[agents[x]] BY <2>3, <3>1 DEF OwnerHoldsBroker
    <3>3. agents[x] \in Instances /\ agents[x] # i BY <2>3, <3>1, <3>2 DEF TypeOK
    <3>4. ref'[agents[x]] = ref[agents[x]] BY <2>1, <3>3 DEF TypeOK, UnregisterAgent
    <3> QED BY <3>1, <3>2, <3>4
  <2> QED BY <2>2, <2>3 DEF OwnerHoldsBroker
<1> QED BY <1>1, <1>2 DEF IInv, TypeOK

-----------------------------------------------------------------------------
(* The inductive invariant                                                 *)

\* The invariant holds initially.
LEMMA InitInv == Init => IInv
<1> SUFFICES ASSUME Init PROVE IInv OBVIOUS
<1> USE LifecycleAssumption DEF Init
<1>1. TypeOK BY DEF TypeOK
<1>2. DirectoryConsistent BY DEF DirectoryConsistent
<1>3. OwnerHoldsBroker BY DEF OwnerHoldsBroker
<1>4. OrderlyService
  <2> SUFFICES ASSUME NEW i \in Instances
               PROVE  /\ running[i] <=> agents[IdOf[i]] = i /\ closing[i] = "no"
                      /\ running[i] <=> loop[i] = "on"
                      /\ extra[i] = 0
                      /\ ref[i] => agents[IdOf[i]] = i
    BY DEF OrderlyService
  <2>1. agents[IdOf[i]] # i OBVIOUS
  <2> QED BY <2>1
<1> QED BY <1>1, <1>2, <1>3, <1>4 DEF IInv

\* connect keeps the invariant.
LEMMA ConnectKeeps ==
    ASSUME IInv, NEW i \in Instances, Connect(i)
    PROVE  IInv'
<1> DEFINE id == IdOf[i]
<1> USE LifecycleAssumption DEF IInv
<1>0. id \in Ids OBVIOUS
<1>1. /\ agents' \in [Ids -> Instances \cup {None}] /\ inboxes' \subseteq Ids
      /\ registry' \in [Ids -> Instances \cup {None}]
      /\ index' \in [Capabilities \X Ids -> Nat]
      /\ DirectoryConsistent'
  <2>1. CASE agents[id] = None
    <3>1. RegisterAgent(i) /\ UNCHANGED <<caps, fixed>> BY <2>1 DEF Connect
    <3> QED BY <2>1, <3>1, EnlistKeeps
  <2>2. CASE agents[id] # None
    <3>1. /\ agents' = [agents EXCEPT ![id] = i]
          /\ UNCHANGED <<inboxes, directory, caps, fixed>>
      BY <2>2 DEF Connect
    <3>2. \A x \in Ids : agents'[x] # None <=> agents[x] # None
      BY <1>0, <2>2, <3>1 DEF TypeOK
    <3> QED BY <1>0, <3>1, <3>2 DEF TypeOK, DirectoryConsistent, directory
  <2> QED BY <2>1, <2>2
<1>2. agents' = [agents EXCEPT ![id] = i]
  BY DEF Connect, RegisterAgent
<1>3. /\ ref' = [ref EXCEPT ![i] = TRUE] /\ running' = [running EXCEPT ![i] = TRUE]
      /\ loop' = [loop EXCEPT ![i] = "on"]
      /\ extra' = (IF loop[i] # "none" THEN [extra EXCEPT ![i] = @ + 1] ELSE extra)
      /\ UNCHANGED <<mail, caps, closing, fixed>>
  BY DEF Connect
<1>4. TypeOK'
  <2>1. connects' \in 0 .. MaxConnects /\ orderly' \in BOOLEAN
    BY DEF TypeOK, Connect
  <2>2. extra' \in [Instances -> Nat] BY <1>3 DEF TypeOK
  <2> QED BY <1>1, <1>3, <2>1, <2>2 DEF TypeOK
<1>5. OwnerHoldsBroker'
  <2> SUFFICES ASSUME NEW x \in Ids, agents'[x] # None
               PROVE  IdOf[agents'[x]] = x /\ ref'[agents'[x]]
    BY DEF OwnerHoldsBroker
  <2>1. CASE x = id BY <1>0, <1>2, <1>3, <2>1 DEF TypeOK
  <2>2. CASE x # id
    <3>1. agents'[x] = agents[x] /\ agents[x] \in Instances
      BY <1>2, <2>2 DEF TypeOK
    <3> QED BY <1>3, <3>1 DEF TypeOK, OwnerHoldsBroker
  <2> QED BY <2>1, <2>2
<1>6. OrderlyService'
  <2> SUFFICES ASSUME orderly', fixed', NEW j \in Instances
               PROVE  /\ running'[j] <=> agents'[IdOf[j]] = j /\ closing'[j] = "no"
                      /\ running'[j] <=> loop'[j] = "on"
                      /\ extra'[j] = 0
                      /\ ref'[j] => agents'[IdOf[j]] = j
    BY DEF OrderlyService
  <2>1. /\ orderly /\ fixed /\ agents[id] = None
        /\ loop[i] = "none" /\ closing[i] = "no"
    <3>1. orderly' = (orderly /\ agents[id] = None /\ loop[i] = "none" /\ closing[i] = "no")
      BY DEF Connect
    <3>2. orderly /\ agents[id] = None /\ loop[i] = "none" /\ closing[i] = "no" BY <3>1
    <3>3. fixed BY <1>3
    <3> QED BY <3>2, <3>3
  <2>2. \A k \in Instances :
           /\ running[k] <=> agents[IdOf[k]] = k /\ closing[k] = "no"
           /\ running[k] <=> loop[k] = "on"
           /\ extra[k] = 0
           /\ ref[k] => agents[IdOf[k]] = k
    BY <2>1 DEF OrderlyService
  <2>3. extra' = extra BY <1>3, <2>1
  <2>4. CASE j = i
    BY <1>0, <1>2, <1>3, <2>1, <2>2, <2>3, <2>4 DEF TypeOK
  <2>5. CASE j # i
    <3>1. /\ running'[j] = running[j] /\ loop'[j] = loop[j]
          /\ ref'[j] = ref[j] /\ closing'[j] = closing[j] /\ extra'[j] = extra[j]
      BY <1>3, <2>3, <2>5 DEF TypeOK
    <3>2. agents'[IdOf[j]] = j <=> agents[IdOf[j]] = j
      <4>1. CASE IdOf[j] = id BY <1>0, <1>2, <2>1, <2>5, <4>1 DEF TypeOK
      <4>2. CASE IdOf[j] # id BY <1>2, <4>2 DEF TypeOK
      <4> QED BY <4>1, <4>2
    <3> QED BY <2>2, <3>1, <3>2
  <2> QED BY <2>4, <2>5
<1> QED BY <1>1, <1>4, <1>5, <1>6

\* The first half of disconnect keeps the invariant.
LEMMA DisconnectKeeps ==
    ASSUME IInv, NEW i \in Instances, Disconnect(i)
    PROVE  IInv'
<1> USE LifecycleAssumption DEF IInv
<1>1. /\ closing[i] = "no" /\ (ref[i] \/ running[i] \/ loop[i] # "none")
      /\ running' = [running EXCEPT ![i] = FALSE]
      /\ UNCHANGED <<caps, extra, connects, orderly, fixed>>
  BY DEF Disconnect, history
<1>2. CASE loop[i] # "none"
  <2>1. /\ loop' = [loop EXCEPT ![i] = "none"]
        /\ closing' = [closing EXCEPT ![i] = "other"]
        /\ UNCHANGED <<broker, directory, ref>>
    BY <1>2 DEF Disconnect
  <2>2. TypeOK' BY <1>1, <2>1 DEF TypeOK, broker, directory
  <2>3. DirectoryConsistent'
    BY <1>1, <2>1 DEF DirectoryConsistent, broker, directory
  <2>4. OwnerHoldsBroker' BY <2>1 DEF OwnerHoldsBroker, broker
  <2>5. OrderlyService'
    <3> SUFFICES ASSUME orderly', fixed', NEW j \in Instances
                 PROVE  /\ running'[j] <=> agents'[IdOf[j]] = j /\ closing'[j] = "no"
                        /\ running'[j] <=> loop'[j] = "on"
                        /\ extra'[j] = 0
                        /\ ref'[j] => agents'[IdOf[j]] = j
      BY DEF OrderlyService
    <3>1. /\ running[j] <=> agents[IdOf[j]] = j /\ closing[j] = "no"
          /\ running[j] <=> loop[j] = "on"
          /\ extra[j] = 0
          /\ ref[j] => agents[IdOf[j]] = j
      BY <1>1 DEF OrderlyService
    <3>2. agents' = agents /\ ref' = ref /\ extra' = extra BY <1>1, <2>1 DEF broker
    <3>3. CASE j = i BY <1>1, <1>2, <2>1, <3>1, <3>2, <3>3 DEF TypeOK
    <3>4. CASE j # i BY <1>1, <2>1, <3>1, <3>2, <3>4 DEF TypeOK
    <3> QED BY <3>3, <3>4
  <2> QED BY <2>2, <2>3, <2>4, <2>5
<1>3. CASE loop[i] = "none"
  <2>1. Leave(i) /\ UNCHANGED <<closing, loop>> BY <1>3 DEF Disconnect
  <2>2. TypeOK' BY <1>1, <2>1, LeaveKeeps DEF TypeOK
  <2>3. DirectoryConsistent' /\ OwnerHoldsBroker' BY <1>1, <2>1, LeaveKeeps
  <2>4. OrderlyService'
    <3> SUFFICES ASSUME orderly', fixed' PROVE FALSE
      BY DEF OrderlyService
    <3>1. /\ running[i] <=> agents[IdOf[i]] = i /\ closing[i] = "no"
          /\ running[i] <=> loop[i] = "on"
          /\ ref[i] => agents[IdOf[i]] = i
      BY <1>1 DEF OrderlyService
    <3> QED BY <1>1, <1>3, <3>1
  <2> QED BY <2>2, <2>3, <2>4
<1> QED BY <1>2, <1>3

\* The second half of disconnect keeps the invariant.
LEMMA DisconnectedKeeps ==
    ASSUME IInv, NEW i \in Instances, Disconnected(i)
    PROVE  IInv'
<1> DEFINE id == IdOf[i]
<1> USE LifecycleAssumption DEF IInv
<1>0. id \in Ids OBVIOUS
<1>1. /\ closing[i] # "no" /\ Leave(i)
      /\ closing' = [closing EXCEPT ![i] = "no"]
      /\ UNCHANGED <<running, loop, extra, caps, connects, orderly, fixed>>
  BY DEF Disconnected, history
<1>2. TypeOK' BY <1>1, LeaveKeeps DEF TypeOK
<1>3. DirectoryConsistent' /\ OwnerHoldsBroker' BY <1>1, LeaveKeeps
<1>4. OrderlyService'
  <2> SUFFICES ASSUME orderly', fixed', NEW j \in Instances
               PROVE  /\ running'[j] <=> agents'[IdOf[j]] = j /\ closing'[j] = "no"
                      /\ running'[j] <=> loop'[j] = "on"
                      /\ extra'[j] = 0
                      /\ ref'[j] => agents'[IdOf[j]] = j
    BY DEF OrderlyService
  <2>1. \A k \in Instances :
           /\ running[k] <=> agents[IdOf[k]] = k /\ closing[k] = "no"
           /\ running[k] <=> loop[k] = "on"
           /\ extra[k] = 0
           /\ ref[k] => agents[IdOf[k]] = k
    BY <1>1 DEF OrderlyService
  <2>2. ~running[i] BY <1>1, <2>1
  <2>3. CASE ref[i]
    <3>0. agents[id] = i BY <2>1, <2>3
    <3>1. UnregisterAgent(i) BY <1>1, <2>3 DEF Leave
    <3>2. /\ agents' = [agents EXCEPT ![id] = None]
          /\ ref' = [ref EXCEPT ![i] = FALSE]
      BY <1>1, <3>1, DelistKeeps DEF UnregisterAgent
    <3>3. CASE j = i
      BY <1>0, <1>1, <2>1, <2>2, <3>2, <3>3 DEF TypeOK
    <3>4. CASE j # i
      <4>1. agents'[IdOf[j]] = j <=> agents[IdOf[j]] = j
        <5>1. CASE IdOf[j] = id BY <1>0, <3>0, <3>2, <3>4, <5>1 DEF TypeOK
        <5>2. CASE IdOf[j] # id BY <3>2, <5>2 DEF TypeOK
        <5> QED BY <5>1, <5>2
      <4>2. ref'[j] = ref[j] /\ closing'[j] = closing[j]
        BY <1>1, <3>2, <3>4 DEF TypeOK
      <4> QED BY <1>1, <2>1, <4>1, <4>2
    <3> QED BY <3>3, <3>4
  <2>4. CASE ~ref[i]
    <3>1. agents' = agents /\ ref' = ref BY <1>1, <2>4 DEF Leave, broker
    <3>2. agents[id] # i BY <1>0, <2>4 DEF OwnerHoldsBroker
    <3>3. CASE j = i BY <1>1, <2>1, <2>2, <3>1, <3>2, <3>3
    <3>4. CASE j # i
      <4>1. closing'[j] = closing[j] BY <1>1, <3>4 DEF TypeOK
      <4> QED BY <1>1, <2>1, <3>1, <4>1
    <3> QED BY <3>3, <3>4
  <2> QED BY <2>3, <2>4
<1> QED BY <1>2, <1>3, <1>4

\* So does every other step.
LEMMA OtherStepKeeps ==
    ASSUME IInv,
           \/ \E i \in Instances : DisconnectInHandler(i) \/ HandlerReturns(i)
           \/ \E i \in Instances : Receive(i) \/ LoopEnds(i)
           \/ \E id \in Ids : Deliver(id)
           \/ \E i \in Instances, c \in Capabilities : Learn(i, c)
           \/ UNCHANGED vars
    PROVE  IInv'
<1> USE LifecycleAssumption DEF IInv
<1>1. ASSUME NEW i \in Instances, DisconnectInHandler(i) PROVE IInv'
  <2>1. TypeOK' BY <1>1 DEF DisconnectInHandler, TypeOK, broker, directory, history
  <2>2. DirectoryConsistent'
    BY <1>1 DEF DisconnectInHandler, DirectoryConsistent, broker, directory, history
  <2>3. OwnerHoldsBroker' BY <1>1 DEF DisconnectInHandler, OwnerHoldsBroker, broker
  <2>4. OrderlyService'
    BY <1>1 DEF DisconnectInHandler, TypeOK, OrderlyService, broker, history
  <2> QED BY <2>1, <2>2, <2>3, <2>4
<1>7. ASSUME NEW i \in Instances, HandlerReturns(i) PROVE IInv'
  <2>1. TypeOK' BY <1>7 DEF HandlerReturns, TypeOK, broker, directory, history
  <2>2. DirectoryConsistent'
    BY <1>7 DEF HandlerReturns, DirectoryConsistent, broker, directory, history
  <2>3. OwnerHoldsBroker' BY <1>7 DEF HandlerReturns, OwnerHoldsBroker, broker
  <2>4. OrderlyService'
    BY <1>7 DEF HandlerReturns, TypeOK, OrderlyService, broker, history
  <2> QED BY <2>1, <2>2, <2>3, <2>4
<1>2. ASSUME NEW i \in Instances, Receive(i) PROVE IInv'
  <2>1. TypeOK' BY <1>2 DEF Receive, TypeOK, directory, object, history
  <2>2. DirectoryConsistent'
    BY <1>2 DEF Receive, DirectoryConsistent, directory, history
  <2>3. OwnerHoldsBroker' BY <1>2 DEF Receive, OwnerHoldsBroker, object
  <2>4. OrderlyService' BY <1>2 DEF Receive, OrderlyService, object, history
  <2> QED BY <2>1, <2>2, <2>3, <2>4
<1>3. ASSUME NEW i \in Instances, LoopEnds(i) PROVE IInv'
  <2>1. TypeOK' BY <1>3 DEF LoopEnds, Stray, TypeOK, broker, directory, history
  <2>2. DirectoryConsistent'
    BY <1>3 DEF LoopEnds, DirectoryConsistent, broker, directory, history
  <2>3. OwnerHoldsBroker' BY <1>3 DEF LoopEnds, OwnerHoldsBroker, broker
  <2>4. OrderlyService'
    BY <1>3 DEF LoopEnds, Stray, TypeOK, OrderlyService, broker, history
  <2> QED BY <2>1, <2>2, <2>3, <2>4
<1>4. ASSUME NEW id \in Ids, Deliver(id) PROVE IInv'
  <2>1. TypeOK' BY <1>4 DEF Deliver, TypeOK, directory, object, history
  <2>2. DirectoryConsistent'
    BY <1>4 DEF Deliver, DirectoryConsistent, directory, history
  <2>3. OwnerHoldsBroker' BY <1>4 DEF Deliver, OwnerHoldsBroker, object
  <2>4. OrderlyService' BY <1>4 DEF Deliver, OrderlyService, object, history
  <2> QED BY <2>1, <2>2, <2>3, <2>4
<1>5. ASSUME NEW i \in Instances, NEW c \in Capabilities, Learn(i, c) PROVE IInv'
  <2>1. TypeOK' BY <1>5 DEF Learn, TypeOK, broker, directory, object
  <2>2. DirectoryConsistent'
    BY <1>5 DEF Learn, DirectoryConsistent, broker
  <2>3. OwnerHoldsBroker' BY <1>5 DEF Learn, OwnerHoldsBroker, broker, object
  <2>4. OrderlyService' BY <1>5 DEF Learn, OrderlyService
  <2> QED BY <2>1, <2>2, <2>3, <2>4
<1>6. CASE UNCHANGED vars
  BY <1>6 DEF vars, broker, directory, object, history,
              TypeOK, DirectoryConsistent, OwnerHoldsBroker, OrderlyService
<1> QED BY <1>1, <1>2, <1>3, <1>4, <1>5, <1>6, <1>7

\* Every step keeps the invariant.
LEMMA StepInv == IInv /\ [Next]_vars => IInv'
  BY ConnectKeeps, DisconnectKeeps, DisconnectedKeeps, OtherStepKeeps DEF Next

\* The invariant is one of the specification.
LEMMA Invariance == Spec => []IInv
  BY InitInv, StepInv, PTL DEF Spec

-----------------------------------------------------------------------------
(* With orderly callers the agents implement the membership specification  *)

\* The first connect of an id lets it join.
LEMMA ConnectJoins ==
    ASSUME IInv, NEW i \in Instances, Connect(i), orderly', fixed'
    PROVE  Service!Join(IdOf[i])
<1> USE LifecycleAssumption
<1>1. IdOf[i] \in Ids /\ i # None OBVIOUS
<1>2. fixed /\ orderly /\ agents[IdOf[i]] = None BY DEF Connect
<1>3. closing[i] = "no" BY DEF Connect
<1>4. agents' = [agents EXCEPT ![IdOf[i]] = i] BY <1>2 DEF Connect, RegisterAgent
<1>5. closing' = closing /\ mail' = mail BY DEF Connect
<1>6. Phase[IdOf[i]] = "out" BY <1>1, <1>2 DEF Phase
<1>7. Phase' = [Phase EXCEPT ![IdOf[i]] = "in"]
  BY <1>1, <1>3, <1>4, <1>5 DEF Phase, IInv, TypeOK
<1> QED BY <1>5, <1>6, <1>7 DEF Service!Join, Service!Moves

\* The first half of disconnect takes its id out of service; of an object that a handler
\* of its own has disconnected before, it changes nothing that the broker sees.
LEMMA DisconnectRetires ==
    ASSUME IInv, NEW i \in Instances, Disconnect(i) \/ DisconnectInHandler(i),
           orderly', fixed'
    PROVE  Service!Retire(IdOf[i]) \/ UNCHANGED Service!vars
<1> USE LifecycleAssumption
<1>1. IdOf[i] \in Ids /\ i # None OBVIOUS
<1>2. orderly /\ fixed /\ closing[i] = "no"
  BY DEF Disconnect, DisconnectInHandler, history
<1>3. loop[i] # "none"
  <2>1. CASE DisconnectInHandler(i) BY <2>1 DEF DisconnectInHandler
  <2>2. CASE Disconnect(i)
    <3>1. ref[i] \/ running[i] \/ loop[i] # "none" BY <2>2 DEF Disconnect
    <3> QED BY <1>2, <3>1 DEF IInv, OrderlyService
  <2> QED BY <2>1, <2>2
<1>4. PICK caller \in {"handler", "other"} :
         closing' = [closing EXCEPT ![i] = caller] /\ UNCHANGED broker
  BY <1>3 DEF Disconnect, DisconnectInHandler
<1>5. \A id \in Ids \ {IdOf[i]} : agents[id] # i BY <1>1 DEF IInv, OwnerHoldsBroker
<1>6. CASE agents[IdOf[i]] = i
  <2>1. Phase' = [Phase EXCEPT ![IdOf[i]] = "leaving"]
    <3>1. caller # "no" OBVIOUS
    <3>2. closing \in [Instances -> {"no", "handler", "other"}]
      BY DEF IInv, TypeOK
    <3>3. \A id \in Ids : Phase'[id] = IF id = IdOf[i] THEN "leaving" ELSE Phase[id]
      <4> SUFFICES ASSUME NEW id \in Ids
                   PROVE  Phase'[id] = IF id = IdOf[i] THEN "leaving" ELSE Phase[id]
        OBVIOUS
      <4>1. agents'[id] = agents[id] /\ agents[id] \in Instances \cup {None}
        BY <1>4 DEF broker, IInv, TypeOK
      <4>2. CASE id = IdOf[i] BY <1>1, <1>4, <1>6, <3>1, <3>2, <4>1, <4>2 DEF Phase
      <4>3. CASE id # IdOf[i]
        <5>1. agents[id] # i BY <1>5, <4>3
        <5>2. agents[id] # None => closing'[agents[id]] = closing[agents[id]]
          BY <1>4, <3>2, <4>1, <5>1
        <5> QED BY <4>1, <4>3, <5>2 DEF Phase
      <4> QED BY <4>2, <4>3
    <3> QED BY <1>1, <3>3 DEF Phase
  <2>2. Phase[IdOf[i]] = "in" BY <1>1, <1>2, <1>6 DEF Phase
  <2> QED BY <1>4, <2>1, <2>2 DEF Service!Retire, Service!Moves, broker
<1>7. CASE agents[IdOf[i]] # i
  <2>1. Phase' = Phase
    BY <1>1, <1>4, <1>5, <1>7 DEF Phase, IInv, TypeOK, broker
  <2> QED BY <1>4, <2>1 DEF Service!vars, broker
<1> QED BY <1>6, <1>7

\* The rest of disconnect takes the id out, with its mail, unless it is out already.
LEMMA DisconnectedLeaves ==
    ASSUME IInv, NEW i \in Instances, Disconnected(i), orderly', fixed'
    PROVE  Service!Leave(IdOf[i]) \/ UNCHANGED Service!vars
<1> USE LifecycleAssumption
<1>1. IdOf[i] \in Ids /\ i # None OBVIOUS
<1>2. /\ orderly /\ fixed /\ closing[i] # "no"
      /\ closing' = [closing EXCEPT ![i] = "no"]
  BY DEF Disconnected, history
<1>3. \A id \in Ids \ {IdOf[i]} : agents[id] # i BY <1>1 DEF IInv, OwnerHoldsBroker
<1>4. CASE ref[i]
  <2>1. agents[IdOf[i]] = i BY <1>2, <1>4 DEF IInv, OrderlyService
  <2>2. /\ agents' = [agents EXCEPT ![IdOf[i]] = None]
        /\ mail' = [mail EXCEPT ![IdOf[i]] = 0]
    BY <1>4 DEF Disconnected, Leave, UnregisterAgent
  <2>3. Phase' = [Phase EXCEPT ![IdOf[i]] = "out"]
    BY <1>1, <1>2, <1>3, <2>1, <2>2 DEF Phase, IInv, TypeOK
  <2>4. Phase[IdOf[i]] = "leaving" BY <1>1, <1>2, <2>1 DEF Phase
  <2> QED BY <2>2, <2>3, <2>4 DEF Service!Leave, Service!Moves
<1>5. CASE ~ref[i]
  <2>1. UNCHANGED broker BY <1>5 DEF Disconnected, Leave
  <2>2. agents[IdOf[i]] # i BY <1>1, <1>5 DEF IInv, OwnerHoldsBroker
  <2>3. Phase' = Phase
    BY <1>1, <1>2, <1>3, <2>1, <2>2 DEF Phase, IInv, TypeOK, broker
  <2> QED BY <2>1, <2>3 DEF Service!vars, broker
<1> QED BY <1>4, <1>5

\* Mail arrives for ids that are registered and is taken by loops of ids that are in.
LEMMA MailServes ==
    ASSUME IInv, orderly', fixed'
    PROVE  /\ \A id \in Ids : Deliver(id) => Service!Arrive(id)
           /\ \A i \in Instances : Receive(i) => Service!Serve(IdOf[i])
<1> USE LifecycleAssumption
<1>1. ASSUME NEW id \in Ids, Deliver(id) PROVE Service!Arrive(id)
  <2>1. agents[id] # None BY <1>1 DEF Deliver, IInv, DirectoryConsistent
  <2>2. Phase[id] # "out" BY <2>1 DEF Phase
  <2>3. Phase' = Phase BY <1>1 DEF Deliver, object, Phase
  <2> QED BY <1>1, <2>2, <2>3 DEF Deliver, Service!Arrive
<1>2. ASSUME NEW i \in Instances, Receive(i) PROVE Service!Serve(IdOf[i])
  <2>1. orderly /\ fixed BY <1>2 DEF Receive, history
  <2>2. loop[i] = "on" BY <1>2, <2>1 DEF Receive, Stray, IInv, TypeOK, OrderlyService
  <2>3. agents[IdOf[i]] = i /\ closing[i] = "no" BY <2>1, <2>2 DEF IInv, OrderlyService
  <2>4. Phase[IdOf[i]] = "in" BY <2>3 DEF Phase
  <2>5. Phase' = Phase BY <1>2 DEF Receive, object, Phase
  <2> QED BY <1>2, <2>4, <2>5 DEF Receive, Service!Serve
<1> QED BY <1>1, <1>2

\* While callers are orderly every step is a step of the membership or invisible to it.
LEMMA StepServes ==
    ASSUME IInv, [Next]_vars
    PROVE  [orderly' /\ fixed' => Service!Next]_(Service!vars)
<1> SUFFICES ASSUME orderly', fixed' PROVE [Service!Next]_(Service!vars)
  OBVIOUS
<1>1. ASSUME UNCHANGED <<agents, closing, mail>> PROVE UNCHANGED Service!vars
  BY <1>1 DEF Service!vars, Phase
<1>2. \A i \in Instances : IdOf[i] \in Ids BY LifecycleAssumption
<1>3. ASSUME NEW i \in Instances,
             \/ Connect(i) \/ Disconnect(i)
             \/ Disconnected(i) \/ DisconnectInHandler(i)
      PROVE  Service!Next \/ UNCHANGED Service!vars
  BY <1>2, <1>3, ConnectJoins, DisconnectRetires, DisconnectedLeaves DEF Service!Next
<1>4. ASSUME NEW id \in Ids, Deliver(id) PROVE Service!Next
  BY <1>4, MailServes DEF Service!Next
<1>5. ASSUME NEW i \in Instances, Receive(i) PROVE Service!Next
  BY <1>2, <1>5, MailServes DEF Service!Next
<1>6. ASSUME NEW i \in Instances, HandlerReturns(i) \/ LoopEnds(i)
      PROVE  UNCHANGED Service!vars
  BY <1>1, <1>6 DEF HandlerReturns, LoopEnds, broker
<1>7. ASSUME NEW i \in Instances, NEW c \in Capabilities, Learn(i, c)
      PROVE  UNCHANGED Service!vars
  BY <1>1, <1>7 DEF Learn, broker, object
<1>8. CASE UNCHANGED vars BY <1>1, <1>8 DEF vars, broker, object
<1> QED BY <1>3, <1>4, <1>5, <1>6, <1>7, <1>8 DEF Next

-----------------------------------------------------------------------------
(* The theorems                                                            *)

\* Objects, tables and loops keep their types.
THEOREM TypeCorrect == Spec => []TypeOK
<1> IInv => TypeOK BY DEF IInv
<1> QED BY Invariance, PTL

\* Agents, inboxes and registry stay in step under every order of connects and
\* disconnects, of objects that share an id as well.
THEOREM InStep == Spec => []DirectoryConsistent
<1> IInv => DirectoryConsistent BY DEF IInv
<1> QED BY Invariance, PTL

\* The registered object of an id holds the broker.
THEOREM OwnerHolds == Spec => []OwnerHoldsBroker
<1> IInv => OwnerHoldsBroker BY DEF IInv
<1> QED BY Invariance, PTL

\* With orderly callers, connected means registered and served by one loop, and no loop
\* goes on for an object that has been disconnected, by a handler of its own or not.
THEOREM Served == Spec => []OrderlyService
<1> IInv => OrderlyService BY DEF IInv
<1> QED BY Invariance, PTL

\* While callers keep one object per id connected and connect it only when it is not,
\* connect and disconnect are the joins and leaves the broker takes them for.
THEOREM OrderlyServes == Spec => OrderlyMembership
<1>1. Init => Service!Init
  BY LifecycleAssumption DEF Init, Service!Init, Phase
<1>2. IInv /\ [Next]_vars => [orderly' /\ fixed' => Service!Next]_(Service!vars)
  BY StepServes
<1> QED BY <1>1, <1>2, Invariance, PTL DEF Spec, OrderlyMembership
=============================================================================
