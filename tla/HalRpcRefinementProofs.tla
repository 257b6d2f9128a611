----------------------- MODULE HalRpcRefinementProofs -----------------------
(* HalRpc implements CallPromise, for any clients, connections and bounds.   *)
EXTENDS HalRpcRefinement, HalRpcProofs

-----------------------------------------------------------------------------
\* Nothing has been called, sent or executed in either specification at first.
LEMMA InitMaps == Init => Promise!Init
<1> SUFFICES ASSUME Init PROVE Promise!Init
  OBVIOUS
<1>1. OnItsWay = {}
  BY DEF Init, OnItsWay, Carriers
<1>2. [c \in Clients |-> pc[c] # "idle"] = [c \in Clients |-> FALSE]
  BY DEF Init
<1> QED
  BY <1>1, <1>2 DEF Init, Promise!Init, NoReq, Promise!NoReq, Request, Promise!Request

\* What is on its way depends on the connections only.
LEMMA OnItsWayKept ==
    ASSUME UNCHANGED <<reqQ, handler, cur>>
    PROVE  OnItsWay' = OnItsWay
  BY DEF OnItsWay, Carriers

\* A step that changes no client and executes nothing may lose requests.
LEMMA LosingStep ==
    ASSUME UNCHANGED <<num, method, pc, outcome, executed>>,
           \A r \in Request : Carriers(r)' \subseteq Carriers(r)
    PROVE  Promise!Next
<1>1. OnItsWay' \in SUBSET OnItsWay
  BY DEF OnItsWay
<1> QED
  BY <1>1 DEF Promise!Next, Promise!Lose

\* A call that ends without an answer.
LEMMA GivingUp ==
    ASSUME TypeInv, NEW c \in Clients, pc[c] # "idle",
           NEW kind \in {"timeout", "lostTwice", "lossWarning", "cannotConnect"},
           Fail(c, kind), UNCHANGED <<num, method, executed>>, OnItsWay' = OnItsWay,
           kind = "lostTwice" => ~IsWrite(method[c]),
           kind = "lossWarning" => IsWrite(method[c])
    PROVE  Promise!Next
<1>1. [x \in Clients |-> pc[x] # "idle"]'
        = [[x \in Clients |-> pc[x] # "idle"] EXCEPT ![c] = FALSE]
  BY DEF Fail, TypeInv, TypeOK
<1>2. Promise!GiveUp(c, kind)
  BY <1>1 DEF Promise!GiveUp, Promise!Ends, Fail, NoReq, Promise!NoReq, IsWrite, TierOf,
     Promise!IsWrite, Promise!TierOf
<1> QED
  BY <1>2 DEF Promise!Next

-----------------------------------------------------------------------------
(* The client's steps.                                                      *)

\* Entering _call begins a call, or has it refused.
LEMMA BeginMaps ==
    ASSUME TypeInv, NEW c \in Clients, NEW m \in UsedMethods, BeginCall(c, m)
    PROVE  Promise!Next
<1>1. OnItsWay' = OnItsWay /\ UNCHANGED executed
  BY OnItsWayKept DEF BeginCall, serverVars
<1>2. CASE sock[c] = NoConn
  <2>1. [x \in Clients |-> pc[x] # "idle"]' = [x \in Clients |-> pc[x] # "idle"]
    BY <1>2 DEF BeginCall, Fail, TypeInv, TypeOK
  <2>2. Promise!Begin(c, m)
    BY <1>1, <1>2, <2>1 DEF BeginCall, Fail, Promise!Begin, Promise!Ends, NoReq, Promise!NoReq
  <2> QED
    BY <2>2 DEF Promise!Next
<1>3. CASE sock[c] # NoConn
  <2>1. [x \in Clients |-> pc[x] # "idle"]'
          = [[x \in Clients |-> pc[x] # "idle"] EXCEPT ![c] = TRUE]
    BY <1>3 DEF BeginCall, TypeInv, TypeOK
  <2>2. Promise!Begin(c, m)
    BY <1>1, <1>3, <2>1 DEF BeginCall, Promise!Begin, Promise!Ends, NoReq, Promise!NoReq
  <2> QED
    BY <2>2 DEF Promise!Next
<1> QED
  BY <1>2, <1>3

\* Writing the request puts it on its way.
LEMMA SendMaps ==
    ASSUME IInv, NEW c \in Clients, SendRequest(c)
    PROVE  Promise!Next
<1> DEFINE k == sock[c]
<1>1. /\ k \in Conns /\ reqQ[k] = <<>> /\ Req(c) \in Request /\ pc[c] = "send"
      /\ ~Busy(k)
      /\ UNCHANGED <<handler, cur, executed, num, method, outcome>>
  BY CurrentIsRequest
  DEF SendRequest, Open, serverVars, IInv, LineInv, IdleIsQuiet, Quiet, TypeInv
<1>2. /\ reqQ'[k] # <<>> /\ Head(reqQ'[k]) = Req(c)
      /\ \A x \in Conns : x # k => reqQ'[x] = reqQ[x]
  BY <1>1, AppendToEmpty DEF SendRequest, IInv, TypeInv, TypeOK
<1> HIDE DEF k
<1>3. ASSUME NEW r \in Request
      PROVE  Carriers(r)' = IF r = Req(c) THEN Carriers(r) \cup {k} ELSE Carriers(r)
  BY <1>1, <1>2, <1>3 DEF Carriers
<1>4. OnItsWay' = OnItsWay \cup {Req(c)}
  BY <1>1, <1>3 DEF OnItsWay
<1>5. [x \in Clients |-> pc[x] # "idle"]' = [x \in Clients |-> pc[x] # "idle"]
  BY DEF SendRequest, IInv, TypeInv, TypeOK
<1>6. Promise!Send(c)
  BY <1>1, <1>4, <1>5 DEF Promise!Send, Promise!Req, Req
<1> QED
  BY <1>6 DEF Promise!Next

\* The response a call receives answers it.
LEMMA ReceiveMaps ==
    ASSUME IInv, NEW c \in Clients, ReceiveResponse(c)
    PROVE  Promise!Next
<1>1. /\ outcome'[c].reply = Req(c) /\ executed[Req(c)] >= 1
      /\ UNCHANGED <<num, method, executed>>
  BY ReceivedIsOwn DEF ReceiveResponse, IInv
<1>2. Req(c) \in Request /\ executed[Req(c)] \in Nat
  BY CurrentIsRequest DEF ReceiveResponse, IInv, TypeInv, TypeOK
<1>3. OnItsWay' = OnItsWay
  BY OnItsWayKept DEF ReceiveResponse, serverVars
<1>4. PICK kind \in {"result", "raised"} :
         outcome' = [outcome EXCEPT ![c] = [kind |-> kind, reply |-> Req(c)]]
  BY <1>1 DEF ReceiveResponse, IInv, TypeInv, TypeOK
<1>5. [x \in Clients |-> pc[x] # "idle"]'
        = [[x \in Clients |-> pc[x] # "idle"] EXCEPT ![c] = FALSE]
  BY DEF ReceiveResponse, IInv, TypeInv, TypeOK
<1>6. pc[c] # "idle" /\ executed[Req(c)] > 0
  BY <1>1, <1>2 DEF ReceiveResponse
<1>7. Promise!Answer(c, kind)
  BY <1>1, <1>3, <1>4, <1>5, <1>6 DEF Promise!Answer, Promise!Ends, Promise!Req, Req
<1> QED
  BY <1>7 DEF Promise!Next

\* A lost connection leads to the reconnect, or ends a call that is retried.
LEMMA LostMaps ==
    ASSUME IInv, NEW c \in Clients, pc[c] # "idle", ConnectionLost(c)
    PROVE  Promise!Next \/ UNCHANGED Promise!promiseVars
<1>1. OnItsWay' = OnItsWay /\ UNCHANGED <<num, method, executed>>
  BY OnItsWayKept DEF ConnectionLost, serverVars
<1>2. CASE attempt[c] = 1
  <2>1. [x \in Clients |-> pc[x] # "idle"]' = [x \in Clients |-> pc[x] # "idle"]
    BY <1>2 DEF ConnectionLost, IInv, TypeInv, TypeOK
  <2>2. UNCHANGED outcome
    BY <1>2 DEF ConnectionLost
  <2> QED
    BY <1>1, <2>1, <2>2 DEF Promise!promiseVars
<1>3. CASE attempt[c] = 2
  <2>1. ~IsWrite(method[c])
    BY <1>3 DEF IInv, RetryOnce, Retried, RetryTiers, IsWrite
  <2>2. Fail(c, "lostTwice")
    BY <1>3 DEF ConnectionLost
  <2> QED
    BY <1>1, <2>1, <2>2, GivingUp DEF IInv
<1> QED
  BY <1>2, <1>3 DEF ConnectionLost

\* A new connection carries nothing.
LEMMA OpenKeeps ==
    ASSUME TypeInv, NEW c \in Clients, NEW k \in Conns, OpenSocket(c, k), UNCHANGED <<reqQ, cur>>
    PROVE  OnItsWay' = OnItsWay
  BY DEF OpenSocket, Fresh, OnItsWay, Carriers, TypeInv, TypeOK

\* The reconnect inside _call is invisible when the call is retried, and ends it
\* with a warning when it is a write.
LEMMA ReconnectMaps ==
    ASSUME IInv, NEW c \in Clients, Reconnect(c)
    PROVE  Promise!Next \/ UNCHANGED Promise!promiseVars
<1>1. OnItsWay' = OnItsWay /\ UNCHANGED <<num, method, executed>>
  BY OpenKeeps DEF Reconnect, IInv
<1>2. CASE Retried(method[c])
  <2>1. [x \in Clients |-> pc[x] # "idle"]' = [x \in Clients |-> pc[x] # "idle"]
    BY <1>2 DEF Reconnect, IInv, TypeInv, TypeOK
  <2>2. UNCHANGED outcome
    BY <1>2 DEF Reconnect
  <2> QED
    BY <1>1, <2>1, <2>2 DEF Promise!promiseVars
<1>3. CASE ~Retried(method[c])
  <2>1. IsWrite(method[c])
    BY <1>3 DEF Retried, RetryTiers, IsWrite, TierOf
  <2>2. Fail(c, "lossWarning") /\ pc[c] # "idle"
    BY <1>3 DEF Reconnect
  <2> QED
    BY <1>1, <2>1, <2>2, GivingUp DEF IInv
<1> QED
  BY <1>2, <1>3

\* Every step of a call under way.
LEMMA ClientMaps ==
    ASSUME IInv, NEW c \in Clients, ClientStep(c)
    PROVE  Promise!Next \/ UNCHANGED Promise!promiseVars
<1>1. CASE SendFails(c) \/ ReceiveFails(c)
  BY <1>1, LostMaps DEF SendFails, ReceiveFails
<1>2. CASE CallTimesOut(c)
  <2>1. OnItsWay' = OnItsWay /\ UNCHANGED <<num, method, executed>>
    BY <1>2, OnItsWayKept DEF CallTimesOut, serverVars
  <2>2. Fail(c, "timeout") /\ pc[c] # "idle"
    BY <1>2 DEF CallTimesOut
  <2> QED
    BY <2>1, <2>2, GivingUp DEF IInv
<1>3. CASE ReconnectFails(c)
  <2>1. OnItsWay' = OnItsWay /\ UNCHANGED <<num, method, executed>>
    BY <1>3, OnItsWayKept DEF ReconnectFails, serverVars
  <2>2. Fail(c, "cannotConnect") /\ pc[c] # "idle"
    BY <1>3 DEF ReconnectFails
  <2> QED
    BY <2>1, <2>2, GivingUp DEF IInv
<1> QED
  BY <1>1, <1>2, <1>3, SendMaps, ReceiveMaps, ReconnectMaps DEF ClientStep

-----------------------------------------------------------------------------
(* The daemon's steps.                                                      *)

\* Dispatching executes a request that is on its way, and not too often.
LEMMA DispatchMaps ==
    ASSUME IInv, NEW k \in Conns, NEW ok \in BOOLEAN, Dispatch(k, ok)
    PROVE  Promise!Next
<1> DEFINE r == cur[k]
<1>1. /\ r \in Request /\ reqQ[k] = <<>> /\ handler[k] = "dispatch"
      /\ handler'[k] \in {"sendResult", "sendError"}
      /\ \A x \in Conns : x # k => handler'[x] = handler[x]
      /\ UNCHANGED <<reqQ, cur, num, method, pc, outcome>>
      /\ executed' = [executed EXCEPT ![r] = @ + 1]
  BY CurrentServed DEF Dispatch, Busy, clientVars, IInv, LineInv, OneInFlight, TypeInv, TypeOK
<1> HIDE DEF r
<1>2. k \in Carriers(r)
  BY <1>1 DEF Carriers, r
<1>3. executed[r] < Limit(r)
  <2>1. Cardinality(Carriers(r)) # 0
    BY <1>2, CarriersFinite, FS_EmptySet
  <2>2. executed[r] + Cardinality(Carriers(r)) <= Budget(r)
    BY <1>1 DEF IInv, WithinBudget
  <2>3. Budget(r) \in 0..Limit(r) /\ Limit(r) \in Nat /\ executed[r] \in Nat
    BY <1>1, BudgetIsNat DEF IInv, Limit, TypeInv, TypeOK
  <2> QED
    BY <2>1, <2>2, <2>3, CarriersFinite
<1>4. ASSUME NEW q \in Request, q # r PROVE Carriers(q)' = Carriers(q)
  BY <1>1, <1>4 DEF Carriers, r
<1>5. OnItsWay' \in {OnItsWay, OnItsWay \ {r}}
  <2>1. r \in OnItsWay
    BY <1>1, <1>2 DEF OnItsWay
  <2>2. \A q \in Request : q # r => (q \in OnItsWay' <=> q \in OnItsWay)
    BY <1>4 DEF OnItsWay
  <2>3. OnItsWay \subseteq Request /\ OnItsWay' \subseteq Request
    BY DEF OnItsWay
  <2>4. CASE r \in OnItsWay'
    <3>1. OnItsWay' = OnItsWay
      BY <2>1, <2>2, <2>3, <2>4
    <3> QED
      BY <3>1
  <2>5. CASE r \notin OnItsWay'
    <3>1. OnItsWay' = OnItsWay \ {r}
      BY <2>1, <2>2, <2>3, <2>5
    <3> QED
      BY <3>1
  <2> QED
    BY <2>4, <2>5
<1>6. Limit(r) = Promise!MaxExecutions(r)
  BY DEF Limit, Promise!MaxExecutions, IsWrite, TierOf, Promise!IsWrite, Promise!TierOf
<1>7. r \in OnItsWay /\ r \in Promise!Request
  BY <1>1, <1>2 DEF OnItsWay, Request, Promise!Request
<1>8. Promise!Execute(r)
  BY <1>1, <1>3, <1>5, <1>6, <1>7 DEF Promise!Execute
<1> QED
  BY <1>7, <1>8 DEF Promise!Next

\* The other steps of a thread move a request along, or lose it with its client.
LEMMA HandlerMaps ==
    ASSUME IInv, NEW k \in Conns, HandlerStep(k)
    PROVE  Promise!Next
<1> USE DEF IInv, TypeInv, TypeOK, Carriers, clientVars
<1>1. CASE ReadLine(k)
  <2>1. Tail(reqQ[k]) = <<>>
    BY <1>1, TailOfSingle DEF ReadLine, LineInv, OneInFlight
  <2>2. \A r \in Request : Carriers(r)' \subseteq Carriers(r)
    BY <1>1, <2>1 DEF ReadLine
  <2> QED
    BY <1>1, <2>2, LosingStep DEF ReadLine
<1>2. CASE Accept(k) \/ ReadEof(k) \/ AcquireLock(k) \/ Reply(k) \/ ReplyFails(k)
  <2>1. \A r \in Request : Carriers(r)' \subseteq Carriers(r)
    BY <1>2 DEF Accept, ReadEof, AcquireLock, Reply, ReplyFails, HandlerExits
  <2> QED
    BY <1>2, <2>1, LosingStep DEF Accept, ReadEof, AcquireLock, Reply, ReplyFails
<1> QED
  BY <1>1, <1>2, DispatchMaps DEF HandlerStep

-----------------------------------------------------------------------------
\* Every step of the protocol is a step of the promise, or invisible to it.
LEMMA StepMaps ==
    ASSUME IInv, [Next]_vars
    PROVE  Promise!Next \/ UNCHANGED Promise!promiseVars
<1>1. ASSUME NEW c \in Clients, Connect(c)
      PROVE  UNCHANGED Promise!promiseVars
  BY <1>1, OpenKeeps DEF Connect, IInv, Promise!promiseVars
<1>2. ASSUME NEW c \in Clients, Close(c) \/ SocketFault(c)
      PROVE  UNCHANGED Promise!promiseVars
  BY <1>2, OnItsWayKept DEF Close, SocketFault, serverVars, Promise!promiseVars
<1>3. ASSUME NEW c \in Clients, NEW m \in UsedMethods, BeginCall(c, m)
      PROVE  Promise!Next
  BY <1>3, BeginMaps DEF IInv
<1>4. CASE Crash
  <2>1. \A r \in Request : Carriers(r)' \subseteq Carriers(r)
    BY <1>4 DEF Crash, Carriers
  <2> QED
    BY <1>4, <2>1, LosingStep DEF Crash, clientVars
<1>5. CASE Start \/ UNCHANGED vars
  BY <1>5, OnItsWayKept DEF Start, vars, clientVars, Promise!promiseVars
<1> QED
  BY <1>1, <1>2, <1>3, <1>4, <1>5, ClientMaps, HandlerMaps DEF Next

\* The protocol of client and daemon implements the client's promise, for any
\* number of clients, connections, calls, crashes and socket failures: whoever
\* relies on CallPromise may forget connections, threads, retries and restarts.
THEOREM RpcKeepsPromise == Spec => KeepsPromise
<1>1. Init => Promise!Init
  BY InitMaps
<1>2. IInv /\ [Next]_vars => [Promise!Next]_(Promise!promiseVars)
  BY StepMaps
<1> QED
  BY <1>1, <1>2, Invariance, PTL DEF Spec, KeepsPromise, Promise!Spec

=============================================================================
