---------------------------- MODULE HalRpcProofs ----------------------------
(* Theorems about HalRpc, for any clients, connections, methods and bounds.  *)
EXTENDS HalRpcInv, FiniteSetTheorems, TLAPS

-----------------------------------------------------------------------------
(* Types.                                                                   *)

\* The initial state has the right shape.
LEMMA InitTypes == Init => TypeInv
  BY ConnAssumption, BoundAssumption
  DEF Init, TypeInv, TypeOK, CallStarted, ServesRequest, Busy, Request, Response,
      OutcomeKind, CallOutcome, ClientPc, HandlerPc, NoReq

\* The call under way, or the last one answered, is a request.
LEMMA CurrentIsRequest ==
    ASSUME TypeInv, NEW c \in Clients, pc[c] # "idle" \/ outcome[c].kind # "none"
    PROVE  Req(c) \in Request
  BY DEF TypeInv, TypeOK, CallStarted, Req, Request

\* A thread with a request to serve is serving one of Request.
LEMMA CurrentServed ==
    ASSUME TypeInv, NEW k \in Conns, Busy(k)
    PROVE  cur[k] \in Request
  BY DEF TypeInv, ServesRequest

\* How a call ends keeps the types of what it changes.
LEMMA OutcomeTypes ==
    ASSUME TypeInv, NEW c \in Clients, NEW o \in CallOutcome,
           outcome' = [outcome EXCEPT ![c] = o]
    PROVE  outcome' \in [Clients -> CallOutcome]
  BY DEF TypeInv, TypeOK

\* A call that ends with QosHalClientError leaves the client well typed.
LEMMA FailTypes ==
    ASSUME TypeInv, NEW c \in Clients, NEW kind \in OutcomeKind, Fail(c, kind)
    PROVE  /\ pc' \in [Clients -> ClientPc]
           /\ outcome' \in [Clients -> CallOutcome]
<1>1. pc' \in [Clients -> ClientPc]
  BY DEF TypeInv, TypeOK, Fail, ClientPc
<1>2. [kind |-> kind, reply |-> NoReq] \in CallOutcome
  BY DEF CallOutcome
<1> QED
  BY <1>1, <1>2, OutcomeTypes DEF Fail

\* Closing the client end keeps the types.
LEMMA TeardownTypes ==
    ASSUME TypeInv, NEW c \in Clients, Teardown(c)
    PROVE  /\ respQ' \in [Conns -> Seq(Response)]
           /\ sock' \in [Clients -> Conns \cup {NoConn, DeadConn}]
  BY DEF TypeInv, TypeOK, Teardown, DropUnread

\* Opening a connection keeps the types.
LEMMA OpenTypes ==
    ASSUME TypeInv, NEW c \in Clients, NEW k \in Conns, OpenSocket(c, k)
    PROVE  /\ handler' \in [Conns -> HandlerPc]
           /\ sock' \in [Clients -> Conns \cup {NoConn, DeadConn}]
  BY DEF TypeInv, TypeOK, OpenSocket, HandlerPc

\* A lost connection keeps the types.
LEMMA LostTypes ==
    ASSUME TypeInv, NEW c \in Clients, ConnectionLost(c)
    PROVE  TypeOK'
<1> USE DEF ConnectionLost, serverVars
<1>1. CASE attempt[c] = 1
  <2>1. pc' = [pc EXCEPT ![c] = "reconnect"] /\ pc \in [Clients -> ClientPc]
    BY <1>1 DEF TypeInv, TypeOK
  <2>2. "reconnect" \in ClientPc
    BY DEF ClientPc
  <2>3. pc' \in [Clients -> ClientPc]
    BY <2>1, <2>2
  <2> QED
    BY <1>1, <2>3, TeardownTypes DEF TypeInv, TypeOK
<1>2. CASE attempt[c] = 2
  <2>1. "lostTwice" \in OutcomeKind
    BY DEF OutcomeKind
  <2> QED
    BY <1>2, <2>1, FailTypes DEF TypeInv, TypeOK
<1> QED
  BY <1>1, <1>2

\* A thread's step keeps the types.
LEMMA HandlerTypes ==
    ASSUME TypeInv, NEW k \in Conns, HandlerStep(k)
    PROVE  TypeOK'
<1> USE DEF clientVars
<1>1. CASE Accept(k)
  BY <1>1 DEF Accept, TypeInv, TypeOK, HandlerPc
<1>2. CASE ReadLine(k)
  <2>1. Head(reqQ[k]) \in Request /\ Tail(reqQ[k]) \in Seq(Request)
    BY <1>2 DEF ReadLine, TypeInv, TypeOK
  <2>2. handler' \in [Conns -> HandlerPc]
    BY <1>2 DEF ReadLine, TypeInv, TypeOK, HandlerPc
  <2> QED
    BY <1>2, <2>1, <2>2 DEF ReadLine, TypeInv, TypeOK
<1>3. CASE ReadEof(k)
  <2>1. handler' \in [Conns -> HandlerPc]
    BY <1>3 DEF ReadEof, HandlerExits, TypeInv, TypeOK, HandlerPc
  <2> QED
    BY <1>3, <2>1 DEF ReadEof, HandlerExits, TypeInv, TypeOK
<1>4. CASE AcquireLock(k)
  BY <1>4 DEF AcquireLock, TypeInv, TypeOK, HandlerPc
<1>5. ASSUME NEW ok \in BOOLEAN, Dispatch(k, ok) PROVE TypeOK'
  <2>1. cur[k] \in Request
    BY <1>5, CurrentServed DEF Dispatch, Busy
  <2>2. executed' \in [Request -> Nat]
    BY <1>5, <2>1 DEF Dispatch, TypeInv, TypeOK
  <2>3. handler' \in [Conns -> HandlerPc]
    BY <1>5 DEF Dispatch, TypeInv, TypeOK, HandlerPc
  <2> QED
    BY <1>5, <2>2, <2>3 DEF Dispatch, TypeInv, TypeOK
<1>6. CASE Reply(k)
  <2>1. handler' \in [Conns -> HandlerPc]
    BY <1>6 DEF Reply, TypeInv, TypeOK, HandlerPc
  <2>2. [req |-> cur[k], ok |-> handler[k] = "sendResult"] \in Response
    BY <1>6, CurrentServed DEF Reply, Busy, Response
  <2>3. respQ' \in [Conns -> Seq(Response)]
    BY <1>6, <2>2 DEF Reply, TypeInv, TypeOK
  <2> QED
    BY <1>6, <2>1, <2>3 DEF Reply, TypeInv, TypeOK
<1>7. CASE ReplyFails(k)
  <2>1. handler' \in [Conns -> HandlerPc]
    BY <1>7 DEF ReplyFails, HandlerExits, TypeInv, TypeOK, HandlerPc
  <2> QED
    BY <1>7, <2>1 DEF ReplyFails, HandlerExits, TypeInv, TypeOK
<1> QED
  BY <1>1, <1>2, <1>3, <1>4, <1>5, <1>6, <1>7 DEF HandlerStep

\* A step of a call under way keeps the types.
LEMMA ClientTypes ==
    ASSUME TypeInv, NEW c \in Clients, ClientStep(c)
    PROVE  TypeOK'
<1> USE DEF serverVars
<1>0. {"timeout", "lossWarning", "cannotConnect", "result", "raised"} \subseteq OutcomeKind
  BY DEF OutcomeKind
<1>1. CASE SendRequest(c)
  <2>1. Req(c) \in Request
    BY <1>1, CurrentIsRequest DEF SendRequest
  <2>2. reqQ' \in [Conns -> Seq(Request)]
    BY <1>1, <2>1 DEF SendRequest, Open, TypeInv, TypeOK
  <2>3. pc' \in [Clients -> ClientPc]
    BY <1>1 DEF SendRequest, TypeInv, TypeOK, ClientPc
  <2> QED
    BY <1>1, <2>2, <2>3 DEF SendRequest, TypeInv, TypeOK
<1>2. CASE SendFails(c) \/ ReceiveFails(c)
  BY <1>2, LostTypes DEF SendFails, ReceiveFails
<1>3. CASE ReceiveResponse(c)
  <2> DEFINE r == Head(respQ[sock[c]])
  <2>1. r \in Response /\ Tail(respQ[sock[c]]) \in Seq(Response)
    BY <1>3 DEF ReceiveResponse, TypeInv, TypeOK
  <2>2. respQ' \in [Conns -> Seq(Response)]
    BY <1>3, <2>1 DEF ReceiveResponse, TypeInv, TypeOK
  <2>3. [kind |-> IF r.ok THEN "result" ELSE "raised", reply |-> r.req] \in CallOutcome
    BY <1>0, <2>1 DEF CallOutcome, Response
  <2>4. outcome' \in [Clients -> CallOutcome]
    BY <1>3, <2>3, OutcomeTypes DEF ReceiveResponse
  <2>5. pc' \in [Clients -> ClientPc]
    BY <1>3 DEF ReceiveResponse, TypeInv, TypeOK, ClientPc
  <2> QED
    BY <1>3, <2>2, <2>4, <2>5 DEF ReceiveResponse, TypeInv, TypeOK
<1>4. CASE CallTimesOut(c)
  BY <1>0, <1>4, TeardownTypes, FailTypes DEF CallTimesOut, TypeInv, TypeOK
<1>5. CASE Reconnect(c)
  <2>1. /\ handler' \in [Conns -> HandlerPc]
        /\ sock' \in [Clients -> Conns \cup {NoConn, DeadConn}]
    BY <1>5, OpenTypes DEF Reconnect
  <2>2. CASE Retried(method[c])
    <3>1. pc' \in [Clients -> ClientPc] /\ attempt' \in [Clients -> {1, 2}]
      BY <1>5, <2>2 DEF Reconnect, TypeInv, TypeOK, ClientPc
    <3> QED
      BY <1>5, <2>1, <2>2, <3>1 DEF Reconnect, TypeInv, TypeOK
  <2>3. CASE ~Retried(method[c])
    BY <1>0, <1>5, <2>1, <2>3, FailTypes DEF Reconnect, TypeInv, TypeOK
  <2> QED
    BY <2>2, <2>3
<1>6. CASE ReconnectFails(c)
  BY <1>0, <1>6, FailTypes DEF ReconnectFails, TypeInv, TypeOK
<1> QED
  BY <1>1, <1>2, <1>3, <1>4, <1>5, <1>6 DEF ClientStep

\* Starting a call, or refusing it, keeps the types.
LEMMA BeginCallTypes ==
    ASSUME TypeInv, NEW c \in Clients, NEW m \in UsedMethods, BeginCall(c, m)
    PROVE  TypeOK'
<1>1. num' \in [Clients -> 0..MaxCalls]
  BY BoundAssumption DEF BeginCall, TypeInv, TypeOK
<1>2. method' \in [Clients -> UsedMethods \cup {"none"}] /\ attempt' \in [Clients -> {1, 2}]
  BY DEF BeginCall, TypeInv, TypeOK
<1>3. pc' \in [Clients -> ClientPc] /\ outcome' \in [Clients -> CallOutcome]
  <2>1. CASE sock[c] = NoConn
    BY <2>1, FailTypes DEF BeginCall, OutcomeKind
  <2>2. CASE sock[c] # NoConn
    <3>1. pc' \in [Clients -> ClientPc]
      BY <2>2, ZenonT(60) DEF BeginCall, TypeInv, TypeOK, ClientPc
    <3>2. [kind |-> "pending", reply |-> NoReq] \in CallOutcome
      BY DEF CallOutcome, OutcomeKind
    <3> QED
      BY <2>2, <3>1, <3>2, OutcomeTypes DEF BeginCall
  <2> QED
    BY <2>1, <2>2
<1> QED
  BY <1>1, <1>2, <1>3 DEF BeginCall, serverVars, TypeInv, TypeOK

\* Every step keeps the types.
LEMMA TypesStep == TypeInv /\ [Next]_vars => TypeInv'
<1> SUFFICES ASSUME TypeInv, [Next]_vars PROVE TypeInv'
  OBVIOUS
<1>1. TypeOK'
  <2>1. ASSUME NEW c \in Clients, Connect(c) \/ Close(c) \/ SocketFault(c) PROVE TypeOK'
    <3>1. CASE Connect(c)
      BY <3>1, OpenTypes DEF Connect, TypeInv, TypeOK
    <3>2. CASE Close(c)
      BY <3>2, TeardownTypes DEF Close, serverVars, TypeInv, TypeOK
    <3>3. CASE SocketFault(c)
      BY <3>3, BoundAssumption DEF SocketFault, DropUnread, serverVars, TypeInv, TypeOK
    <3> QED
      BY <2>1, <3>1, <3>2, <3>3
  <2>2. CASE Crash
    <3>1. handler' \in [Conns -> HandlerPc] /\ reqQ' \in [Conns -> Seq(Request)]
      BY <2>2 DEF Crash, HandlerPc
    <3>2. cur' \in [Conns -> Request \cup {NoReq}] /\ crashes' \in 0..MaxCrashes
      BY <2>2, BoundAssumption DEF Crash, TypeInv, TypeOK
    <3> QED
      BY <2>2, <3>1, <3>2 DEF Crash, clientVars, TypeInv, TypeOK
  <2>3. CASE Start
    BY <2>3 DEF Start, clientVars, TypeInv, TypeOK
  <2>4. CASE UNCHANGED vars
    BY <2>4 DEF vars, TypeInv, TypeOK
  <2> QED
    BY <2>1, <2>2, <2>3, <2>4, BeginCallTypes, ClientTypes, HandlerTypes DEF Next
<1>2. CallStarted'
  <2>1. ASSUME NEW c \in Clients, ClientStep(c) PROVE CallStarted'
    BY <2>1 DEF ClientStep, SendRequest, SendFails, ReceiveResponse, ReceiveFails, CallTimesOut,
       Reconnect, ReconnectFails, ConnectionLost, Fail, TypeInv, TypeOK, CallStarted
  <2>2. ASSUME NEW c \in Clients, NEW m \in UsedMethods, BeginCall(c, m) PROVE CallStarted'
    BY <2>2 DEF BeginCall, Fail, TypeInv, TypeOK, CallStarted
  <2>3. ASSUME NEW c \in Clients, Connect(c) \/ Close(c) \/ SocketFault(c) PROVE CallStarted'
    BY <2>3 DEF Connect, Close, SocketFault, TypeInv, CallStarted
  <2>4. ASSUME NEW k \in Conns, HandlerStep(k) PROVE CallStarted'
    BY <2>4 DEF HandlerStep, Accept, ReadLine, ReadEof, AcquireLock, Dispatch, Reply, ReplyFails,
       clientVars, TypeInv, CallStarted
  <2>5. CASE Crash \/ Start \/ UNCHANGED vars
    BY <2>5 DEF Crash, Start, vars, clientVars, TypeInv, CallStarted
  <2> QED
    BY <2>1, <2>2, <2>3, <2>4, <2>5 DEF Next
<1>3. ServesRequest'
  <2> USE DEF Busy, ServesRequest
  <2>1. ASSUME NEW c \in Clients, ClientStep(c) PROVE ServesRequest'
    BY <2>1 DEF ClientStep, SendRequest, SendFails, ReceiveResponse, ReceiveFails, CallTimesOut,
       Reconnect, ReconnectFails, ConnectionLost, OpenSocket, serverVars, TypeInv, TypeOK
  <2>2. ASSUME NEW c \in Clients, NEW m \in UsedMethods, BeginCall(c, m) PROVE ServesRequest'
    BY <2>2 DEF BeginCall, serverVars, TypeInv
  <2>3. ASSUME NEW c \in Clients, Connect(c) \/ Close(c) \/ SocketFault(c) PROVE ServesRequest'
    BY <2>3 DEF Connect, OpenSocket, Close, SocketFault, serverVars, TypeInv, TypeOK
  <2>4. ASSUME NEW k \in Conns, HandlerStep(k) PROVE ServesRequest'
    BY <2>4 DEF HandlerStep, Accept, ReadLine, ReadEof, AcquireLock, Dispatch, Reply, ReplyFails, HandlerExits,
       TypeInv, TypeOK
  <2>5. CASE Crash \/ Start \/ UNCHANGED vars
    BY <2>5 DEF Crash, Start, vars, TypeInv
  <2> QED
    BY <2>1, <2>2, <2>3, <2>4, <2>5 DEF Next
<1> QED
  BY <1>1, <1>2, <1>3 DEF TypeInv

\* The state stays well typed, whatever the number of clients, connections,
\* calls, crashes and faults.
THEOREM TypeCorrect == Spec => []TypeOK
<1>1. TypeInv => TypeOK
  BY DEF TypeInv
<1> QED
  BY <1>1, InitTypes, TypesStep, PTL DEF Spec

-----------------------------------------------------------------------------
(* The lines stay matched to the calls.                                     *)

\* One line written to an empty stream.
LEMMA AppendToEmpty ==
    ASSUME NEW S, NEW x \in S
    PROVE  LET q == Append(<<>>, x)
           IN  q \in Seq(S) /\ q # <<>> /\ Len(q) = 1 /\ Head(q) = x
  OBVIOUS

\* A stream with one line is empty once it is read.
LEMMA TailOfSingle ==
    ASSUME NEW S, NEW q \in Seq(S), q # <<>>, Len(q) <= 1
    PROVE  Tail(q) = <<>>
  OBVIOUS

\* Nothing is on the wire at first.
LEMMA LineInit == Init => LineInv
  BY ConnAssumption DEF Init, LineInv, SockInjective, OneInFlight, LooseEnds, IdleIsQuiet,
     RecvIsOwn, TornDown, Quiet, Busy, Held

\* Opening a connection takes one that is quiet.
LEMMA LineOpen ==
    ASSUME TypeInv, LineInv, NEW c \in Clients, NEW k \in Conns, OpenSocket(c, k),
           sock[c] = NoConn,
           UNCHANGED <<num, method, cur, reqQ, respQ>>,
           \A d \in Clients : d # c => pc'[d] = pc[d],
           pc'[c] \in {"idle", "send"}
    PROVE  LineInv'
<1> USE DEF LineInv, OpenSocket, Fresh, Busy, Held, TypeInv, TypeOK
<1>1. SockInjective'
  BY DEF SockInjective
<1>2. OneInFlight'
  BY DEF OneInFlight
<1>3. LooseEnds'
  BY ConnAssumption DEF LooseEnds
<1>4. IdleIsQuiet'
  BY DEF IdleIsQuiet, Quiet, LooseEnds, OneInFlight, SockInjective
<1>5. RecvIsOwn'
  BY DEF RecvIsOwn, Req
<1>6. TornDown'
  BY DEF TornDown
<1> QED
  BY <1>1, <1>2, <1>3, <1>4, <1>5, <1>6

\* Closing the client's end leaves nothing that could reach another call.
LEMMA LineTeardown ==
    ASSUME TypeInv, LineInv, NEW c \in Clients,
           sock'[c] \notin Conns,
           sock' = [sock EXCEPT ![c] = sock'[c]],
           DropUnread(c),
           UNCHANGED <<num, method, handler, cur, reqQ>>,
           pc'[c] = "reconnect" => sock'[c] = NoConn,
           \A d \in Clients : d # c => pc'[d] = pc[d]
    PROVE  LineInv'
<1> USE DEF LineInv, DropUnread, Busy, Held, TypeInv, TypeOK
<1>1. SockInjective'
  BY DEF SockInjective
<1>2. OneInFlight'
  BY DEF OneInFlight
<1>3. LooseEnds'
  BY DEF LooseEnds
<1>4. IdleIsQuiet'
  BY DEF IdleIsQuiet, Quiet, SockInjective
<1>5. RecvIsOwn'
  BY ZenonT(60) DEF RecvIsOwn, Req, SockInjective
<1>6. TornDown'
  BY DEF TornDown
<1> QED
  BY <1>1, <1>2, <1>3, <1>4, <1>5, <1>6

\* What the client does between opening and closing leaves the lines matched.
LEMMA LineClient ==
    ASSUME TypeInv, LineInv, NEW c \in Clients, ClientStep(c)
    PROVE  LineInv'
<1>1. CASE SendRequest(c)
  <2> DEFINE k == sock[c]
  <2>1. /\ k \in Conns /\ Quiet(k) /\ Req(c) \in Request
        /\ pc[c] = "send" /\ pc'[c] = "recv"
        /\ \A d \in Clients : d # c => pc'[d] = pc[d]
    BY <1>1, CurrentIsRequest DEF SendRequest, Open, LineInv, IdleIsQuiet, TypeInv, TypeOK
  <2>2. /\ reqQ'[k] # <<>> /\ Len(reqQ'[k]) = 1 /\ Head(reqQ'[k]) = Req(c)
        /\ \A x \in Conns : x # k => reqQ'[x] = reqQ[x]
    BY <1>1, <2>1, AppendToEmpty DEF SendRequest, Quiet, TypeInv, TypeOK
  <2>3. /\ UNCHANGED <<sock, num, method, handler, cur, respQ>>
        /\ handler[k] # "free"
    BY <1>1 DEF SendRequest, Open, serverVars
  <2> HIDE DEF k
  <2>4. SockInjective'
    BY <2>3 DEF LineInv, SockInjective
  <2>5. OneInFlight'
    <3>1. ASSUME NEW x \in Conns, x # k
          PROVE  UNCHANGED <<reqQ[x], respQ[x], handler[x]>>
      BY <2>2, <2>3, <3>1
    <3>2. Len(reqQ'[k]) <= 1 /\ respQ'[k] = <<>> /\ ~Busy(k) /\ Len(respQ[k]) <= 1
      BY <2>1, <2>2, <2>3 DEF Quiet, LineInv, OneInFlight
    <3> QED
      BY <2>3, <3>1, <3>2 DEF LineInv, OneInFlight, Busy
  <2>6. LooseEnds'
    BY <2>2, <2>3 DEF LineInv, LooseEnds, Held
  <2>7. IdleIsQuiet'
    BY <2>1, <2>2, <2>3 DEF k, LineInv, SockInjective, IdleIsQuiet, Quiet, Busy
  <2>8. RecvIsOwn'
    BY <2>1, <2>2, <2>3 DEF k, LineInv, SockInjective, RecvIsOwn, Quiet, Busy, Req
  <2>9. TornDown'
    BY <2>1, <2>3 DEF LineInv, TornDown
  <2> QED
    BY <2>4, <2>5, <2>6, <2>7, <2>8, <2>9 DEF LineInv
<1>2. CASE SendFails(c) \/ ReceiveFails(c)
  <2>1. CASE attempt[c] = 1
    <3>1. ConnectionLost(c)
      BY <1>2 DEF SendFails, ReceiveFails
    <3>2. /\ Teardown(c)
          /\ pc' = [pc EXCEPT ![c] = "reconnect"]
          /\ UNCHANGED <<num, method, handler, cur, reqQ>>
      BY <2>1, <3>1 DEF ConnectionLost, serverVars
    <3>3. sock'[c] = NoConn /\ sock' = [sock EXCEPT ![c] = sock'[c]] /\ DropUnread(c)
      BY <3>2 DEF Teardown, TypeInv, TypeOK
    <3>4. \A d \in Clients : d # c => pc'[d] = pc[d]
      BY <3>2 DEF TypeInv, TypeOK
    <3> QED
      BY <3>2, <3>3, <3>4, ConnAssumption, LineTeardown
  <2>2. CASE attempt[c] = 2
    <3>1. /\ UNCHANGED <<sock, num, method, handler, cur, reqQ, respQ>>
          /\ pc'[c] = "idle"
          /\ \A d \in Clients : d # c => pc'[d] = pc[d]
      BY <1>2, <2>2 DEF SendFails, ReceiveFails, ConnectionLost, Fail, serverVars, TypeInv, TypeOK
    <3>2. sock[c] \in Conns => Quiet(sock[c])
      BY <1>2 DEF SendFails, ReceiveFails, Open, Quiet, Busy, LineInv, IdleIsQuiet, LooseEnds
    <3>3. IdleIsQuiet'
      BY <3>1, <3>2 DEF LineInv, IdleIsQuiet, Quiet, Busy
    <3> QED
      BY <3>1, <3>3 DEF LineInv, SockInjective, OneInFlight, LooseEnds, RecvIsOwn, TornDown,
         Held, Busy, Req
  <2> QED
    BY <1>2, <2>1, <2>2 DEF SendFails, ReceiveFails, ConnectionLost
<1>3. CASE ReceiveResponse(c)
  <2> DEFINE k == sock[c]
  <2>1. /\ k \in Conns /\ respQ[k] # <<>>
        /\ pc'[c] = "idle"
        /\ \A d \in Clients : d # c => pc'[d] = pc[d]
        /\ UNCHANGED <<sock, num, method, handler, cur, reqQ>>
    BY <1>3 DEF ReceiveResponse, serverVars, TypeInv, TypeOK
  <2>2. /\ respQ'[k] = <<>>
        /\ \A x \in Conns : x # k => respQ'[x] = respQ[x]
    BY <1>3, <2>1, TailOfSingle DEF ReceiveResponse, LineInv, OneInFlight, TypeInv, TypeOK
  <2>3. reqQ[k] = <<>> /\ ~Busy(k)
    BY <2>1 DEF LineInv, OneInFlight
  <2> HIDE DEF k
  <2>4. SockInjective'
    BY <2>1 DEF LineInv, SockInjective
  <2>5. OneInFlight'
    BY <2>1, <2>2, <2>3 DEF LineInv, OneInFlight, Busy
  <2>6. LooseEnds'
    BY <2>1, <2>2 DEF LineInv, LooseEnds, Held
  <2>7. IdleIsQuiet'
    BY <2>1, <2>2, <2>3 DEF k, LineInv, IdleIsQuiet, Quiet, Busy
  <2>8. RecvIsOwn'
    BY <2>1, <2>2 DEF k, LineInv, RecvIsOwn, SockInjective, Busy, Req
  <2>9. TornDown'
    BY <2>1 DEF LineInv, TornDown
  <2> QED
    BY <2>4, <2>5, <2>6, <2>7, <2>8, <2>9 DEF LineInv
<1>4. CASE CallTimesOut(c)
  <2>1. /\ Teardown(c)
        /\ pc' = [pc EXCEPT ![c] = "idle"]
        /\ UNCHANGED <<num, method, handler, cur, reqQ>>
    BY <1>4 DEF CallTimesOut, Fail, serverVars
  <2>2. sock'[c] = NoConn /\ sock' = [sock EXCEPT ![c] = sock'[c]] /\ DropUnread(c)
    BY <2>1 DEF Teardown, TypeInv, TypeOK
  <2>3. \A d \in Clients : d # c => pc'[d] = pc[d]
    BY <2>1 DEF TypeInv, TypeOK
  <2> QED
    BY <2>1, <2>2, <2>3, ConnAssumption, LineTeardown
<1>5. CASE Reconnect(c)
  <2>1. PICK k \in Conns : OpenSocket(c, k)
    BY <1>5 DEF Reconnect
  <2>2. sock[c] = NoConn
    BY <1>5 DEF Reconnect, LineInv, TornDown
  <2>3. /\ UNCHANGED <<num, method, cur, reqQ, respQ>>
        /\ \A d \in Clients : d # c => pc'[d] = pc[d]
        /\ pc'[c] \in {"idle", "send"}
    BY <1>5 DEF Reconnect, Fail, TypeInv, TypeOK
  <2> QED
    BY <2>1, <2>2, <2>3, LineOpen
<1>6. CASE ReconnectFails(c)
  <2>1. /\ UNCHANGED <<sock, num, method, handler, cur, reqQ, respQ>>
        /\ pc'[c] = "idle"
        /\ \A d \in Clients : d # c => pc'[d] = pc[d]
        /\ sock[c] = NoConn
    BY <1>6 DEF ReconnectFails, Fail, serverVars, LineInv, TornDown, TypeInv, TypeOK
  <2> QED
    BY <2>1, ConnAssumption DEF LineInv, SockInjective, OneInFlight, LooseEnds, IdleIsQuiet,
       RecvIsOwn, TornDown, Quiet, Held, Busy, Req
<1> QED
  BY <1>1, <1>2, <1>3, <1>4, <1>5, <1>6 DEF ClientStep

\* A thread moves a request along; it puts nothing on another's connection.
LEMMA LineHandler ==
    ASSUME TypeInv, LineInv, NEW k \in Conns, HandlerStep(k)
    PROVE  LineInv'
<1> USE DEF clientVars
<1>0. /\ UNCHANGED <<sock, pc, num, method>>
      /\ \A x \in Conns : x # k =>
            UNCHANGED <<reqQ[x], respQ[x], handler[x], cur[x]>>
  BY DEF HandlerStep, Accept, ReadLine, ReadEof, AcquireLock, Dispatch, Reply, ReplyFails,
     HandlerExits, TypeInv, TypeOK
<1>1. SockInjective' /\ TornDown'
  BY <1>0 DEF LineInv, SockInjective, TornDown
\* What has to be checked of k itself.
<1> DEFINE Local ==
        /\ Len(reqQ'[k]) <= 1
        /\ Len(respQ'[k]) <= 1
        /\ Busy(k)' => reqQ'[k] = <<>>
        /\ respQ'[k] # <<>> => reqQ'[k] = <<>> /\ ~Busy(k)'
        /\ ~Held(k) => respQ'[k] = <<>>
        /\ handler'[k] = "free" => reqQ'[k] = <<>>
        /\ Quiet(k) => Quiet(k)'
        /\ \A c \in Clients : pc[c] = "recv" /\ sock[c] = k =>
              /\ reqQ'[k] # <<>> => Head(reqQ'[k]) = Req(c)
              /\ Busy(k)' => cur'[k] = Req(c)
              /\ respQ'[k] # <<>> => Head(respQ'[k]).req = Req(c)
<1>2. Local => LineInv'
  <2> SUFFICES ASSUME Local PROVE LineInv'
    OBVIOUS
  <2>1. OneInFlight'
    BY <1>0 DEF LineInv, OneInFlight, Busy
  <2>2. LooseEnds'
    BY <1>0 DEF LineInv, LooseEnds, Held
  <2>3. IdleIsQuiet'
    BY <1>0 DEF LineInv, IdleIsQuiet, Quiet, Busy
  <2>4. RecvIsOwn'
    BY <1>0 DEF LineInv, RecvIsOwn, Busy, Req
  <2> QED
    BY <1>1, <2>1, <2>2, <2>3, <2>4 DEF LineInv
<1> USE DEF LineInv, OneInFlight, LooseEnds, RecvIsOwn, Busy, Quiet
<1>3. CASE Accept(k)
  <2>1. Local
    BY <1>3 DEF Accept, TypeInv, TypeOK
  <2> QED
    BY <1>2, <2>1
<1>4. CASE ReadLine(k)
  <2>1. /\ reqQ[k] # <<>> /\ reqQ'[k] = <<>> /\ cur'[k] = Head(reqQ[k])
        /\ respQ' = respQ /\ handler'[k] = "lockwait"
    BY <1>4, TailOfSingle DEF ReadLine, TypeInv, TypeOK
  <2>2. Local
    BY <1>0, <2>1
  <2> QED
    BY <1>2, <2>2
<1>5. CASE ReadEof(k) \/ ReplyFails(k)
  <2>1. /\ reqQ'[k] = <<>> /\ respQ' = respQ /\ handler'[k] = "free" /\ ~Held(k)
    BY <1>5 DEF ReadEof, ReplyFails, HandlerExits, TypeInv, TypeOK
  <2>2. Local
    BY <1>0, <2>1 DEF Held
  <2> QED
    BY <1>2, <2>2
<1>6. CASE AcquireLock(k)
  <2>1. Local
    BY <1>6 DEF AcquireLock, TypeInv, TypeOK
  <2> QED
    BY <1>2, <2>1
<1>7. ASSUME NEW ok \in BOOLEAN, Dispatch(k, ok) PROVE LineInv'
  <2>1. Local
    BY <1>7 DEF Dispatch, TypeInv, TypeOK
  <2> QED
    BY <1>2, <2>1
<1>8. CASE Reply(k)
  <2> DEFINE answer == [req |-> cur[k], ok |-> handler[k] = "sendResult"]
  <2>1. /\ answer \in Response /\ answer.req = cur[k]
    BY <1>8, CurrentServed DEF Reply, Response
  <2>2. /\ reqQ' = reqQ /\ reqQ[k] = <<>> /\ respQ[k] = <<>>
        /\ handler'[k] = "recv" /\ Held(k) /\ Busy(k)
        /\ respQ'[k] = Append(<<>>, answer)
    BY <1>8 DEF Reply, TypeInv, TypeOK
  <2> HIDE DEF answer
  <2>3. respQ'[k] # <<>> /\ Len(respQ'[k]) = 1 /\ Head(respQ'[k]) = answer
    BY <2>1, <2>2, AppendToEmpty
  <2>4. Local
    BY <1>0, <2>1, <2>2, <2>3
  <2> QED
    BY <1>2, <2>4
<1> QED
  BY <1>3, <1>4, <1>5, <1>6, <1>7, <1>8 DEF HandlerStep

\* Every step keeps at most one line per connection, of the call under way.
LEMMA LineStep == TypeInv /\ LineInv /\ [Next]_vars => LineInv'
<1> SUFFICES ASSUME TypeInv, LineInv, [Next]_vars PROVE LineInv'
  OBVIOUS
<1>1. ASSUME NEW c \in Clients, Connect(c) PROVE LineInv'
  <2>1. PICK k \in Conns : OpenSocket(c, k)
    BY <1>1 DEF Connect
  <2> QED
    BY <1>1, <2>1, LineOpen DEF Connect
<1>2. ASSUME NEW c \in Clients, Close(c) \/ SocketFault(c) PROVE LineInv'
  BY <1>2, ConnAssumption, LineTeardown DEF Close, SocketFault, Teardown, serverVars, LineInv, TornDown, TypeInv, TypeOK
<1>3. ASSUME NEW c \in Clients, NEW m \in UsedMethods, BeginCall(c, m) PROVE LineInv'
  <2>1. /\ UNCHANGED <<sock, handler, cur, reqQ, respQ>>
        /\ pc[c] = "idle" /\ pc'[c] \in {"idle", "send"}
        /\ \A d \in Clients : d # c => UNCHANGED <<pc[d], num[d], method[d]>>
    BY <1>3 DEF BeginCall, Fail, serverVars, TypeInv, TypeOK
  <2> QED
    BY <2>1 DEF LineInv, SockInjective, OneInFlight, LooseEnds, IdleIsQuiet, RecvIsOwn, TornDown,
       Quiet, Held, Busy, Req
<1>4. CASE Crash
  <2>1. /\ UNCHANGED <<sock, pc, num, method, respQ>>
        /\ \A k \in Conns : handler'[k] = "free" /\ reqQ'[k] = <<>>
    BY <1>4 DEF Crash, clientVars
  <2> QED
    BY <2>1 DEF LineInv, SockInjective, OneInFlight, LooseEnds, IdleIsQuiet, RecvIsOwn, TornDown,
       Quiet, Held, Busy, Req
<1>5. CASE Start \/ UNCHANGED vars
  BY <1>5 DEF Start, vars, clientVars, LineInv, SockInjective, OneInFlight, LooseEnds, IdleIsQuiet,
     RecvIsOwn, TornDown, Quiet, Held, Busy, Req
<1> QED
  BY <1>1, <1>2, <1>3, <1>4, <1>5, LineClient, LineHandler DEF Next

-----------------------------------------------------------------------------
(* What is answered was executed, and no more often than it was sent.       *)

\* _call makes a second attempt for the retried tiers only, and no third.
LEMMA RetryOnceStep == TypeInv /\ RetryOnce /\ [Next]_vars => RetryOnce'
<1> SUFFICES ASSUME TypeInv, RetryOnce, [Next]_vars PROVE RetryOnce'
  OBVIOUS
<1> USE DEF RetryOnce, TypeInv, TypeOK
<1>1. ASSUME NEW c \in Clients, ClientStep(c) PROVE RetryOnce'
  BY <1>1 DEF ClientStep, SendRequest, SendFails, ReceiveResponse, ReceiveFails, CallTimesOut,
     Reconnect, ReconnectFails, ConnectionLost, Fail
<1>2. ASSUME NEW c \in Clients, NEW m \in UsedMethods, BeginCall(c, m) PROVE RetryOnce'
  BY <1>2 DEF BeginCall, Fail
<1>3. ASSUME NEW c \in Clients, Connect(c) \/ Close(c) \/ SocketFault(c) PROVE RetryOnce'
  BY <1>3 DEF Connect, Close, SocketFault
<1>4. ASSUME NEW k \in Conns, HandlerStep(k) PROVE RetryOnce'
  BY <1>4 DEF HandlerStep, Accept, ReadLine, ReadEof, AcquireLock, Dispatch, Reply, ReplyFails,
     clientVars
<1>5. CASE Crash \/ Start \/ UNCHANGED vars
  BY <1>5 DEF Crash, Start, vars, clientVars
<1> QED
  BY <1>1, <1>2, <1>3, <1>4, <1>5 DEF Next

\* Of the outcomes, only a received response is an answer.
LEMMA OutcomeStep ==
    ASSUME TypeInv, [Next]_vars, NEW c \in Clients
    PROVE  \/ UNCHANGED <<outcome[c], num[c], method[c]>>
           \/ outcome'[c].kind \notin {"result", "raised"}
           \/ ReceiveResponse(c)
<1> USE DEF TypeInv, TypeOK
<1>1. ASSUME NEW d \in Clients, ClientStep(d)
      PROVE  \/ UNCHANGED <<outcome[c], num[c], method[c]>>
             \/ outcome'[c].kind \notin {"result", "raised"}
             \/ ReceiveResponse(c)
  <2>1. CASE c = d
    BY <1>1, <2>1 DEF ClientStep, SendRequest, SendFails, ReceiveFails, CallTimesOut, Reconnect,
       ReconnectFails, ConnectionLost, Fail
  <2>2. CASE c # d
    BY <1>1, <2>2 DEF ClientStep, SendRequest, SendFails, ReceiveResponse, ReceiveFails,
       CallTimesOut, Reconnect, ReconnectFails, ConnectionLost, Fail
  <2> QED
    BY <2>1, <2>2
<1>2. ASSUME NEW d \in Clients, NEW m \in UsedMethods, BeginCall(d, m)
      PROVE  \/ UNCHANGED <<outcome[c], num[c], method[c]>>
             \/ outcome'[c].kind \notin {"result", "raised"}
  BY <1>2 DEF BeginCall, Fail
<1>3. ASSUME NEW d \in Clients, Connect(d) \/ Close(d) \/ SocketFault(d)
      PROVE  UNCHANGED <<outcome[c], num[c], method[c]>>
  BY <1>3 DEF Connect, Close, SocketFault
<1>4. ASSUME NEW k \in Conns, HandlerStep(k) PROVE UNCHANGED <<outcome[c], num[c], method[c]>>
  BY <1>4 DEF HandlerStep, Accept, ReadLine, ReadEof, AcquireLock, Dispatch, Reply, ReplyFails,
     clientVars
<1>5. CASE Crash \/ Start \/ UNCHANGED vars
  BY <1>5 DEF Crash, Start, vars, clientVars
<1> QED
  BY <1>1, <1>2, <1>3, <1>4, <1>5 DEF Next

\* The response a call receives is its own, and was executed.
LEMMA ReceivedIsOwn ==
    ASSUME TypeInv, LineInv, ServedFirst, NEW c \in Clients, ReceiveResponse(c)
    PROVE  /\ outcome'[c].reply = Req(c)
           /\ executed[Req(c)] >= 1
           /\ Req(c)' = Req(c) /\ executed' = executed
  BY DEF ReceiveResponse, LineInv, RecvIsOwn, ServedFirst, TypeInv, TypeOK, Req

\* What was executed stays executed.
LEMMA ExecutedGrows ==
    ASSUME TypeInv, [Next]_vars, NEW r \in Request
    PROVE  executed'[r] >= executed[r]
<1> USE DEF TypeInv, TypeOK
<1>1. ASSUME NEW k \in Conns, NEW ok \in BOOLEAN, Dispatch(k, ok) PROVE executed'[r] >= executed[r]
  BY <1>1 DEF Dispatch
<1>2. CASE executed' = executed
  BY <1>2
<1> QED
  BY <1>1, <1>2 DEF Next, ClientStep, HandlerStep, vars, Connect, Close, BeginCall, SendRequest,
     SendFails, ReceiveResponse, ReceiveFails, CallTimesOut, Reconnect, ReconnectFails,
     ConnectionLost, SocketFault, Accept, ReadLine, ReadEof, AcquireLock, Reply, ReplyFails,
     Crash, Start

\* Only receiving a response ends a call with an answer, and it is its own.
LEMMA ReplyMatchesStep ==
    TypeInv /\ LineInv /\ ServedFirst /\ ReplyMatches /\ [Next]_vars => ReplyMatches'
<1> SUFFICES ASSUME TypeInv, LineInv, ServedFirst, ReplyMatches, [Next]_vars,
                    NEW c \in Clients, Answered(c)'
             PROVE  outcome'[c].reply = Req(c)'
  BY DEF ReplyMatches
<1>1. CASE ReceiveResponse(c)
  BY <1>1, ReceivedIsOwn
<1>2. CASE UNCHANGED <<outcome[c], num[c], method[c]>>
  BY <1>2 DEF ReplyMatches, Answered, Req
<1> QED
  BY <1>1, <1>2, OutcomeStep DEF Answered

\* A reply is written only after its request went into the Backend.
LEMMA ServedFirstStep ==
    TypeInv /\ LineInv /\ ServedFirst /\ [Next]_vars => ServedFirst'
<1> SUFFICES ASSUME TypeInv, LineInv, ServedFirst, [Next]_vars PROVE ServedFirst'
  OBVIOUS
<1>0. \A r \in Request : executed'[r] >= executed[r]
  BY ExecutedGrows
<1>1. \A k \in Conns :
         /\ handler[k] \in {"sendResult", "sendError"} => cur[k] \in Request
         /\ respQ[k] # <<>> => Head(respQ[k]).req \in Request
  <2> SUFFICES ASSUME NEW k \in Conns
               PROVE  /\ handler[k] \in {"sendResult", "sendError"} => cur[k] \in Request
                      /\ respQ[k] # <<>> => Head(respQ[k]).req \in Request
    OBVIOUS
  <2>1. respQ[k] # <<>> => Head(respQ[k]) \in Response
    BY DEF TypeInv, TypeOK
  <2> QED
    BY <2>1, CurrentServed DEF Busy, Response
<1>2. executed \in [Request -> Nat] /\ executed' \in [Request -> Nat]
  BY TypesStep DEF TypeInv, TypeOK
<1> DEFINE Replying(k) == handler[k] \in {"sendResult", "sendError"}
\* Unless the thread of k moves, it replies to what it replied to before, and a
\* response left on k was there before.
<1>3. ASSUME \A k \in Conns :
                /\ Replying(k)' => Replying(k) /\ cur'[k] = cur[k]
                /\ respQ'[k] # <<>> => respQ'[k] = respQ[k]
      PROVE  ServedFirst'
  <2> SUFFICES ASSUME NEW k \in Conns
               PROVE  /\ Replying(k)' => executed'[cur'[k]] >= 1
                      /\ respQ'[k] # <<>> => executed'[Head(respQ'[k]).req] >= 1
    BY DEF ServedFirst
  <2>1. Replying(k)' => executed'[cur'[k]] >= 1
    BY <1>0, <1>1, <1>2, <1>3 DEF ServedFirst
  <2>2. respQ'[k] # <<>> => executed'[Head(respQ'[k]).req] >= 1
    BY <1>0, <1>1, <1>2, <1>3 DEF ServedFirst
  <2> QED
    BY <2>1, <2>2
<1> USE DEF TypeInv, TypeOK
<1>4. ASSUME NEW c \in Clients, ClientStep(c) PROVE ServedFirst'
  <2>1. CASE ReceiveResponse(c)
    <3>1. sock[c] \in Conns /\ respQ'[sock[c]] = <<>>
      BY <2>1, TailOfSingle DEF ReceiveResponse, LineInv, OneInFlight
    <3> QED
      BY <1>3, <2>1, <3>1 DEF ReceiveResponse, serverVars
  <2>2. CASE Reconnect(c)
    BY <1>3, <2>2 DEF Reconnect, OpenSocket
  <2>3. CASE ~ReceiveResponse(c) /\ ~Reconnect(c)
    BY <1>3, <1>4, <2>3 DEF ClientStep, SendRequest, SendFails, ReceiveFails, CallTimesOut,
       ReconnectFails, ConnectionLost, Fail, Teardown, DropUnread, serverVars
  <2> QED
    BY <2>1, <2>2, <2>3
<1>5. ASSUME NEW c \in Clients, NEW m \in UsedMethods, BeginCall(c, m) PROVE ServedFirst'
  BY <1>3, <1>5 DEF BeginCall, serverVars
<1>6. ASSUME NEW c \in Clients, Connect(c) \/ Close(c) \/ SocketFault(c) PROVE ServedFirst'
  BY <1>3, <1>6 DEF Connect, OpenSocket, Close, SocketFault, Teardown, DropUnread, serverVars
<1>7. ASSUME NEW k \in Conns, HandlerStep(k) PROVE ServedFirst'
  <2>1. ASSUME NEW ok \in BOOLEAN, Dispatch(k, ok) PROVE ServedFirst'
    <3>1. cur[k] \in Request /\ cur' = cur /\ respQ' = respQ
      BY <2>1, CurrentServed DEF Dispatch, Busy
    <3>2. executed'[cur[k]] >= 1
      BY <1>2, <2>1, <3>1 DEF Dispatch
    <3>3. \A x \in Conns : x # k => handler'[x] = handler[x]
      BY <2>1 DEF Dispatch
    <3> QED
      BY <1>0, <1>1, <1>2, <3>1, <3>2, <3>3, SMTT(30) DEF ServedFirst
  <2>2. CASE Reply(k)
    <3> DEFINE answer == [req |-> cur[k], ok |-> handler[k] = "sendResult"]
    <3>1. answer \in Response /\ answer.req = cur[k] /\ Replying(k) /\ respQ[k] = <<>>
      BY <2>2, CurrentServed DEF Reply, Response, Busy, LineInv, OneInFlight
    <3>2. respQ'[k] = Append(<<>>, answer)
      BY <2>2, <3>1 DEF Reply
    <3> HIDE DEF answer
    <3>3. Head(respQ'[k]).req = cur[k]
      BY <3>1, <3>2, AppendToEmpty
    <3>4. /\ handler'[k] = "recv" /\ executed' = executed
          /\ \A x \in Conns : x # k =>
                handler'[x] = handler[x] /\ cur'[x] = cur[x] /\ respQ'[x] = respQ[x]
      BY <2>2 DEF Reply
    <3> QED
      BY <3>1, <3>3, <3>4 DEF ServedFirst
  <2>3. CASE Accept(k) \/ ReadLine(k) \/ ReadEof(k) \/ AcquireLock(k) \/ ReplyFails(k)
    BY <1>3, <2>3 DEF Accept, ReadLine, ReadEof, AcquireLock, ReplyFails, HandlerExits
  <2> QED
    BY <1>7, <2>1, <2>2, <2>3 DEF HandlerStep
<1>8. CASE Crash \/ Start \/ UNCHANGED vars
  BY <1>3, <1>8 DEF Crash, Start, vars
<1> QED
  BY <1>4, <1>5, <1>6, <1>7, <1>8 DEF Next

\* An answer that reaches the caller was executed before.
LEMMA ReplyWasServedStep ==
    TypeInv /\ LineInv /\ ServedFirst /\ ReplyWasServed /\ [Next]_vars => ReplyWasServed'
<1> SUFFICES ASSUME TypeInv, LineInv, ServedFirst, ReplyWasServed, [Next]_vars,
                    NEW c \in Clients, Answered(c)'
             PROVE  executed'[Req(c)'] >= 1
  BY DEF ReplyWasServed, Answered
<1>1. CASE ReceiveResponse(c)
  BY <1>1, ReceivedIsOwn
<1>2. CASE UNCHANGED <<outcome[c], num[c], method[c]>>
  <2>1. Req(c)' = Req(c) /\ Answered(c)
    BY <1>2 DEF Req, Answered
  <2>2. Req(c) \in Request /\ executed[Req(c)] >= 1
    BY <2>1, CurrentIsRequest DEF Answered, ReplyWasServed
  <2>3. executed'[Req(c)] >= executed[Req(c)]
    BY <2>2, ExecutedGrows
  <2>4. executed \in [Request -> Nat] /\ executed' \in [Request -> Nat]
    BY TypesStep DEF TypeInv, TypeOK
  <2> QED
    BY <2>1, <2>2, <2>3, <2>4
<1> QED
  BY <1>1, <1>2, OutcomeStep DEF Answered

-----------------------------------------------------------------------------
(* Counting the copies of a request.                                        *)

\* The copies of a request under way can be counted.
LEMMA CarriersFinite ==
    ASSUME NEW r
    PROVE  /\ IsFiniteSet(Carriers(r)) /\ Cardinality(Carriers(r)) \in Nat
           /\ IsFiniteSet(Carriers(r)') /\ Cardinality(Carriers(r)') \in Nat
<1>1. Carriers(r) \in SUBSET Conns /\ Carriers(r)' \in SUBSET Conns
  BY DEF Carriers
<1> QED
  BY <1>1, ConnAssumption, FS_Subset, FS_CardinalityType

\* Only sending puts a copy of a request under way.
LEMMA NoCopyAdded ==
    ASSUME TypeInv, LineInv, [Next]_vars, \A c \in Clients : ~SendRequest(c), NEW r \in Request
    PROVE  Carriers(r)' \subseteq Carriers(r)
<1> USE DEF TypeInv, TypeOK, Carriers
<1>1. ASSUME NEW c \in Clients, ClientStep(c) PROVE Carriers(r)' \subseteq Carriers(r)
  BY <1>1 DEF ClientStep, SendFails, ReceiveResponse, ReceiveFails, CallTimesOut, Reconnect,
     ReconnectFails, ConnectionLost, OpenSocket, serverVars
<1>2. ASSUME NEW c \in Clients, NEW m \in UsedMethods, BeginCall(c, m)
      PROVE  Carriers(r)' \subseteq Carriers(r)
  BY <1>2 DEF BeginCall, serverVars
<1>3. ASSUME NEW c \in Clients, Connect(c) \/ Close(c) \/ SocketFault(c)
      PROVE  Carriers(r)' \subseteq Carriers(r)
  BY <1>3 DEF Connect, OpenSocket, Close, SocketFault, serverVars
<1>4. ASSUME NEW k \in Conns, HandlerStep(k) PROVE Carriers(r)' \subseteq Carriers(r)
  <2>1. CASE ReadLine(k)
    <3>1. Tail(reqQ[k]) = <<>>
      BY <2>1, TailOfSingle DEF ReadLine, LineInv, OneInFlight
    <3> QED
      BY <2>1, <3>1 DEF ReadLine
  <2>2. ASSUME NEW ok \in BOOLEAN, Dispatch(k, ok) PROVE Carriers(r)' \subseteq Carriers(r)
    BY <2>2 DEF Dispatch
  <2>3. CASE Accept(k) \/ ReadEof(k) \/ AcquireLock(k) \/ Reply(k) \/ ReplyFails(k)
    BY <2>3 DEF Accept, ReadEof, AcquireLock, Reply, ReplyFails, HandlerExits
  <2> QED
    BY <1>4, <2>1, <2>2, <2>3 DEF HandlerStep
<1>5. CASE Crash \/ Start \/ UNCHANGED vars
  BY <1>5 DEF Crash, Start, vars
<1> QED
  BY <1>1, <1>2, <1>3, <1>4, <1>5 DEF Next

\* And it puts no copy of another request under way.
LEMMA SendAddsOwn ==
    ASSUME TypeInv, LineInv, NEW c \in Clients, SendRequest(c), NEW r, r # Req(c)
    PROVE  Carriers(r)' \subseteq Carriers(r)
<1> DEFINE k == sock[c]
<1>1. /\ k \in Conns /\ reqQ[k] = <<>> /\ Req(c) \in Request
      /\ UNCHANGED <<handler, cur>>
  BY CurrentIsRequest DEF SendRequest, Open, serverVars, LineInv, IdleIsQuiet, Quiet
<1>2. /\ Head(reqQ'[k]) = Req(c)
      /\ \A x \in Conns : x # k => reqQ'[x] = reqQ[x]
  BY <1>1, AppendToEmpty DEF SendRequest, TypeInv, TypeOK
<1> HIDE DEF k
<1> QED
  BY <1>1, <1>2 DEF Carriers

\* Only the Backend call of a thread that serves the request executes it.
LEMMA ExecutedByCarrier ==
    ASSUME TypeInv, [Next]_vars, NEW r \in Request, Carriers(r) = {}
    PROVE  executed'[r] = executed[r]
<1>1. ASSUME NEW k \in Conns, NEW ok \in BOOLEAN, Dispatch(k, ok) PROVE executed'[r] = executed[r]
  <2>1. cur[k] # r
    BY <1>1 DEF Dispatch, Carriers
  <2> QED
    BY <1>1, <2>1 DEF Dispatch, TypeInv, TypeOK
<1>2. CASE executed' = executed
  BY <1>2
<1> QED
  BY <1>1, <1>2 DEF Next, ClientStep, HandlerStep, vars, Connect, Close, BeginCall, SendRequest,
     SendFails, ReceiveResponse, ReceiveFails, CallTimesOut, Reconnect, ReconnectFails,
     ConnectionLost, SocketFault, Accept, ReadLine, ReadEof, AcquireLock, Reply, ReplyFails,
     Crash, Start

\* No request has been sent, executed or is under way at first.
LEMMA BudgetInit == Init => WithinBudget
<1> SUFFICES ASSUME Init, NEW r \in Request
             PROVE  executed[r] + Cardinality(Carriers(r)) <= Budget(r)
  BY DEF WithinBudget
<1>1. Carriers(r) = {}
  BY DEF Init, Carriers
<1>2. Budget(r) = 0
  BY DEF Init, Budget, Request
<1> QED
  BY <1>1, <1>2, FS_EmptySet DEF Init

\* A client sends a write once and anything else at most twice.
LEMMA BudgetIsNat ==
    ASSUME TypeInv, RetryOnce, NEW r \in Request
    PROVE  Budget(r) \in 0..Limit(r)
<1>1. num[r.client] \in Nat /\ attempt[r.client] \in {1, 2} /\ r.num \in Nat /\ r.client \in Clients
  BY BoundAssumption DEF TypeInv, TypeOK, Request
<1>2. r.method = method[r.client] /\ attempt[r.client] = 2 => Limit(r) = 2
  BY <1>1 DEF RetryOnce, Retried, RetryTiers, Limit, IsWrite
<1>3. Limit(r) \in {1, 2}
  BY DEF Limit
<1> QED
  BY <1>1, <1>2, <1>3 DEF Budget

\* When no copy is added and the client's budget does not shrink, nothing is lost.
LEMMA BudgetKept ==
    ASSUME TypeInv, RetryOnce, WithinBudget, executed' = executed,
           NEW r \in Request, Carriers(r)' \subseteq Carriers(r),
           Budget(r)' \in Nat, Budget(r)' >= Budget(r)
    PROVE  executed'[r] + Cardinality(Carriers(r)') <= Budget(r)'
<1>1. Cardinality(Carriers(r)') <= Cardinality(Carriers(r))
  BY CarriersFinite, FS_Subset
<1>2. Budget(r) \in Nat /\ executed[r] \in Nat
  BY BudgetIsNat DEF TypeInv, TypeOK, Limit
<1> QED
  BY <1>1, <1>2, CarriersFinite DEF WithinBudget

\* The client's progress never shrinks a budget.
LEMMA BudgetGrows ==
    ASSUME TypeInv, RetryOnce, [Next]_vars, NEW r \in Request
    PROVE  Budget(r)' \in Nat /\ Budget(r)' >= Budget(r)
<1> DEFINE d == r.client
<1>1. d \in Clients /\ r.num \in Nat /\ Budget(r) \in 0..Limit(r) /\ Limit(r) \in {1, 2}
  BY BudgetIsNat, BoundAssumption DEF Request, Limit
<1>2. /\ num[d] \in Nat /\ attempt[d] \in {1, 2}
      /\ num'[d] \in Nat /\ attempt'[d] \in {1, 2}
  <2>1. /\ num \in [Clients -> 0..MaxCalls] /\ attempt \in [Clients -> {1, 2}]
        /\ num' \in [Clients -> 0..MaxCalls] /\ attempt' \in [Clients -> {1, 2}]
    BY TypesStep, Zenon DEF TypeInv, TypeOK
  <2> QED
    BY <1>1, <2>1, BoundAssumption
<1>3. /\ num'[d] = num[d] /\ method'[d] = method[d]
      /\ \/ attempt'[d] = attempt[d] /\ (pc'[d] = "send" => pc[d] = "send")
         \/ attempt[d] = 1 /\ attempt'[d] = 2
      => Budget(r)' >= Budget(r)
  BY <1>1, <1>2 DEF Budget, Limit
<1>4. num'[d] = num[d] + 1 => Budget(r)' >= Budget(r)
  BY <1>1, <1>2 DEF Budget, Limit
<1>0. Budget(r)' \in Nat
  BY <1>1, <1>2 DEF Budget, Limit
<1> HIDE DEF d
<1> USE DEF TypeInv, TypeOK
<1>5. ASSUME NEW c \in Clients, ClientStep(c) PROVE Budget(r)' >= Budget(r)
  BY <1>1, <1>3, <1>5 DEF ClientStep, SendRequest, SendFails, ReceiveResponse, ReceiveFails,
     CallTimesOut, Reconnect, ReconnectFails, ConnectionLost, Fail, RetryOnce
<1>6. ASSUME NEW c \in Clients, NEW m \in UsedMethods, BeginCall(c, m) PROVE Budget(r)' >= Budget(r)
  <2>1. CASE c = d
    BY <1>1, <1>4, <1>6, <2>1 DEF BeginCall
  <2>2. CASE c # d
    BY <1>1, <1>3, <1>6, <2>2 DEF BeginCall, Fail
  <2> QED
    BY <2>1, <2>2
<1>7. ASSUME NEW c \in Clients, Connect(c) \/ Close(c) \/ SocketFault(c) PROVE Budget(r)' >= Budget(r)
  BY <1>3, <1>7 DEF Connect, Close, SocketFault
<1>8. ASSUME NEW k \in Conns, HandlerStep(k) PROVE Budget(r)' >= Budget(r)
  BY <1>3, <1>8 DEF HandlerStep, Accept, ReadLine, ReadEof, AcquireLock, Dispatch, Reply, ReplyFails,
     clientVars
<1>9. CASE Crash \/ Start \/ UNCHANGED vars
  <2>1. UNCHANGED <<num, method, attempt, pc>>
    BY <1>9 DEF Crash, Start, vars, clientVars
  <2> QED
    BY <1>0, <1>3, <2>1
<1> QED
  BY <1>0, <1>5, <1>6, <1>7, <1>8, <1>9 DEF Next

\* Sending adds one copy, and the budget allows for it.
LEMMA BudgetSend ==
    ASSUME TypeInv, LineInv, RetryOnce, WithinBudget, NEW c \in Clients, SendRequest(c)
    PROVE  WithinBudget'
<1> DEFINE k == sock[c]
<1>0. [Next]_vars
  BY DEF Next, ClientStep
<1>2. /\ k \in Conns /\ reqQ[k] = <<>> /\ Req(c) \in Request
      /\ UNCHANGED <<handler, cur, executed, num, method, attempt>>
  BY CurrentIsRequest DEF SendRequest, Open, serverVars, LineInv, IdleIsQuiet, Quiet
<1>3. /\ Head(reqQ'[k]) = Req(c)
      /\ \A x \in Conns : x # k => reqQ'[x] = reqQ[x]
  BY <1>2, AppendToEmpty DEF SendRequest, TypeInv, TypeOK
<1> HIDE DEF k
<1> SUFFICES ASSUME NEW r \in Request
             PROVE  executed'[r] + Cardinality(Carriers(r)') <= Budget(r)'
  BY DEF WithinBudget
<1>4. CASE r # Req(c)
  <2>1. Carriers(r)' \subseteq Carriers(r)
    BY <1>4, SendAddsOwn
  <2> QED
    BY <1>0, <1>2, <2>1, BudgetGrows, BudgetKept
<1>5. CASE r = Req(c)
  <2>1. Carriers(r)' \subseteq Carriers(r) \cup {k}
    BY <1>2, <1>3 DEF Carriers
  <2>2. Cardinality(Carriers(r)') <= Cardinality(Carriers(r)) + 1
    <3>1. /\ IsFiniteSet(Carriers(r) \cup {k})
          /\ Cardinality(Carriers(r) \cup {k}) \in Nat
          /\ Cardinality(Carriers(r) \cup {k}) <= Cardinality(Carriers(r)) + 1
      <4>1. /\ IsFiniteSet(Carriers(r) \cup {k})
            /\ Cardinality(Carriers(r) \cup {k}) =
                  IF k \in Carriers(r) THEN Cardinality(Carriers(r)) ELSE Cardinality(Carriers(r)) + 1
        BY CarriersFinite, FS_AddElement
      <4> QED
        BY <4>1, CarriersFinite, FS_CardinalityType
    <3>2. Cardinality(Carriers(r)') <= Cardinality(Carriers(r) \cup {k})
      BY <2>1, <3>1, FS_Subset
    <3> QED
      BY <3>1, <3>2, CarriersFinite
  <2>3. Budget(r)' = Budget(r) + 1
    <3>1. /\ r.client = c /\ r.num = num[c] /\ r.method = method[c]
          /\ num[c] \in Nat /\ attempt[c] \in {1, 2}
      BY <1>5, BoundAssumption DEF Req, TypeInv, TypeOK
    <3>2. pc[c] = "send" /\ pc'[c] = "recv"
      BY DEF SendRequest, TypeInv, TypeOK
    <3> QED
      BY <1>2, <3>1, <3>2 DEF Budget
  <2>4. Budget(r) \in Nat /\ executed[r] \in Nat
    BY BudgetIsNat DEF Limit, TypeInv, TypeOK
  <2>5. executed[r] + Cardinality(Carriers(r)) <= Budget(r)
    BY DEF WithinBudget
  <2> QED
    BY <1>2, <2>2, <2>3, <2>4, <2>5, CarriersFinite
<1> QED
  BY <1>4, <1>5

\* Executing a copy uses it up.
LEMMA BudgetDispatch ==
    ASSUME TypeInv, LineInv, RetryOnce, WithinBudget,
           NEW k \in Conns, NEW ok \in BOOLEAN, Dispatch(k, ok)
    PROVE  WithinBudget'
<1>1. /\ cur[k] \in Request /\ reqQ[k] = <<>> /\ handler[k] = "dispatch"
      /\ handler'[k] \in {"sendResult", "sendError"}
      /\ \A x \in Conns : x # k => handler'[x] = handler[x]
      /\ UNCHANGED <<reqQ, cur, num, method, attempt, pc>>
      /\ executed' = [executed EXCEPT ![cur[k]] = @ + 1]
  BY CurrentServed DEF Dispatch, Busy, clientVars, LineInv, OneInFlight, TypeInv, TypeOK
<1> SUFFICES ASSUME NEW r \in Request
             PROVE  executed'[r] + Cardinality(Carriers(r)') <= Budget(r)'
  BY DEF WithinBudget
<1>2. Budget(r)' = Budget(r) /\ Budget(r) \in Nat /\ executed[r] \in Nat
  BY <1>1, BudgetIsNat DEF Budget, Limit, TypeInv, TypeOK
<1>3. executed[r] + Cardinality(Carriers(r)) <= Budget(r)
  BY DEF WithinBudget
<1>4. CASE r = cur[k]
  <2>1. k \in Carriers(r) /\ Carriers(r)' \subseteq Carriers(r) \ {k}
    BY <1>1, <1>4 DEF Carriers
  <2>2. /\ IsFiniteSet(Carriers(r) \ {k})
        /\ Cardinality(Carriers(r) \ {k}) = Cardinality(Carriers(r)) - 1
    BY <2>1, CarriersFinite, FS_RemoveElement
  <2>3. Cardinality(Carriers(r)') <= Cardinality(Carriers(r) \ {k})
    BY <2>1, <2>2, FS_Subset
  <2>4. executed'[r] = executed[r] + 1
    BY <1>1, <1>4 DEF TypeInv, TypeOK
  <2> QED
    BY <1>2, <1>3, <2>2, <2>3, <2>4, CarriersFinite
<1>5. CASE r # cur[k]
  <2>1. Carriers(r)' \subseteq Carriers(r)
    BY <1>1, <1>5 DEF Carriers
  <2>2. Cardinality(Carriers(r)') <= Cardinality(Carriers(r))
    BY <2>1, CarriersFinite, FS_Subset
  <2>3. executed'[r] = executed[r]
    BY <1>1, <1>5 DEF TypeInv, TypeOK
  <2> QED
    BY <1>2, <1>3, <2>2, <2>3, CarriersFinite
<1> QED
  BY <1>4, <1>5

\* Only sending adds a copy, and executing one takes it off the wire.
LEMMA BudgetStep ==
    TypeInv /\ LineInv /\ RetryOnce /\ WithinBudget /\ [Next]_vars => WithinBudget'
<1> SUFFICES ASSUME TypeInv, LineInv, RetryOnce, WithinBudget, [Next]_vars PROVE WithinBudget'
  OBVIOUS
<1>1. ASSUME NEW c \in Clients, SendRequest(c) PROVE WithinBudget'
  BY <1>1, BudgetSend
<1>2. ASSUME NEW k \in Conns, NEW ok \in BOOLEAN, Dispatch(k, ok) PROVE WithinBudget'
  BY <1>2, BudgetDispatch
<1>3. ASSUME executed' = executed, \A c \in Clients : ~SendRequest(c) PROVE WithinBudget'
  BY <1>3, NoCopyAdded, BudgetGrows, BudgetKept DEF WithinBudget
<1> QED
  BY <1>1, <1>2, <1>3 DEF Next, ClientStep, HandlerStep, vars, Connect, Close, BeginCall,
     SendFails, ReceiveResponse, ReceiveFails, CallTimesOut, Reconnect, ReconnectFails,
     ConnectionLost, SocketFault, Accept, ReadLine, ReadEof, AcquireLock, Reply, ReplyFails,
     Crash, Start

-----------------------------------------------------------------------------
(* A call that is over leaves nothing behind.                               *)

\* A request whose call has not sent it yet is nowhere.
LEMMA UnsentIsNowhere ==
    ASSUME TypeInv, WithinBudget, NEW r \in Request, Budget(r) = 0
    PROVE  Carriers(r) = {} /\ executed[r] = 0
<1>1. executed[r] \in Nat /\ executed[r] + Cardinality(Carriers(r)) <= 0
  BY DEF TypeInv, TypeOK, WithinBudget
<1>2. Cardinality(Carriers(r)) = 0 /\ executed[r] = 0
  BY <1>1, CarriersFinite
<1> QED
  BY <1>2, CarriersFinite, FS_EmptySet

\* The number of a new call has not been used before.
LEMMA NewRequestIsNowhere ==
    ASSUME TypeInv, WithinBudget, NEW c \in Clients, NEW m \in UsedMethods, BeginCall(c, m),
           NEW r, r = Req(c)'
    PROVE  Carriers(r)' = {} /\ r \in Request /\ executed'[r] = 0
<1>1. r = [client |-> c, num |-> num[c] + 1, method |-> m]
  BY DEF BeginCall, Req, TypeInv, TypeOK
<1>2. r \in Request /\ num[c] \in Nat /\ r.num = num[r.client] + 1
  BY <1>1, BoundAssumption DEF BeginCall, Request, TypeInv, TypeOK
<1>3. Budget(r) = 0
  BY <1>1, <1>2 DEF Budget
<1>4. Carriers(r)' = Carriers(r) /\ executed' = executed
  BY DEF BeginCall, serverVars, Carriers
<1> QED
  BY <1>2, <1>3, <1>4, UnsentIsNowhere

\* A received response is the only line of its connection; a connection the
\* daemon has left holds no request.
LEMMA EndIsQuiet ==
    ASSUME TypeInv, LineInv, NEW c \in Clients, sock[c] \in Conns,
           respQ[sock[c]] # <<>> \/ ~Open(c), NEW r
    PROVE  sock[c] \notin Carriers(r)
  BY DEF LineInv, OneInFlight, LooseEnds, Open, Busy, Carriers

\* The client's steps that end an attempt find no copy left.
LEMMA NothingLeftClient ==
    ASSUME TypeInv, LineInv, NothingLeft, faults = 0, NEW c \in Clients,
           ClientStep(c), ~SendRequest(c)
    PROVE  /\ pc'[c] # "recv"
           /\ Settled(c)' => Carriers(Req(c)) = {}
<1> USE DEF TypeInv, TypeOK
<1>1. CASE SendFails(c)
  <2>1. pc'[c] # "recv" /\ Settled(c)
    BY <1>1 DEF SendFails, ConnectionLost, Fail, Settled
  <2> QED
    BY <2>1 DEF NothingLeft
<1>2. CASE ReceiveResponse(c) \/ ReceiveFails(c)
  <2>1. pc[c] = "recv" /\ pc'[c] # "recv"
    BY <1>2 DEF ReceiveResponse, ReceiveFails, ConnectionLost, Fail
  <2>2. sock[c] \in Conns => respQ[sock[c]] # <<>> \/ ~Open(c)
    BY <1>2 DEF ReceiveResponse, ReceiveFails
  <2>3. Carriers(Req(c)) \subseteq {sock[c]}
    BY <2>1 DEF NothingLeft
  <2>4. Carriers(Req(c)) \subseteq Conns
    BY DEF Carriers
  <2>5. sock[c] \notin Carriers(Req(c))
    BY <2>2, <2>4, EndIsQuiet
  <2> QED
    BY <2>1, <2>3, <2>5
<1>3. CASE CallTimesOut(c)
  BY <1>3 DEF CallTimesOut, Fail, Settled
<1>4. CASE Reconnect(c) \/ ReconnectFails(c)
  <2>1. pc'[c] # "recv" /\ Settled(c)
    BY <1>4 DEF Reconnect, ReconnectFails, Fail, Settled
  <2> QED
    BY <2>1 DEF NothingLeft
<1> QED
  BY <1>1, <1>2, <1>3, <1>4 DEF ClientStep

\* What others do neither ends a call nor changes how it ended; and only a fault
\* takes the socket from under a call that waits.
LEMMA OthersKeep ==
    ASSUME TypeInv, [Next]_vars, NEW c \in Clients,
           ~ClientStep(c), \A m \in UsedMethods : ~BeginCall(c, m)
    PROVE  /\ UNCHANGED <<pc[c], outcome[c], num[c], method[c]>>
           /\ pc[c] = "recv" /\ faults' = 0 => sock'[c] = sock[c]
<1> USE DEF TypeInv, TypeOK
<1>1. ASSUME NEW d \in Clients, ClientStep(d)
      PROVE  UNCHANGED <<pc[c], outcome[c], sock[c], num[c], method[c]>>
  <2>1. c # d
    BY <1>1
  <2> QED
    BY <1>1, <2>1 DEF ClientStep, SendRequest, SendFails, ReceiveResponse, ReceiveFails,
       CallTimesOut, Reconnect, ReconnectFails, ConnectionLost, Fail, OpenSocket, Teardown
<1>2. ASSUME NEW d \in Clients, NEW m \in UsedMethods, BeginCall(d, m)
      PROVE  UNCHANGED <<pc[c], outcome[c], sock[c], num[c], method[c]>>
  <2>1. c # d
    BY <1>2
  <2> QED
    BY <1>2, <2>1 DEF BeginCall, Fail
<1>3. ASSUME NEW d \in Clients, Connect(d) \/ Close(d)
      PROVE  /\ UNCHANGED <<pc[c], outcome[c], num[c], method[c]>>
             /\ pc[c] = "recv" => sock'[c] = sock[c]
  BY <1>3 DEF Connect, Close, OpenSocket, Teardown
<1>4. ASSUME NEW d \in Clients, SocketFault(d)
      PROVE  /\ UNCHANGED <<pc[c], outcome[c], num[c], method[c]>>
             /\ faults' # 0
  BY <1>4, BoundAssumption DEF SocketFault
<1>5. ASSUME NEW k \in Conns, HandlerStep(k)
      PROVE  UNCHANGED <<pc, outcome, sock, num, method>>
  BY <1>5 DEF HandlerStep, Accept, ReadLine, ReadEof, AcquireLock, Dispatch, Reply, ReplyFails,
     clientVars
<1>6. CASE Crash \/ Start \/ UNCHANGED vars
  <2>1. UNCHANGED <<pc, outcome, sock, num, method>>
    BY <1>6 DEF Crash, Start, vars, clientVars
  <2> QED
    BY <2>1
<1> QED
  BY <1>1, <1>2, <1>3, <1>4, <1>5, <1>6 DEF Next

\* The fault counter never goes back.
LEMMA FaultsGrow ==
    ASSUME TypeInv, [Next]_vars, faults' = 0
    PROVE  faults = 0
<1>1. ASSUME NEW c \in Clients, SocketFault(c) PROVE FALSE
  BY <1>1, BoundAssumption DEF SocketFault, TypeInv, TypeOK
<1>2. CASE faults' = faults
  BY <1>2
<1> QED
  BY <1>1, <1>2 DEF Next, ClientStep, HandlerStep, vars, Connect, Close, BeginCall, SendRequest,
     SendFails, ReceiveResponse, ReceiveFails, CallTimesOut, Reconnect, ReconnectFails,
     ConnectionLost, Accept, ReadLine, ReadEof, AcquireLock, Dispatch, Reply, ReplyFails,
     Crash, Start

\* While sockets fail only with the daemon, a call leaves no copy behind.
LEMMA NothingLeftStep ==
    TypeInv /\ LineInv /\ WithinBudget /\ NothingLeft /\ [Next]_vars => NothingLeft'
<1> SUFFICES ASSUME TypeInv, LineInv, WithinBudget, NothingLeft, [Next]_vars, faults' = 0,
                    NEW c \in Clients, NEW r, r = Req(c)'
             PROVE  /\ Settled(c)' => Carriers(r)' = {}
                    /\ pc'[c] = "recv" => Carriers(r)' \subseteq {sock'[c]}
  BY DEF NothingLeft
<1>1. faults = 0
  BY FaultsGrow
\* Of a request that was sent, the copies do not grow unless it is sent again.
<1>2. ASSUME \A d \in Clients : ~SendRequest(d), Settled(c)' \/ pc'[c] = "recv"
      PROVE  Carriers(r)' \subseteq Carriers(r)
  <2>1. pc'[c] # "idle" \/ outcome'[c].kind # "none"
    BY <1>2 DEF Settled
  <2>2. r \in Request
    <3>1. TypeOK' /\ CallStarted'
      BY TypesStep DEF TypeInv
    <3>2. num'[c] \in 0..MaxCalls /\ num'[c] # 0
      BY <2>1, <3>1 DEF TypeOK, CallStarted
    <3>3. num'[c] \in 1..MaxCalls /\ method'[c] \in UsedMethods
      BY <3>1, <3>2, BoundAssumption DEF CallStarted
    <3> QED
      BY <3>3 DEF Req, Request
  <2> QED
    BY <1>2, <2>2, NoCopyAdded
<1>3. ASSUME NEW m \in UsedMethods, BeginCall(c, m)
      PROVE  Carriers(r)' = {}
  BY <1>3, NewRequestIsNowhere
<1>4. CASE SendRequest(c)
  <2> DEFINE k == sock[c]
  <2>1. /\ pc[c] = "send" /\ pc'[c] = "recv" /\ sock' = sock /\ r = Req(c)
        /\ Carriers(r) = {}
    BY <1>1, <1>4 DEF SendRequest, NothingLeft, Settled, Req, TypeInv, TypeOK
  <2>2. /\ UNCHANGED <<handler, cur>>
        /\ \A x \in Conns : x # k => reqQ'[x] = reqQ[x]
    BY <1>4 DEF SendRequest, serverVars, TypeInv, TypeOK
  <2> HIDE DEF k
  <2>3. Carriers(r)' \subseteq {k}
    BY <2>1, <2>2 DEF Carriers
  <2> QED
    BY <2>1, <2>3 DEF k, Settled
<1>5. ASSUME NEW d \in Clients, d # c, SendRequest(d)
      PROVE  /\ Settled(c)' => Carriers(r)' = {}
             /\ pc'[c] = "recv" => Carriers(r)' \subseteq {sock'[c]}
  <2>1. /\ UNCHANGED <<pc[c], outcome[c], sock>>
        /\ r = Req(c) /\ Req(d) # r
    BY <1>5 DEF SendRequest, Req, TypeInv, TypeOK
  <2>2. Carriers(r)' \subseteq Carriers(r)
    BY <1>5, <2>1, SendAddsOwn
  <2> QED
    BY <1>1, <2>1, <2>2 DEF NothingLeft, Settled
<1>6. CASE /\ \A d \in Clients : ~SendRequest(d)
           /\ \A m \in UsedMethods : ~BeginCall(c, m)
  <2>1. CASE ClientStep(c)
    <3>1. pc'[c] # "recv" /\ (Settled(c)' => Carriers(Req(c)) = {})
      BY <1>1, <1>6, <2>1, NothingLeftClient
    <3>2. r = Req(c)
      BY <2>1 DEF ClientStep, SendRequest, SendFails, ReceiveResponse, ReceiveFails, CallTimesOut,
         Reconnect, ReconnectFails, ConnectionLost, Req
    <3> QED
      BY <1>2, <1>6, <3>1, <3>2
  <2>2. CASE ~ClientStep(c)
    <3>1. /\ Settled(c)' => Settled(c)
          /\ pc'[c] = "recv" => pc[c] = "recv" /\ sock'[c] = sock[c]
          /\ r = Req(c)
      BY <1>6, <2>2, OthersKeep DEF Settled, Req
    <3>2. /\ Settled(c)' => Carriers(r) = {}
          /\ pc'[c] = "recv" => Carriers(r) \subseteq {sock'[c]}
      BY <1>1, <3>1 DEF NothingLeft
    <3> QED
      BY <1>2, <1>6, <3>1, <3>2
  <2> QED
    BY <2>1, <2>2
<1> QED
  BY <1>3, <1>4, <1>5, <1>6

\* A refusal is final: the refused request is never sent, and a write lost for good
\* has been sent once, with the warning.
LEMMA HonestEndsStep ==
    TypeInv /\ LineInv /\ RetryOnce /\ WithinBudget /\ HonestEnds /\ [Next]_vars => HonestEnds'
<1> SUFFICES ASSUME TypeInv, LineInv, RetryOnce, WithinBudget, HonestEnds, [Next]_vars,
                    NEW c \in Clients, NEW r, r = Req(c)', pc'[c] = "idle"
             PROVE  /\ outcome'[c].kind # "pending"
                    /\ outcome'[c].kind = "none" => method'[c] = "none"
                    /\ outcome'[c].kind = "lostTwice" => Retried(method'[c])
                    /\ outcome'[c].kind = "notConnected" => executed'[r] = 0 /\ Carriers(r)' = {}
  BY DEF HonestEnds
<1>1. CASE ClientStep(c)
  <2>1. /\ outcome'[c].kind \notin {"none", "pending", "notConnected"}
        /\ outcome'[c].kind = "lostTwice" => attempt[c] = 2 /\ method' = method
    BY <1>1 DEF ClientStep, SendRequest, SendFails, ReceiveResponse, ReceiveFails, CallTimesOut,
       Reconnect, ReconnectFails, ConnectionLost, Fail, TypeInv, TypeOK
  <2> QED
    BY <2>1 DEF RetryOnce
<1>2. ASSUME NEW m \in UsedMethods, BeginCall(c, m)
      PROVE  /\ outcome'[c].kind = "notConnected"
             /\ executed'[r] = 0 /\ Carriers(r)' = {}
  <2>1. outcome'[c].kind = "notConnected"
    BY <1>2 DEF BeginCall, Fail, TypeInv, TypeOK
  <2> QED
    BY <1>2, <2>1, NewRequestIsNowhere
<1>3. CASE ~ClientStep(c) /\ \A m \in UsedMethods : ~BeginCall(c, m)
  <2>1. UNCHANGED <<pc[c], outcome[c], num[c], method[c]>> /\ r = Req(c)
    BY <1>3, OthersKeep DEF Req
  <2>2. CASE outcome[c].kind = "notConnected"
    <3>1. r \in Request /\ Carriers(r) = {} /\ executed[r] = 0
      BY <2>1, <2>2, CurrentIsRequest DEF HonestEnds
    <3>2. Carriers(r)' \subseteq Carriers(r)
      <4>1. ASSUME NEW d \in Clients, SendRequest(d) PROVE r # Req(d)
        BY <1>3, <2>1, <4>1 DEF ClientStep, Req
      <4> QED
        BY <3>1, <4>1, SendAddsOwn, NoCopyAdded
    <3> QED
      BY <2>1, <2>2, <3>1, <3>2, ExecutedByCarrier
  <2> QED
    BY <2>1, <2>2 DEF HonestEnds
<1> QED
  BY <1>1, <1>2, <1>3

-----------------------------------------------------------------------------
(* The inductive invariant and what follows from it.                        *)

\* The invariant holds at first.
LEMMA IInvInit == Init => IInv
<1> SUFFICES ASSUME Init PROVE IInv
  OBVIOUS
<1>1. RetryOnce /\ ReplyMatches /\ ServedFirst /\ ReplyWasServed
  BY DEF Init, RetryOnce, ReplyMatches, ServedFirst, ReplyWasServed, Answered
<1>2. NothingLeft /\ HonestEnds
  BY DEF Init, NothingLeft, Settled, HonestEnds
<1> QED
  BY <1>1, <1>2, InitTypes, LineInit, BudgetInit DEF IInv

\* Every step keeps the invariant.
LEMMA IInvStep == IInv /\ [Next]_vars => IInv'
  BY TypesStep, LineStep, RetryOnceStep, ReplyMatchesStep, ServedFirstStep, ReplyWasServedStep,
     BudgetStep, NothingLeftStep, HonestEndsStep DEF IInv

\* The inductive invariant holds in every reachable state of client and daemon.
THEOREM Invariance == Spec => []IInv
  BY IInvInit, IInvStep, PTL DEF Spec

\* The budget is what bounds the executions.
LEMMA BudgetBounds == IInv => AtMostOnce
<1> SUFFICES ASSUME IInv, NEW r \in Request PROVE executed[r] <= Limit(r)
  BY DEF AtMostOnce, Limit
<1>1. Budget(r) \in 0..Limit(r) /\ Limit(r) \in {1, 2} /\ executed[r] \in Nat
  BY BudgetIsNat DEF IInv, TypeInv, TypeOK, Limit
<1> QED
  BY <1>1, CarriersFinite DEF IInv, WithinBudget

\* No submit and no cancel is executed twice, and nothing else three times,
\* whatever the interleaving of clients, threads, crashes and socket failures.
THEOREM WritesAtMostOnce == Spec => []AtMostOnce
  BY Invariance, BudgetBounds, PTL

\* No call is ever given the answer to another one.
THEOREM RepliesMatch == Spec => []ReplyMatches
<1>1. IInv => ReplyMatches
  BY DEF IInv
<1> QED
  BY <1>1, Invariance, PTL

\* An answered call was executed, an answered write exactly once.
THEOREM AnswersServed == Spec => []AnsweredWasServed
<1>1. IInv => AnsweredWasServed
  <2> SUFFICES ASSUME IInv, NEW c \in Clients, Answered(c)
               PROVE  /\ executed[Req(c)] >= 1
                      /\ IsWrite(method[c]) => executed[Req(c)] = 1
    BY DEF AnsweredWasServed
  <2>1. executed[Req(c)] >= 1
    BY DEF IInv, ReplyWasServed
  <2>2. Req(c) \in Request /\ executed[Req(c)] \in Nat
    BY CurrentIsRequest DEF IInv, TypeInv, TypeOK, Answered
  <2>3. IsWrite(method[c]) => executed[Req(c)] <= 1
    BY <2>2, BudgetBounds DEF AtMostOnce, Req
  <2> QED
    BY <2>1, <2>2, <2>3
<1> QED
  BY <1>1, Invariance, PTL

\* Once a call is over, other than by a timeout, its request is not executed any
\* more, as long as sockets fail only with the daemon.
THEOREM CallsEndForGood == Spec => OverIsOver
<1> DEFINE Over(c) == faults = 0 /\ pc[c] = "idle" /\ outcome[c].kind \notin {"none", "timeout"}
<1>1. ASSUME IInv, [Next]_vars, NEW c \in Clients, Over(c), NEW r \in Request, r = Req(c)
      PROVE  executed'[r] = executed[r]
  <2>1. Carriers(r) = {}
    BY <1>1 DEF IInv, NothingLeft, Settled
  <2> QED
    BY <1>1, <2>1, ExecutedByCarrier DEF IInv
<1>2. IInv /\ [Next]_vars
        => [\A c \in Clients : Over(c) => \A r \in Request : r = Req(c) => executed'[r] = executed[r]]_vars
  BY <1>1
<1> QED
  BY <1>2, Invariance, PTL DEF Spec, OverIsOver

\* A write that was executed is never reported as not sent, or as lost after a retry.
THEOREM LossReported == Spec => []WriteLossReported
<1>1. IInv => WriteLossReported
  <2> SUFFICES ASSUME IInv, NEW c \in Clients,
                      pc[c] = "idle", IsWrite(method[c]), executed[Req(c)] > 0
               PROVE  outcome[c].kind \in
                         {"result", "raised", "timeout", "lossWarning", "cannotConnect"}
    BY DEF WriteLossReported
  <2>1. outcome[c].kind \in OutcomeKind \ {"pending", "notConnected"}
    BY DEF IInv, TypeInv, TypeOK, CallOutcome, HonestEnds
  <2>2. outcome[c].kind # "lostTwice"
    BY DEF IInv, HonestEnds, Retried, RetryTiers, IsWrite
  <2>3. outcome[c].kind # "none"
    BY DEF IInv, HonestEnds, IsWrite, TierOf
  <2> QED
    BY <2>1, <2>2, <2>3 DEF OutcomeKind
<1> QED
  BY <1>1, Invariance, PTL

-----------------------------------------------------------------------------
(* The lock.                                                                *)

\* A thread is in the Backend exactly as long as it holds the lock.
LEMMA LockStep == TypeInv /\ LockGuardsBackend /\ [Next]_vars => LockGuardsBackend'
<1> SUFFICES ASSUME TypeInv, LockGuardsBackend, [Next]_vars PROVE LockGuardsBackend'
  OBVIOUS
<1> USE ConnAssumption DEF LockGuardsBackend, TypeInv, TypeOK
<1>1. ASSUME NEW c \in Clients, ClientStep(c) PROVE LockGuardsBackend'
  BY <1>1 DEF ClientStep, SendRequest, SendFails, ReceiveResponse, ReceiveFails, CallTimesOut,
     Reconnect, ReconnectFails, ConnectionLost, OpenSocket, Fresh, serverVars
<1>2. ASSUME NEW c \in Clients, Connect(c) PROVE LockGuardsBackend'
  BY <1>2 DEF Connect, OpenSocket, Fresh
<1>3. ASSUME UNCHANGED <<handler, lock>> PROVE LockGuardsBackend'
  BY <1>3
<1>4. ASSUME NEW k \in Conns, HandlerStep(k) PROVE LockGuardsBackend'
  <2>1. CASE Accept(k) \/ ReadLine(k) \/ ReadEof(k) \/ Reply(k) \/ ReplyFails(k)
    BY <2>1 DEF Accept, ReadLine, ReadEof, Reply, ReplyFails, HandlerExits
  <2>2. CASE AcquireLock(k)
    BY <2>2 DEF AcquireLock
  <2>3. ASSUME NEW ok \in BOOLEAN, Dispatch(k, ok) PROVE LockGuardsBackend'
    BY <2>3 DEF Dispatch
  <2> QED
    BY <1>4, <2>1, <2>2, <2>3 DEF HandlerStep
<1>5. CASE Crash
  BY <1>5 DEF Crash
<1> QED
  BY <1>1, <1>2, <1>3, <1>4, <1>5 DEF Next, Close, BeginCall, SocketFault, Start, vars, serverVars

\* One thread at a time is in the Backend, and none leaves with the lock
\* (server.py:112-121), for any number of connections.
THEOREM OneThreadInBackend == Spec => []LockGuardsBackend
<1>1. Init => LockGuardsBackend
  BY ConnAssumption DEF Init, LockGuardsBackend
<1>2. IInv /\ LockGuardsBackend /\ [Next]_vars => LockGuardsBackend'
  BY LockStep DEF IInv
<1> QED
  BY <1>1, <1>2, Invariance, PTL DEF Spec

=============================================================================
