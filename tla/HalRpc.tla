------------------------------- MODULE HalRpc -------------------------------
(***************************************************************************)
(* The request/response protocol between QosHalClient (client.py) and the  *)
(* daemon's connection threads (daemon/server.py), with the daemon process *)
(* crashing and restarting and client sockets failing under way.           *)
(*                                                                         *)
(* A connection k is one Unix-domain stream: reqQ[k] is what the client    *)
(* has written and the handler thread has not read yet, respQ[k] what the  *)
(* handler has written and the client has not read yet.  One line of the   *)
(* wire format is one element.  What a request does to the shared Backend  *)
(* is not modelled here: dispatching it is one step that counts it.        *)
(***************************************************************************)
EXTENDS Naturals, Sequences, FiniteSets, RpcTiers

CONSTANTS
    Clients,      \* QosHalClient objects, each used by one thread
    Conns,        \* connection identities; one is reused once both ends closed it
    NoConn,       \* _sock is None; nobody holds the lock
    DeadConn,     \* _sock is set but its descriptor is unusable
    UsedMethods,  \* the RPC methods the clients call
    MaxCalls,     \* bound: RPCs started by one client
    MaxCrashes,   \* bound: crashes of the daemon process
    MaxFaults     \* bound: socket failures on the client side

ASSUME ConnAssumption ==
    /\ IsFiniteSet(Conns)
    /\ NoConn \notin Conns
    /\ DeadConn \notin Conns
    /\ NoConn # DeadConn

ASSUME BoundAssumption == MaxCalls \in Nat /\ MaxCrashes \in Nat /\ MaxFaults \in Nat

VARIABLES
    \* QosHalClient
    sock,      \* sock[c]: _sock
    pc,        \* pc[c]: where _call stands, "idle" between calls
    num,       \* num[c]: how many RPCs c has started; names the current one
    method,    \* method[c]: its method
    attempt,   \* attempt[c]: 1, or 2 after the silent reconnect
    outcome,   \* outcome[c]: how the last call ended
    \* DaemonServer
    up,        \* the process runs and listens on the socket path
    handler,   \* handler[k]: where the thread of connection k stands
    cur,       \* cur[k]: the request it is serving
    lock,      \* _backend_lock: the connection whose thread holds it
    \* the streams
    reqQ, respQ,
    \* history and bounds
    executed,  \* executed[r]: how often request r went into the Backend
    crashes, faults

clientVars == <<sock, pc, num, method, attempt, outcome>>
serverVars == <<up, handler, cur, lock>>
vars == <<sock, pc, num, method, attempt, outcome, up, handler, cur, lock,
          reqQ, respQ, executed, crashes, faults>>

-----------------------------------------------------------------------------
(* The data: a request names the call it comes from, a response names the   *)
(* request it answers.                                                      *)

Request == [client : Clients, num : 1..MaxCalls, method : UsedMethods]

NoReq == [client |-> "none", num |-> 0, method |-> "none"]

Response == [req : Request, ok : BOOLEAN]

\* What _call returned or raised.  "result": a result; "raised": an error the
\* daemon reported; the others are the QosHalClientError cases.
OutcomeKind == {"none", "pending", "result", "raised", "timeout", "lostTwice",
                "lossWarning", "cannotConnect", "notConnected"}

CallOutcome == [kind : OutcomeKind, reply : Request \cup {NoReq}]

ClientPc == {"idle", "send", "recv", "reconnect"}

HandlerPc == {"free", "backlog", "recv", "lockwait", "dispatch", "sendResult", "sendError"}

Req(c) == [client |-> c, num |-> num[c], method |-> method[c]]

Held(k) == \E c \in Clients : sock[c] = k

\* The client end of c is connected to a live handler (or to the backlog).
Open(c) == sock[c] \in Conns /\ handler[sock[c]] # "free"

Fresh(k) == handler[k] = "free" /\ ~Held(k)

TypeOK ==
    /\ sock \in [Clients -> Conns \cup {NoConn, DeadConn}]
    /\ pc \in [Clients -> ClientPc]
    /\ num \in [Clients -> 0..MaxCalls]
    /\ method \in [Clients -> UsedMethods \cup {"none"}]
    /\ attempt \in [Clients -> {1, 2}]
    /\ outcome \in [Clients -> CallOutcome]
    /\ up \in BOOLEAN
    /\ handler \in [Conns -> HandlerPc]
    /\ cur \in [Conns -> Request \cup {NoReq}]
    /\ lock \in Conns \cup {NoConn}
    /\ reqQ \in [Conns -> Seq(Request)]
    /\ respQ \in [Conns -> Seq(Response)]
    /\ executed \in [Request -> Nat]
    /\ crashes \in 0..MaxCrashes
    /\ faults \in 0..MaxFaults

Init ==
    /\ sock = [c \in Clients |-> NoConn]
    /\ pc = [c \in Clients |-> "idle"]
    /\ num = [c \in Clients |-> 0]
    /\ method = [c \in Clients |-> "none"]
    /\ attempt = [c \in Clients |-> 1]
    /\ outcome = [c \in Clients |-> [kind |-> "none", reply |-> NoReq]]
    /\ up = TRUE
    /\ handler = [k \in Conns |-> "free"]
    /\ cur = [k \in Conns |-> NoReq]
    /\ lock = NoConn
    /\ reqQ = [k \in Conns |-> <<>>]
    /\ respQ = [k \in Conns |-> <<>>]
    /\ executed = [r \in Request |-> 0]
    /\ crashes = 0
    /\ faults = 0

-----------------------------------------------------------------------------
(* Pieces of the client's steps.                                            *)

\* socket.connect() succeeds: the kernel queues the connection for accept().
OpenSocket(c, k) ==
    /\ up
    /\ Fresh(k)
    /\ sock' = [sock EXCEPT ![c] = k]
    /\ handler' = [handler EXCEPT ![k] = "backlog"]

\* Closing the client end discards what it has not read.
DropUnread(c) ==
    respQ' = IF sock[c] \in Conns THEN [respQ EXCEPT ![sock[c]] = <<>>] ELSE respQ

Teardown(c) ==
    /\ sock' = [sock EXCEPT ![c] = NoConn]
    /\ DropUnread(c)

\* _call leaves with QosHalClientError.
Fail(c, kind) ==
    /\ pc' = [pc EXCEPT ![c] = "idle"]
    /\ outcome' = [outcome EXCEPT ![c] = [kind |-> kind, reply |-> NoReq]]

\* _ConnectionLost reaches _call.  The first time the socket is torn down and
\* connect() is next; during the retry the error goes to the caller and the
\* dead socket stays in place.
ConnectionLost(c) ==
    /\ \/ /\ attempt[c] = 1
          /\ Teardown(c)
          /\ pc' = [pc EXCEPT ![c] = "reconnect"]
          /\ UNCHANGED outcome
       \/ /\ attempt[c] = 2
          /\ Fail(c, "lostTwice")
          /\ UNCHANGED <<sock, respQ>>
    /\ UNCHANGED <<num, method, attempt, serverVars, reqQ, executed, crashes, faults>>

-----------------------------------------------------------------------------
(* QosHalClient.                                                            *)

\* connect() called by the owner; with a socket in place it does nothing, and
\* when it raises nothing changes.
Connect(c) ==
    /\ pc[c] = "idle"
    /\ sock[c] = NoConn
    /\ \E k \in Conns : OpenSocket(c, k)
    /\ UNCHANGED <<pc, num, method, attempt, outcome, up, cur, lock, reqQ, respQ,
                   executed, crashes, faults>>

Close(c) ==
    /\ pc[c] = "idle"
    /\ sock[c] # NoConn
    /\ Teardown(c)
    /\ UNCHANGED <<pc, num, method, attempt, outcome, serverVars, reqQ, executed,
                   crashes, faults>>

\* A public method enters _call, which refuses without a socket.
BeginCall(c, m) ==
    /\ pc[c] = "idle"
    /\ num[c] < MaxCalls
    /\ num' = [num EXCEPT ![c] = @ + 1]
    /\ method' = [method EXCEPT ![c] = m]
    /\ attempt' = [attempt EXCEPT ![c] = 1]
    /\ IF sock[c] = NoConn
       THEN Fail(c, "notConnected")
       ELSE /\ pc' = [pc EXCEPT ![c] = "send"]
            /\ outcome' = [outcome EXCEPT ![c] = [kind |-> "pending", reply |-> NoReq]]
    /\ UNCHANGED <<sock, serverVars, reqQ, respQ, executed, crashes, faults>>

SendRequest(c) ==
    /\ pc[c] = "send"
    /\ Open(c)
    /\ reqQ' = [reqQ EXCEPT ![sock[c]] = Append(@, Req(c))]
    /\ pc' = [pc EXCEPT ![c] = "recv"]
    /\ UNCHANGED <<sock, num, method, attempt, outcome, serverVars, respQ, executed,
                   crashes, faults>>

\* settimeout() or sendall() raises OSError: the descriptor is bad or the peer
\* has closed.
SendFails(c) ==
    /\ pc[c] = "send"
    /\ ~Open(c)
    /\ ConnectionLost(c)

\* A complete response line is there: return its result or raise its error.
ReceiveResponse(c) ==
    /\ pc[c] = "recv"
    /\ sock[c] \in Conns
    /\ respQ[sock[c]] # <<>>
    /\ LET r == Head(respQ[sock[c]])
       IN  outcome' = [outcome EXCEPT
               ![c] = [kind |-> IF r.ok THEN "result" ELSE "raised", reply |-> r.req]]
    /\ respQ' = [respQ EXCEPT ![sock[c]] = Tail(@)]
    /\ pc' = [pc EXCEPT ![c] = "idle"]
    /\ UNCHANGED <<sock, num, method, attempt, serverVars, reqQ, executed, crashes, faults>>

\* recv() fails, or returns nothing because the daemon's end is closed.
ReceiveFails(c) ==
    /\ pc[c] = "recv"
    /\ ~Open(c)
    /\ sock[c] \in Conns => respQ[sock[c]] = <<>>
    /\ ConnectionLost(c)

\* Wrong on purpose: the timed-out socket is kept for the next call.
CallTimesOut_KeepSocket(c) ==
    /\ pc[c] \in {"send", "recv"}
    /\ Open(c)
    /\ respQ[sock[c]] = <<>>
    /\ Fail(c, "timeout")
    /\ UNCHANGED <<sock, num, method, attempt, serverVars, reqQ, respQ, executed,
                   crashes, faults>>

\* Wrong on purpose: only retried tiers get a socket timeout.
CallTimesOut_RetriedOnly(c) ==
    /\ pc[c] \in {"send", "recv"}
    /\ Retried(method[c])
    /\ Open(c)
    /\ respQ[sock[c]] = <<>>
    /\ Teardown(c)
    /\ Fail(c, "timeout")
    /\ UNCHANGED <<num, method, attempt, serverVars, reqQ, executed, crashes, faults>>

\* Wrong on purpose: a timeout is handled like a lost connection.
CallTimesOut_Lost(c) ==
    /\ pc[c] \in {"send", "recv"}
    /\ Open(c)
    /\ respQ[sock[c]] = <<>>
    /\ ConnectionLost(c)

\* socket.timeout while the request is being written (the handler then sees an
\* incomplete line, which it never serves) or while the response is awaited.
CallTimesOut(c) ==
    /\ pc[c] \in {"send", "recv"}
    /\ Open(c)
    /\ respQ[sock[c]] = <<>>
    /\ Teardown(c)
    /\ Fail(c, "timeout")
    /\ UNCHANGED <<num, method, attempt, serverVars, reqQ, executed, crashes, faults>>

\* connect() inside _call succeeds: retry, or warn the caller of a write.
Reconnect(c) ==
    /\ pc[c] = "reconnect"
    /\ \E k \in Conns : OpenSocket(c, k)
    /\ IF Retried(method[c])
       THEN /\ pc' = [pc EXCEPT ![c] = "send"]
            /\ attempt' = [attempt EXCEPT ![c] = 2]
            /\ UNCHANGED outcome
       ELSE /\ Fail(c, "lossWarning")
            /\ UNCHANGED attempt
    /\ UNCHANGED <<num, method, up, cur, lock, reqQ, respQ, executed, crashes, faults>>

\* connect() inside _call raises, because nobody listens or no further connection
\* fits in the backlog: its own error reaches the caller, in every tier.
ReconnectFails(c) ==
    /\ pc[c] = "reconnect"
    /\ up => \A k \in Conns : ~Fresh(k)
    /\ Fail(c, "cannotConnect")
    /\ UNCHANGED <<sock, num, method, attempt, serverVars, reqQ, respQ, executed,
                   crashes, faults>>

\* The environment: the descriptor dies under the client, which has not noticed.
SocketFault(c) ==
    /\ faults < MaxFaults
    /\ sock[c] \in Conns
    /\ faults' = faults + 1
    /\ sock' = [sock EXCEPT ![c] = DeadConn]
    /\ DropUnread(c)
    /\ UNCHANGED <<pc, num, method, attempt, outcome, serverVars, reqQ, executed, crashes>>

-----------------------------------------------------------------------------
(* DaemonServer: accept loop, one handler thread per connection, one lock.  *)

Accept(k) ==
    /\ handler[k] = "backlog"
    /\ handler' = [handler EXCEPT ![k] = "recv"]
    /\ UNCHANGED <<clientVars, up, cur, lock, reqQ, respQ, executed, crashes, faults>>

\* The thread leaves _handle_connection and its end is closed.
HandlerExits(k) ==
    /\ handler' = [handler EXCEPT ![k] = "free"]
    /\ cur' = [cur EXCEPT ![k] = NoReq]
    /\ reqQ' = [reqQ EXCEPT ![k] = <<>>]

ReadLine(k) ==
    /\ handler[k] = "recv"
    /\ reqQ[k] # <<>>
    /\ cur' = [cur EXCEPT ![k] = Head(reqQ[k])]
    /\ reqQ' = [reqQ EXCEPT ![k] = Tail(@)]
    /\ handler' = [handler EXCEPT ![k] = "lockwait"]
    /\ UNCHANGED <<clientVars, up, lock, respQ, executed, crashes, faults>>

\* recv() returns nothing: the client closed, and everything it sent is served.
ReadEof(k) ==
    /\ handler[k] = "recv"
    /\ reqQ[k] = <<>>
    /\ ~Held(k)
    /\ HandlerExits(k)
    /\ UNCHANGED <<clientVars, up, lock, respQ, executed, crashes, faults>>

\* Wrong on purpose: the thread does not wait for the lock.
AcquireLock_Unguarded(k) ==
    /\ handler[k] = "lockwait"
    /\ lock' = k
    /\ handler' = [handler EXCEPT ![k] = "dispatch"]
    /\ UNCHANGED <<clientVars, up, cur, reqQ, respQ, executed, crashes, faults>>

\* Wrong on purpose: a thread that finds the lock taken answers an error.
AcquireLock_GivesUp(k) ==
    /\ handler[k] = "lockwait"
    /\ lock' = IF lock = NoConn THEN k ELSE lock
    /\ handler' = [handler EXCEPT ![k] = IF lock = NoConn THEN "dispatch" ELSE "sendError"]
    /\ UNCHANGED <<clientVars, up, cur, reqQ, respQ, executed, crashes, faults>>

AcquireLock(k) ==
    /\ handler[k] = "lockwait"
    /\ lock = NoConn
    /\ lock' = k
    /\ handler' = [handler EXCEPT ![k] = "dispatch"]
    /\ UNCHANGED <<clientVars, up, cur, reqQ, respQ, executed, crashes, faults>>

\* Wrong on purpose: the lock stays held when the Backend raises.
Dispatch_LeakLock(k, ok) ==
    /\ handler[k] = "dispatch"
    /\ executed' = [executed EXCEPT ![cur[k]] = @ + 1]
    /\ lock' = IF ok THEN NoConn ELSE lock
    /\ handler' = [handler EXCEPT ![k] = IF ok THEN "sendResult" ELSE "sendError"]
    /\ UNCHANGED <<clientVars, up, cur, reqQ, respQ, crashes, faults>>

\* Wrong on purpose: the thread forgets which request it is answering.
Dispatch_DropsRequest(k, ok) ==
    /\ handler[k] = "dispatch"
    /\ executed' = [executed EXCEPT ![cur[k]] = @ + 1]
    /\ lock' = NoConn
    /\ cur' = [cur EXCEPT ![k] = NoReq]
    /\ handler' = [handler EXCEPT ![k] = IF ok THEN "sendResult" ELSE "sendError"]
    /\ UNCHANGED <<clientVars, up, reqQ, respQ, crashes, faults>>

\* dispatch_fn returns (ok) or raises, and the lock is released either way.
Dispatch(k, ok) ==
    /\ handler[k] = "dispatch"
    /\ executed' = [executed EXCEPT ![cur[k]] = @ + 1]
    /\ lock' = NoConn
    /\ handler' = [handler EXCEPT ![k] = IF ok THEN "sendResult" ELSE "sendError"]
    /\ UNCHANGED <<clientVars, up, cur, reqQ, respQ, crashes, faults>>

Reply(k) ==
    /\ handler[k] \in {"sendResult", "sendError"}
    /\ Held(k)
    /\ respQ' = [respQ EXCEPT
           ![k] = Append(@, [req |-> cur[k], ok |-> handler[k] = "sendResult"])]
    /\ handler' = [handler EXCEPT ![k] = "recv"]
    /\ cur' = [cur EXCEPT ![k] = NoReq]
    /\ UNCHANGED <<clientVars, up, lock, reqQ, executed, crashes, faults>>

\* The client has gone: conn.sendall() raises and ends the thread.
ReplyFails(k) ==
    /\ handler[k] \in {"sendResult", "sendError"}
    /\ ~Held(k)
    /\ HandlerExits(k)
    /\ UNCHANGED <<clientVars, up, lock, respQ, executed, crashes, faults>>

\* The process dies: every thread, every daemon end of a stream and the lock
\* are gone.  What it had already written stays readable.
Crash ==
    /\ up
    /\ crashes < MaxCrashes
    /\ crashes' = crashes + 1
    /\ up' = FALSE
    /\ handler' = [k \in Conns |-> "free"]
    /\ cur' = [k \in Conns |-> NoReq]
    /\ lock' = NoConn
    /\ reqQ' = [k \in Conns |-> <<>>]
    /\ UNCHANGED <<clientVars, respQ, executed, faults>>

\* main() again: the stale socket file is replaced and the daemon listens.
Start ==
    /\ ~up
    /\ up' = TRUE
    /\ UNCHANGED <<clientVars, handler, cur, lock, reqQ, respQ, executed, crashes, faults>>

-----------------------------------------------------------------------------
\* The steps of a call under way.
ClientStep(c) ==
    \/ SendRequest(c)
    \/ SendFails(c)
    \/ ReceiveResponse(c)
    \/ ReceiveFails(c)
    \/ CallTimesOut(c)
    \/ Reconnect(c)
    \/ ReconnectFails(c)

HandlerStep(k) ==
    \/ Accept(k)
    \/ ReadLine(k)
    \/ ReadEof(k)
    \/ AcquireLock(k)
    \/ \E ok \in BOOLEAN : Dispatch(k, ok)
    \/ Reply(k)
    \/ ReplyFails(k)

Next ==
    \/ \E c \in Clients :
          \/ Connect(c)
          \/ Close(c)
          \/ \E m \in UsedMethods : BeginCall(c, m)
          \/ ClientStep(c)
          \/ SocketFault(c)
    \/ \E k \in Conns : HandlerStep(k)
    \/ Crash
    \/ Start

Spec == Init /\ [][Next]_vars

\* A thread inside _call keeps running: every socket operation in it has a
\* timeout.  Nothing obliges a user to call, a socket to fail or the daemon to
\* crash or restart, and a Backend call may take for ever.
ClientFairness == \A c \in Clients : WF_vars(ClientStep(c))

\* The daemon's threads keep running and every Backend call returns.
HandlerFairness == \A k \in Conns : WF_vars(HandlerStep(k))

FairSpec == Spec /\ ClientFairness

-----------------------------------------------------------------------------
(* Properties.                                                              *)

\* The last call of c returned a result or raised the daemon's error (during a
\* call the outcome is pending).
Answered(c) == outcome[c].kind \in {"result", "raised"}

\* The Backend, whose SDK is not assumed thread-safe (server.py:113-114), serves one
\* connection at a time, and whoever is not in it does not hold the lock: not a thread
\* whose Backend call raised, not one whose client has gone or whose process has died.
LockGuardsBackend == \A k \in Conns : handler[k] = "dispatch" <=> lock = k

\* A request reaches the Backend at most once if it is a submit or a cancel and
\* at most twice otherwise, whatever is lost, retried, late or restarted: the
\* write tier is never resent and the others are resent once (client.py _call).
AtMostOnce ==
    \A r \in Request : executed[r] <= IF IsWrite(r.method) THEN 1 ELSE 2

\* What a call returns or raises is the daemon's answer to that very call, not a
\* late answer to an earlier one: tearing the socket down on a timeout and on a
\* loss keeps the unnumbered request and response lines in step.
ReplyMatches ==
    \A c \in Clients : Answered(c) => outcome[c].reply = Req(c)

\* An answered call has really been served, and an answered write exactly once.
AnsweredWasServed ==
    \A c \in Clients : Answered(c) =>
        /\ executed[Req(c)] >= 1
        /\ IsWrite(method[c]) => executed[Req(c)] = 1

\* As long as sockets fail only with the daemon: once a call is over, other than
\* by a timeout, nothing of it is left there and its request is not executed any
\* more.  The claim of client.py's docstring that a silent retry cannot
\* double-fire, and its advice to look at the job before retrying a write, both
\* rest on it.
OverIsOver ==
    [][\A c \in Clients :
          (faults = 0 /\ pc[c] = "idle" /\ outcome[c].kind \notin {"none", "timeout"})
              => \A r \in Request :
                    r = Req(c) => executed'[r] = executed[r]]_vars

\* client.py:71-80: when the connection dies under a write that may have been
\* executed, the error tells the caller to check before retrying.
WriteLossWarned ==
    \A c \in Clients :
        (pc[c] = "idle" /\ IsWrite(method[c]) /\ executed[Req(c)] > 0)
            => outcome[c].kind \in {"result", "raised", "timeout", "lossWarning"}

\* What is true of it: an executed write, also one that is executed only later, has
\* not been reported as refused without a connection, nor as lost after a retry; the
\* one error that hides it is connect()'s own.
WriteLossReported ==
    \A c \in Clients :
        (pc[c] = "idle" /\ IsWrite(method[c]) /\ executed[Req(c)] > 0)
            => outcome[c].kind \in
                  {"result", "raised", "timeout", "lossWarning", "cannotConnect"}

\* Every call returns or raises, also when a Backend call never ends.
CallReturns == \A c \in Clients : pc[c] # "idle" ~> pc[c] = "idle"

\* When a client has gone, the thread of its connection ends, so that neither
\* the lock nor a thread is lost to it, provided the daemon's threads run and the
\* Backend's calls return.
HandlerDrains ==
    HandlerFairness =>
        \A k \in Conns : (handler[k] # "free" /\ ~Held(k)) ~> (handler[k] = "free")

=============================================================================
