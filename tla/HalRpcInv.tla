----------------------------- MODULE HalRpcInv -----------------------------
(***************************************************************************)
(* The inductive invariant of HalRpc, in named parts.  It says why the     *)
(* unnumbered lines of the protocol stay matched to calls: a connection    *)
(* carries at most one request or response, and once the call that sent it *)
(* is over the connection is quiet or no longer the client's.              *)
(***************************************************************************)
EXTENDS HalRpc

Busy(k) == handler[k] \in {"lockwait", "dispatch", "sendResult", "sendError"}

Quiet(k) == reqQ[k] = <<>> /\ respQ[k] = <<>> /\ ~Busy(k)

\* A started call has a method; a client that has not started one has no outcome.
CallStarted ==
    \A c \in Clients :
        /\ num[c] >= 1 => method[c] \in UsedMethods
        /\ num[c] = 0 => pc[c] = "idle" /\ outcome[c].kind = "none"

\* A thread that serves a request knows which.
ServesRequest == \A k \in Conns : Busy(k) => cur[k] \in Request

TypeInv == TypeOK /\ CallStarted /\ ServesRequest

\* Two clients never share a connection.
SockInjective ==
    \A c, d \in Clients : (sock[c] \in Conns /\ sock[c] = sock[d]) => c = d

\* At most one request or response is under way on a connection.
OneInFlight ==
    \A k \in Conns :
        /\ Len(reqQ[k]) <= 1
        /\ Len(respQ[k]) <= 1
        /\ Busy(k) => reqQ[k] = <<>>
        /\ respQ[k] # <<>> => reqQ[k] = <<>> /\ ~Busy(k)

\* A connection nobody holds has no response left, one without a thread no request.
LooseEnds ==
    \A k \in Conns :
        /\ ~Held(k) => respQ[k] = <<>>
        /\ handler[k] = "free" => reqQ[k] = <<>>

\* Between calls, and before the request is sent, the client's connection is quiet.
IdleIsQuiet ==
    \A c \in Clients :
        (sock[c] \in Conns /\ pc[c] \in {"idle", "send"}) => Quiet(sock[c])

\* While a call awaits its response, its connection carries that call only.
RecvIsOwn ==
    \A c \in Clients :
        (sock[c] \in Conns /\ pc[c] = "recv") =>
            /\ reqQ[sock[c]] # <<>> => Head(reqQ[sock[c]]) = Req(c)
            /\ Busy(sock[c]) => cur[sock[c]] = Req(c)
            /\ respQ[sock[c]] # <<>> => Head(respQ[sock[c]]).req = Req(c)

\* A second attempt is made for the retried tiers only, and only once.
RetryOnce ==
    \A c \in Clients :
        /\ attempt[c] = 2 => Retried(method[c])
        /\ pc[c] = "reconnect" => attempt[c] = 1

\* _call reconnects after tearing the socket down.
TornDown == \A c \in Clients : pc[c] = "reconnect" => sock[c] = NoConn

LineInv ==
    /\ SockInjective
    /\ OneInFlight
    /\ LooseEnds
    /\ IdleIsQuiet
    /\ RecvIsOwn
    /\ TornDown

\* A response, or a thread about to write one, means the request was executed.
ServedFirst ==
    \A k \in Conns :
        /\ handler[k] \in {"sendResult", "sendError"} => executed[cur[k]] >= 1
        /\ respQ[k] # <<>> => executed[Head(respQ[k]).req] >= 1

ReplyWasServed ==
    \A c \in Clients : Answered(c) => executed[Req(c)] >= 1

\* The connections on which a copy of r is still to be executed.
Carriers(r) ==
    {k \in Conns :
        \/ reqQ[k] # <<>> /\ Head(reqQ[k]) = r
        \/ handler[k] \in {"lockwait", "dispatch"} /\ cur[k] = r}

Limit(r) == IF IsWrite(r.method) THEN 1 ELSE 2

\* How many copies of r its client has sent so far, at most.
Budget(r) ==
    LET c == r.client
    IN  IF r.num < num[c] THEN Limit(r)
        ELSE IF r.num > num[c] \/ r.method # method[c] THEN 0
        ELSE IF pc[c] = "send" THEN attempt[c] - 1
        ELSE attempt[c]

\* Copies executed and copies still under way do not exceed the copies sent.
WithinBudget ==
    \A r \in Request : executed[r] + Cardinality(Carriers(r)) <= Budget(r)

\* The call of c is over other than by a timeout, or it has no copy of its
\* request to wait for: none sent yet, or the one sent went down with the daemon.
Settled(c) ==
    \/ pc[c] \in {"send", "reconnect"}
    \/ pc[c] = "idle" /\ outcome[c].kind \notin {"none", "timeout"}

\* As long as sockets fail only with the daemon, a call leaves no copy of its
\* request behind, and the copy it waits for is on its own connection.
NothingLeft ==
    faults = 0 =>
        \A c \in Clients :
            /\ Settled(c) => Carriers(Req(c)) = {}
            /\ pc[c] = "recv" => Carriers(Req(c)) \subseteq {sock[c]}

\* A call that is over says so; only a retried one is lost twice, and nothing of a
\* call that was refused is executed or under way.
HonestEnds ==
    \A c \in Clients : pc[c] = "idle" =>
        /\ outcome[c].kind # "pending"
        /\ outcome[c].kind = "none" => method[c] = "none"
        /\ outcome[c].kind = "lostTwice" => Retried(method[c])
        /\ outcome[c].kind = "notConnected" =>
              executed[Req(c)] = 0 /\ Carriers(Req(c)) = {}

IInv ==
    /\ TypeInv
    /\ LineInv
    /\ RetryOnce
    /\ ReplyMatches
    /\ ServedFirst
    /\ ReplyWasServed
    /\ WithinBudget
    /\ NothingLeft
    /\ HonestEnds

=============================================================================
