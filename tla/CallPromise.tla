----------------------------- MODULE CallPromise -----------------------------
(***************************************************************************)
(* What a QosHalClient promises the program that calls it, without         *)
(* connections, threads, retries or restarts: a call ends with the         *)
(* daemon's answer to it, which means that it was executed, or with an     *)
(* error that says it was given up; a write is executed at most once and   *)
(* anything else at most twice, possibly after the call is over.           *)
(***************************************************************************)
EXTENDS Naturals, RpcTiers

CONSTANTS Clients, UsedMethods, MaxCalls

VARIABLES
    num,       \* num[c]: how many calls c has made
    method,    \* method[c]: the method of the last one
    busy,      \* busy[c]: it has not ended
    outcome,   \* outcome[c]: how it ended, and the request the answer is for
    onItsWay,  \* the requests that may still be executed
    executed   \* executed[r]: how often r was executed

promiseVars == <<num, method, busy, outcome, onItsWay, executed>>

Request == [client : Clients, num : 1..MaxCalls, method : UsedMethods]

NoReq == [client |-> "none", num |-> 0, method |-> "none"]

Req(c) == [client |-> c, num |-> num[c], method |-> method[c]]

MaxExecutions(r) == IF IsWrite(r.method) THEN 1 ELSE 2

Ends(c, kind, reply) == outcome' = [outcome EXCEPT ![c] = [kind |-> kind, reply |-> reply]]

Init ==
    /\ num = [c \in Clients |-> 0]
    /\ method = [c \in Clients |-> "none"]
    /\ busy = [c \in Clients |-> FALSE]
    /\ outcome = [c \in Clients |-> [kind |-> "none", reply |-> NoReq]]
    /\ onItsWay = {}
    /\ executed = [r \in Request |-> 0]

-----------------------------------------------------------------------------
\* The program calls; without a connection the call is refused at once.
Begin(c, m) ==
    /\ ~busy[c]
    /\ num[c] < MaxCalls
    /\ num' = [num EXCEPT ![c] = @ + 1]
    /\ method' = [method EXCEPT ![c] = m]
    /\ \/ busy' = [busy EXCEPT ![c] = TRUE] /\ Ends(c, "pending", NoReq)
       \/ Ends(c, "notConnected", NoReq) /\ UNCHANGED busy
    /\ UNCHANGED <<onItsWay, executed>>

\* Only a call that has not ended puts its request on the way.
Send(c) ==
    /\ busy[c]
    /\ onItsWay' = onItsWay \cup {Req(c)}
    /\ UNCHANGED <<num, method, busy, outcome, executed>>

\* Requests are lost, any number of them at once.
Lose ==
    /\ onItsWay' \in SUBSET onItsWay
    /\ UNCHANGED <<num, method, busy, outcome, executed>>

\* The daemon executes a request; a second copy of it may still be on its way.
Execute(r) ==
    /\ r \in onItsWay
    /\ executed[r] < MaxExecutions(r)
    /\ executed' = [executed EXCEPT ![r] = @ + 1]
    /\ onItsWay' \in {onItsWay, onItsWay \ {r}}
    /\ UNCHANGED <<num, method, busy, outcome>>

\* The call returns the daemon's result, or raises its error.
Answer(c, kind) ==
    /\ busy[c]
    /\ executed[Req(c)] > 0
    /\ busy' = [busy EXCEPT ![c] = FALSE]
    /\ Ends(c, kind, Req(c))
    /\ UNCHANGED <<num, method, onItsWay, executed>>

\* The call ends without an answer.  Only a retried call is reported lost twice,
\* and only a write carries the warning that it may have been executed.
GiveUp(c, kind) ==
    /\ busy[c]
    /\ kind = "lostTwice" => ~IsWrite(method[c])
    /\ kind = "lossWarning" => IsWrite(method[c])
    /\ busy' = [busy EXCEPT ![c] = FALSE]
    /\ Ends(c, kind, NoReq)
    /\ UNCHANGED <<num, method, onItsWay, executed>>

Next ==
    \/ \E c \in Clients :
          \/ \E m \in UsedMethods : Begin(c, m)
          \/ Send(c)
          \/ \E kind \in {"result", "raised"} : Answer(c, kind)
          \/ \E kind \in {"timeout", "lostTwice", "lossWarning", "cannotConnect"} :
                GiveUp(c, kind)
    \/ Lose
    \/ \E r \in Request : Execute(r)

Spec == Init /\ [][Next]_promiseVars

=============================================================================
