-------------------------- MODULE DaemonLifecycle --------------------------
(***************************************************************************)
(* DaemonServer.serve_forever(), stop() and _cleanup() (daemon/server.py)  *)
(* in several daemon processes that share one socket path: starting over a *)
(* stale file, accepting clients, being stopped from another thread at any *)
(* moment, crashing.  What a connection does once it is accepted is the    *)
(* subject of HalRpc.                                                      *)
(***************************************************************************)
EXTENDS Naturals

CONSTANTS
    Daemons,      \* daemon processes; each runs once
    NoFile,       \* nothing exists at the socket path
    OneAtATime,   \* a daemon is started only when the others are over
    MaxClients    \* bound: connections made to one daemon

ASSUME DaemonAssumption ==
    /\ NoFile \notin Daemons
    /\ OneAtATime \in BOOLEAN
    /\ MaxClients \in Nat

VARIABLES
    file,      \* whose socket the path names, also when that daemon has died
    pc,        \* pc[p]: where the main thread of p stands in serve_forever()
    sock,      \* sock[p]: _server_sock
    stop,      \* stop[p]: how far a call of stop() has got
    backlog,   \* backlog[p]: clients connected and not accepted
    accepted,  \* accepted[p]: clients accepted
    late       \* history, late[p]: clients accepted after stop() set _shutdown

vars == <<file, pc, sock, stop, backlog, accepted, late>>

\* "blocked": inside the accept() system call.  "failed": an exception.
Starting == {"exists", "remove", "socket", "bind", "listen"}
Serving == {"loop", "accept", "blocked"}
Leaving == {"cleanup", "unlink"}
Over == {"returned", "failed", "dead"}

Running(p) == pc[p] \in Starting \cup Serving \cup Leaving

\* The kernel keeps a socket alive for the accept() that is blocked on it, also
\* when another thread closes the descriptor.
Listening(p) ==
    /\ Running(p)
    /\ sock[p] = "listening" \/ (sock[p] = "closed" /\ pc[p] = "blocked")

DaemonTypeOK ==
    /\ file \in Daemons \cup {NoFile}
    /\ pc \in [Daemons -> {"absent"} \cup Starting \cup Serving \cup Leaving \cup Over]
    /\ sock \in [Daemons -> {"none", "open", "bound", "listening", "closed"}]
    /\ stop \in [Daemons -> {"no", "set", "done"}]
    /\ backlog \in [Daemons -> 0..MaxClients]
    /\ accepted \in [Daemons -> 0..MaxClients]
    /\ late \in [Daemons -> 0..MaxClients]

Init ==
    /\ file = NoFile
    /\ pc = [p \in Daemons |-> "absent"]
    /\ sock = [p \in Daemons |-> "none"]
    /\ stop = [p \in Daemons |-> "no"]
    /\ backlog = [p \in Daemons |-> 0]
    /\ accepted = [p \in Daemons |-> 0]
    /\ late = [p \in Daemons |-> 0]

Goto(p, l) == pc' = [pc EXCEPT ![p] = l]

-----------------------------------------------------------------------------
(* serve_forever(), one action per call that another process can see.       *)

Start(p) ==
    /\ pc[p] = "absent"
    /\ OneAtATime => \A q \in Daemons \ {p} : ~Running(q)
    /\ Goto(p, "exists")
    /\ UNCHANGED <<file, sock, stop, backlog, accepted, late>>

\* Wrong on purpose: a stale file is left in place.
FileExists_Keeps(p) ==
    /\ pc[p] \in {"exists", "cleanup"}
    /\ Goto(p, CASE pc[p] = "exists" -> "socket"
                 [] pc[p] = "cleanup" /\ file # NoFile -> "unlink"
                 [] OTHER -> "returned")
    /\ UNCHANGED <<file, sock, stop, backlog, accepted, late>>

\* os.path.exists(), before the socket is made and in _cleanup().
FileExists(p) ==
    /\ pc[p] \in {"exists", "cleanup"}
    /\ Goto(p, IF pc[p] = "exists" THEN IF file = NoFile THEN "socket" ELSE "remove"
               ELSE IF file = NoFile THEN "returned" ELSE "unlink")
    /\ UNCHANGED <<file, sock, stop, backlog, accepted, late>>

\* os.remove(), whosever file it is; it raises when the file has gone.
FileRemoved(p) ==
    /\ pc[p] \in {"remove", "unlink"}
    /\ file' = NoFile
    /\ Goto(p, CASE file = NoFile -> "failed"
                 [] pc[p] = "remove" -> "socket"
                 [] OTHER -> "returned")
    /\ UNCHANGED <<sock, stop, backlog, accepted, late>>

MakeSocket(p) ==
    /\ pc[p] = "socket"
    /\ sock' = [sock EXCEPT ![p] = "open"]
    /\ Goto(p, "bind")
    /\ UNCHANGED <<file, stop, backlog, accepted, late>>

\* bind() creates the file; it raises if one exists or stop() closed the socket.
Bind(p) ==
    /\ pc[p] = "bind"
    /\ IF sock[p] = "closed" \/ file # NoFile
       THEN Goto(p, "failed") /\ UNCHANGED <<file, sock>>
       ELSE /\ file' = p
            /\ sock' = [sock EXCEPT ![p] = "bound"]
            /\ Goto(p, "listen")
    /\ UNCHANGED <<stop, backlog, accepted, late>>

\* listen() is outside the try: when it raises, _cleanup() is not called.
Listen(p) ==
    /\ pc[p] = "listen"
    /\ IF sock[p] = "closed"
       THEN Goto(p, "failed") /\ UNCHANGED sock
       ELSE sock' = [sock EXCEPT ![p] = "listening"] /\ Goto(p, "loop")
    /\ UNCHANGED <<file, stop, backlog, accepted, late>>

\* Wrong on purpose: the loop relies on accept() alone to notice stop().
CheckShutdown_Never(p) ==
    /\ pc[p] = "loop"
    /\ Goto(p, "accept")
    /\ UNCHANGED <<file, sock, stop, backlog, accepted, late>>

CheckShutdown(p) ==
    /\ pc[p] = "loop"
    /\ Goto(p, IF stop[p] = "no" THEN "accept" ELSE "cleanup")
    /\ UNCHANGED <<file, sock, stop, backlog, accepted, late>>

\* accept() on a closed descriptor raises OSError and the loop breaks.
CallAccept(p) ==
    /\ pc[p] = "accept"
    /\ Goto(p, IF sock[p] = "closed" THEN "cleanup" ELSE "blocked")
    /\ UNCHANGED <<file, sock, stop, backlog, accepted, late>>

\* Wrong on purpose: the connection is served in the main thread.
AcceptReturns_Inline(p) ==
    /\ pc[p] = "blocked"
    /\ backlog[p] > 0
    /\ backlog' = [backlog EXCEPT ![p] = @ - 1]
    /\ accepted' = [accepted EXCEPT ![p] = @ + 1]
    /\ late' = [late EXCEPT ![p] = IF stop[p] = "no" THEN @ ELSE @ + 1]
    /\ Goto(p, "handle")
    /\ UNCHANGED <<file, sock, stop>>

\* Wrong on purpose: the finally clause is inside the loop.
AcceptReturns_CleansUp(p) ==
    /\ pc[p] = "blocked"
    /\ backlog[p] > 0
    /\ backlog' = [backlog EXCEPT ![p] = @ - 1]
    /\ accepted' = [accepted EXCEPT ![p] = @ + 1]
    /\ late' = [late EXCEPT ![p] = IF stop[p] = "no" THEN @ ELSE @ + 1]
    /\ file' = NoFile
    /\ Goto(p, "loop")
    /\ UNCHANGED <<sock, stop>>

\* accept() returns and the thread of the new connection is started.
AcceptReturns(p) ==
    /\ pc[p] = "blocked"
    /\ backlog[p] > 0
    /\ backlog' = [backlog EXCEPT ![p] = @ - 1]
    /\ accepted' = [accepted EXCEPT ![p] = @ + 1]
    /\ late' = [late EXCEPT ![p] = IF stop[p] = "no" THEN @ ELSE @ + 1]
    /\ Goto(p, "loop")
    /\ UNCHANGED <<file, sock, stop>>

Main(p) ==
    \/ FileExists(p)
    \/ FileRemoved(p)
    \/ MakeSocket(p)
    \/ Bind(p)
    \/ Listen(p)
    \/ CheckShutdown(p)
    \/ CallAccept(p)
    \/ AcceptReturns(p)

-----------------------------------------------------------------------------
(* stop(), in another thread.                                               *)

StopSets(p) ==
    /\ Running(p)
    /\ stop[p] = "no"
    /\ stop' = [stop EXCEPT ![p] = "set"]
    /\ UNCHANGED <<file, pc, sock, backlog, accepted, late>>

\* Before the socket is made there is nothing to close.
StopCloses(p) ==
    /\ Running(p)
    /\ stop[p] = "set"
    /\ stop' = [stop EXCEPT ![p] = "done"]
    /\ sock' = [sock EXCEPT ![p] = IF @ = "none" THEN "none" ELSE "closed"]
    /\ UNCHANGED <<file, pc, backlog, accepted, late>>

-----------------------------------------------------------------------------
(* The environment.                                                         *)

\* The process dies; the file it bound stays behind.
Crash(p) ==
    /\ Running(p)
    /\ Goto(p, "dead")
    /\ UNCHANGED <<file, sock, stop, backlog, accepted, late>>

\* A client's connect() succeeds at the path.
ClientConnects(p) ==
    /\ file = p
    /\ Listening(p)
    /\ backlog[p] + accepted[p] < MaxClients
    /\ backlog' = [backlog EXCEPT ![p] = @ + 1]
    /\ UNCHANGED <<file, pc, sock, stop, accepted, late>>

Next ==
    \E p \in Daemons :
        \/ Start(p)
        \/ Main(p)
        \/ StopSets(p)
        \/ StopCloses(p)
        \/ Crash(p)
        \/ ClientConnects(p)

Spec == Init /\ [][Next]_vars

\* Both threads of a process keep running; clients and users owe nothing.
FairSpec == Spec /\ \A p \in Daemons : WF_vars(Main(p)) /\ WF_vars(StopCloses(p))

-----------------------------------------------------------------------------
(* Properties.                                                              *)

\* A daemon that nobody stops comes up, whatever its predecessors left behind:
\* a crash at any point never makes the next start fail.
StartSucceeds == \A p \in Daemons : pc[p] = "failed" => stop[p] # "no"

\* While a daemon serves and nobody has stopped it, clients reach it through the
\* path.
Reachable == \A p \in Daemons : (pc[p] \in Serving /\ stop[p] = "no") => file = p

\* At most one client is still accepted after stop() has begun.
OneLateClient == \A p \in Daemons : late[p] <= 1

\* Once stop() has been called, a client waiting to be accepted is enough for
\* serve_forever() to end.
StopNoticed ==
    \A p \in Daemons : (stop[p] = "done" /\ backlog[p] > 0) ~> (pc[p] \in Over)

\* server.py:54, 70: serve_forever() accepts connections until stop() is called,
\* whose closing of the socket ends the accept() loop.
StopEndsServing == \A p \in Daemons : (stop[p] = "done") ~> (pc[p] \in Over)

=============================================================================
