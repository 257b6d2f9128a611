----------------------- MODULE DaemonLifecycleProofs ------------------------
(***************************************************************************)
(* What TLAPS proves of DaemonLifecycle for any number of daemons and      *)
(* clients: the state keeps its shape, a stopped daemon accepts one more   *)
(* client at most, and of daemons that run one after the other each one    *)
(* that is not stopped comes up and stays reachable.                       *)
(***************************************************************************)
EXTENDS DaemonLifecycle, TLAPS

-----------------------------------------------------------------------------
(* The inductive invariant.                                                 *)

\* The socket of p is what p's place in serve_forever() makes it, or closed by
\* stop().
SocketOf(p) ==
    /\ pc[p] \in {"absent", "exists", "remove", "socket"} => sock[p] = "none"
    /\ pc[p] = "bind" => sock[p] \in {"open", "closed"}
    /\ pc[p] = "listen" => sock[p] \in {"bound", "closed"}
    /\ pc[p] \in Serving => sock[p] \in {"listening", "closed"}
    /\ sock[p] = "closed" => stop[p] # "no"

\* The loop of p is left once a client was accepted late.
LateOf(p) ==
    \/ late[p] = 0
    \/ late[p] = 1 /\ stop[p] # "no" /\ pc[p] \in {"loop"} \cup Leaving \cup Over

\* What is at the path while p runs alone, and why p may have failed.
FileOf(p) ==
    /\ pc[p] = "remove" => file # NoFile
    /\ pc[p] \in {"socket", "bind"} => file = NoFile
    /\ pc[p] \in {"listen"} \cup Serving \cup Leaving => file = p
    /\ pc[p] = "failed" => stop[p] # "no"

\* Each connection is waiting or accepted, and only accepted ones are late.
CountsOf(p) == backlog[p] + accepted[p] <= MaxClients /\ late[p] <= accepted[p]

Alone == \A p, q \in Daemons : Running(p) /\ Running(q) => p = q

SocketsOk == \A p \in Daemons : SocketOf(p)

LateOk == \A p \in Daemons : LateOf(p)

FilesOk == \A p \in Daemons : FileOf(p)

CountsOk == \A p \in Daemons : CountsOf(p)

ThreadInv == DaemonTypeOK /\ CountsOk /\ SocketsOk /\ LateOk

PathInv == ThreadInv /\ Alone /\ FilesOk

-----------------------------------------------------------------------------
(* Each daemon by itself.                                                   *)

\* Nothing has happened yet.
LEMMA InitThreads == Init => ThreadInv
  BY DaemonAssumption DEF Init, ThreadInv, DaemonTypeOK, CountsOk, CountsOf, SocketsOk, SocketOf,
     LateOk, LateOf, Starting, Serving, Leaving, Over

\* A step keeps the state's shape.
LEMMA StepTypes == ASSUME DaemonTypeOK, CountsOk, [Next]_vars PROVE DaemonTypeOK'
<1> USE DaemonAssumption DEF DaemonTypeOK, CountsOk, CountsOf, Starting,
   Serving, Leaving, Over, Running, Goto
<1>1. CASE UNCHANGED vars
  BY <1>1 DEF vars
<1>2. ASSUME NEW p \in Daemons, Start(p) PROVE DaemonTypeOK'
  BY <1>2 DEF Start
<1>3. ASSUME NEW p \in Daemons, FileExists(p) PROVE DaemonTypeOK'
  BY <1>3 DEF FileExists
<1>4. ASSUME NEW p \in Daemons, FileRemoved(p) PROVE DaemonTypeOK'
  BY <1>4 DEF FileRemoved
<1>5. ASSUME NEW p \in Daemons, MakeSocket(p) PROVE DaemonTypeOK'
  BY <1>5 DEF MakeSocket
<1>6. ASSUME NEW p \in Daemons, Bind(p) PROVE DaemonTypeOK'
  BY <1>6 DEF Bind
<1>7. ASSUME NEW p \in Daemons, Listen(p) PROVE DaemonTypeOK'
  BY <1>7 DEF Listen
<1>8. ASSUME NEW p \in Daemons, CheckShutdown(p) PROVE DaemonTypeOK'
  BY <1>8 DEF CheckShutdown
<1>9. ASSUME NEW p \in Daemons, CallAccept(p) PROVE DaemonTypeOK'
  BY <1>9 DEF CallAccept
<1>10. ASSUME NEW p \in Daemons, AcceptReturns(p) PROVE DaemonTypeOK'
  BY <1>10 DEF AcceptReturns
<1>11. ASSUME NEW p \in Daemons, StopSets(p) PROVE DaemonTypeOK'
  BY <1>11 DEF StopSets
<1>12. ASSUME NEW p \in Daemons, StopCloses(p) PROVE DaemonTypeOK'
  BY <1>12 DEF StopCloses
<1>13. ASSUME NEW p \in Daemons, Crash(p) PROVE DaemonTypeOK'
  BY <1>13 DEF Crash
<1>14. ASSUME NEW p \in Daemons, ClientConnects(p) PROVE DaemonTypeOK'
  BY <1>14 DEF ClientConnects
<1>15. QED
  BY <1>1, <1>2, <1>3, <1>4, <1>5, <1>6, <1>7, <1>8, <1>9, <1>10, <1>11, <1>12, <1>13, <1>14
     DEF Next, Main

\* A step keeps count.
LEMMA StepCounts == ASSUME DaemonTypeOK, CountsOk, [Next]_vars PROVE CountsOk'
<1> USE DaemonAssumption DEF DaemonTypeOK, CountsOk, CountsOf, Goto
<1>1. CASE UNCHANGED vars
  BY <1>1 DEF vars
<1>2. ASSUME NEW p \in Daemons, Start(p) PROVE CountsOk'
  BY <1>2 DEF Start
<1>3. ASSUME NEW p \in Daemons, FileExists(p) PROVE CountsOk'
  BY <1>3 DEF FileExists
<1>4. ASSUME NEW p \in Daemons, FileRemoved(p) PROVE CountsOk'
  BY <1>4 DEF FileRemoved
<1>5. ASSUME NEW p \in Daemons, MakeSocket(p) PROVE CountsOk'
  BY <1>5 DEF MakeSocket
<1>6. ASSUME NEW p \in Daemons, Bind(p) PROVE CountsOk'
  BY <1>6 DEF Bind
<1>7. ASSUME NEW p \in Daemons, Listen(p) PROVE CountsOk'
  BY <1>7 DEF Listen
<1>8. ASSUME NEW p \in Daemons, CheckShutdown(p) PROVE CountsOk'
  BY <1>8 DEF CheckShutdown
<1>9. ASSUME NEW p \in Daemons, CallAccept(p) PROVE CountsOk'
  BY <1>9 DEF CallAccept
<1>10. ASSUME NEW p \in Daemons, AcceptReturns(p) PROVE CountsOk'
  BY <1>10 DEF AcceptReturns
<1>11. ASSUME NEW p \in Daemons, StopSets(p) PROVE CountsOk'
  BY <1>11 DEF StopSets
<1>12. ASSUME NEW p \in Daemons, StopCloses(p) PROVE CountsOk'
  BY <1>12 DEF StopCloses
<1>13. ASSUME NEW p \in Daemons, Crash(p) PROVE CountsOk'
  BY <1>13 DEF Crash
<1>14. ASSUME NEW p \in Daemons, ClientConnects(p) PROVE CountsOk'
  BY <1>14 DEF ClientConnects
<1>15. QED
  BY <1>1, <1>2, <1>3, <1>4, <1>5, <1>6, <1>7, <1>8, <1>9, <1>10, <1>11, <1>12, <1>13, <1>14
     DEF Next, Main

\* A step keeps each socket in its place.
LEMMA StepSockets == ASSUME DaemonTypeOK, SocketsOk, [Next]_vars PROVE SocketsOk'
<1> USE DaemonAssumption DEF DaemonTypeOK, SocketsOk, SocketOf, Starting,
   Serving, Leaving, Over, Running, Goto
<1>1. CASE UNCHANGED vars
  BY <1>1 DEF vars
<1>2. ASSUME NEW p \in Daemons, Start(p) PROVE SocketsOk'
  BY <1>2 DEF Start
<1>3. ASSUME NEW p \in Daemons, FileExists(p) PROVE SocketsOk'
  BY <1>3 DEF FileExists
<1>4. ASSUME NEW p \in Daemons, FileRemoved(p) PROVE SocketsOk'
  BY <1>4 DEF FileRemoved
<1>5. ASSUME NEW p \in Daemons, MakeSocket(p) PROVE SocketsOk'
  BY <1>5 DEF MakeSocket
<1>6. ASSUME NEW p \in Daemons, Bind(p) PROVE SocketsOk'
  BY <1>6 DEF Bind
<1>7. ASSUME NEW p \in Daemons, Listen(p) PROVE SocketsOk'
  BY <1>7 DEF Listen
<1>8. ASSUME NEW p \in Daemons, CheckShutdown(p) PROVE SocketsOk'
  BY <1>8 DEF CheckShutdown
<1>9. ASSUME NEW p \in Daemons, CallAccept(p) PROVE SocketsOk'
  BY <1>9 DEF CallAccept
<1>10. ASSUME NEW p \in Daemons, AcceptReturns(p) PROVE SocketsOk'
  BY <1>10 DEF AcceptReturns
<1>11. ASSUME NEW p \in Daemons, StopSets(p) PROVE SocketsOk'
  BY <1>11 DEF StopSets
<1>12. ASSUME NEW p \in Daemons, StopCloses(p) PROVE SocketsOk'
  BY <1>12 DEF StopCloses
<1>13. ASSUME NEW p \in Daemons, Crash(p) PROVE SocketsOk'
  BY <1>13 DEF Crash
<1>14. ASSUME NEW p \in Daemons, ClientConnects(p) PROVE SocketsOk'
  BY <1>14 DEF ClientConnects
<1>15. QED
  BY <1>1, <1>2, <1>3, <1>4, <1>5, <1>6, <1>7, <1>8, <1>9, <1>10, <1>11, <1>12, <1>13, <1>14
     DEF Next, Main

\* A daemon that has accepted a client late never gets to accept() again.
LEMMA StepLate == ASSUME DaemonTypeOK, SocketsOk, LateOk, [Next]_vars PROVE LateOk'
<1> USE DaemonAssumption DEF DaemonTypeOK, SocketsOk, SocketOf, LateOk,
   LateOf, Starting, Serving, Leaving, Over, Running, Goto
<1>1. CASE UNCHANGED vars
  BY <1>1 DEF vars
<1>2. ASSUME NEW p \in Daemons, Start(p) PROVE LateOk'
  BY <1>2 DEF Start
<1>3. ASSUME NEW p \in Daemons, FileExists(p) PROVE LateOk'
  BY <1>3 DEF FileExists
<1>4. ASSUME NEW p \in Daemons, FileRemoved(p) PROVE LateOk'
  BY <1>4 DEF FileRemoved
<1>5. ASSUME NEW p \in Daemons, MakeSocket(p) PROVE LateOk'
  BY <1>5 DEF MakeSocket
<1>6. ASSUME NEW p \in Daemons, Bind(p) PROVE LateOk'
  BY <1>6 DEF Bind
<1>7. ASSUME NEW p \in Daemons, Listen(p) PROVE LateOk'
  BY <1>7 DEF Listen
<1>8. ASSUME NEW p \in Daemons, CheckShutdown(p) PROVE LateOk'
  BY <1>8 DEF CheckShutdown
<1>9. ASSUME NEW p \in Daemons, CallAccept(p) PROVE LateOk'
  BY <1>9 DEF CallAccept
<1>10. ASSUME NEW p \in Daemons, AcceptReturns(p) PROVE LateOk'
  BY <1>10 DEF AcceptReturns
<1>11. ASSUME NEW p \in Daemons, StopSets(p) PROVE LateOk'
  BY <1>11 DEF StopSets
<1>12. ASSUME NEW p \in Daemons, StopCloses(p) PROVE LateOk'
  BY <1>12 DEF StopCloses
<1>13. ASSUME NEW p \in Daemons, Crash(p) PROVE LateOk'
  BY <1>13 DEF Crash
<1>14. ASSUME NEW p \in Daemons, ClientConnects(p) PROVE LateOk'
  BY <1>14 DEF ClientConnects
<1>15. QED
  BY <1>1, <1>2, <1>3, <1>4, <1>5, <1>6, <1>7, <1>8, <1>9, <1>10, <1>11, <1>12, <1>13, <1>14
     DEF Next, Main

-----------------------------------------------------------------------------
(* Daemons that run one after the other.                                    *)

\* Nobody runs.
LEMMA InitPath == Init => PathInv
  BY InitThreads, DaemonAssumption DEF Init, PathInv, Alone, FilesOk, FileOf, Running, Starting,
     Serving, Leaving

\* A step leaves at most one daemon running.
LEMMA StepAlone == ASSUME OneAtATime, DaemonTypeOK, Alone, [Next]_vars PROVE Alone'
<1> USE DaemonAssumption DEF DaemonTypeOK, Alone, Starting, Serving, Leaving,
   Over, Running, Goto
<1>1. CASE UNCHANGED vars
  BY <1>1 DEF vars
<1>2. ASSUME NEW p \in Daemons, Start(p) PROVE Alone'
  BY <1>2 DEF Start
<1>3. ASSUME NEW p \in Daemons, FileExists(p) PROVE Alone'
  BY <1>3 DEF FileExists
<1>4. ASSUME NEW p \in Daemons, FileRemoved(p) PROVE Alone'
  BY <1>4 DEF FileRemoved
<1>5. ASSUME NEW p \in Daemons, MakeSocket(p) PROVE Alone'
  BY <1>5 DEF MakeSocket
<1>6. ASSUME NEW p \in Daemons, Bind(p) PROVE Alone'
  BY <1>6 DEF Bind
<1>7. ASSUME NEW p \in Daemons, Listen(p) PROVE Alone'
  BY <1>7 DEF Listen
<1>8. ASSUME NEW p \in Daemons, CheckShutdown(p) PROVE Alone'
  BY <1>8 DEF CheckShutdown
<1>9. ASSUME NEW p \in Daemons, CallAccept(p) PROVE Alone'
  BY <1>9 DEF CallAccept
<1>10. ASSUME NEW p \in Daemons, AcceptReturns(p) PROVE Alone'
  BY <1>10 DEF AcceptReturns
<1>11. ASSUME NEW p \in Daemons, StopSets(p) PROVE Alone'
  BY <1>11 DEF StopSets
<1>12. ASSUME NEW p \in Daemons, StopCloses(p) PROVE Alone'
  BY <1>12 DEF StopCloses
<1>13. ASSUME NEW p \in Daemons, Crash(p) PROVE Alone'
  BY <1>13 DEF Crash
<1>14. ASSUME NEW p \in Daemons, ClientConnects(p) PROVE Alone'
  BY <1>14 DEF ClientConnects
<1>15. QED
  BY <1>1, <1>2, <1>3, <1>4, <1>5, <1>6, <1>7, <1>8, <1>9, <1>10, <1>11, <1>12, <1>13, <1>14
     DEF Next, Main

\* A step keeps the path as the running daemon needs it.
LEMMA StepFiles == ASSUME OneAtATime, DaemonTypeOK, SocketsOk, Alone, FilesOk, [Next]_vars PROVE FilesOk'
<1> USE DaemonAssumption DEF DaemonTypeOK, SocketsOk, SocketOf, Alone,
   FilesOk, FileOf, Starting, Serving, Leaving, Over, Running, Goto
<1>1. CASE UNCHANGED vars
  BY <1>1 DEF vars
<1>2. ASSUME NEW p \in Daemons, Start(p) PROVE FilesOk'
  BY <1>2 DEF Start
<1>3. ASSUME NEW p \in Daemons, FileExists(p) PROVE FilesOk'
  BY <1>3 DEF FileExists
<1>4. ASSUME NEW p \in Daemons, FileRemoved(p) PROVE FilesOk'
  BY <1>4 DEF FileRemoved
<1>5. ASSUME NEW p \in Daemons, MakeSocket(p) PROVE FilesOk'
  BY <1>5 DEF MakeSocket
<1>6. ASSUME NEW p \in Daemons, Bind(p) PROVE FilesOk'
  BY <1>6 DEF Bind
<1>7. ASSUME NEW p \in Daemons, Listen(p) PROVE FilesOk'
  BY <1>7 DEF Listen
<1>8. ASSUME NEW p \in Daemons, CheckShutdown(p) PROVE FilesOk'
  BY <1>8 DEF CheckShutdown
<1>9. ASSUME NEW p \in Daemons, CallAccept(p) PROVE FilesOk'
  BY <1>9 DEF CallAccept
<1>10. ASSUME NEW p \in Daemons, AcceptReturns(p) PROVE FilesOk'
  BY <1>10 DEF AcceptReturns
<1>11. ASSUME NEW p \in Daemons, StopSets(p) PROVE FilesOk'
  BY <1>11 DEF StopSets
<1>12. ASSUME NEW p \in Daemons, StopCloses(p) PROVE FilesOk'
  BY <1>12 DEF StopCloses
<1>13. ASSUME NEW p \in Daemons, Crash(p) PROVE FilesOk'
  BY <1>13 DEF Crash
<1>14. ASSUME NEW p \in Daemons, ClientConnects(p) PROVE FilesOk'
  BY <1>14 DEF ClientConnects
<1>15. QED
  BY <1>1, <1>2, <1>3, <1>4, <1>5, <1>6, <1>7, <1>8, <1>9, <1>10, <1>11, <1>12, <1>13, <1>14
     DEF Next, Main

-----------------------------------------------------------------------------
(* Theorems.                                                                *)

\* What holds of each daemon by itself always holds.
LEMMA ThreadsInvariant == Spec => []ThreadInv
<1>1. ThreadInv /\ [Next]_vars => ThreadInv'
  BY StepTypes, StepCounts, StepSockets, StepLate DEF ThreadInv
<1>2. QED
  BY InitThreads, <1>1, PTL DEF Spec

\* So does what holds of the path, if daemons run one after the other.
LEMMA PathInvariant == ASSUME OneAtATime PROVE Spec => []PathInv
<1>1. PathInv /\ [Next]_vars => PathInv'
  BY StepTypes, StepCounts, StepSockets, StepLate, StepAlone, StepFiles DEF PathInv, ThreadInv
<1>2. QED
  BY InitPath, <1>1, PTL DEF Spec

\* The state of serve_forever() and stop() keeps its shape, for any number of
\* daemons at once.
THEOREM DaemonTypeCorrect == Spec => []DaemonTypeOK
<1>1. ThreadInv => DaemonTypeOK
  BY DEF ThreadInv
<1>2. QED
  BY <1>1, ThreadsInvariant, PTL

\* A daemon accepts one client at most once stop() has begun, wherever its main
\* thread then is and however many daemons there are (server.py:66-69).
THEOREM AtMostOneLate == Spec => []OneLateClient
<1>1. ASSUME ThreadInv, NEW p \in Daemons PROVE late[p] <= 1
  <2>1. late[p] \in {0, 1}
    BY <1>1 DEF ThreadInv, LateOk, LateOf
  <2>2. QED
    BY <2>1
<1>2. ThreadInv => OneLateClient
  BY <1>1 DEF OneLateClient
<1>3. QED
  BY <1>2, ThreadsInvariant, PTL

\* Daemons that run one after the other: whatever a crash left behind, the next
\* one that nobody stops comes up (server.py:57-63).
THEOREM StartsSucceed == ASSUME OneAtATime PROVE Spec => []StartSucceeds
<1>1. PathInv => StartSucceeds
  BY DEF PathInv, FilesOk, FileOf, StartSucceeds
<1>2. QED
  BY <1>1, PathInvariant, PTL

\* And it is reached through the path for as long as it serves (server.py:57-85).
THEOREM StaysReachable == ASSUME OneAtATime PROVE Spec => []Reachable
<1>1. PathInv => Reachable
  BY DEF PathInv, FilesOk, FileOf, Reachable
<1>2. QED
  BY <1>1, PathInvariant, PTL

=============================================================================
