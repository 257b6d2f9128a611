----------------------------- MODULE HalSystem ------------------------------
(***************************************************************************)
(* The whole stack: programs that run the script of                        *)
(* verify_no_runtime_service.py against one daemon, whose connection       *)
(* threads share one CachedBackend behind one lock (server.py:112-121).    *)
(*                                                                         *)
(* The connections are those of CallPromise, which HalRpc implements: a    *)
(* request is on its way until a thread serves it or it is lost, and once  *)
(* its client has given the connection up nobody hears the answer.  Two    *)
(* copies of a read or connect that were both given up count as one: a     *)
(* second late execution ends where the last one alone would (HalRpc       *)
(* counts copies).  A live read and get_result() take more than one step   *)
(* with the lock held; the clock stands still during a live read           *)
(* (CachedBackend lets it run).                                            *)
(***************************************************************************)
EXTENDS CachedBackend, RpcTiers, FiniteSets

CONSTANTS
    Users,        \* programs, each with a QosHalClient of its own
    Choice,       \* Choice[u]: what u passes to connect_backend()
    Polling,      \* the programs that poll the status before they ask for the result
    MaxCrashes,   \* bound: crashes of the daemon
    MaxFaults,    \* bound: client sockets that die
    MaxDrifts     \* bound: changes of the least busy device

ASSUME UserAssumption ==
    /\ Choice \in [Users -> Device \cup {Default}]
    /\ Polling \subseteq Users
    /\ MaxCrashes \in Nat /\ MaxFaults \in Nat /\ MaxDrifts \in Nat

VARIABLES
    \* a program and its client
    at,        \* at[u]: the call the script of u is at, or how it ended
    waiting,   \* waiting[u]: that call is under way
    linked,    \* linked[u]: its socket is connected to the running daemon
    resent,    \* resent[u]: the call has been sent a second time
    heard,     \* heard[u]: the response line it has not read yet
    jobOf,     \* jobOf[u]: the job of the id submit_job() returned
    \* the daemon
    up,        \* the process runs
    wire,      \* requests no thread has served yet
    serving,   \* the request whose thread holds the lock
    reading,   \* the device it reads from the provider, if any
    \* history and bounds
    submitted, \* submitted[u]: the jobs queued for u
    mine,      \* mine[u]: the device of u's own connect(), until the next connect()
    crashes, faults, drifts

clientVars == <<at, waiting, linked, resent, heard, jobOf>>
daemonVars == <<up, wire, serving, reading>>
historyVars == <<submitted, mine, crashes, faults, drifts>>
halVars == <<cachedVars, clientVars, daemonVars, historyVars>>

Script == {"connect", "get_topology", "get_calibration", "submit_job",
           "get_job_status", "get_result"}

Ended == {"done", "stopped"}

Data(m) == IF m = "get_topology" THEN "topology" ELSE "calibration"

\* current: its client still listens on the connection it came on.
Request == [user : Users, method : Script, current : BOOLEAN]

NoRequest == [user |-> "none", method |-> "none", current |-> FALSE]

Response == [answer : Answers, job : Raw \cup {NoRaw}]

NoResponse == [answer |-> "none", job |-> NoRaw]

HalTypeOK ==
    /\ at \in [Users -> Script \cup Ended]
    /\ waiting \in [Users -> BOOLEAN]
    /\ linked \in [Users -> BOOLEAN]
    /\ resent \in [Users -> BOOLEAN]
    /\ heard \in [Users -> Response \cup {NoResponse}]
    /\ jobOf \in [Users -> Raw \cup {NoRaw}]
    /\ up \in BOOLEAN
    /\ wire \subseteq Request
    /\ serving \in Request \cup {NoRequest}
    /\ reading \in Device \cup {NoDevice}
    /\ submitted \in [Users -> SUBSET Raw]
    /\ mine \in [Users -> Device \cup {NoDevice}]
    /\ crashes \in 0..MaxCrashes
    /\ faults \in 0..MaxFaults
    /\ drifts \in 0..MaxDrifts

HalInit ==
    /\ CachedInit
    /\ at = [u \in Users |-> "connect"]
    /\ waiting = [u \in Users |-> FALSE]
    /\ linked = [u \in Users |-> TRUE]
    /\ resent = [u \in Users |-> FALSE]
    /\ heard = [u \in Users |-> NoResponse]
    /\ jobOf = [u \in Users |-> NoRaw]
    /\ up = TRUE
    /\ wire = {}
    /\ serving = NoRequest
    /\ reading = NoDevice
    /\ submitted = [u \in Users |-> {}]
    /\ mine = [u \in Users |-> NoDevice]
    /\ crashes = 0
    /\ faults = 0
    /\ drifts = 0

-----------------------------------------------------------------------------
(* A program and its client.                                                *)

\* Wrong on purpose: only a job that is done ends the polling.
AfterCall_PollsOn(u, answer) ==
    IF answer \in {"connectionError", "jobError", "foreign"} THEN "stopped"
    ELSE CASE at[u] = "connect" -> "get_topology"
           [] at[u] = "get_topology" -> "get_calibration"
           [] at[u] = "get_calibration" -> "submit_job"
           [] at[u] = "submit_job" -> IF u \in Polling THEN "get_job_status" ELSE "get_result"
           [] at[u] = "get_job_status" -> IF answer = "done" THEN "get_result" ELSE "get_job_status"
           [] at[u] = "get_result" -> "done"

\* The script's next call.  The first error ends it, and so does a job that was
\* not done; a program that does not care to poll asks for the result at once.
AfterCall(u, answer) ==
    IF answer \in {"connectionError", "jobError", "foreign"} THEN "stopped"
    ELSE CASE at[u] = "connect" -> "get_topology"
           [] at[u] = "get_topology" -> "get_calibration"
           [] at[u] = "get_calibration" -> "submit_job"
           [] at[u] = "submit_job" -> IF u \in Polling THEN "get_job_status" ELSE "get_result"
           [] at[u] = "get_job_status" ->
                 IF answer = "done" THEN "get_result"
                 ELSE IF answer \in FinalStatus THEN "stopped"
                 ELSE "get_job_status"
           [] at[u] = "get_result" -> "done"

\* The script of u goes on at a, or ends, which closes the client.
GoesOn(u, a) ==
    /\ at' = [at EXCEPT ![u] = a]
    /\ waiting' = [waiting EXCEPT ![u] = FALSE]
    /\ linked' = [linked EXCEPT ![u] = @ /\ a \notin Ended]
    /\ resent' = [resent EXCEPT ![u] = FALSE]
    /\ heard' = [heard EXCEPT ![u] = NoResponse]

\* u gives its connection up; what it sent is served all the same.
GivenUp(u, q) == [q EXCEPT !.current = q.current /\ q.user # u]

GivesUp(u) ==
    /\ wire' = {GivenUp(u, q) : q \in wire}
    /\ serving' = GivenUp(u, serving)

MyRequest(u) == [user |-> u, method |-> at[u], current |-> TRUE]

\* _call sends the request, if its socket is alive.
Ask(u) ==
    /\ at[u] \in Script
    /\ ~waiting[u]
    /\ waiting' = [waiting EXCEPT ![u] = TRUE]
    /\ wire' = IF linked[u] THEN wire \cup {MyRequest(u)} ELSE wire
    /\ UNCHANGED <<cachedVars, at, linked, resent, heard, jobOf, up, serving, reading,
                   historyVars>>

\* Wrong on purpose: the whole answer is kept where the job id belongs.
Receive_KeepsAnswer(u) ==
    /\ waiting[u] /\ heard[u] # NoResponse
    /\ GoesOn(u, AfterCall(u, heard[u].answer))
    /\ jobOf' = IF at[u] = "submit_job" THEN [jobOf EXCEPT ![u] = heard[u]] ELSE jobOf
    /\ UNCHANGED <<cachedVars, daemonVars, historyVars>>

\* The response is there: the call returns or raises, and the script goes on.
Receive(u) ==
    /\ waiting[u] /\ heard[u] # NoResponse
    /\ GoesOn(u, AfterCall(u, heard[u].answer))
    /\ jobOf' = IF at[u] = "submit_job" THEN [jobOf EXCEPT ![u] = heard[u].job] ELSE jobOf
    /\ UNCHANGED <<cachedVars, daemonVars, historyVars>>

\* The call times out, which ends the script.
TimesOut(u) ==
    /\ waiting[u]
    /\ linked[u]
    /\ heard[u] = NoResponse
    /\ GoesOn(u, "stopped")
    /\ GivesUp(u)
    /\ UNCHANGED <<cachedVars, jobOf, up, reading, historyVars>>

\* The connection is lost.  A read or connect is sent again, once; a write raises
\* the warning; and nobody can reconnect while the daemon is down.
Resend(u) ==
    /\ waiting[u] /\ ~linked[u] /\ heard[u] = NoResponse
    /\ up
    /\ Retried(at[u])
    /\ ~resent[u]
    /\ resent' = [resent EXCEPT ![u] = TRUE]
    /\ linked' = [linked EXCEPT ![u] = TRUE]
    /\ wire' = wire \cup {MyRequest(u)}
    /\ UNCHANGED <<cachedVars, at, waiting, heard, jobOf, up, serving, reading, historyVars>>

CallIsLost(u) ==
    /\ waiting[u] /\ ~linked[u] /\ heard[u] = NoResponse
    /\ up /\ Retried(at[u]) => resent[u]
    /\ GoesOn(u, "stopped")
    /\ UNCHANGED <<cachedVars, jobOf, daemonVars, historyVars>>

\* The environment: the client's socket dies, with the answer if there is one.
SocketFault(u) ==
    /\ faults < MaxFaults
    /\ linked[u]
    /\ at[u] \in Script
    /\ faults' = faults + 1
    /\ linked' = [linked EXCEPT ![u] = FALSE]
    /\ heard' = [heard EXCEPT ![u] = NoResponse]
    /\ GivesUp(u)
    /\ UNCHANGED <<cachedVars, at, waiting, resent, jobOf, up, reading, submitted, mine,
                   crashes, drifts>>

UserStep(u) == Ask(u) \/ Receive(u) \/ TimesOut(u) \/ Resend(u) \/ CallIsLost(u)

-----------------------------------------------------------------------------
(* The daemon's threads.                                                    *)

\* Wrong on purpose: nobody looks at the lock.
Locks_Never(q) == q \in wire

\* The thread of q is the one that gets the lock.
Locks(q) == serving = NoRequest /\ q \in wire

\* The response to q reaches its client, if it still listens.
Respond(q, answer, r) ==
    heard' = IF q.current
             THEN [heard EXCEPT ![q.user] = [answer |-> answer, job |-> r]]
             ELSE heard

\* q is served in one step.
ServedAtOnce(q) ==
    /\ wire' = wire \ {q}
    /\ UNCHANGED <<at, waiting, linked, resent, jobOf, up, serving, reading, crashes, faults,
                   drifts>>

\* A device that u asked for is u's until someone's connect() is served.
ServeConnect(q) ==
    /\ Locks(q)
    /\ q.method = "connect"
    /\ Connect(Choice[q.user])
    /\ Respond(q, last'.answer, NoRaw)
    /\ mine' = [u \in Users |-> IF u = q.user /\ q.current THEN last'.by ELSE NoDevice]
    /\ ServedAtOnce(q)
    /\ UNCHANGED <<cacheVars, submitted>>

Reads == {"get_topology", "get_calibration"}

\* The operation has to ask the provider.
Live(q) == q.method \in Reads => ~Fresh(Data(q.method))

ServeFromCache(q) ==
    /\ Locks(q)
    /\ ~Live(q)
    /\ ServeCached(Data(q.method))
    /\ Respond(q, "ok", NoRaw)
    /\ ServedAtOnce(q)
    /\ UNCHANGED <<submitted, mine>>

\* The operation starts without a session and cannot open one.
ServeUnconnected(q) ==
    /\ Locks(q)
    /\ q.method # "connect"
    /\ Live(q)
    /\ AutoConnectFails(IF q.method \in Reads THEN "read" ELSE q.method)
    /\ Respond(q, "connectionError", NoRaw)
    /\ ServedAtOnce(q)
    /\ UNCHANGED <<cacheVars, submitted, mine>>

ServeSubmit(q) ==
    /\ Locks(q)
    /\ q.method = "submit_job"
    /\ \E d \in Device : SubmitJob(d)
    /\ Respond(q, last'.answer, last'.job)
    /\ submitted' = [submitted EXCEPT ![q.user] = @ \cup {r \in Raw \ Known : job'[r] # NoJob}]
    /\ ServedAtOnce(q)
    /\ UNCHANGED <<cacheVars, mine>>

ServeStatus(q) ==
    /\ Locks(q)
    /\ q.method = "get_job_status"
    /\ \E d \in Device : GetJobStatus(jobOf[q.user], d)
    /\ Respond(q, last'.answer, NoRaw)
    /\ ServedAtOnce(q)
    /\ UNCHANGED <<cacheVars, submitted, mine>>

\* A live read, or get_result(), makes sure of a session and then waits for the
\* provider with the lock held.
BeginWaiting(q) ==
    /\ Locks(q)
    /\ q.method \in Reads \cup {"get_result"}
    /\ Live(q)
    /\ \E d \in Device : ReadLive(d) /\ reading' = d
    /\ serving' = q
    /\ wire' = wire \ {q}
    /\ UNCHANGED <<cacheVars, clientVars, up, historyVars>>

\* Wrong on purpose: the lock is not released when the Backend raises.
Unlocks_NotWhenRaised ==
    /\ serving' = IF last'.answer = "jobError"
                  THEN [NoRequest EXCEPT !.method = "raised"] ELSE NoRequest
    /\ reading' = NoDevice
    /\ UNCHANGED <<at, waiting, linked, resent, jobOf, up, wire, historyVars>>

Unlocks ==
    /\ serving' = NoRequest
    /\ reading' = NoDevice
    /\ UNCHANGED <<at, waiting, linked, resent, jobOf, up, wire, historyVars>>

\* The provider's data is stored under the kind it is of, or the provider raises.
EndRead ==
    /\ serving.method \in Reads
    /\ LET x == Data(serving.method)
       IN  \/ /\ cache' = [cache EXCEPT ![x] = [device |-> reading, asOf |-> now, cachedAt |-> now]]
              /\ served' = [what |-> x, entry |-> cache'[x], at |-> now]
              /\ last' = Did("read", "ok", reading)
           \/ last' = Did("read", "jobError", reading) /\ UNCHANGED <<cache, served>>
    /\ Respond(serving, last'.answer, NoRaw)
    /\ Unlocks
    /\ UNCHANGED <<credentials, session, leastBusy, job, final, now, disconnected>>

EndResult ==
    /\ serving.method = "get_result"
    /\ GetResult(jobOf[serving.user], reading)
    /\ Respond(serving, last'.answer, NoRaw)
    /\ Unlocks
    /\ UNCHANGED cacheVars

\* The provider has answered, because the job has ended or is not its device's.
ResultIsDue ==
    /\ EndResult
    /\ last'.answer = "foreign" \/ Phase(job[jobOf[serving.user]].status) = 3

ThreadStep ==
    \/ \E q \in wire :
          \/ ServeConnect(q)
          \/ ServeFromCache(q)
          \/ ServeUnconnected(q)
          \/ ServeSubmit(q)
          \/ ServeStatus(q)
          \/ BeginWaiting(q)
    \/ EndRead
    \/ EndResult

\* The daemon dies, with the session, both cache entries, every request and every
\* response that is not written yet.
Crash ==
    /\ up
    /\ crashes < MaxCrashes
    /\ crashes' = crashes + 1
    /\ DisconnectAndForget
    /\ up' = FALSE
    /\ wire' = {}
    /\ serving' = NoRequest
    /\ reading' = NoDevice
    /\ linked' = [u \in Users |-> FALSE]
    /\ \E written \in SUBSET Users :
          heard' = [u \in Users |-> IF u \in written THEN heard[u] ELSE NoResponse]
    /\ UNCHANGED <<at, waiting, resent, jobOf, submitted, mine, faults, drifts>>

Start ==
    /\ ~up
    /\ up' = TRUE
    /\ UNCHANGED <<cachedVars, clientVars, wire, serving, reading, historyVars>>

-----------------------------------------------------------------------------
(* The world.                                                               *)

Drift ==
    /\ drifts < MaxDrifts
    /\ drifts' = drifts + 1
    /\ OtherIsLeastBusy
    /\ UNCHANGED <<cacheVars, clientVars, daemonVars, submitted, mine, crashes, faults>>

JobProgress(r) ==
    /\ JobMoves(r)
    /\ UNCHANGED <<cacheVars, clientVars, daemonVars, historyVars>>

TimePasses ==
    /\ reading = NoDevice
    /\ Tick
    /\ UNCHANGED <<clientVars, daemonVars, historyVars>>

HalNext ==
    \/ \E u \in Users : UserStep(u) \/ SocketFault(u)
    \/ ThreadStep
    \/ Crash
    \/ Start
    \/ Drift
    \/ \E r \in Raw : JobProgress(r)
    \/ TimePasses

HalSpec == HalInit /\ [][HalNext]_halVars

\* The programs go on, the provider ends every job, and the daemon's threads run,
\* as far as they need not wait for a job.
HalFairness ==
    /\ \A u \in Users : WF_halVars(UserStep(u))
    /\ \A r \in Raw : WF_halVars(JobProgress(r))
    /\ WF_halVars(EndRead)
    /\ WF_halVars(ResultIsDue)

HalFairSpec == HalSpec /\ HalFairness

-----------------------------------------------------------------------------
(* Properties.                                                              *)

\* Behind the lock the shared Backend behaves as if its operations were served
\* one after the other by CachedBackend, although a live read starts and ends in
\* different steps; a crash is a disconnect() that nobody asked for.
OneAfterTheOther == CachedSpec

\* A run of the script queues at most one job, through lost answers, retries and
\* restarts (client.py:71-75: a blind retry could double-submit a real job on
\* real hardware).
OneJobPerRun == \A u \in Users : Cardinality(submitted[u]) <= 1

\* A program whose script is done has the result of the very job it submitted,
\* which is done, whoever else submitted and switched devices meanwhile.
ResultIsOwn ==
    \A u \in Users : at[u] = "done" =>
        /\ submitted[u] = {jobOf[u]}
        /\ job[jobOf[u]].status = "DONE"

\* backend.py:6-8: other methods may auto-connect if the caller skipped connect(),
\* but never override an explicit connect().
ExplicitConnectKept ==
    \A u \in Users : (mine[u] # NoDevice /\ session # NoDevice) => session = mine[u]

\* The same as long as the daemon does not die.
KeptWhileUp ==
    crashes = 0 => \A u \in Users : mine[u] # NoDevice => session = mine[u]

\* Every script comes to an end, also when the daemon dies or others hold the lock.
ScriptEnds == \A u \in Users : <>(at[u] \in Ended)

\* Whoever takes the lock gives it back, although get_result() keeps it until the
\* job has ended.
LockFreed == serving # NoRequest ~> serving = NoRequest

=============================================================================
