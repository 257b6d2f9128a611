--------------------------- MODULE HalSystemProofs ---------------------------
(***************************************************************************)
(* The whole stack, for any programs, devices, jobs, times, crashes and    *)
(* dead sockets: behind the lock the shared Backend sees one operation     *)
(* after the other, a script queues at most one job, and the result it     *)
(* ends with is that job's.                                                *)
(***************************************************************************)
EXTENDS HalSystem, CachedBackendProofs, FiniteSetTheorems

-----------------------------------------------------------------------------
(* The invariant.                                                           *)

Errors == {"connectionError", "jobError", "foreign"}

JobMethods == {"get_job_status", "get_result"}

\* Requests the daemon has not answered.
Sent == wire \cup {serving}

\* A request whose client listens is that of the call it waits in, the only copy,
\* and not answered.
CurrentIsOwn ==
    /\ \A q \in Sent : q.current =>
          /\ linked[q.user] /\ waiting[q.user]
          /\ heard[q.user] = NoResponse
          /\ q.method = at[q.user]
    /\ serving.current => serving \notin wire

QuietBetweenCalls ==
    \A u \in Users :
        /\ waiting[u] => at[u] \in Script
        /\ ~waiting[u] => heard[u] = NoResponse

\* The lock is held for a live read or get_result() only, on the session's device,
\* and a read's kind is not in the cache.
LockedOut ==
    IF serving = NoRequest THEN reading = NoDevice
    ELSE /\ reading \in Device
         /\ session = reading
         /\ serving.method \in Reads \cup {"get_result"}
         /\ serving.method \in Reads => ~Fresh(Data(serving.method))

\* A program has its job's id from the daemon before it asks about it.
BeforeJob == {"connect", "get_topology", "get_calibration", "submit_job"}

JobsAreKnown ==
    /\ \A u \in Users : at[u] \in JobMethods => jobOf[u] \in Known
    /\ \A q \in Sent : q.method \in JobMethods =>
          at[q.user] \notin BeforeJob /\ jobOf[q.user] \in Known
    /\ \A u \in Users : (at[u] = "submit_job" /\ heard[u] # NoResponse) =>
          heard[u].answer \in Errors \/ heard[u].job \in Known

CallInv ==
    /\ CacheInv
    /\ BackendTypeOK
    /\ HalTypeOK
    /\ CurrentIsOwn
    /\ QuietBetweenCalls
    /\ LockedOut
    /\ JobsAreKnown

-----------------------------------------------------------------------------
(* Requests.                                                                *)

\* No method is the missing request's.
LEMMA RequestTyped ==
    ASSUME NEW q \in Request
    PROVE  /\ q # NoRequest
           /\ q.user \in Users /\ q.method \in Script /\ q.current \in BOOLEAN
  BY DEF Request, NoRequest, Script

\* What was sent is a request.
LEMMA SentTyped ==
    ASSUME HalTypeOK, NEW q \in Sent, q # NoRequest
    PROVE  q \in Request
  BY DEF HalTypeOK, Sent

\* A client that gives up changes its own requests only, and only who listens.
LEMMA GivenUpProps ==
    ASSUME NEW u \in Users, NEW q \in Request \cup {NoRequest}
    PROVE  /\ GivenUp(u, q) \in Request \cup {NoRequest}
           /\ q \in Request => GivenUp(u, q) \in Request
           /\ GivenUp(u, q).user = q.user /\ GivenUp(u, q).method = q.method
           /\ GivenUp(u, q) = NoRequest <=> q = NoRequest
           /\ GivenUp(u, q).current => q.user # u /\ GivenUp(u, q) = q
           /\ q.user # u => GivenUp(u, q) = q
<1> DEFINE deaf == [user |-> q.user, method |-> q.method, current |-> FALSE]
<1>1. CASE q \in Request
  <2>1. /\ q = [user |-> q.user, method |-> q.method, current |-> q.current]
        /\ q.user \in Users /\ q.method \in Script /\ q.current \in BOOLEAN
    BY <1>1 DEF Request
  <2>2. q.user # u => GivenUp(u, q) = q
    BY <2>1 DEF GivenUp
  <2>3. q.user = u => GivenUp(u, q) = deaf
    <3>1. q.user = u => (q.current /\ q.user # u) = FALSE
      OBVIOUS
    <3>2. q.user = u => GivenUp(u, q) = [q EXCEPT !.current = FALSE]
      BY <3>1, Zenon DEF GivenUp
    <3>3. QED
      BY <2>1, <3>2
  <2>4. deaf \in Request /\ ~deaf.current /\ deaf.user = q.user /\ deaf.method = q.method
    BY <2>1 DEF Request
  <2>5. GivenUp(u, q) \in Request
    BY <1>1, <2>2, <2>3, <2>4
  <2>6. QED
    BY <1>1, <2>2, <2>3, <2>4, <2>5, RequestTyped
<1>2. CASE q = NoRequest
  <2>0. ~NoRequest.current
    BY DEF NoRequest
  <2>1. GivenUp(u, q) = NoRequest /\ ~NoRequest.current
    <3>1. (q.current /\ q.user # u) = FALSE
      BY <1>2, <2>0
    <3>2. GivenUp(u, q) = [q EXCEPT !.current = FALSE]
      BY <3>1, Zenon DEF GivenUp
    <3>3. QED
      BY <1>2, <2>0, <3>2 DEF NoRequest
  <2>2. NoRequest \notin Request
    BY RequestTyped
  <2>3. QED
    BY <1>2, <2>1, <2>2
<1>3. QED
  BY <1>1, <1>2

\* Two requests that a program listens for are the same.
LEMMA OneCurrent ==
    ASSUME HalTypeOK, CurrentIsOwn,
           NEW p \in Sent, NEW q \in Sent, p.current, q.current, p.user = q.user
    PROVE  p = q
<1>1. p \in Request /\ q \in Request
  BY SentTyped DEF NoRequest
<1>2. p.method = q.method /\ p.current = q.current
  BY <1>1 DEF CurrentIsOwn, Request
<1>3. QED
  BY <1>1, <1>2 DEF Request

-----------------------------------------------------------------------------
(* The shared Backend.                                                      *)

\* The request a thread picks is one that was sent.
LEMMA PickedTyped ==
    ASSUME CallInv, NEW q \in wire
    PROVE  q \in Request /\ q \in Sent
  BY DEF CallInv, HalTypeOK, Sent

\* A live read that ends is one operation of the cache, as if it had just begun.
LEMMA EndReadBehindLock ==
    ASSUME CallInv, EndRead
    PROVE  [CachedNext]_cachedVars
<1>1. /\ reading \in Device /\ session = reading
      /\ ~Fresh(Data(serving.method)) /\ Data(serving.method) \in Cacheable
  BY DEF CallInv, LockedOut, EndRead, NoRequest, Reads, Data, Cacheable
<1> DEFINE x == Data(serving.method)
<1>2. CASE last' = Did("read", "jobError", reading) /\ UNCHANGED <<cache, served>>
  <2>1. ReadFails(reading)
    BY <1>1, <1>2 DEF EndRead, ReadFails, EnsureConnected
  <2>2. FetchFails(x)
    BY <1>1, <1>2, <2>1 DEF EndRead, FetchFails, cacheVars
  <2>3. QED
    BY <1>1, <2>2 DEF CachedNext
<1>3. CASE /\ cache' = [cache EXCEPT ![x] = [device |-> reading, asOf |-> now, cachedAt |-> now]]
           /\ served' = [what |-> x, entry |-> cache'[x], at |-> now]
           /\ last' = Did("read", "ok", reading)
  <2>1. ReadLive(reading)
    BY <1>1, <1>3 DEF EndRead, ReadLive, EnsureConnected
  <2>2. now' = now /\ now + 0 <= MaxTime /\ now' = now + 0 /\ 0 \in 0..MaxFetch
    BY TimeAssumption DEF EndRead, CallInv, CacheInv, CachedTypeOK
  <2>3. Fetch(x, reading)
    BY <1>1, <1>3, <2>1, <2>2 DEF EndRead, Fetch
  <2>4. QED
    BY <1>1, <2>3 DEF CachedNext
<1>4. QED
  BY <1>2, <1>3 DEF EndRead

\* Whatever happens, the shared Backend takes a step of its own specification.
LEMMA StepBehindLock ==
    ASSUME CallInv, [HalNext]_halVars
    PROVE  [CachedNext]_cachedVars
<1>1. ASSUME NEW q \in wire, ServeConnect(q) PROVE [CachedNext]_cachedVars
  <2>1. Choice[q.user] \in Device \cup {Default}
    BY PickedTyped, RequestTyped, UserAssumption
  <2>2. QED
    BY <1>1, <2>1 DEF ServeConnect, CachedNext, Delegated
<1>2. ASSUME NEW q \in wire, ServeFromCache(q) PROVE [CachedNext]_cachedVars
  BY <1>2 DEF ServeFromCache, Live, Data, Cacheable, CachedNext
<1>3. ASSUME NEW q \in wire, ServeUnconnected(q) PROVE [CachedNext]_cachedVars
  <2>1. (IF q.method \in Reads THEN "read" ELSE q.method) \in Ops \ {"none", "connect", "disconnect"}
    BY <1>3, PickedTyped, RequestTyped DEF ServeUnconnected, Script, Reads, Ops
  <2>2. QED
    BY <1>3, <2>1 DEF ServeUnconnected, CachedNext, Delegated
<1>4. ASSUME NEW q \in wire, ServeSubmit(q) PROVE [CachedNext]_cachedVars
  BY <1>4 DEF ServeSubmit, CachedNext, Delegated
<1>5. ASSUME NEW q \in wire, ServeStatus(q) PROVE [CachedNext]_cachedVars
  <2>1. jobOf[q.user] \in Known
    BY <1>5, PickedTyped DEF ServeStatus, CallInv, JobsAreKnown, JobMethods
  <2>2. QED
    BY <1>5, <2>1 DEF ServeStatus, CachedNext, Delegated
<1>6. ASSUME NEW q \in wire, BeginWaiting(q) PROVE [CachedNext]_cachedVars
  BY <1>6 DEF BeginWaiting, CachedNext
<1>7. CASE EndResult
  <2>1. jobOf[serving.user] \in Known /\ reading \in Device
    BY <1>7 DEF EndResult, CallInv, JobsAreKnown, JobMethods, Sent, LockedOut, NoRequest
  <2>2. QED
    BY <1>7, <2>1 DEF EndResult, CachedNext, Delegated
<1>8. CASE Crash
  BY <1>8 DEF Crash, CachedNext
<1>9. CASE Drift
  BY <1>9 DEF Drift, CachedNext, Provider
<1>10. ASSUME NEW r \in Raw, JobProgress(r) PROVE [CachedNext]_cachedVars
  BY <1>10 DEF JobProgress, CachedNext, Provider
<1>11. CASE TimePasses
  BY <1>11 DEF TimePasses, CachedNext
<1>12. ASSUME NEW u \in Users, UserStep(u) \/ SocketFault(u) PROVE [CachedNext]_cachedVars
  BY <1>12 DEF UserStep, SocketFault, Ask, Receive, TimesOut, Resend, CallIsLost
<1>13. CASE Start
  BY <1>13 DEF Start
<1>14. CASE UNCHANGED halVars
  BY <1>14 DEF halVars
<1>15. QED
  BY <1>1, <1>2, <1>3, <1>4, <1>5, <1>6, <1>7, <1>8, <1>9, <1>10, <1>11, <1>12, <1>13, <1>14,
     EndReadBehindLock
  DEF HalNext, ThreadStep

\* So it keeps its invariants, and no job is forgotten.
LEMMA BackendStep ==
    ASSUME CallInv, [HalNext]_halVars
    PROVE  CacheInv' /\ BackendTypeOK' /\ Known \subseteq Known'
<1>1. [CachedNext]_cachedVars /\ [BackendNext]_backendVars
  BY StepBehindLock, StepBehindCache
<1>2. QED
  BY <1>1, CacheStep, TypeStep, KnownGrows DEF CallInv

-----------------------------------------------------------------------------
(* What a step does to programs and requests.                               *)

\* A thread answers q without letting go of the lock in between.
AnswersAtOnce(q, answer, r) ==
    /\ serving = NoRequest
    /\ answer \in Answers /\ r \in Raw \cup {NoRaw}
    /\ q.method = "submit_job" => answer \in Errors \/ r \in Known' \cap submitted'[q.user]
    /\ q.method # "get_result" \/ answer \in Errors
    /\ Respond(q, answer, r)
    /\ ServedAtOnce(q)

\* The thread that holds the lock answers.
AnswersLater(answer) ==
    /\ serving # NoRequest
    /\ serving.method # "submit_job"
    /\ (Unnested /\ serving.method = "get_result") =>
          answer \in Errors \/ job[jobOf[serving.user]].status = "DONE"
    /\ answer \in Answers
    /\ Respond(serving, answer, NoRaw)
    /\ Unlocks

\* Programs and requests do not notice.
Unnoticed == UNCHANGED <<clientVars, wire, serving, reading, submitted, mine, crashes>>

HalCases ==
    \/ \E u \in Users : UserStep(u) \/ SocketFault(u)
    \/ \E q \in wire, answer \in Answers, r \in Raw \cup {NoRaw} : AnswersAtOnce(q, answer, r)
    \/ \E q \in wire : BeginWaiting(q)
    \/ \E answer \in Answers : AnswersLater(answer)
    \/ Crash
    \/ Unnoticed

\* What a Backend answers.
LEMMA LastTyped ==
    ASSUME BackendTypeOK'
    PROVE  /\ last'.answer \in Answers /\ last'.job \in Raw \cup {NoRaw}
           /\ last'.by \in Device \cup {NoDevice}
  BY DEF BackendTypeOK, Operation

\* A job that a submit returns is the provider's.
LEMMA SubmitQueues ==
    ASSUME BackendTypeOK, BackendTypeOK', NEW d \in Device, SubmitJob(d)
    PROVE  /\ last'.answer \in {"ok", "jobError"}
           /\ \/ \E r \in Raw \ Known :
                    /\ {s \in Raw \ Known : job'[s] # NoJob} = {r}
                    /\ r \in Known'
                    /\ last'.answer = "ok" => last'.job = r
              \/ /\ {s \in Raw \ Known : job'[s] # NoJob} = {}
                 /\ last'.answer = "jobError"
<1>1. CASE last' = Did("submit_job", "jobError", d) /\ UNCHANGED job
  BY <1>1 DEF Did, Known
<1>2. ASSUME NEW r \in Raw \ Known, NEW s \in ProviderStatus,
             job' = [job EXCEPT ![r] = [device |-> d, status |-> s]],
             \/ last' = [Did("submit_job", "ok", d) EXCEPT !.job = r]
             \/ last' = Did("submit_job", "jobError", d)
      PROVE  /\ {t \in Raw \ Known : job'[t] # NoJob} = {r}
             /\ r \in Known'
             /\ last'.answer \in {"ok", "jobError"}
             /\ last'.answer = "ok" => last'.job = r
  <2>1. r \in Known'
    BY <1>2, QueuedProps
  <2>2. \A t \in Raw \ {r} : job'[t] = job[t]
    BY <1>2 DEF BackendTypeOK
  <2>3. {t \in Raw \ Known : job'[t] # NoJob} = {r}
    BY <2>1, <2>2 DEF Known
  <2>4. last'.answer \in {"ok", "jobError"} /\ (last'.answer = "ok" => last'.job = r)
    BY <1>2 DEF Did
  <2>5. QED
    BY <2>1, <2>3, <2>4
<1>3. QED
  BY <1>1, <1>2 DEF SubmitJob, Did

\* get_result() returns for a job that is done only, and for the right one.
LEMMA ResultOfDone ==
    ASSUME Unnested, CallInv, EndResult
    PROVE  last'.answer \in Errors \/ job[jobOf[serving.user]].status = "DONE"
<1> DEFINE r == jobOf[serving.user]
<1>1. BackendTypeOK /\ r \in Known /\ reading \in Device
  BY DEF EndResult, CallInv, JobsAreKnown, JobMethods, Sent, LockedOut, NoRequest
<1>2. CASE OnJob("get_result", r, reading, "ok") /\ Found(r, reading).status = "DONE"
  <2>1. Belongs(Identifier[reading], JobId(r))
    BY <1>2 DEF OnJob
  <2>2. ParseJobId(Identifier[reading], JobId(r)) = r
    BY <1>1, <2>1, GuardProps
  <2>3. Found(r, reading) = job[r]
    BY <1>1, <2>2 DEF Found
  <2>4. QED
    BY <1>2, <2>3
<1>3. CASE OnJob("get_result", r, reading, "jobError") \/ OnJob("get_result", r, reading, "foreign")
  BY <1>3 DEF OnJob, Errors
<1>4. QED
  BY <1>2, <1>3 DEF EndResult, GetResult

\* Every step is one of these.
LEMMA StepIsCase ==
    ASSUME CallInv, [HalNext]_halVars
    PROVE  HalCases
<1>0. BackendTypeOK /\ BackendTypeOK'
  BY BackendStep DEF CallInv
<1> USE StringsTyped
<1>1. ASSUME NEW q \in wire, ServeConnect(q) PROVE HalCases
  <2>1. AnswersAtOnce(q, last'.answer, NoRaw)
    BY <1>0, <1>1, LastTyped DEF ServeConnect, AnswersAtOnce, Locks
  <2>2. QED
    BY <1>0, <2>1, LastTyped DEF HalCases
<1>2. ASSUME NEW q \in wire, ServeFromCache(q) PROVE HalCases
  <2>1. AnswersAtOnce(q, "ok", NoRaw)
    BY <1>2 DEF ServeFromCache, AnswersAtOnce, Locks, Live, Reads
  <2>2. QED
    BY <2>1 DEF HalCases
<1>3. ASSUME NEW q \in wire, ServeUnconnected(q) PROVE HalCases
  <2>1. AnswersAtOnce(q, "connectionError", NoRaw)
    BY <1>3 DEF ServeUnconnected, AnswersAtOnce, Locks, Errors
  <2>2. QED
    BY <2>1 DEF HalCases
<1>4. ASSUME NEW q \in wire, ServeSubmit(q) PROVE HalCases
  <2>1. PICK d \in Device : SubmitJob(d)
    BY <1>4 DEF ServeSubmit
  <2>2. \/ last'.answer \in Errors
        \/ last'.job \in Known' /\ last'.job \in {r \in Raw \ Known : job'[r] # NoJob}
    BY <1>0, <2>1, SubmitQueues DEF Errors
  <2>3. {r \in Raw \ Known : job'[r] # NoJob} \subseteq submitted'[q.user]
    BY <1>4, PickedTyped, RequestTyped DEF ServeSubmit, CallInv, HalTypeOK
  <2>4. AnswersAtOnce(q, last'.answer, last'.job)
    BY <1>0, <1>4, <2>2, <2>3, LastTyped DEF ServeSubmit, AnswersAtOnce, Locks
  <2>5. QED
    BY <1>0, <2>4, LastTyped DEF HalCases
<1>5. ASSUME NEW q \in wire, ServeStatus(q) PROVE HalCases
  <2>1. AnswersAtOnce(q, last'.answer, NoRaw)
    BY <1>0, <1>5, LastTyped DEF ServeStatus, AnswersAtOnce, Locks
  <2>2. QED
    BY <1>0, <2>1, LastTyped DEF HalCases
<1>6. CASE EndRead \/ EndResult
  <2>1. AnswersLater(last'.answer)
    BY <1>0, <1>6, LastTyped, ResultOfDone
    DEF EndRead, EndResult, AnswersLater, NoRequest, Reads
  <2>2. QED
    BY <1>0, <2>1, LastTyped DEF HalCases
<1>7. CASE Drift \/ TimePasses \/ Start \/ UNCHANGED halVars
  BY <1>7 DEF Drift, TimePasses, Start, halVars, historyVars, daemonVars, clientVars, HalCases, Unnoticed
<1>8. ASSUME NEW r \in Raw, JobProgress(r) PROVE HalCases
  BY <1>8 DEF JobProgress, historyVars, daemonVars, HalCases, Unnoticed
<1>9. QED
  BY <1>1, <1>2, <1>3, <1>4, <1>5, <1>6, <1>7, <1>8 DEF HalNext, ThreadStep, HalCases

-----------------------------------------------------------------------------
(* Types.                                                                   *)

\* The script knows where to go on.
LEMMA AfterCallTyped ==
    ASSUME NEW u \in Users, at[u] \in Script, NEW answer
    PROVE  AfterCall(u, answer) \in Script \cup Ended
  BY DEF AfterCall, Script, Ended

\* Responses have their shape.
LEMMA RespondTyped ==
    ASSUME HalTypeOK, NEW q, NEW answer \in Answers, NEW r \in Raw \cup {NoRaw},
           Respond(q, answer, r)
    PROVE  heard' \in [Users -> Response \cup {NoResponse}]
<1>1. [answer |-> answer, job |-> r] \in Response
  BY DEF Response
<1>2. QED
  BY <1>1 DEF Respond, HalTypeOK

\* A program that goes on keeps its shape.
LEMMA GoesOnTyped ==
    ASSUME HalTypeOK, NEW u \in Users, NEW a \in Script \cup Ended, GoesOn(u, a)
    PROVE  /\ at' \in [Users -> Script \cup Ended]
           /\ waiting' \in [Users -> BOOLEAN]
           /\ linked' \in [Users -> BOOLEAN]
           /\ resent' \in [Users -> BOOLEAN]
           /\ heard' \in [Users -> Response \cup {NoResponse}]
<1>1. linked' \in [Users -> BOOLEAN]
  <2>1. (linked[u] /\ a \notin Ended) \in BOOLEAN
    OBVIOUS
  <2>2. linked' = [linked EXCEPT ![u] = linked[u] /\ a \notin Ended]
    BY DEF GoesOn
  <2>3. QED
    BY <2>1, <2>2 DEF HalTypeOK
<1>2. QED
  BY <1>1 DEF HalTypeOK, GoesOn

\* Requests nobody listens for are still requests.
LEMMA GivesUpTyped ==
    ASSUME HalTypeOK, NEW u \in Users, GivesUp(u)
    PROVE  wire' \subseteq Request /\ serving' \in Request \cup {NoRequest}
  BY GivenUpProps DEF HalTypeOK, GivesUp

\* A program asks in its own name.
LEMMA MyRequestTyped ==
    ASSUME NEW u \in Users, at[u] \in Script
    PROVE  /\ MyRequest(u) \in Request
           /\ MyRequest(u).user = u /\ MyRequest(u).method = at[u] /\ MyRequest(u).current
  BY DEF MyRequest, Request

\* What programs and daemon hold, but for the history.
HeldTypes ==
    /\ at \in [Users -> Script \cup Ended]
    /\ waiting \in [Users -> BOOLEAN]
    /\ linked \in [Users -> BOOLEAN]
    /\ resent \in [Users -> BOOLEAN]
    /\ heard \in [Users -> Response \cup {NoResponse}]
    /\ jobOf \in [Users -> Raw \cup {NoRaw}]
    /\ wire \subseteq Request
    /\ serving \in Request \cup {NoRequest}
    /\ reading \in Device \cup {NoDevice}

\* Every step keeps the types of what programs and daemon hold.
LEMMA HeldStep ==
    ASSUME CallInv, [HalNext]_halVars
    PROVE  HeldTypes'
<1>0. HalTypeOK /\ HalCases
  BY StepIsCase DEF CallInv
<1>1. ASSUME NEW u \in Users, Ask(u) PROVE HeldTypes'
  BY <1>0, <1>1, MyRequestTyped DEF Ask, HalTypeOK, HeldTypes
<1>2. ASSUME NEW u \in Users, Receive(u) PROVE HeldTypes'
  <2>1. at[u] \in Script /\ heard[u] \in Response
    BY <1>0, <1>2 DEF Receive, CallInv, QuietBetweenCalls, HalTypeOK
  <2>2. AfterCall(u, heard[u].answer) \in Script \cup Ended
    BY <2>1, AfterCallTyped
  <2>3. jobOf' \in [Users -> Raw \cup {NoRaw}]
    BY <1>0, <1>2, <2>1 DEF Receive, HalTypeOK, Response
  <2>4. QED
    BY <1>0, <1>2, <2>2, <2>3, GoesOnTyped DEF Receive, HalTypeOK, HeldTypes, daemonVars
<1>3. ASSUME NEW u \in Users, TimesOut(u) PROVE HeldTypes'
  BY <1>0, <1>3, GoesOnTyped, GivesUpTyped DEF TimesOut, HalTypeOK, HeldTypes, Ended
<1>4. ASSUME NEW u \in Users, Resend(u) PROVE HeldTypes'
  <2>1. at[u] \in Script
    BY <1>4 DEF Resend, CallInv, QuietBetweenCalls
  <2>2. QED
    BY <1>0, <1>4, <2>1, MyRequestTyped DEF Resend, HalTypeOK, HeldTypes
<1>5. ASSUME NEW u \in Users, CallIsLost(u) PROVE HeldTypes'
  BY <1>0, <1>5, GoesOnTyped DEF CallIsLost, HalTypeOK, HeldTypes, Ended, daemonVars
<1>6. ASSUME NEW u \in Users, SocketFault(u) PROVE HeldTypes'
  BY <1>0, <1>6, GivesUpTyped DEF SocketFault, HalTypeOK, HeldTypes
<1>7. ASSUME NEW q \in wire, NEW answer \in Answers, NEW r \in Raw \cup {NoRaw},
             AnswersAtOnce(q, answer, r)
      PROVE  HeldTypes'
  BY <1>0, <1>7, RespondTyped DEF AnswersAtOnce, ServedAtOnce, HalTypeOK, HeldTypes
<1>8. ASSUME NEW q \in wire, BeginWaiting(q) PROVE HeldTypes'
  BY <1>0, <1>8 DEF BeginWaiting, clientVars, HalTypeOK, HeldTypes
<1>9. ASSUME NEW answer \in Answers, AnswersLater(answer) PROVE HeldTypes'
  BY <1>0, <1>9, RespondTyped DEF AnswersLater, Unlocks, HalTypeOK, HeldTypes
<1>10. CASE Crash
  <2>1. PICK written \in SUBSET Users :
            heard' = [u \in Users |-> IF u \in written THEN heard[u] ELSE NoResponse]
    BY <1>10 DEF Crash
  <2>2. heard' \in [Users -> Response \cup {NoResponse}]
    BY <1>0, <2>1 DEF HalTypeOK
  <2>3. QED
    BY <1>0, <1>10, <2>2 DEF Crash, HalTypeOK, HeldTypes
<1>11. CASE Unnoticed
  BY <1>0, <1>11 DEF Unnoticed, clientVars, HalTypeOK, HeldTypes
<1>12. QED
  BY <1>0, <1>1, <1>2, <1>3, <1>4, <1>5, <1>6, <1>7, <1>8, <1>9, <1>10, <1>11
  DEF HalCases, UserStep

\* Every step keeps the types of the history and the bounds.
LEMMA HistoryStep ==
    ASSUME CallInv, [HalNext]_halVars
    PROVE  /\ up' \in BOOLEAN
           /\ submitted' \in [Users -> SUBSET Raw]
           /\ mine' \in [Users -> Device \cup {NoDevice}]
           /\ crashes' \in 0..MaxCrashes /\ faults' \in 0..MaxFaults /\ drifts' \in 0..MaxDrifts
<1> DEFINE Typed == /\ up \in BOOLEAN
                    /\ submitted \in [Users -> SUBSET Raw]
                    /\ mine \in [Users -> Device \cup {NoDevice}]
                    /\ crashes \in 0..MaxCrashes /\ faults \in 0..MaxFaults
                    /\ drifts \in 0..MaxDrifts
<1>0. Typed
  BY DEF CallInv, HalTypeOK
<1>1. CASE UNCHANGED <<up, historyVars>>
  BY <1>0, <1>1 DEF historyVars
<1>2. ASSUME NEW u \in Users, SocketFault(u) PROVE Typed'
  BY <1>0, <1>2, UserAssumption DEF SocketFault
<1>3. ASSUME NEW q \in wire, ServeConnect(q) PROVE Typed'
  BY <1>0, <1>3, BackendStep, LastTyped DEF ServeConnect, ServedAtOnce
<1>4. ASSUME NEW q \in wire, ServeSubmit(q) PROVE Typed'
  BY <1>0, <1>4 DEF ServeSubmit, ServedAtOnce
<1>5. CASE Crash
  <2>1. /\ crashes < MaxCrashes /\ crashes' = crashes + 1 /\ up' = FALSE
        /\ UNCHANGED <<submitted, mine, faults, drifts>>
    BY <1>5 DEF Crash
  <2>2. crashes' \in 0..MaxCrashes
    BY <1>0, <2>1, UserAssumption
  <2>3. QED
    BY <1>0, <2>1, <2>2
<1>6. CASE Start
  BY <1>0, <1>6 DEF Start, historyVars
<1>7. CASE Drift
  BY <1>0, <1>7, UserAssumption DEF Drift, daemonVars
<1>8. ASSUME NEW u \in Users, UserStep(u) PROVE Typed'
  <2>1. UNCHANGED <<up, historyVars>>
    BY <1>8 DEF UserStep, Ask, Receive, TimesOut, Resend, CallIsLost, daemonVars
  <2>2. QED
    BY <1>1, <2>1
<1>9. ASSUME NEW q \in wire, ServeFromCache(q) \/ ServeUnconnected(q) \/ ServeStatus(q)
      PROVE  Typed'
  <2>1. UNCHANGED <<up, historyVars>>
    BY <1>9 DEF ServeFromCache, ServeUnconnected, ServeStatus, ServedAtOnce, historyVars
  <2>2. QED
    BY <1>1, <2>1
<1>10. ASSUME NEW q \in wire, BeginWaiting(q) PROVE Typed'
  BY <1>1, <1>10 DEF BeginWaiting
<1>11. CASE EndRead \/ EndResult
  BY <1>1, <1>11 DEF EndRead, EndResult, Unlocks
<1>12. CASE TimePasses \/ UNCHANGED halVars
  BY <1>1, <1>12 DEF TimePasses, halVars, daemonVars
<1>13. ASSUME NEW r \in Raw, JobProgress(r) PROVE Typed'
  BY <1>1, <1>13 DEF JobProgress, daemonVars
<1>14. QED
  BY <1>1, <1>2, <1>3, <1>4, <1>5, <1>6, <1>7, <1>8, <1>9, <1>10, <1>11, <1>12, <1>13
  DEF HalNext, ThreadStep

\* Together: the types.
LEMMA HalTypeStep == ASSUME CallInv, [HalNext]_halVars PROVE HalTypeOK'
  BY HeldStep, HistoryStep DEF HalTypeOK, HeldTypes

-----------------------------------------------------------------------------
(* Calls and requests.                                                      *)

\* What goes on at u leaves the other programs alone.
LEMMA GoesOnProps ==
    ASSUME HalTypeOK, NEW u \in Users, NEW a, GoesOn(u, a)
    PROVE  /\ at'[u] = a /\ ~waiting'[u] /\ heard'[u] = NoResponse
           /\ \A v \in Users \ {u} :
                 /\ at'[v] = at[v] /\ waiting'[v] = waiting[v]
                 /\ linked'[v] = linked[v] /\ heard'[v] = heard[v]
  BY DEF GoesOn, HalTypeOK

\* An answer reaches the program that listens, which waits for it.
LEMMA RespondProps ==
    ASSUME CallInv, NEW q \in Sent, q # NoRequest, NEW answer, NEW r, Respond(q, answer, r)
    PROVE  /\ q \in Request
           /\ q.current => /\ waiting[q.user] /\ linked[q.user] /\ q.method = at[q.user]
                           /\ heard'[q.user] = [answer |-> answer, job |-> r]
           /\ \A v \in Users : (~q.current \/ v # q.user) => heard'[v] = heard[v]
<1>1. q \in Request /\ HalTypeOK
  BY SentTyped DEF CallInv
<1>2. q.current => waiting[q.user] /\ linked[q.user] /\ q.method = at[q.user]
  BY DEF CallInv, CurrentIsOwn
<1>3. QED
  BY <1>1, <1>2, RequestTyped DEF Respond, HalTypeOK

\* A program hears nothing between its calls.
LEMMA QuietStep == ASSUME CallInv, [HalNext]_halVars PROVE QuietBetweenCalls'
<1>0. HalTypeOK /\ HalCases /\ QuietBetweenCalls
  BY StepIsCase DEF CallInv
<1>1. ASSUME NEW u \in Users, Ask(u) \/ Resend(u) \/ SocketFault(u) PROVE QuietBetweenCalls'
  BY <1>0, <1>1 DEF Ask, Resend, SocketFault, QuietBetweenCalls, HalTypeOK
<1>2. ASSUME NEW u \in Users, NEW a, GoesOn(u, a) PROVE QuietBetweenCalls'
  BY <1>0, <1>2, GoesOnProps DEF QuietBetweenCalls
<1>3. ASSUME NEW q \in Sent, q # NoRequest, NEW answer, NEW r, Respond(q, answer, r),
             UNCHANGED <<at, waiting>>
      PROVE  QuietBetweenCalls'
  BY <1>0, <1>3, RespondProps DEF QuietBetweenCalls
<1>4. ASSUME NEW q \in wire, NEW answer, NEW r, AnswersAtOnce(q, answer, r)
      PROVE  QuietBetweenCalls'
  BY <1>3, <1>4, PickedTyped, RequestTyped DEF AnswersAtOnce, ServedAtOnce
<1>5. ASSUME NEW answer, AnswersLater(answer) PROVE QuietBetweenCalls'
  BY <1>3, <1>5 DEF AnswersLater, Unlocks, Sent
<1>6. CASE Crash
  BY <1>0, <1>6 DEF Crash, QuietBetweenCalls, HalTypeOK
<1>7. CASE UNCHANGED clientVars
  BY <1>0, <1>7 DEF clientVars, QuietBetweenCalls
<1>8. QED
  BY <1>0, <1>1, <1>2, <1>4, <1>5, <1>6, <1>7
  DEF HalCases, UserStep, Receive, TimesOut, CallIsLost, BeginWaiting, Unnoticed

\* Requests and programs that stay as they are keep what CurrentIsOwn says of them.
LEMMA CurrentKept ==
    ASSUME CurrentIsOwn,
           \A q \in Sent' : q.current =>
              \/ /\ q \in Sent
                 /\ linked'[q.user] = linked[q.user] /\ waiting'[q.user] = waiting[q.user]
                 /\ heard'[q.user] = heard[q.user] /\ at'[q.user] = at[q.user]
              \/ /\ linked'[q.user] /\ waiting'[q.user]
                 /\ heard'[q.user] = NoResponse /\ q.method = at'[q.user],
           serving'.current => serving' \notin wire'
    PROVE  CurrentIsOwn'
  BY DEF CurrentIsOwn

\* A program listens for one copy of its call, until it is answered.
LEMMA CurrentStep == ASSUME CallInv, [HalNext]_halVars PROVE CurrentIsOwn'
<1>0. HalTypeOK /\ HalCases /\ QuietBetweenCalls /\ CurrentIsOwn
  BY StepIsCase DEF CallInv
<1>1. ASSUME NEW u \in Users, Ask(u) PROVE CurrentIsOwn'
  <2>1. /\ MyRequest(u).user = u /\ MyRequest(u).method = at[u] /\ ~waiting[u]
        /\ heard[u] = NoResponse
    BY <1>0, <1>1, MyRequestTyped DEF Ask, QuietBetweenCalls
  <2>2. /\ waiting'[u] /\ UNCHANGED <<at, linked, heard, serving>>
        /\ \A v \in Users \ {u} : waiting'[v] = waiting[v]
    BY <1>0, <1>1 DEF Ask, HalTypeOK
  <2>3. wire' = wire \/ (linked[u] /\ wire' = wire \cup {MyRequest(u)})
    BY <1>1 DEF Ask
  <2>4. \A q \in Sent : q.current => q.user # u
    BY <1>0, <2>1 DEF CurrentIsOwn
  <2>5. \A q \in Sent : q.current => q.user \in Users
    BY <1>0, SentTyped, RequestTyped DEF NoRequest
  <2>6. serving'.current => serving' \notin wire'
    BY <1>0, <2>1, <2>2, <2>3, <2>4 DEF CurrentIsOwn, Sent
  <2>7. QED
    BY <1>0, <2>1, <2>2, <2>3, <2>4, <2>5, <2>6, CurrentKept DEF Sent
<1>2. ASSUME NEW u \in Users, Receive(u) \/ CallIsLost(u) PROVE CurrentIsOwn'
  <2>1. PICK a : GoesOn(u, a)
    BY <1>2 DEF Receive, CallIsLost
  <2>2. UNCHANGED <<wire, serving>>
    BY <1>2 DEF Receive, CallIsLost, daemonVars
  <2>3. \A q \in Sent : q.current => q.user # u
    BY <1>0, <1>2 DEF Receive, CallIsLost, CurrentIsOwn
  <2>4. \A q \in Sent : q.current => q.user \in Users
    BY <1>0, SentTyped, RequestTyped DEF NoRequest
  <2>5. QED
    BY <1>0, <2>1, <2>2, <2>3, <2>4, GoesOnProps, CurrentKept DEF Sent, CurrentIsOwn
<1>3. ASSUME NEW u \in Users, TimesOut(u) \/ SocketFault(u) PROVE CurrentIsOwn'
  <2>1. /\ wire' = {GivenUp(u, q) : q \in wire} /\ serving' = GivenUp(u, serving)
    BY <1>3 DEF TimesOut, SocketFault, GivesUp
  <2>2. \A v \in Users \ {u} : /\ at'[v] = at[v] /\ waiting'[v] = waiting[v]
                               /\ linked'[v] = linked[v] /\ heard'[v] = heard[v]
    BY <1>0, <1>3, GoesOnProps DEF TimesOut, SocketFault, HalTypeOK
  <2>3. \A q \in Sent : GivenUp(u, q).current => q.user # u /\ GivenUp(u, q) = q
    BY <1>0, SentTyped, GivenUpProps
  <2>4. \A q \in Sent : q.current => q.user \in Users
    BY <1>0, SentTyped, RequestTyped DEF NoRequest
  <2>5. \A q \in Sent' : q.current => q \in Sent /\ q.user \in Users \ {u}
    BY <2>1, <2>3, <2>4 DEF Sent
  <2>6. serving'.current => serving' \notin wire'
    <3>1. ASSUME serving'.current, NEW p \in wire, serving' = GivenUp(u, p) PROVE FALSE
      <4>1. serving' = serving /\ serving' = p
        BY <2>1, <2>3, <3>1 DEF Sent
      <4>2. QED
        BY <1>0, <3>1, <4>1 DEF CurrentIsOwn
    <3>2. QED
      BY <2>1, <3>1
  <2>7. QED
    BY <1>0, <2>2, <2>5, <2>6, CurrentKept
<1>4. ASSUME NEW u \in Users, Resend(u) PROVE CurrentIsOwn'
  <2>1. MyRequest(u).user = u /\ MyRequest(u).method = at[u] /\ ~linked[u]
    BY <1>0, <1>4, MyRequestTyped DEF Resend, QuietBetweenCalls
  <2>2. /\ linked'[u] /\ waiting[u] /\ heard[u] = NoResponse
        /\ UNCHANGED <<at, waiting, heard, serving>>
        /\ \A v \in Users \ {u} : linked'[v] = linked[v]
        /\ wire' = wire \cup {MyRequest(u)}
    BY <1>0, <1>4 DEF Resend, HalTypeOK
  <2>3. \A q \in Sent : q.current => q.user # u
    BY <1>0, <2>1 DEF CurrentIsOwn
  <2>4. \A q \in Sent : q.current => q.user \in Users
    BY <1>0, SentTyped, RequestTyped DEF NoRequest
  <2>5. serving'.current => serving' \notin wire'
    BY <1>0, <2>1, <2>2, <2>3 DEF CurrentIsOwn, Sent
  <2>6. QED
    BY <1>0, <2>1, <2>2, <2>3, <2>4, <2>5, CurrentKept DEF Sent
<1>5. ASSUME NEW q \in Sent, q # NoRequest, NEW answer, NEW r, Respond(q, answer, r),
             UNCHANGED <<at, waiting, linked>>, Sent' \subseteq (Sent \ {q}) \cup {NoRequest},
             serving' = NoRequest
      PROVE  CurrentIsOwn'
  <2>1. ~NoRequest.current
    BY DEF NoRequest
  <2>2. \A p \in Sent' : p.current => p \in Sent /\ p.user \in Users
                                     /\ (~q.current \/ p.user # q.user)
    BY <1>0, <1>5, <2>1, OneCurrent, SentTyped, RequestTyped
  <2>3. QED
    BY <1>0, <1>5, <2>1, <2>2, RespondProps, CurrentKept
<1>6. ASSUME NEW q \in wire, NEW answer, NEW r, AnswersAtOnce(q, answer, r)
      PROVE  CurrentIsOwn'
  <2>1. /\ q \in Sent /\ q # NoRequest /\ Respond(q, answer, r)
        /\ UNCHANGED <<at, waiting, linked>> /\ serving' = NoRequest
        /\ Sent' \subseteq (Sent \ {q}) \cup {NoRequest}
    BY <1>6, PickedTyped, RequestTyped DEF AnswersAtOnce, ServedAtOnce, Sent
  <2>2. QED
    BY <1>5, <2>1
<1>7. ASSUME NEW answer, AnswersLater(answer) PROVE CurrentIsOwn'
  <2>1. CASE serving \notin wire
    <3>1. /\ serving \in Sent /\ serving # NoRequest /\ Respond(serving, answer, NoRaw)
          /\ UNCHANGED <<at, waiting, linked>> /\ serving' = NoRequest
          /\ Sent' \subseteq (Sent \ {serving}) \cup {NoRequest}
      BY <1>7, <2>1 DEF AnswersLater, Unlocks, Sent
    <3>2. QED
      BY <1>5, <3>1
  <2>2. CASE serving \in wire
    <3>1. ~serving.current /\ ~NoRequest.current
      BY <1>0, <2>2 DEF CurrentIsOwn, NoRequest
    <3>2. heard' = heard /\ UNCHANGED <<at, waiting, linked, wire>> /\ serving' = NoRequest
      BY <1>7, <3>1 DEF AnswersLater, Unlocks, Respond
    <3>3. QED
      BY <1>0, <3>1, <3>2, CurrentKept DEF Sent
  <2>3. QED
    BY <2>1, <2>2
<1>8. ASSUME NEW q \in wire, BeginWaiting(q) PROVE CurrentIsOwn'
  BY <1>0, <1>8, CurrentKept DEF BeginWaiting, clientVars, Sent
<1>9. CASE Crash
  BY <1>9 DEF Crash, CurrentIsOwn, Sent, NoRequest
<1>10. CASE Unnoticed
  BY <1>0, <1>10 DEF Unnoticed, clientVars, CurrentIsOwn, Sent
<1>11. QED
  BY <1>0, <1>1, <1>2, <1>3, <1>4, <1>6, <1>7, <1>8, <1>9, <1>10 DEF HalCases, UserStep

\* The session stays on the device that is being read, and nobody caches in between.
LEMMA LockStep == ASSUME CallInv, [HalNext]_halVars PROVE LockedOut'
<1>0. HalTypeOK /\ LockedOut /\ HalCases /\ NoDevice \notin Device
  BY StepIsCase, NameAssumption DEF CallInv
<1>1. ASSUME UNCHANGED <<serving, reading, session, now, cache>> PROVE LockedOut'
  BY <1>0, <1>1 DEF LockedOut, Fresh
<1>2. CASE serving' = NoRequest /\ reading' = NoDevice
  BY <1>2 DEF LockedOut
<1>3. ASSUME NEW u \in Users, Ask(u) \/ Receive(u) \/ Resend(u) \/ CallIsLost(u) PROVE LockedOut'
  <2>1. UNCHANGED <<serving, reading, session, now, cache>>
    BY <1>3
    DEF Ask, Receive, Resend, CallIsLost, daemonVars, cachedVars, cacheVars, backendVars
  <2>2. QED
    BY <1>1, <2>1
<1>4. ASSUME NEW u \in Users, TimesOut(u) \/ SocketFault(u) PROVE LockedOut'
  <2>1. serving' = GivenUp(u, serving) /\ UNCHANGED <<reading, session, now, cache>>
    BY <1>4 DEF TimesOut, SocketFault, GivesUp, cachedVars, cacheVars, backendVars
  <2>2. (serving' = NoRequest <=> serving = NoRequest) /\ serving'.method = serving.method
    BY <1>0, <2>1, GivenUpProps DEF HalTypeOK
  <2>3. QED
    BY <1>0, <2>1, <2>2 DEF LockedOut, Fresh
<1>5. ASSUME NEW q, NEW answer, NEW r, AnswersAtOnce(q, answer, r) PROVE LockedOut'
  BY <1>0, <1>2, <1>5 DEF AnswersAtOnce, ServedAtOnce, LockedOut
<1>6. ASSUME NEW answer, AnswersLater(answer) PROVE LockedOut'
  BY <1>2, <1>6 DEF AnswersLater, Unlocks
<1>7. ASSUME NEW q \in wire, BeginWaiting(q) PROVE LockedOut'
  <2>1. PICK d \in Device : ReadLive(d) /\ reading' = d
    BY <1>7 DEF BeginWaiting
  <2>2. session' = d /\ serving' = q /\ UNCHANGED <<now, cache>>
    BY <1>7, <2>1 DEF BeginWaiting, ReadLive, EnsureConnected, cacheVars
  <2>3. q # NoRequest /\ q.method \in Reads \cup {"get_result"} /\ Live(q)
    BY <1>7, PickedTyped, RequestTyped DEF BeginWaiting
  <2>4. QED
    BY <2>1, <2>2, <2>3 DEF LockedOut, Live, Fresh
<1>8. CASE Crash
  BY <1>2, <1>8 DEF Crash
<1>9. CASE Unnoticed
  <2>1. CASE serving = NoRequest
    BY <1>0, <1>2, <1>9, <2>1 DEF Unnoticed, LockedOut
  <2>2. CASE ThreadStep \/ Crash
    BY <1>0, <1>2, <1>9, <2>2
    DEF ThreadStep, ServeConnect, ServeFromCache, ServeUnconnected, ServeSubmit, ServeStatus,
        BeginWaiting, EndRead, EndResult, Unlocks, Crash, Locks, LockedOut, Unnoticed
  <2>3. ASSUME NEW u \in Users, UserStep(u) \/ SocketFault(u) PROVE LockedOut'
    BY <1>3, <1>4, <2>3 DEF UserStep
  <2>4. CASE Start \/ UNCHANGED halVars
    BY <1>1, <2>4 DEF Start, halVars, daemonVars, cachedVars, cacheVars, backendVars
  <2>5. CASE Drift
    BY <1>1, <2>5 DEF Drift, OtherIsLeastBusy, cacheVars, daemonVars
  <2>6. ASSUME NEW r \in Raw, JobProgress(r) PROVE LockedOut'
    BY <1>1, <2>6 DEF JobProgress, JobMoves, cacheVars, daemonVars
  <2>7. CASE TimePasses
    BY <1>0, <2>1, <2>7 DEF TimePasses, LockedOut
  <2>8. QED
    BY <2>2, <2>3, <2>4, <2>5, <2>6, <2>7 DEF HalNext
<1>10. QED
  BY <1>0, <1>3, <1>4, <1>5, <1>6, <1>7, <1>8, <1>9 DEF HalCases, UserStep

-----------------------------------------------------------------------------
(* Jobs.                                                                    *)

\* Where a script goes on, by where it is.
LEMMA AfterCallProps ==
    ASSUME NEW u \in Users, at[u] \in Script, NEW answer
    PROVE  /\ AfterCall(u, answer) \in BeforeJob => at[u] \in BeforeJob \ {"submit_job"}
           /\ AfterCall(u, answer) \in JobMethods =>
                 /\ at[u] \in {"submit_job", "get_job_status"}
                 /\ answer \notin Errors
           /\ AfterCall(u, answer) = "done" => at[u] = "get_result" /\ answer \notin Errors
  BY DEF AfterCall, BeforeJob, JobMethods, Script, Errors

\* Jobs that programs ask about are known to the provider.
LEMMA JobsStep == ASSUME CallInv, [HalNext]_halVars PROVE JobsAreKnown'
<1>0. HalTypeOK /\ HalCases /\ JobsAreKnown /\ QuietBetweenCalls /\ CurrentIsOwn
      /\ Known \subseteq Known'
  BY StepIsCase, BackendStep DEF CallInv
<1>s. \A q \in Sent : q.method \in Script => q \in Request /\ q.user \in Users
  BY <1>0, SentTyped, RequestTyped DEF NoRequest, Script
<1>j. JobMethods \subseteq Script /\ JobMethods \cap BeforeJob = {} /\ "submit_job" \in BeforeJob
  BY DEF JobMethods, Script, BeforeJob
<1>1. ASSUME NEW u \in Users, Ask(u) \/ Resend(u) PROVE JobsAreKnown'
  <2>1. /\ UNCHANGED <<at, heard, jobOf, serving>>
        /\ wire' \subseteq wire \cup {MyRequest(u)}
        /\ MyRequest(u).user = u /\ MyRequest(u).method = at[u]
    BY <1>0, <1>1, MyRequestTyped DEF Ask, Resend, QuietBetweenCalls
  <2>2. QED
    BY <1>0, <1>j, <2>1 DEF JobsAreKnown, Sent
<1>2. ASSUME NEW u \in Users, Receive(u) PROVE JobsAreKnown'
  <2>1. /\ GoesOn(u, AfterCall(u, heard[u].answer)) /\ heard[u] # NoResponse
        /\ at[u] \in Script /\ UNCHANGED <<wire, serving>>
        /\ jobOf' = IF at[u] = "submit_job" THEN [jobOf EXCEPT ![u] = heard[u].job] ELSE jobOf
    BY <1>0, <1>2 DEF Receive, QuietBetweenCalls, daemonVars
  <2>2. /\ at'[u] = AfterCall(u, heard[u].answer) /\ heard'[u] = NoResponse
        /\ \A v \in Users \ {u} : at'[v] = at[v] /\ heard'[v] = heard[v] /\ jobOf'[v] = jobOf[v]
    BY <1>0, <2>1, GoesOnProps DEF HalTypeOK
  <2>3. at'[u] \in JobMethods => jobOf'[u] \in Known
    BY <1>0, <2>1, <2>2, AfterCallProps DEF JobsAreKnown, HalTypeOK, JobMethods
  <2>4. ASSUME at[u] \notin BeforeJob
        PROVE  at'[u] \notin BeforeJob /\ jobOf'[u] = jobOf[u]
    BY <1>j, <2>1, <2>2, <2>4, AfterCallProps
  <2>5. \A v \in Users : at'[v] \in JobMethods => jobOf'[v] \in Known'
    BY <1>0, <2>2, <2>3 DEF JobsAreKnown
  <2>6. \A q \in Sent' : q.method \in JobMethods =>
            at'[q.user] \notin BeforeJob /\ jobOf'[q.user] \in Known'
    BY <1>0, <1>s, <1>j, <2>1, <2>2, <2>4 DEF JobsAreKnown, Sent
  <2>7. \A v \in Users : (at'[v] = "submit_job" /\ heard'[v] # NoResponse) =>
            heard'[v].answer \in Errors \/ heard'[v].job \in Known'
    BY <1>0, <2>2 DEF JobsAreKnown
  <2>8. QED
    BY <2>5, <2>6, <2>7 DEF JobsAreKnown
<1>3. ASSUME NEW u \in Users, TimesOut(u) \/ CallIsLost(u) PROVE JobsAreKnown'
  <2>1. GoesOn(u, "stopped") /\ UNCHANGED jobOf
    BY <1>3 DEF TimesOut, CallIsLost
  <2>2. /\ at'[u] = "stopped"
        /\ \A v \in Users \ {u} : at'[v] = at[v] /\ heard'[v] = heard[v]
    BY <1>0, <2>1, GoesOnProps
  <2>3. \A q \in Sent' : \E p \in Sent : q.method = p.method /\ q.user = p.user
    BY <1>0, <1>3, GivenUpProps, SentTyped DEF TimesOut, CallIsLost, GivesUp, Sent, daemonVars
  <2>4. "stopped" \notin JobMethods \cup BeforeJob
    BY DEF JobMethods, BeforeJob
  <2>5. \A q \in Sent : q.method \in JobMethods => q.user \in Users
    BY <1>s, <1>j
  <2>6. QED
    BY <1>0, <2>1, <2>2, <2>3, <2>4, <2>5 DEF JobsAreKnown, BeforeJob
<1>4. ASSUME NEW u \in Users, SocketFault(u) PROVE JobsAreKnown'
  <2>1. /\ UNCHANGED <<at, jobOf>>
        /\ \A v \in Users : heard'[v] \in {heard[v], NoResponse}
    BY <1>0, <1>4 DEF SocketFault, HalTypeOK
  <2>2. \A q \in Sent' : \E p \in Sent : q.method = p.method /\ q.user = p.user
    BY <1>0, <1>4, GivenUpProps, SentTyped DEF SocketFault, GivesUp, Sent
  <2>3. QED
    BY <1>0, <2>1, <2>2 DEF JobsAreKnown
<1>5. ASSUME NEW q \in Sent, q # NoRequest, NEW answer, NEW r, Respond(q, answer, r),
             q.method = "submit_job" => answer \in Errors \/ r \in Known',
             UNCHANGED <<at, jobOf>>, Sent' \subseteq Sent \cup {NoRequest}
      PROVE  JobsAreKnown'
  <2>1. NoRequest.method \notin JobMethods
    BY DEF NoRequest, JobMethods
  <2>2. ASSUME NEW v \in Users, at[v] = "submit_job", heard'[v] # NoResponse
        PROVE  heard'[v].answer \in Errors \/ heard'[v].job \in Known'
    <3>1. CASE q.current /\ v = q.user
      <4>1. q.method = "submit_job" /\ heard'[v] = [answer |-> answer, job |-> r]
        BY <1>5, <2>2, <3>1, RespondProps
      <4>2. QED
        BY <1>5, <4>1
    <3>2. CASE ~q.current \/ v # q.user
      BY <1>0, <1>5, <2>2, <3>2, RespondProps DEF JobsAreKnown
    <3>3. QED
      BY <3>1, <3>2
  <2>3. QED
    BY <1>0, <1>5, <2>1, <2>2 DEF JobsAreKnown
<1>6. ASSUME NEW q \in wire, NEW answer, NEW r, AnswersAtOnce(q, answer, r)
      PROVE  JobsAreKnown'
  <2>1. q \in Sent /\ q # NoRequest
    BY PickedTyped, RequestTyped
  <2>2. Sent' \subseteq Sent \cup {NoRequest}
    BY <1>6 DEF AnswersAtOnce, ServedAtOnce, Sent
  <2>3. QED
    BY <1>5, <1>6, <2>1, <2>2 DEF AnswersAtOnce, ServedAtOnce
<1>7. ASSUME NEW answer, AnswersLater(answer) PROVE JobsAreKnown'
  <2>1. Sent' \subseteq Sent \cup {NoRequest} /\ serving \in Sent
    BY <1>7 DEF AnswersLater, Unlocks, Sent
  <2>2. QED
    BY <1>5, <1>7, <2>1 DEF AnswersLater, Unlocks
<1>8. ASSUME NEW q \in wire, BeginWaiting(q) PROVE JobsAreKnown'
  BY <1>0, <1>8 DEF BeginWaiting, clientVars, JobsAreKnown, Sent
<1>9. CASE Crash
  <2>1. /\ UNCHANGED <<at, jobOf>> /\ Sent' = {NoRequest}
        /\ \A v \in Users : heard'[v] \in {heard[v], NoResponse}
    BY <1>9 DEF Crash, Sent
  <2>2. NoRequest.method \notin JobMethods
    BY DEF NoRequest, JobMethods
  <2>3. QED
    BY <1>0, <2>1, <2>2 DEF JobsAreKnown
<1>10. CASE Unnoticed
  BY <1>0, <1>10 DEF Unnoticed, clientVars, JobsAreKnown, Sent
<1>11. QED
  BY <1>0, <1>1, <1>2, <1>3, <1>4, <1>6, <1>7, <1>8, <1>9, <1>10 DEF HalCases, UserStep

-----------------------------------------------------------------------------
(* The first theorems.                                                      *)

\* At first nothing has been asked.
LEMMA CallInvInit == HalInit => CallInv
<1> SUFFICES ASSUME HalInit PROVE CallInv
  OBVIOUS
<1>1. CacheInv /\ BackendTypeOK
  BY CacheInit, TypeInit DEF HalInit, CachedInit
<1>2. HalTypeOK
  BY UserAssumption DEF HalInit, HalTypeOK, Script
<1>3. CurrentIsOwn /\ QuietBetweenCalls /\ LockedOut /\ JobsAreKnown
  BY DEF HalInit, CurrentIsOwn, QuietBetweenCalls, LockedOut, JobsAreKnown, Sent, NoRequest,
         JobMethods
<1>4. QED
  BY <1>1, <1>2, <1>3 DEF CallInv

\* Together: the invariant.
LEMMA CallInvStep == CallInv /\ [HalNext]_halVars => CallInv'
  BY BackendStep, HalTypeStep, CurrentStep, QuietStep, LockStep, JobsStep DEF CallInv

\* The invariant holds throughout.
LEMMA CallInvariant == HalSpec => []CallInv
  BY CallInvInit, CallInvStep, PTL DEF HalSpec

\* Whatever programs, threads and crashes do at the same time, the shared Backend
\* goes through a sequence of operations that it allows (server.py:112-121).
THEOREM LockSerialises == HalSpec => OneAfterTheOther
<1>1. HalInit => CachedInit
  BY DEF HalInit
<1>2. CallInv /\ [HalNext]_halVars => [CachedNext]_cachedVars
  BY StepBehindLock
<1>3. QED
  BY <1>1, <1>2, CallInvariant, PTL DEF HalSpec, OneAfterTheOther, CachedSpec

\* So what holds of the cached Backend alone holds behind the lock of a daemon that
\* serves many programs and crashes: ids are checked, sessions kept, final statuses
\* final, cached data is young and does not survive a disconnect() or a crash.
THEOREM StackIsSound ==
    ASSUME Unnested
    PROVE  HalSpec => /\ [](BackendTypeOK /\ CachedTypeOK)
                      /\ []IdsGuardJobs
                      /\ []AgeBounded
                      /\ SessionIsKept
                      /\ FinalIsFinal
                      /\ DisconnectForgets
<1>1. HalSpec => CachedSpec
  BY LockSerialises DEF OneAfterTheOther
<1>2. CachedSpec => BackendSpec
  BY WrappedIsBackend
<1>3. BackendSpec => []IdsGuardJobs /\ FinalIsFinal
  BY IdsGuarded, FinalStatusHolds
<1>4. CachedSpec => /\ [](BackendTypeOK /\ CachedTypeOK) /\ []AgeBounded
                    /\ SessionIsKept /\ DisconnectForgets
  BY BackendTypeBehindCache, CachedTypeCorrect, NothingTooOld, SessionKeptBehindCache,
     NothingFromBefore, PTL
<1>5. QED
  BY <1>1, <1>2, <1>3, <1>4

\* The state of programs and daemon keeps its shape.
THEOREM HalTypeCorrect == HalSpec => []HalTypeOK
<1>1. CallInv => HalTypeOK
  BY DEF CallInv
<1>2. QED
  BY <1>1, CallInvariant, PTL

-----------------------------------------------------------------------------
(* One job per run.                                                         *)

SubmitsOf(u) == {q \in wire : q.user = u /\ q.method = "submit_job"}

NotAsked(u) == at[u] \in BeforeJob \ {"submit_job"} \/ (at[u] = "submit_job" /\ ~waiting[u])

\* The submit of a program is asked for once, and what it queued is all that the
\* program has queued.
OneSubmitOf(u) ==
    /\ NotAsked(u) => SubmitsOf(u) = {} /\ submitted[u] = {}
    /\ \A p, q \in SubmitsOf(u) : p = q
    /\ submitted[u] = {} \/ (SubmitsOf(u) = {} /\ \E r \in Raw : submitted[u] = {r})

OneSubmit == \A u \in Users : OneSubmitOf(u)

\* Nothing but ServeSubmit queues a job for a program.
LEMMA OnlySubmitQueues ==
    ASSUME CallInv, [HalNext]_halVars
    PROVE  submitted' = submitted \/ \E q \in wire : ServeSubmit(q)
<1>1. ASSUME NEW u \in Users, UserStep(u) \/ SocketFault(u) PROVE submitted' = submitted
  BY <1>1
  DEF UserStep, SocketFault, Ask, Receive, TimesOut, Resend, CallIsLost, historyVars
<1>2. ASSUME NEW q \in wire,
             ServeConnect(q) \/ ServeFromCache(q) \/ ServeUnconnected(q) \/ ServeStatus(q)
      PROVE  submitted' = submitted
  BY <1>2 DEF ServeConnect, ServeFromCache, ServeUnconnected, ServeStatus
<1>3. ASSUME NEW q \in wire, BeginWaiting(q) PROVE submitted' = submitted
  BY <1>3 DEF BeginWaiting, historyVars
<1>4. CASE EndRead \/ EndResult \/ Crash \/ Start
  BY <1>4 DEF EndRead, EndResult, Unlocks, Crash, Start, historyVars
<1>5. CASE Drift \/ TimePasses \/ UNCHANGED halVars
  BY <1>5 DEF Drift, TimePasses, halVars, historyVars
<1>6. ASSUME NEW r \in Raw, JobProgress(r) PROVE submitted' = submitted
  BY <1>6 DEF JobProgress, historyVars
<1>7. QED
  BY <1>1, <1>2, <1>3, <1>4, <1>5, <1>6 DEF HalNext, ThreadStep

\* A program that does not get to its submit, and has no further one on its way,
\* keeps what it has.
LEMMA OneSubmitKept ==
    ASSUME NEW u \in Users, OneSubmitOf(u), submitted'[u] = submitted[u],
           NotAsked(u)' => NotAsked(u),
           \/ SubmitsOf(u)' \subseteq SubmitsOf(u)
           \/ \E f : SubmitsOf(u)' \subseteq {f[q] : q \in SubmitsOf(u)}
    PROVE  OneSubmitOf(u)'
  BY DEF OneSubmitOf

\* Every step keeps a program to one submit.
LEMMA OneSubmitStep == ASSUME CallInv, OneSubmit, [HalNext]_halVars PROVE OneSubmit'
<1>0. HalTypeOK /\ HalCases /\ QuietBetweenCalls /\ LockedOut
  BY StepIsCase DEF CallInv
<1>1. ASSUME NEW q \in wire, ServeSubmit(q) PROVE OneSubmit'
  <2>1. q \in Request /\ q.user \in Users /\ q.method = "submit_job" /\ q \in SubmitsOf(q.user)
    BY <1>1, PickedTyped, RequestTyped DEF ServeSubmit, SubmitsOf
  <2>2. wire' = wire \ {q} /\ UNCHANGED <<at, waiting>>
    BY <1>1 DEF ServeSubmit, ServedAtOnce
  <2>3. PICK d \in Device : SubmitJob(d)
    BY <1>1 DEF ServeSubmit
  <2>4. /\ submitted'[q.user] = submitted[q.user] \cup {r \in Raw \ Known : job'[r] # NoJob}
        /\ \A u \in Users \ {q.user} : submitted'[u] = submitted[u]
    BY <1>0, <1>1, <2>1 DEF ServeSubmit, HalTypeOK
  <2>5. submitted[q.user] = {} /\ ~NotAsked(q.user) /\ SubmitsOf(q.user)' = {}
    BY <2>1, <2>2 DEF OneSubmit, OneSubmitOf, SubmitsOf
  <2>6. submitted'[q.user] = {} \/ \E r \in Raw : submitted'[q.user] = {r}
    BY <2>3, <2>4, <2>5, SubmitQueues, BackendStep DEF CallInv
  <2>7. OneSubmitOf(q.user)'
    BY <2>2, <2>5, <2>6 DEF OneSubmitOf, NotAsked
  <2>8. ASSUME NEW u \in Users \ {q.user} PROVE OneSubmitOf(u)'
    BY <2>2, <2>4, OneSubmitKept DEF OneSubmit, NotAsked, SubmitsOf
  <2>9. QED
    BY <2>7, <2>8 DEF OneSubmit
<1> SUFFICES ASSUME submitted' = submitted, NEW u \in Users, OneSubmitOf(u)
             PROVE  OneSubmitOf(u)'
  BY <1>1, OnlySubmitQueues DEF OneSubmit
<1>2. ASSUME NEW v \in Users, Ask(v) PROVE OneSubmitOf(u)'
  <2>1. MyRequest(v).user = v /\ MyRequest(v).method = at[v] /\ ~waiting[v]
    BY <1>2, MyRequestTyped DEF Ask
  <2>2. /\ at' = at /\ wire' \subseteq wire \cup {MyRequest(v)}
        /\ waiting'[v] /\ \A x \in Users \ {v} : waiting'[x] = waiting[x]
    BY <1>0, <1>2 DEF Ask, HalTypeOK
  <2>3. CASE u = v /\ at[v] = "submit_job"
    <3>1. NotAsked(u) /\ SubmitsOf(u)' \subseteq {MyRequest(v)}
      BY <2>1, <2>2, <2>3 DEF NotAsked, OneSubmitOf, SubmitsOf
    <3>2. ~NotAsked(u)'
      BY <2>2, <2>3 DEF NotAsked
    <3>3. QED
      BY <3>1, <3>2 DEF OneSubmitOf
  <2>4. CASE u # v \/ at[v] # "submit_job"
    <3>1. SubmitsOf(u)' \subseteq SubmitsOf(u) /\ (NotAsked(u)' => NotAsked(u))
      BY <2>1, <2>2, <2>4 DEF SubmitsOf, NotAsked
    <3>2. QED
      BY <3>1, OneSubmitKept
  <2>5. QED
    BY <2>3, <2>4
<1>3. ASSUME NEW v \in Users, Receive(v) \/ CallIsLost(v) PROVE OneSubmitOf(u)'
  <2>1. PICK a : GoesOn(v, a) /\ (a = "stopped" \/ a = AfterCall(v, heard[v].answer))
    BY <1>3 DEF Receive, CallIsLost
  <2>2. at[v] \in Script /\ wire' = wire
    BY <1>0, <1>3 DEF Receive, CallIsLost, QuietBetweenCalls, daemonVars
  <2>3. NotAsked(u)' => NotAsked(u)
    BY <1>0, <2>1, <2>2, GoesOnProps, AfterCallProps DEF NotAsked, BeforeJob
  <2>4. QED
    BY <2>2, <2>3, OneSubmitKept DEF SubmitsOf
<1>4. ASSUME NEW v \in Users, TimesOut(v) \/ SocketFault(v) PROVE OneSubmitOf(u)'
  <2>1. wire' = {GivenUp(v, q) : q \in wire}
    BY <1>4 DEF TimesOut, SocketFault, GivesUp
  <2>2. NotAsked(u)' => NotAsked(u)
    BY <1>0, <1>4, GoesOnProps DEF TimesOut, SocketFault, NotAsked, BeforeJob
  <2>3. \A q \in wire : GivenUp(v, q).user = q.user /\ GivenUp(v, q).method = q.method
    BY <1>0, GivenUpProps DEF HalTypeOK
  <2>4. SubmitsOf(u)' \subseteq {[p \in wire |-> GivenUp(v, p)][q] : q \in SubmitsOf(u)}
    BY <2>1, <2>3 DEF SubmitsOf
  <2>5. QED
    BY <2>2, <2>4, OneSubmitKept
<1>5. ASSUME NEW v \in Users, Resend(v) PROVE OneSubmitOf(u)'
  <2>1. MyRequest(v).method # "submit_job"
    BY <1>0, <1>5, MyRequestTyped DEF Resend, QuietBetweenCalls, Retried, TierOf, RetryTiers
  <2>2. wire' = wire \cup {MyRequest(v)} /\ UNCHANGED <<at, waiting>>
    BY <1>5 DEF Resend
  <2>3. QED
    BY <2>1, <2>2, OneSubmitKept DEF SubmitsOf, NotAsked
<1>6. ASSUME wire' \subseteq wire, UNCHANGED <<at, waiting>> PROVE OneSubmitOf(u)'
  BY <1>6, OneSubmitKept DEF SubmitsOf, NotAsked
<1>7. ASSUME NEW q, NEW answer, NEW r, AnswersAtOnce(q, answer, r) PROVE OneSubmitOf(u)'
  BY <1>6, <1>7 DEF AnswersAtOnce, ServedAtOnce
<1>8. ASSUME NEW answer, AnswersLater(answer) PROVE OneSubmitOf(u)'
  BY <1>6, <1>8 DEF AnswersLater, Unlocks
<1>9. ASSUME NEW q, BeginWaiting(q) PROVE OneSubmitOf(u)'
  BY <1>6, <1>9 DEF BeginWaiting, clientVars
<1>10. CASE Crash \/ Unnoticed
  BY <1>6, <1>10 DEF Crash, Unnoticed, clientVars
<1>11. QED
  BY <1>0, <1>2, <1>3, <1>4, <1>5, <1>7, <1>8, <1>9, <1>10 DEF HalCases, UserStep

\* Through lost answers, retries and restarts, a run of the script queues one job
\* at most, even when the provider queues it and fails to say so.
THEOREM AtMostOneJob == HalSpec => []OneJobPerRun
<1>1. HalInit => OneSubmit
  BY DEF HalInit, OneSubmit, OneSubmitOf, SubmitsOf
<1>2. OneSubmit => OneJobPerRun
  <2>1. \A r \in Raw : Cardinality({r}) = 1
    BY FS_Singleton
  <2>2. Cardinality({}) = 0
    BY FS_EmptySet
  <2>3. QED
    BY <2>1, <2>2 DEF OneSubmit, OneSubmitOf, OneJobPerRun
<1>3. CallInv /\ OneSubmit /\ [HalNext]_halVars => OneSubmit'
  BY OneSubmitStep
<1>4. QED
  BY <1>1, <1>2, <1>3, CallInvariant, PTL DEF HalSpec

-----------------------------------------------------------------------------
(* The result is the job's own.                                             *)

ToldOf(u) ==
    /\ (at[u] = "submit_job" /\ heard[u] # NoResponse) =>
          heard[u].answer \in Errors \/ heard[u].job \in submitted[u]
    /\ (at[u] = "get_result" /\ heard[u] # NoResponse) =>
          heard[u].answer \in Errors \/ job[jobOf[u]].status = "DONE"
    /\ at[u] \in JobMethods \cup {"done"} => jobOf[u] \in submitted[u] \cap Known
    /\ at[u] = "done" => job[jobOf[u]].status = "DONE"

\* What a program was told is so.
Told == \A u \in Users : ToldOf(u)

\* What is so stays so.
Lasting ==
    /\ \A u \in Users : submitted[u] \subseteq submitted'[u]
    /\ Known \subseteq Known'
    /\ \A r \in Known : job[r].status = "DONE" => job'[r].status = "DONE"

\* Jobs stay known, queued for whom they were, and done.
LEMMA ItLasts ==
    ASSUME CallInv, [HalNext]_halVars
    PROVE  Lasting
<1>1. BackendTypeOK /\ [BackendNext]_backendVars /\ HalTypeOK
  BY StepBehindLock, StepBehindCache DEF CallInv
<1>2. \A r \in Known : job[r].status = "DONE" => job'[r].status = "DONE"
  <2>1. Phase("DONE") = 3
    BY DEF Phase
  <2>2. QED
    BY <1>1, <2>1, EndedJobStays
<1>3. ASSUME NEW q \in wire, ServeSubmit(q), NEW u \in Users
      PROVE  submitted[u] \subseteq submitted'[u]
  BY <1>1, <1>3 DEF ServeSubmit, HalTypeOK
<1>4. QED
  BY <1>2, <1>3, OnlySubmitQueues, BackendStep DEF Lasting

\* A program that hears nothing new was told the truth still.
LEMMA ToldKept ==
    ASSUME Lasting, NEW u \in Users, ToldOf(u),
           at'[u] = at[u], jobOf'[u] = jobOf[u], heard'[u] \in {heard[u], NoResponse}
    PROVE  ToldOf(u)'
  BY DEF Lasting, ToldOf, JobMethods

\* Every step tells programs the truth.
LEMMA ToldStep == ASSUME Unnested, CallInv, Told, [HalNext]_halVars PROVE Told'
<1>0. /\ HalTypeOK /\ HalCases /\ Lasting /\ QuietBetweenCalls /\ JobsAreKnown
      /\ \A u \in Users : ToldOf(u)
  BY StepIsCase, ItLasts DEF CallInv, Told
<1> SUFFICES ASSUME NEW u \in Users PROVE ToldOf(u)'
  BY DEF Told
<1>1. CASE at'[u] = at[u] /\ jobOf'[u] = jobOf[u] /\ heard'[u] \in {heard[u], NoResponse}
  BY <1>0, <1>1, ToldKept
<1>2. ASSUME NEW v \in Users, Ask(v) \/ Resend(v) \/ SocketFault(v) PROVE ToldOf(u)'
  BY <1>0, <1>1, <1>2 DEF Ask, Resend, SocketFault, HalTypeOK
<1>3. ASSUME NEW v \in Users, TimesOut(v) \/ CallIsLost(v) PROVE ToldOf(u)'
  <2>1. GoesOn(v, "stopped") /\ jobOf' = jobOf
    BY <1>3 DEF TimesOut, CallIsLost
  <2>2. CASE u # v
    BY <1>0, <1>1, <2>1, <2>2, GoesOnProps
  <2>3. CASE u = v
    BY <1>0, <2>1, <2>3, GoesOnProps DEF ToldOf, JobMethods
  <2>4. QED
    BY <2>2, <2>3
<1>4. ASSUME NEW v \in Users, Receive(v) PROVE ToldOf(u)'
  <2>1. /\ GoesOn(v, AfterCall(v, heard[v].answer)) /\ heard[v] # NoResponse
        /\ at[v] \in Script
        /\ jobOf' = IF at[v] = "submit_job" THEN [jobOf EXCEPT ![v] = heard[v].job] ELSE jobOf
    BY <1>0, <1>4 DEF Receive, QuietBetweenCalls
  <2>2. CASE u # v
    BY <1>0, <1>1, <2>1, <2>2, GoesOnProps DEF HalTypeOK
  <2>3. CASE u = v
    <3>1. at'[u] = AfterCall(u, heard[u].answer) /\ heard'[u] = NoResponse
      BY <1>0, <2>1, <2>3, GoesOnProps
    <3>2. CASE at'[u] \in JobMethods
      <4>1. /\ at[u] = "submit_job" \/ at[u] = "get_job_status"
            /\ heard[u].answer \notin Errors /\ at'[u] # "done"
        BY <2>1, <2>3, <3>1, <3>2, AfterCallProps DEF JobMethods
      <4>2. jobOf'[u] \in submitted[u] \cap Known
        <5>1. CASE at[u] = "submit_job"
          BY <1>0, <2>1, <2>3, <4>1, <5>1 DEF ToldOf, JobsAreKnown, HalTypeOK
        <5>2. CASE at[u] = "get_job_status"
          BY <1>0, <2>1, <2>3, <5>2 DEF ToldOf, JobMethods
        <5>3. QED
          BY <4>1, <5>1, <5>2
      <4>3. QED
        BY <1>0, <3>1, <4>1, <4>2 DEF ToldOf, Lasting
    <3>3. CASE at'[u] = "done"
      <4>1. at[u] = "get_result" /\ heard[u].answer \notin Errors /\ jobOf'[u] = jobOf[u]
        BY <2>1, <2>3, <3>1, <3>3, AfterCallProps
      <4>2. jobOf[u] \in submitted[u] \cap Known /\ job[jobOf[u]].status = "DONE"
        BY <1>0, <2>1, <2>3, <4>1 DEF ToldOf, JobMethods
      <4>3. QED
        BY <1>0, <3>1, <4>1, <4>2 DEF ToldOf, Lasting
    <3>4. CASE at'[u] \notin JobMethods \cup {"done"}
      BY <3>1, <3>4 DEF ToldOf
    <3>5. QED
      BY <3>2, <3>3, <3>4
  <2>4. QED
    BY <2>2, <2>3
<1>5. ASSUME NEW q \in Sent, q # NoRequest, NEW answer, NEW r, Respond(q, answer, r),
             UNCHANGED <<at, jobOf>>,
             q.method = "submit_job" => answer \in Errors \/ r \in submitted'[q.user],
             q.method = "get_result" =>
                answer \in Errors \/ job[jobOf[q.user]].status = "DONE"
      PROVE  ToldOf(u)'
  <2>1. CASE ~q.current \/ u # q.user
    BY <1>0, <1>1, <1>5, <2>1, RespondProps
  <2>2. CASE q.current /\ u = q.user
    <3>1. q.method = at[u] /\ heard'[u] = [answer |-> answer, job |-> r]
      BY <1>5, <2>2, RespondProps
    <3>2. heard'[u].answer = answer /\ heard'[u].job = r
      BY <3>1
    <3>3. at[u] = "get_result" => jobOf[u] \in Known
      BY <1>0 DEF ToldOf, JobMethods
    <3>4. QED
      BY <1>0, <1>5, <2>2, <3>1, <3>2, <3>3 DEF ToldOf, Lasting
  <2>3. QED
    BY <2>1, <2>2
<1>6. ASSUME NEW q \in wire, NEW answer, NEW r, AnswersAtOnce(q, answer, r) PROVE ToldOf(u)'
  <2>1. q \in Sent /\ q # NoRequest
    BY PickedTyped, RequestTyped
  <2>2. QED
    BY <1>5, <1>6, <2>1 DEF AnswersAtOnce, ServedAtOnce
<1>7. ASSUME NEW answer, AnswersLater(answer) PROVE ToldOf(u)'
  BY <1>5, <1>7 DEF AnswersLater, Unlocks, Sent
<1>8. CASE Crash
  BY <1>0, <1>1, <1>8 DEF Crash, HalTypeOK
<1>9. ASSUME UNCHANGED clientVars PROVE ToldOf(u)'
  BY <1>1, <1>9 DEF clientVars
<1>10. QED
  BY <1>0, <1>2, <1>3, <1>4, <1>6, <1>7, <1>8, <1>9
  DEF HalCases, UserStep, BeginWaiting, Unnoticed, clientVars

\* Unless device names nest, a script that is done has the result of the one job it
\* submitted, and that job is done, whoever else switched devices meanwhile.
THEOREM OwnResult ==
    ASSUME Unnested
    PROVE  HalSpec => []ResultIsOwn
<1>1. HalInit => OneSubmit /\ Told
  BY DEF HalInit, OneSubmit, OneSubmitOf, SubmitsOf, Told, ToldOf, JobMethods
<1>2. OneSubmit /\ Told => ResultIsOwn
  BY DEF OneSubmit, OneSubmitOf, Told, ToldOf, ResultIsOwn
<1>3. CallInv /\ OneSubmit /\ Told /\ [HalNext]_halVars => OneSubmit' /\ Told'
  BY OneSubmitStep, ToldStep
<1>4. QED
  BY <1>1, <1>2, <1>3, CallInvariant, PTL DEF HalSpec

-----------------------------------------------------------------------------
(* Devices.                                                                 *)

\* Whose device it is, is settled when a connect() is served.
LEMMA MineStep ==
    ASSUME CallInv, KeptWhileUp, [HalNext]_halVars
    PROVE  KeptWhileUp'
<1>0. HalTypeOK /\ BackendTypeOK'
  BY BackendStep DEF CallInv
<1>1. CASE Crash
  <2>1. crashes' # 0
    BY <1>0, <1>1 DEF Crash, HalTypeOK
  <2>2. QED
    BY <2>1 DEF KeptWhileUp
<1>2. ASSUME NEW q \in wire, ServeConnect(q) PROVE KeptWhileUp'
  <2>1. /\ mine' = [u \in Users |-> IF u = q.user /\ q.current THEN last'.by ELSE NoDevice]
        /\ Connect(Choice[q.user])
    BY <1>2 DEF ServeConnect
  <2>2. last'.by # NoDevice => session' = last'.by
    BY <2>1 DEF Connect, Did
  <2>3. QED
    BY <2>1, <2>2 DEF KeptWhileUp
<1>3. ASSUME UNCHANGED <<mine, crashes>>, session # NoDevice => session' = session
      PROVE  KeptWhileUp'
  BY <1>3 DEF KeptWhileUp
<1>4. ASSUME NEW q \in wire, ServeFromCache(q) \/ ServeUnconnected(q) PROVE KeptWhileUp'
  BY <1>3, <1>4
  DEF ServeFromCache, ServeUnconnected, ServedAtOnce, ServeCached, AutoConnectFails, backendVars
<1>5. ASSUME NEW q \in wire, ServeSubmit(q) PROVE KeptWhileUp'
  BY <1>3, <1>5 DEF ServeSubmit, ServedAtOnce, SubmitJob, EnsureConnected
<1>6. ASSUME NEW q \in wire, ServeStatus(q) PROVE KeptWhileUp'
  BY <1>3, <1>6 DEF ServeStatus, ServedAtOnce, GetJobStatus, OnJob, EnsureConnected
<1>7. ASSUME NEW q \in wire, BeginWaiting(q) PROVE KeptWhileUp'
  BY <1>3, <1>7 DEF BeginWaiting, ReadLive, EnsureConnected, historyVars
<1>8. CASE EndRead
  BY <1>3, <1>8 DEF EndRead, Unlocks, historyVars
<1>9. CASE EndResult
  BY <1>3, <1>9 DEF EndResult, Unlocks, GetResult, OnJob, EnsureConnected, historyVars
<1>10. ASSUME NEW u \in Users, UserStep(u) \/ SocketFault(u) PROVE KeptWhileUp'
  BY <1>3, <1>10
  DEF UserStep, Ask, Receive, TimesOut, Resend, CallIsLost, SocketFault, cachedVars, backendVars,
      historyVars
<1>11. CASE Start \/ Drift \/ TimePasses \/ UNCHANGED halVars
  BY <1>3, <1>11
  DEF Start, Drift, TimePasses, Tick, OtherIsLeastBusy, halVars, cachedVars, backendVars,
      historyVars
<1>12. ASSUME NEW r \in Raw, JobProgress(r) PROVE KeptWhileUp'
  BY <1>3, <1>12 DEF JobProgress, JobMoves, historyVars
<1>13. QED
  BY <1>1, <1>2, <1>4, <1>5, <1>6, <1>7, <1>8, <1>9, <1>10, <1>11, <1>12 DEF HalNext, ThreadStep

\* As long as the daemon lives, a program has the device of its own connect() until
\* somebody's next connect() is served (backend.py:6-8).
THEOREM DeviceKept == HalSpec => []KeptWhileUp
<1>1. HalInit => KeptWhileUp
  BY DEF HalInit, KeptWhileUp
<1>2. CallInv /\ KeptWhileUp /\ [HalNext]_halVars => KeptWhileUp'
  BY MineStep
<1>3. QED
  BY <1>1, <1>2, CallInvariant, PTL DEF HalSpec

=============================================================================
