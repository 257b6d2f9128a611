----------------------------- MODULE IBMBackend -----------------------------
(***************************************************************************)
(* IBMBackend (ibm/ibm_backend.py) over the Backend contract (backend.py): *)
(* the session it holds, the auto-connect every operation starts with, and *)
(* the jobs it submits to the provider and asks about by composite id.     *)
(* Its operations are atomic: in the daemon one lock serialises them.      *)
(*                                                                         *)
(* The provider is external: it may refuse any request, moves the jobs     *)
(* along, and names another least busy device whenever it likes.           *)
(***************************************************************************)
EXTENDS JobIds

CONSTANTS
    Device,          \* the account's devices
    NoDevice,        \* _service and _backend are None
    Default,         \* connect() without a backend_name
    Identifier,      \* Identifier[d]: d.name.upper()
    Raw,             \* the job ids the provider hands out
    NoRaw,           \* no job
    ProviderStatus   \* the status strings the provider uses

ASSUME NameAssumption ==
    /\ Identifier \in [Device -> Seq(Token)]
    /\ \A d, e \in Device : Identifier[d] = Identifier[e] => d = e
    /\ Raw \subseteq Seq(Token)
    /\ NoDevice \notin Device
    /\ Default \notin Device
    /\ NoRaw \notin Raw
    /\ "CANCELLED" \in ProviderStatus

VARIABLES
    credentials,  \* the two environment variables are set
    session,      \* the device of _backend; _service and _backend go together
    leastBusy,    \* what the provider would choose
    job,          \* the provider's jobs
    final,        \* history: the provider's status behind the final one last
                  \* reported of each job
    last          \* the last operation and its answer

backendVars == <<credentials, session, leastBusy, job, final, last>>

-----------------------------------------------------------------------------
(* Statuses.                                                                *)

\* Wrong on purpose: a status is missing from the table.
IBM_STATUS_MAP_Short ==
    [QUEUED |-> "queued", RUNNING |-> "running",
     DONE |-> "done", CANCELLED |-> "cancelled", ERROR |-> "failed"]

IBM_STATUS_MAP ==
    [QUEUED |-> "queued", VALIDATING |-> "queued", RUNNING |-> "running",
     DONE |-> "done", CANCELLED |-> "cancelled", ERROR |-> "failed"]

JobStatus == {"queued", "running", "done", "cancelled", "failed"}

FinalStatus == {"done", "cancelled", "failed"}

Normalized(s) == IF s \in DOMAIN IBM_STATUS_MAP THEN IBM_STATUS_MAP[s] ELSE "failed"

\* The provider's own order: a job moves to later phases only.  Any string the
\* table does not know stands for one of a job that has not been queued yet.
Phase(s) ==
    CASE s \in {"DONE", "CANCELLED", "ERROR"} -> 3
      [] s = "RUNNING" -> 2
      [] s = "QUEUED" -> 1
      [] OTHER -> 0

-----------------------------------------------------------------------------
(* Data.                                                                    *)

NoJob == [device |-> NoDevice, status |-> "none"]

Job == [device : Device, status : ProviderStatus]

Known == {r \in Raw : job[r] # NoJob}

\* The provider's jobs when r has moved to status s.
WithStatus(r, s) == [job EXCEPT ![r] = [device |-> job[r].device, status |-> s]]

\* What submit_job() returned for r.
JobId(r) == MakeJobId(Identifier[job[r].device], r)

Ops == {"none", "connect", "disconnect", "read", "submit_job", "get_job_status",
        "get_result", "cancel_job"}

\* "foreign": _parse_job_id refused the id before the provider was asked.
Answers == {"ok", "connectionError", "jobError", "foreign"} \cup JobStatus

\* by: the device the operation ran on; job: the job its id was made for;
\* asked: the raw id the provider was asked about.
Operation == [op : Ops, answer : Answers, by : Device \cup {NoDevice},
              job : Raw \cup {NoRaw}, asked : Seq(Token) \cup {NoRaw}]

Did(op, answer, d) == [op |-> op, answer |-> answer, by |-> d, job |-> NoRaw, asked |-> NoRaw]

BackendTypeOK ==
    /\ credentials \in BOOLEAN
    /\ session \in Device \cup {NoDevice}
    /\ leastBusy \in Device
    /\ job \in [Raw -> Job \cup {NoJob}]
    /\ final \in [Raw -> ProviderStatus \cup {"none"}]
    /\ last \in Operation

BackendInit ==
    /\ credentials \in BOOLEAN
    /\ session = NoDevice
    /\ leastBusy \in Device
    /\ job = [r \in Raw |-> NoJob]
    /\ final = [r \in Raw |-> "none"]
    /\ last = Did("none", "ok", NoDevice)

-----------------------------------------------------------------------------
(* Sessions.                                                                *)

\* Wrong on purpose: the default device is not resolved to the least busy one.
Connect_Unresolved(n) ==
    /\ credentials
    /\ session' = n
    /\ last' = Did("connect", "ok", NoDevice)
    /\ UNCHANGED <<credentials, leastBusy, job, final>>

\* connect(): without credentials it raises and keeps the session; with them it
\* ends with the named or the least busy device, or, if the provider fails,
\* with no session at all.
Connect(n) ==
    /\ \/ /\ ~credentials
          /\ last' = Did("connect", "connectionError", NoDevice)
          /\ UNCHANGED session
       \/ /\ credentials
          /\ session' = IF n \in Device THEN n ELSE leastBusy
          /\ last' = Did("connect", "ok", session')
       \/ /\ credentials
          /\ session' = NoDevice
          /\ last' = Did("connect", "connectionError", NoDevice)
    /\ UNCHANGED <<credentials, leastBusy, job, final>>

Disconnect ==
    /\ session' = NoDevice
    /\ last' = Did("disconnect", "ok", NoDevice)
    /\ UNCHANGED <<credentials, leastBusy, job, final>>

\* Wrong on purpose: the default device is selected every time.
EnsureConnected_Always(d) ==
    /\ credentials
    /\ d = leastBusy
    /\ session' = d

\* _ensure_connected() returns with a session on d.
EnsureConnected(d) ==
    /\ \/ session = d
       \/ session = NoDevice /\ credentials /\ d = leastBusy
    /\ session' = d

\* _ensure_connected() raises; that is how the operation ends.
AutoConnectFails(op) ==
    /\ session = NoDevice
    /\ last' = Did(op, "connectionError", NoDevice)
    /\ UNCHANGED <<credentials, session, leastBusy, job, final>>

-----------------------------------------------------------------------------
(* Operations.                                                              *)

\* get_topology(), get_calibration() and list_available_backends() of the device.
ReadLive(d) ==
    /\ EnsureConnected(d)
    /\ last' = Did("read", "ok", d)
    /\ UNCHANGED <<credentials, leastBusy, job, final>>

\* The provider's side of such a read raises.
ReadFails(d) ==
    /\ EnsureConnected(d)
    /\ last' = Did("read", "jobError", d)
    /\ UNCHANGED <<credentials, leastBusy, job, final>>

\* submit_job(): the provider queues a job and its id is returned, or its call
\* raises, whether or not the provider has queued one.
SubmitJob(d) ==
    /\ EnsureConnected(d)
    /\ \/ \E r \in Raw \ Known, s \in ProviderStatus :
             /\ Phase(s) <= 1
             /\ job' = [job EXCEPT ![r] = [device |-> d, status |-> s]]
             /\ \/ last' = [Did("submit_job", "ok", d) EXCEPT !.job = r]
                \/ last' = Did("submit_job", "jobError", d)
       \/ last' = Did("submit_job", "jobError", d) /\ UNCHANGED job
    /\ UNCHANGED <<credentials, leastBusy, final>>

\* An operation on the id made for job r, which runs on d: refused if the id is
\* not d's, and otherwise the provider is asked about the rest of the id.
OnJob(op, r, d, answer) ==
    /\ EnsureConnected(d)
    /\ last' = [op |-> op, answer |-> answer, by |-> d, job |-> r,
                asked |-> IF answer = "foreign" THEN NoRaw
                          ELSE ParseJobId(Identifier[d], JobId(r))]
    /\ (answer = "foreign") = ~Belongs(Identifier[d], JobId(r))

\* The job the provider finds under the id it is asked about, if any.
Found(r, d) ==
    LET raw == ParseJobId(Identifier[d], JobId(r))
    IN  IF raw \in Known THEN job[raw] ELSE NoJob

GetJobStatus(r, d) ==
    /\ \/ /\ Found(r, d) # NoJob
          /\ OnJob("get_job_status", r, d, Normalized(Found(r, d).status))
       \/ OnJob("get_job_status", r, d, "jobError")
       \/ OnJob("get_job_status", r, d, "foreign")
    /\ final' = IF last'.answer \in FinalStatus
                THEN [final EXCEPT ![r] = Found(r, d).status] ELSE final
    /\ UNCHANGED <<credentials, leastBusy, job>>

\* Wrong on purpose: the result is returned before the job has ended.
GetResult_Early(r, d) ==
    /\ \/ OnJob("get_result", r, d, "ok") /\ Found(r, d) # NoJob
       \/ OnJob("get_result", r, d, "jobError")
       \/ OnJob("get_result", r, d, "foreign")
    /\ UNCHANGED <<credentials, leastBusy, job, final>>

\* get_result() waits for the job to end.
GetResult(r, d) ==
    /\ \/ OnJob("get_result", r, d, "ok") /\ Found(r, d).status = "DONE"
       \/ OnJob("get_result", r, d, "jobError")
       \/ OnJob("get_result", r, d, "foreign")
    /\ UNCHANGED <<credentials, leastBusy, job, final>>

\* cancel_job(): the provider refuses for a job that has ended, and otherwise
\* cancels it now or in its own time.
CancelJob(r, d) ==
    /\ \/ /\ OnJob("cancel_job", r, d, "ok")
          /\ Found(r, d) # NoJob
          /\ Phase(Found(r, d).status) < 3
          /\ job' \in {job, WithStatus(last'.asked, "CANCELLED")}
       \/ OnJob("cancel_job", r, d, "jobError") /\ UNCHANGED job
       \/ OnJob("cancel_job", r, d, "foreign") /\ UNCHANGED job
    /\ UNCHANGED <<credentials, leastBusy, final>>

Delegated ==
    \/ \E n \in Device \cup {Default} : Connect(n)
    \/ \E d \in Device : SubmitJob(d)
    \/ \E r \in Known, d \in Device :
          GetJobStatus(r, d) \/ GetResult(r, d) \/ CancelJob(r, d)
    \/ \E op \in Ops \ {"none", "connect", "disconnect"} : AutoConnectFails(op)

-----------------------------------------------------------------------------
(* The provider.                                                            *)

JobMoves(r) ==
    /\ job[r] # NoJob
    /\ \E s \in ProviderStatus :
          /\ Phase(s) > Phase(job[r].status)
          /\ job' = WithStatus(r, s)
    /\ UNCHANGED <<credentials, session, leastBusy, final, last>>

OtherIsLeastBusy ==
    /\ leastBusy' \in Device
    /\ UNCHANGED <<credentials, session, job, final, last>>

Provider == OtherIsLeastBusy \/ \E r \in Raw : JobMoves(r)

BackendNext ==
    \/ Delegated
    \/ Disconnect
    \/ \E d \in Device : ReadLive(d) \/ ReadFails(d)
    \/ Provider

BackendSpec == BackendInit /\ [][BackendNext]_backendVars

-----------------------------------------------------------------------------
(* Properties.                                                              *)

\* What the two properties of jobs below need of the account: no device's name
\* continues another one's after "_".
Unnested ==
    \A d, e \in Device : d # e => ~Nested(Identifier[d], Identifier[e])

\* The statuses ibm_backend.py:54-61 is written for; the provider has others.
Documented == {"QUEUED", "VALIDATING", "RUNNING", "DONE", "CANCELLED", "ERROR"}

JobOps == {"get_job_status", "get_result", "cancel_job"}

\* An operation on a job is refused exactly when the id was made on another
\* device than the one it runs on, and otherwise the provider is asked about
\* that very job: the prefix check of _parse_job_id neither lets a foreign id
\* through nor cuts off the wrong piece of an own one.
IdsGuardJobs ==
    (last.op \in JobOps /\ last.job # NoRaw) =>
        IF last.by = job[last.job].device THEN last.asked = last.job
        ELSE last.answer = "foreign"

\* Only connect() and disconnect() take a session away or replace it; the
\* auto-connect of the other operations never touches a live one.
SessionIsKept ==
    [][(session # NoDevice /\ session' # session)
          => last'.op \in {"connect", "disconnect"}]_backendVars

\* A status reported as final (done, cancelled, failed) is never contradicted by
\* what the job does afterwards, since callers stop polling on it: with the one
\* exception of ibm_backend.py:228, which reports any status the table was not
\* written for as failed, of a job that may be on its way.
FinalIsFinal ==
    [][\A r \in Raw : final[r] # "none" =>
          \/ Normalized(job'[r].status) = Normalized(final[r])
          \/ final[r] \notin Documented /\ Normalized(final[r]) = "failed"]_backendVars

=============================================================================
