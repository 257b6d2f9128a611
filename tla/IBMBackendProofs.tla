-------------------------- MODULE IBMBackendProofs --------------------------
(***************************************************************************)
(* What IBMBackend promises about sessions and jobs, for any number of     *)
(* devices and jobs and names of any length.                               *)
(***************************************************************************)
EXTENDS IBMBackend, SequenceTheorems, TLAPS

-----------------------------------------------------------------------------
(* Composite job ids, for names and raw ids of any length.                  *)

\* The prefix is the identifier followed by the separator.
LEMMA PrefixProps ==
    ASSUME NEW a \in Seq(Token)
    PROVE  /\ Prefix(a) \in Seq(Token)
           /\ Len(Prefix(a)) = Len(a) + 1
           /\ \A i \in 1..Len(a) : Prefix(a)[i] = a[i]
           /\ Prefix(a)[Len(a) + 1] = Sep
  BY SepAssumption DEF Prefix

\* A composite id is the identifier, the separator and the raw id, in that order.
LEMMA MakeProps ==
    ASSUME NEW a \in Seq(Token), NEW raw \in Seq(Token)
    PROVE  /\ MakeJobId(a, raw) \in Seq(Token)
           /\ Len(MakeJobId(a, raw)) = Len(a) + 1 + Len(raw)
           /\ \A i \in 1..Len(a) : MakeJobId(a, raw)[i] = a[i]
           /\ MakeJobId(a, raw)[Len(a) + 1] = Sep
           /\ \A i \in 1..Len(raw) : MakeJobId(a, raw)[Len(a) + 1 + i] = raw[i]
<1> DEFINE p == Prefix(a)
           id == MakeJobId(a, raw)
<1>1. /\ p \in Seq(Token) /\ Len(p) = Len(a) + 1
      /\ \A i \in 1..Len(a) : p[i] = a[i]
      /\ p[Len(a) + 1] = Sep
  BY PrefixProps
<1>2. id = p \o raw
  BY DEF MakeJobId
<1> HIDE DEF p, id
<1>3. /\ id \in Seq(Token)
      /\ Len(id) = Len(p) + Len(raw)
      /\ \A i \in 1..(Len(p) + Len(raw)) : id[i] = IF i <= Len(p) THEN p[i] ELSE raw[i - Len(p)]
  <2>1. /\ p \o raw \in Seq(Token)
        /\ Len(p \o raw) = Len(p) + Len(raw)
        /\ \A i \in 1..(Len(p) + Len(raw)) :
              (p \o raw)[i] = IF i <= Len(p) THEN p[i] ELSE raw[i - Len(p)]
    BY <1>1, ConcatProperties, ZenonT(30)
  <2> QED
    BY <1>2, <2>1
<1>4. Len(a) \in Nat /\ Len(raw) \in Nat
  OBVIOUS
<1>5. \A i \in 1..Len(a) : id[i] = a[i]
  BY <1>1, <1>3, <1>4
<1>6. id[Len(a) + 1] = Sep
  BY <1>1, <1>3, <1>4
<1>7. \A i \in 1..Len(raw) : id[Len(a) + 1 + i] = raw[i]
  BY <1>1, <1>3, <1>4
<1> QED
  BY <1>1, <1>3, <1>4, <1>5, <1>6, <1>7 DEF id

\* startswith() compares element by element.
LEMMA StartsWithProps ==
    ASSUME NEW s \in Seq(Token), NEW p \in Seq(Token)
    PROVE  StartsWith(s, p) <=>
              Len(p) <= Len(s) /\ \A i \in 1..Len(p) : s[i] = p[i]
<1>1. CASE Len(p) <= Len(s)
  <2>1. /\ SubSeq(s, 1, Len(p)) \in Seq(Token)
        /\ Len(SubSeq(s, 1, Len(p))) = Len(p)
        /\ \A i \in 1..Len(p) : SubSeq(s, 1, Len(p))[i] = s[i]
    BY <1>1
  <2>2. (\A i \in 1..Len(p) : s[i] = p[i]) => SubSeq(s, 1, Len(p)) = p
    BY <2>1, SeqEqual
  <2> QED
    BY <1>1, <2>1, <2>2 DEF StartsWith
<1>2. CASE ~(Len(p) <= Len(s))
  BY <1>2 DEF StartsWith
<1> QED
  BY <1>1, <1>2

\* A name starts with another one's prefix exactly when it continues it.
LEMMA ContinuesProps ==
    ASSUME NEW s \in Seq(Token), NEW a \in Seq(Token)
    PROVE  StartsWith(s, Prefix(a)) <=>
              /\ Len(a) < Len(s)
              /\ \A i \in 1..Len(a) : s[i] = a[i]
              /\ s[Len(a) + 1] = Sep
<1> DEFINE p == Prefix(a)
<1>1. /\ p \in Seq(Token) /\ Len(p) = Len(a) + 1
      /\ \A i \in 1..Len(a) : p[i] = a[i]
      /\ p[Len(a) + 1] = Sep
  BY PrefixProps
<1> HIDE DEF p
<1>2. StartsWith(s, p) <=> Len(p) <= Len(s) /\ \A i \in 1..Len(p) : s[i] = p[i]
  BY <1>1, StartsWithProps
<1>3. Len(a) \in Nat /\ Len(s) \in Nat
  OBVIOUS
<1>4. Len(p) <= Len(s) <=> Len(a) < Len(s)
  BY <1>1, <1>3
<1>5. 1..Len(p) = 1..Len(a) \cup {Len(a) + 1}
  BY <1>1, <1>3
<1>6. (\A i \in 1..Len(p) : s[i] = p[i])
         <=> (\A i \in 1..Len(a) : s[i] = p[i]) /\ s[Len(a) + 1] = p[Len(a) + 1]
  BY <1>5, Zenon
<1>7. (\A i \in 1..Len(a) : s[i] = p[i]) <=> (\A i \in 1..Len(a) : s[i] = a[i])
  BY <1>1
<1>8. StartsWith(s, p) <=> /\ Len(a) < Len(s)
                           /\ \A i \in 1..Len(a) : s[i] = a[i]
                           /\ s[Len(a) + 1] = Sep
  BY <1>1, <1>2, <1>4, <1>6, <1>7, Zenon
<1> QED
  BY <1>8 DEF p

\* Parsing the id a backend made gives back the provider's own id, whatever
\* separators the raw id contains.
THEOREM RoundTrip ==
    ASSUME NEW a \in Seq(Token), NEW raw \in Seq(Token)
    PROVE  /\ Belongs(a, MakeJobId(a, raw))
           /\ ParseJobId(a, MakeJobId(a, raw)) = raw
<1> DEFINE id == MakeJobId(a, raw)
<1>0. Len(a) \in Nat /\ Len(raw) \in Nat
  OBVIOUS
<1>1. /\ id \in Seq(Token)
      /\ Len(id) = Len(a) + 1 + Len(raw)
      /\ \A i \in 1..Len(a) : id[i] = a[i]
      /\ id[Len(a) + 1] = Sep
      /\ \A i \in 1..Len(raw) : id[Len(a) + 1 + i] = raw[i]
  BY MakeProps
<1>2. ParseJobId(a, id) = SubSeq(id, Len(a) + 2, Len(id))
  <2>1. Len(Prefix(a)) + 1 = Len(a) + 2
    BY <1>0, PrefixProps
  <2> QED
    BY <2>1, Zenon DEF ParseJobId
<1> HIDE DEF id
<1>3. Belongs(a, id)
  BY <1>0, <1>1, ContinuesProps, SMTT(30) DEF Belongs
<1>4. SubSeq(id, Len(a) + 2, Len(id)) = raw
  <2>1. \A i \in (Len(a) + 2)..Len(id) : id[i] \in Token
    BY <1>0, <1>1, ElementOfSeq
  <2> DEFINE rest == SubSeq(id, Len(a) + 2, Len(id))
  <2>2. /\ rest \in Seq(Token)
        /\ Len(rest) = IF Len(a) + 2 <= Len(id) THEN Len(id) - (Len(a) + 2) + 1 ELSE 0
        /\ \A i \in 1..(Len(id) - (Len(a) + 2) + 1) : rest[i] = id[(Len(a) + 2) + i - 1]
    BY <1>0, <1>1, <2>1, SubSeqProperties
  <2> HIDE DEF rest
  <2>3. Len(rest) = Len(raw)
    BY <1>0, <1>1, <2>2
  <2>4. ASSUME NEW i \in 1..Len(raw) PROVE rest[i] = raw[i]
    <3>1. i \in 1..(Len(id) - (Len(a) + 2) + 1) /\ (Len(a) + 2) + i - 1 = Len(a) + 1 + i
      BY <1>0, <1>1
    <3> QED
      BY <1>1, <2>2, <3>1
  <2>5. rest = raw
    BY <2>2, <2>3, <2>4, SeqEqual
  <2> QED
    BY <2>5 DEF rest
<1> QED
  BY <1>2, <1>3, <1>4 DEF id

\* An id made under one identifier is refused under another one, unless one of
\* the two identifiers continues the other after a separator.
THEOREM ForeignIdRefused ==
    ASSUME NEW a \in Seq(Token), NEW b \in Seq(Token), NEW raw \in Seq(Token),
           a # b, ~Nested(a, b), ~Nested(b, a)
    PROVE  ~Belongs(b, MakeJobId(a, raw))
<1> SUFFICES ASSUME Belongs(b, MakeJobId(a, raw)) PROVE FALSE
  OBVIOUS
<1> DEFINE id == MakeJobId(a, raw)
<1>0. Len(a) \in Nat /\ Len(b) \in Nat
  OBVIOUS
<1>1. /\ id \in Seq(Token)
      /\ \A i \in 1..Len(a) : id[i] = a[i]
      /\ id[Len(a) + 1] = Sep
  BY MakeProps
<1> HIDE DEF id
<1>2. /\ \A i \in 1..Len(b) : id[i] = b[i]
      /\ id[Len(b) + 1] = Sep
  BY <1>1, ContinuesProps DEF Belongs, id
<1>3. CASE Len(a) = Len(b)
  BY <1>1, <1>2, <1>3, SeqEqual
<1>4. CASE Len(a) < Len(b)
  <2>1. /\ \A i \in 1..Len(a) : b[i] = a[i]
        /\ b[Len(a) + 1] = Sep
    BY <1>0, <1>1, <1>2, <1>4, SMTT(30)
  <2> QED
    BY <1>4, <2>1, ContinuesProps, SMTT(30) DEF Nested
<1>5. CASE Len(b) < Len(a)
  <2>1. /\ \A i \in 1..Len(b) : a[i] = b[i]
        /\ a[Len(b) + 1] = Sep
    <3>1. 1..Len(b) \subseteq 1..Len(a) /\ Len(b) + 1 \in 1..Len(a)
      BY <1>0, <1>5
    <3> QED
      BY <1>1, <1>2, <3>1, Zenon
  <2> QED
    BY <1>5, <2>1, ContinuesProps DEF Nested
<1> QED
  BY <1>0, <1>3, <1>4, <1>5

-----------------------------------------------------------------------------
(* The inductive invariant.                                                 *)

\* An operation was asked for an id only after submit_job() made it.
LastJobKnown == last.job # NoRaw => last.job \in Known

\* A documented status that was reported as final is the job's, and it has ended.
FinalHasEnded ==
    \A r \in Raw : final[r] \in Documented =>
        /\ r \in Known
        /\ Phase(job[r].status) = 3
        /\ job[r].status = final[r]

JobInv == BackendTypeOK /\ LastJobKnown /\ IdsGuardJobs

FinalInv == JobInv /\ FinalHasEnded

-----------------------------------------------------------------------------
(* Lemmas.                                                                  *)

\* What is left of an id is a name again.
LEMMA ParseTyped ==
    ASSUME NEW a \in Seq(Token), NEW id \in Seq(Token)
    PROVE  ParseJobId(a, id) \in Seq(Token)
<1> DEFINE m == Len(Prefix(a)) + 1
<1>1. m \in Nat /\ m >= 1 /\ Len(id) \in Nat
  BY PrefixProps
<1>2. \A i \in m..Len(id) : id[i] \in Token
  BY <1>1, ElementOfSeq
<1>3. SubSeq(id, m, Len(id)) \in Seq(Token)
  BY <1>1, <1>2, SubSeqProperties
<1> QED
  BY <1>3, Zenon DEF ParseJobId

\* A known job is a record, and its id a name.
LEMMA KnownTyped ==
    ASSUME BackendTypeOK, NEW r \in Known
    PROVE  /\ r \in Raw /\ r \in Seq(Token)
           /\ job[r] \in Job
           /\ job[r].device \in Device
           /\ JobId(r) \in Seq(Token)
<1>1. r \in Raw /\ r \in Seq(Token) /\ job[r] \in Job
  BY NameAssumption DEF Known, BackendTypeOK
<1>2. job[r].device \in Device
  BY <1>1 DEF Job
<1>3. Identifier[job[r].device] \in Seq(Token)
  BY <1>2, NameAssumption
<1>4. MakeJobId(Identifier[job[r].device], r) \in Seq(Token)
  BY <1>1, <1>3, MakeProps
<1> QED
  BY <1>1, <1>2, <1>4 DEF JobId

\* get_job_status() reports one of the five statuses, whatever the provider says.
LEMMA NormalizedTyped ==
    ASSUME NEW s
    PROVE  Normalized(s) \in JobStatus
  BY DEF Normalized, IBM_STATUS_MAP, JobStatus

\* What OnJob leaves in last.
LEMMA OnJobProps ==
    ASSUME BackendTypeOK, NEW op \in JobOps, NEW r \in Known, NEW d \in Device,
           NEW answer \in Answers, OnJob(op, r, d, answer)
    PROVE  /\ session' = d
           /\ last' \in Operation
           /\ last'.op = op /\ last'.job = r /\ last'.by = d /\ last'.answer = answer
           /\ last'.asked = IF answer = "foreign" THEN NoRaw
                            ELSE ParseJobId(Identifier[d], JobId(r))
           /\ answer = "foreign" <=> ~Belongs(Identifier[d], JobId(r))
<1> DEFINE rest == ParseJobId(Identifier[d], JobId(r))
<1>1. rest \in Seq(Token)
  BY KnownTyped, ParseTyped, NameAssumption
<1>2. r \in Raw
  BY KnownTyped
<1>3. session' = d
  BY DEF OnJob, EnsureConnected
<1>4. /\ last' = [op |-> op, answer |-> answer, by |-> d, job |-> r,
                  asked |-> IF answer = "foreign" THEN NoRaw ELSE rest]
      /\ (answer = "foreign") = ~Belongs(Identifier[d], JobId(r))
  BY Zenon DEF OnJob
<1> HIDE DEF rest
<1>5. last' \in Operation
  BY <1>1, <1>2, <1>4 DEF Operation, JobOps, Ops
<1>6. (answer = "foreign") <=> ~Belongs(Identifier[d], JobId(r))
  BY <1>4, Zenon
<1>7. /\ last'.op = op /\ last'.job = r /\ last'.by = d /\ last'.answer = answer
      /\ last'.asked = IF answer = "foreign" THEN NoRaw ELSE rest
  BY <1>4
<1> QED
  BY <1>3, <1>5, <1>6, <1>7 DEF rest

\* _parse_job_id lets through exactly the ids of the device, and cuts them right.
LEMMA GuardProps ==
    ASSUME BackendTypeOK, Unnested, NEW r \in Known, NEW d \in Device
    PROVE  /\ Belongs(Identifier[d], JobId(r)) <=> d = job[r].device
           /\ d = job[r].device => ParseJobId(Identifier[d], JobId(r)) = r
<1> DEFINE e == job[r].device
<1>1. e \in Device /\ r \in Seq(Token)
  BY KnownTyped
<1> HIDE DEF e
<1>2. Identifier[d] \in Seq(Token) /\ Identifier[e] \in Seq(Token)
  BY <1>1, NameAssumption
<1>3. JobId(r) = MakeJobId(Identifier[e], r)
  BY DEF JobId, e
<1>4. CASE d = e
  <2>1. /\ Belongs(Identifier[e], MakeJobId(Identifier[e], r))
        /\ ParseJobId(Identifier[e], MakeJobId(Identifier[e], r)) = r
    BY <1>1, <1>2, RoundTrip
  <2> QED
    BY <1>3, <1>4, <2>1 DEF e
<1>5. CASE d # e
  <2>1. Identifier[d] # Identifier[e]
    BY <1>1, <1>5, NameAssumption
  <2>2. ~Nested(Identifier[d], Identifier[e]) /\ ~Nested(Identifier[e], Identifier[d])
    BY <1>1, <1>5 DEF Unnested
  <2>3. ~Belongs(Identifier[d], MakeJobId(Identifier[e], r))
    BY <1>1, <1>2, <2>1, <2>2, ForeignIdRefused
  <2> QED
    BY <1>3, <1>5, <2>3 DEF e
<1> QED
  BY <1>4, <1>5

\* A documented status is final exactly when the job has ended.
LEMMA FinalPhase ==
    ASSUME NEW s \in Documented
    PROVE  Normalized(s) \in FinalStatus <=> Phase(s) = 3
<1>1. /\ s \in {"QUEUED", "VALIDATING", "RUNNING", "DONE", "CANCELLED", "ERROR"}
      /\ Normalized(s) = IBM_STATUS_MAP[s]
  BY DEF Documented, Normalized, IBM_STATUS_MAP
<1>2. CASE s \in {"QUEUED", "VALIDATING", "RUNNING"}
  <2>1. IBM_STATUS_MAP[s] \in {"queued", "running"}
    BY <1>2 DEF IBM_STATUS_MAP
  <2>2. Phase(s) # 3
    BY <1>2 DEF Phase
  <2> QED
    BY <1>1, <2>1, <2>2 DEF FinalStatus
<1>3. CASE s \in {"DONE", "CANCELLED", "ERROR"}
  <2>1. IBM_STATUS_MAP[s] \in FinalStatus
    BY <1>3 DEF IBM_STATUS_MAP, FinalStatus
  <2>2. Phase(s) = 3
    BY <1>3 DEF Phase
  <2> QED
    BY <1>1, <2>1, <2>2
<1> QED
  BY <1>1, <1>2, <1>3

-----------------------------------------------------------------------------
(* Types.                                                                   *)

\* The record of an operation that asked for no id.
LEMMA DidTyped ==
    ASSUME NEW op \in Ops, NEW answer \in Answers, NEW d \in Device \cup {NoDevice}
    PROVE  /\ Did(op, answer, d) \in Operation
           /\ Did(op, answer, d).op = op
           /\ Did(op, answer, d).job = NoRaw
  BY DEF Did, Operation

\* The operations and answers the actions use are the declared ones.
LEMMA StringsTyped ==
    /\ {"none", "connect", "disconnect", "read", "submit_job"} \subseteq Ops
    /\ JobOps \subseteq Ops
    /\ {"ok", "connectionError", "jobError", "foreign"} \cup JobStatus \subseteq Answers
    /\ {"none", "connect", "disconnect", "read", "submit_job"} \cap JobOps = {}
  BY DEF Ops, JobOps, Answers

\* What an operation on the id of r on device d may find, and what it leaves.
JobStep(r, d, op, answer) ==
    /\ r \in Known
    /\ d \in Device
    /\ op \in JobOps
    /\ answer \in Answers
    /\ OnJob(op, r, d, answer)

\* Every step of Delegated on a job is an OnJob step.
LEMMA GetJobStatusStep ==
    ASSUME BackendTypeOK, NEW r \in Known, NEW d \in Device, GetJobStatus(r, d)
    PROVE  /\ UNCHANGED <<credentials, leastBusy, job>>
           /\ final' = IF last'.answer \in FinalStatus
                       THEN [final EXCEPT ![r] = Found(r, d).status] ELSE final
           /\ \/ /\ Found(r, d) # NoJob
                 /\ JobStep(r, d, "get_job_status", Normalized(Found(r, d).status))
              \/ JobStep(r, d, "get_job_status", "jobError")
              \/ JobStep(r, d, "get_job_status", "foreign")
  BY NormalizedTyped, StringsTyped DEF GetJobStatus, JobStep, JobOps, Answers

\* A final answer is the status of a job the provider has found.
LEMMA FoundWhenFinal ==
    ASSUME BackendTypeOK, NEW r \in Known, NEW d \in Device, GetJobStatus(r, d),
           last'.answer \in FinalStatus
    PROVE  /\ Found(r, d) \in Job
           /\ last'.answer = Normalized(Found(r, d).status)
           /\ Belongs(Identifier[d], JobId(r))
<1>1. ASSUME NEW answer \in Answers, JobStep(r, d, "get_job_status", answer)
      PROVE  /\ last'.answer = answer
             /\ answer = "foreign" <=> ~Belongs(Identifier[d], JobId(r))
  BY <1>1, OnJobProps DEF JobStep
<1>2. "jobError" \notin FinalStatus /\ "foreign" \notin FinalStatus
  BY DEF FinalStatus
<1>3. "jobError" \in Answers /\ "foreign" \in Answers
  BY StringsTyped
<1>4. Normalized(Found(r, d).status) \in Answers
  BY NormalizedTyped, StringsTyped
<1>5. /\ Found(r, d) # NoJob
      /\ JobStep(r, d, "get_job_status", Normalized(Found(r, d).status))
      /\ last'.answer = Normalized(Found(r, d).status)
      /\ last'.answer # "foreign"
  BY <1>1, <1>2, <1>3, <1>4, GetJobStatusStep
<1>6. Found(r, d) \in Job
  BY <1>5, KnownTyped DEF Found
<1>7. Belongs(Identifier[d], JobId(r))
  BY <1>1, <1>4, <1>5
<1> QED
  BY <1>5, <1>6, <1>7

\* get_result() changes nothing but the session and its own answer.
LEMMA GetResultStep ==
    ASSUME BackendTypeOK, NEW r \in Known, NEW d \in Device, GetResult(r, d)
    PROVE  /\ UNCHANGED <<credentials, leastBusy, job, final>>
           /\ \E answer \in Answers : JobStep(r, d, "get_result", answer)
  BY DEF GetResult, JobStep, JobOps, Answers

\* cancel_job() cancels at most the job it asks the provider about, which has not ended.
LEMMA CancelJobStep ==
    ASSUME BackendTypeOK, NEW r \in Known, NEW d \in Device, CancelJob(r, d)
    PROVE  /\ UNCHANGED <<credentials, leastBusy, final>>
           /\ \/ /\ JobStep(r, d, "cancel_job", "ok")
                 /\ last'.asked \in Known
                 /\ Phase(job[last'.asked].status) < 3
                 /\ \/ UNCHANGED job
                    \/ job' = WithStatus(last'.asked, "CANCELLED")
              \/ \E answer \in Answers :
                    JobStep(r, d, "cancel_job", answer) /\ UNCHANGED job
<1>1. CASE /\ OnJob("cancel_job", r, d, "ok")
           /\ Found(r, d) # NoJob
           /\ Phase(Found(r, d).status) < 3
           /\ job' \in {job, WithStatus(last'.asked, "CANCELLED")}
  <2>1. JobStep(r, d, "cancel_job", "ok")
    BY <1>1 DEF JobStep, JobOps, Answers
  <2>2. last'.asked = ParseJobId(Identifier[d], JobId(r))
    BY <1>1, OnJobProps DEF JobOps, Answers
  <2>3. last'.asked \in Known /\ Found(r, d) = job[last'.asked]
    BY <1>1, <2>2 DEF Found
  <2> QED
    BY <1>1, <2>1, <2>3 DEF CancelJob
<1>2. CASE OnJob("cancel_job", r, d, "jobError") /\ UNCHANGED job
  BY <1>2 DEF JobStep, JobOps, Answers, CancelJob
<1>3. CASE OnJob("cancel_job", r, d, "foreign") /\ UNCHANGED job
  BY <1>3 DEF JobStep, JobOps, Answers, CancelJob
<1> QED
  BY <1>1, <1>2, <1>3 DEF CancelJob

\* Moving a known job to a status of the provider's keeps everything else.
LEMMA WithStatusProps ==
    ASSUME BackendTypeOK, NEW r \in Known, NEW s \in ProviderStatus
    PROVE  /\ WithStatus(r, s) \in [Raw -> Job \cup {NoJob}]
           /\ WithStatus(r, s)[r] = [device |-> job[r].device, status |-> s]
           /\ \A q \in Raw \ {r} : WithStatus(r, s)[q] = job[q]
           /\ \A q \in Raw : WithStatus(r, s)[q].device = job[q].device
           /\ \A q \in Raw : WithStatus(r, s)[q] = NoJob <=> job[q] = NoJob
<1>1. r \in Raw /\ job[r] # NoJob /\ job[r].device \in Device
  BY KnownTyped DEF Known
<1> DEFINE moved == [device |-> job[r].device, status |-> s]
<1>2. moved \in Job /\ moved.device = job[r].device
  BY <1>1 DEF Job
<1>3. moved # NoJob
  BY <1>1, NameAssumption DEF NoJob
<1> HIDE DEF moved
<1>4. WithStatus(r, s) = [job EXCEPT ![r] = moved]
  BY DEF WithStatus, moved
<1> QED
  BY <1>1, <1>2, <1>3, <1>4 DEF BackendTypeOK, moved

\* The same, as a step of the provider.
LEMMA MovesKeep ==
    ASSUME BackendTypeOK, NEW r \in Known, NEW s \in ProviderStatus, job' = WithStatus(r, s)
    PROVE  /\ Known \subseteq Known'
           /\ \A q \in Raw : job'[q].device = job[q].device
           /\ \A q \in Raw \ {r} : job'[q] = job[q]
<1>0. \A q \in Raw \ {r} : WithStatus(r, s)[q] = job[q]
  BY WithStatusProps, ZenonT(60)
<1>1. \A q \in Raw : WithStatus(r, s)[q].device = job[q].device
  BY WithStatusProps
<1>2. \A q \in Raw : WithStatus(r, s)[q] = NoJob <=> job[q] = NoJob
  BY WithStatusProps
<1>3. \A q \in Raw : job'[q] = NoJob <=> job[q] = NoJob
  BY <1>2
<1>4. Known \subseteq Known'
  BY <1>3, Zenon DEF Known
<1> QED
  BY <1>0, <1>1, <1>4

\* A job the provider queues is known from then on, and the others stay.
LEMMA QueuedProps ==
    ASSUME BackendTypeOK, NEW r \in Raw \ Known, NEW d \in Device, NEW s \in ProviderStatus,
           job' = [job EXCEPT ![r] = [device |-> d, status |-> s]]
    PROVE  /\ job' \in [Raw -> Job \cup {NoJob}]
           /\ r \in Known'
           /\ \A q \in Known : q \in Known' /\ job'[q] = job[q]
<1>1. [device |-> d, status |-> s] \in Job /\ [device |-> d, status |-> s] # NoJob
  BY NameAssumption DEF Job, NoJob
<1> QED
  BY <1>1 DEF BackendTypeOK, Known

\* The initial state has the right shape.
LEMMA TypeInit == BackendInit => BackendTypeOK
<1> SUFFICES ASSUME BackendInit PROVE BackendTypeOK
  OBVIOUS
<1>1. last \in Operation
  BY DidTyped, StringsTyped DEF BackendInit
<1> QED
  BY <1>1 DEF BackendInit, BackendTypeOK

\* An operation that gets past the auto-connect has a session.
LEMMA SessionTyped ==
    ASSUME BackendTypeOK, NEW d \in Device, EnsureConnected(d)
    PROVE  session' \in Device
  BY DEF EnsureConnected

\* Every operation and every move of the provider keeps the types.
LEMMA TypeStep == BackendTypeOK /\ [BackendNext]_backendVars => BackendTypeOK'
<1> SUFFICES ASSUME BackendTypeOK, [BackendNext]_backendVars PROVE BackendTypeOK'
  OBVIOUS
<1> USE DidTyped, StringsTyped
<1>1. ASSUME NEW n \in Device \cup {Default}, Connect(n) PROVE BackendTypeOK'
  <2>1. session' \in Device \cup {NoDevice}
    BY <1>1 DEF Connect, BackendTypeOK
  <2>2. last' \in Operation
    <3>1. ASSUME NEW answer \in {"ok", "connectionError"}, NEW d \in Device \cup {NoDevice}
          PROVE  Did("connect", answer, d) \in Operation
      BY Zenon
    <3>2. \/ last' = Did("connect", "ok", session')
          \/ last' = Did("connect", "connectionError", NoDevice)
      BY <1>1 DEF Connect
    <3> QED
      BY <2>1, <3>1, <3>2, ZenonT(60)
  <2> QED
    BY <1>1, <2>1, <2>2, SMTT(30) DEF Connect, BackendTypeOK
<1>2. CASE Disconnect
  BY <1>2 DEF Disconnect, BackendTypeOK
<1>3. ASSUME NEW d \in Device, ReadLive(d) \/ ReadFails(d) PROVE BackendTypeOK'
  <2>1. session' \in Device
    BY <1>3, SessionTyped DEF ReadLive, ReadFails
  <2>2. last' \in Operation
    <3>1. Did("read", "ok", d) \in Operation /\ Did("read", "jobError", d) \in Operation
      BY Zenon
    <3> QED
      BY <1>3, <3>1, Zenon DEF ReadLive, ReadFails
  <2> QED
    BY <1>3, <2>1, <2>2 DEF ReadLive, ReadFails, BackendTypeOK
<1>4. ASSUME NEW d \in Device, SubmitJob(d) PROVE BackendTypeOK'
  <2>1. session' \in Device /\ UNCHANGED <<credentials, leastBusy, final>>
    BY <1>4, SessionTyped DEF SubmitJob
  <2>2. job' \in [Raw -> Job \cup {NoJob}]
    BY <1>4, QueuedProps DEF SubmitJob, BackendTypeOK
  <2>3. ASSUME NEW r \in Raw PROVE [Did("submit_job", "ok", d) EXCEPT !.job = r] \in Operation
    BY DEF Did, Operation
  <2>4. last' \in Operation
    BY <1>4, <2>3 DEF SubmitJob
  <2> QED
    BY <2>1, <2>2, <2>4 DEF BackendTypeOK
<1>5. ASSUME NEW op, NEW r, NEW d, NEW answer, JobStep(r, d, op, answer)
      PROVE  session' \in Device /\ last' \in Operation
  BY <1>5, OnJobProps DEF JobStep
<1>6. ASSUME NEW r \in Known, NEW d \in Device, GetJobStatus(r, d) PROVE BackendTypeOK'
  <2>1. session' \in Device /\ last' \in Operation
    BY <1>5, <1>6, GetJobStatusStep
  <2>2. r \in Raw
    BY KnownTyped
  <2>3. final' \in [Raw -> ProviderStatus \cup {"none"}]
    <3>1. CASE last'.answer \in FinalStatus
      <4>1. Found(r, d).status \in ProviderStatus
        BY <1>6, <3>1, FoundWhenFinal DEF Job
      <4> QED
        BY <1>6, <2>2, <3>1, <4>1, GetJobStatusStep DEF BackendTypeOK
    <3> QED
      BY <1>6, <3>1, GetJobStatusStep DEF BackendTypeOK
  <2> QED
    BY <1>6, <2>1, <2>3, GetJobStatusStep DEF BackendTypeOK
<1>7. ASSUME NEW r \in Known, NEW d \in Device, GetResult(r, d) PROVE BackendTypeOK'
  <2>1. session' \in Device /\ last' \in Operation
    BY <1>5, <1>7, GetResultStep
  <2> QED
    BY <1>7, <2>1, GetResultStep DEF BackendTypeOK
<1>8. ASSUME NEW r \in Known, NEW d \in Device, CancelJob(r, d) PROVE BackendTypeOK'
  <2>1. session' \in Device /\ last' \in Operation
    BY <1>5, <1>8, CancelJobStep
  <2>2. job' \in [Raw -> Job \cup {NoJob}]
    <3>1. "CANCELLED" \in ProviderStatus
      BY NameAssumption
    <3>2. CASE /\ last'.asked \in Known
               /\ job' = WithStatus(last'.asked, "CANCELLED")
      BY <3>1, <3>2, WithStatusProps
    <3>3. CASE UNCHANGED job
      BY <3>3 DEF BackendTypeOK
    <3> QED
      BY <1>8, <3>2, <3>3, CancelJobStep
  <2> QED
    BY <1>8, <2>1, <2>2, CancelJobStep DEF BackendTypeOK
<1>9. ASSUME NEW op \in Ops \ {"none", "connect", "disconnect"}, AutoConnectFails(op)
      PROVE  BackendTypeOK'
  BY <1>9 DEF AutoConnectFails, BackendTypeOK
<1>10. ASSUME NEW r \in Raw, JobMoves(r) PROVE BackendTypeOK'
  <2>1. r \in Known
    BY <1>10 DEF JobMoves, Known
  <2>2. job' \in [Raw -> Job \cup {NoJob}]
    <3>1. PICK s \in ProviderStatus : job' = WithStatus(r, s)
      BY <1>10 DEF JobMoves
    <3> QED
      BY <2>1, <3>1, WithStatusProps
  <2> QED
    BY <1>10, <2>2 DEF JobMoves, BackendTypeOK
<1>11. CASE OtherIsLeastBusy
  BY <1>11 DEF OtherIsLeastBusy, BackendTypeOK
<1>12. CASE UNCHANGED backendVars
  BY <1>12 DEF backendVars, BackendTypeOK
<1> QED
  BY <1>1, <1>2, <1>3, <1>4, <1>6, <1>7, <1>8, <1>9, <1>10, <1>11, <1>12
  DEF BackendNext, Delegated, Provider

\* Whatever the provider does, the backend's state keeps its shape: a session is
\* one of the account's devices, and an answer one of the named ones.
THEOREM BackendTypeCorrect == BackendSpec => []BackendTypeOK
  BY TypeInit, TypeStep, PTL DEF BackendSpec

-----------------------------------------------------------------------------
(* Sessions.                                                                *)

\* A step that takes a live session away, or changes it, is connect() or
\* disconnect().
LEMMA SessionStep ==
    ASSUME [BackendNext]_backendVars
    PROVE  \/ (session # NoDevice /\ session' # session)
                => last'.op \in {"connect", "disconnect"}
           \/ UNCHANGED backendVars
<1> DEFINE Kept == (session # NoDevice /\ session' # session)
                      => last'.op \in {"connect", "disconnect"}
<1>1. ASSUME NEW d, EnsureConnected(d) PROVE Kept
  BY <1>1 DEF EnsureConnected
<1>2. ASSUME NEW n \in Device \cup {Default}, Connect(n) PROVE Kept
  BY <1>2 DEF Connect, Did
<1>3. CASE Disconnect
  BY <1>3 DEF Disconnect, Did
<1>4. ASSUME NEW d \in Device, ReadLive(d) \/ ReadFails(d) \/ SubmitJob(d) PROVE Kept
  BY <1>1, <1>4 DEF ReadLive, ReadFails, SubmitJob
<1>5. ASSUME NEW r \in Known, NEW d \in Device,
             GetJobStatus(r, d) \/ GetResult(r, d) \/ CancelJob(r, d)
      PROVE  Kept
  BY <1>1, <1>5 DEF GetJobStatus, GetResult, CancelJob, OnJob
<1>6. ASSUME NEW op, AutoConnectFails(op) PROVE Kept
  BY <1>6 DEF AutoConnectFails
<1>7. CASE Provider
  BY <1>7 DEF Provider, JobMoves, OtherIsLeastBusy
<1> QED
  BY <1>2, <1>3, <1>4, <1>5, <1>6, <1>7 DEF BackendNext, Delegated

\* Only connect() and disconnect() replace a live session.
THEOREM SessionKept == BackendSpec => SessionIsKept
  BY SessionStep, PTL DEF BackendSpec, SessionIsKept

-----------------------------------------------------------------------------
(* Ids.                                                                     *)

\* An operation on an id leaves the guard right in last.
LEMMA JobStepGuards ==
    ASSUME BackendTypeOK, Unnested, NEW r, NEW d, NEW op, NEW answer,
           JobStep(r, d, op, answer),
           Known \subseteq Known', \A q \in Raw : job'[q].device = job[q].device
    PROVE  LastJobKnown' /\ IdsGuardJobs'
<1>1. r \in Known /\ r \in Raw /\ d \in Device
  BY KnownTyped DEF JobStep
<1>2. /\ last'.job = r /\ last'.by = d /\ last'.answer = answer
      /\ last'.asked = IF answer = "foreign" THEN NoRaw
                       ELSE ParseJobId(Identifier[d], JobId(r))
      /\ answer = "foreign" <=> ~Belongs(Identifier[d], JobId(r))
  BY OnJobProps DEF JobStep
<1>3. /\ Belongs(Identifier[d], JobId(r)) <=> d = job[r].device
      /\ d = job[r].device => ParseJobId(Identifier[d], JobId(r)) = r
  BY <1>1, GuardProps
<1>4. job'[r].device = job[r].device /\ r \in Known'
  BY <1>1
<1> QED
  BY <1>2, <1>3, <1>4 DEF LastJobKnown, IdsGuardJobs

\* A step that asks nothing about a job has nothing to guard.
LEMMA OtherStepGuards ==
    ASSUME last'.op \notin JobOps, last'.job = NoRaw \/ last'.job \in Known'
    PROVE  LastJobKnown' /\ IdsGuardJobs'
  BY DEF LastJobKnown, IdsGuardJobs

\* A step that leaves last and the jobs' devices alone keeps the guard.
LEMMA SilentStepGuards ==
    ASSUME LastJobKnown, IdsGuardJobs, BackendTypeOK, last' = last,
           Known \subseteq Known', \A q \in Raw : job'[q].device = job[q].device
    PROVE  LastJobKnown' /\ IdsGuardJobs'
<1>1. last.job # NoRaw => last.job \in Raw
  BY DEF LastJobKnown, Known
<1> QED
  BY <1>1 DEF LastJobKnown, IdsGuardJobs

\* Every step keeps the guard on job ids right.
LEMMA GuardStep ==
    ASSUME Unnested, JobInv, [BackendNext]_backendVars
    PROVE  LastJobKnown' /\ IdsGuardJobs'
<1> USE DidTyped, StringsTyped
<1>0. BackendTypeOK /\ LastJobKnown /\ IdsGuardJobs
  BY DEF JobInv
<1> DEFINE Goal == LastJobKnown' /\ IdsGuardJobs'
<1>1. ASSUME NEW n \in Device \cup {Default}, Connect(n) PROVE Goal
  <2>1. session' \in Device \cup {NoDevice}
    BY <1>0, <1>1 DEF Connect, BackendTypeOK
  <2> QED
    BY <1>1, <2>1, OtherStepGuards DEF Connect
<1>2. CASE Disconnect
  BY <1>2, OtherStepGuards DEF Disconnect
<1>3. ASSUME NEW d \in Device, ReadLive(d) \/ ReadFails(d) PROVE Goal
  <2>1. last'.op = "read" /\ last'.job = NoRaw
    BY <1>3 DEF ReadLive, ReadFails, Did
  <2> QED
    BY <2>1, OtherStepGuards DEF JobOps
<1>4. ASSUME NEW d \in Device, SubmitJob(d) PROVE Goal
  <2>1. CASE last' = Did("submit_job", "jobError", d)
    BY <2>1, OtherStepGuards
  <2>2. CASE \E r \in Raw \ Known, s \in ProviderStatus :
                /\ job' = [job EXCEPT ![r] = [device |-> d, status |-> s]]
                /\ last' = [Did("submit_job", "ok", d) EXCEPT !.job = r]
    <3>1. PICK r \in Raw \ Known, s \in ProviderStatus :
                /\ job' = [job EXCEPT ![r] = [device |-> d, status |-> s]]
                /\ last' = [Did("submit_job", "ok", d) EXCEPT !.job = r]
      BY <2>2
    <3>2. r \in Known'
      BY <1>0, <3>1, QueuedProps
    <3>3. last'.op = "submit_job" /\ last'.job = r
      BY <3>1 DEF Did
    <3> QED
      BY <3>2, <3>3, OtherStepGuards
  <2> QED
    BY <1>4, <2>1, <2>2 DEF SubmitJob
<1>5. ASSUME NEW r, NEW d, NEW op, NEW answer, JobStep(r, d, op, answer), job' = job
      PROVE  Goal
  <2>1. Known \subseteq Known' /\ \A q \in Raw : job'[q].device = job[q].device
    BY <1>5 DEF Known
  <2> QED
    BY <1>0, <1>5, <2>1, JobStepGuards
<1>6. ASSUME NEW r \in Known, NEW d \in Device, GetJobStatus(r, d) PROVE Goal
  BY <1>0, <1>5, <1>6, GetJobStatusStep
<1>7. ASSUME NEW r \in Known, NEW d \in Device, GetResult(r, d) PROVE Goal
  BY <1>0, <1>5, <1>7, GetResultStep
<1>8. ASSUME NEW q \in Known, NEW s \in ProviderStatus, job' = WithStatus(q, s)
      PROVE  Known \subseteq Known' /\ \A p \in Raw : job'[p].device = job[p].device
  BY <1>0, <1>8, MovesKeep
<1>9. ASSUME NEW r \in Known, NEW d \in Device, CancelJob(r, d) PROVE Goal
  <2>1. CASE /\ JobStep(r, d, "cancel_job", "ok")
             /\ last'.asked \in Known
             /\ job' = WithStatus(last'.asked, "CANCELLED")
    <3>1. "CANCELLED" \in ProviderStatus
      BY NameAssumption
    <3>2. Known \subseteq Known' /\ \A p \in Raw : job'[p].device = job[p].device
      BY <1>8, <2>1, <3>1
    <3> QED
      BY <1>0, <2>1, <3>2, JobStepGuards
  <2> QED
    BY <1>0, <1>5, <1>9, <2>1, CancelJobStep
<1>10. ASSUME NEW op \in Ops \ {"none", "connect", "disconnect"}, AutoConnectFails(op)
       PROVE  Goal
  <2>1. last'.job = NoRaw /\ last'.by = NoDevice /\ last'.op = op
    BY <1>10 DEF AutoConnectFails, Did
  <2> QED
    BY <2>1 DEF LastJobKnown, IdsGuardJobs
<1>11. ASSUME NEW r \in Raw, JobMoves(r) PROVE Goal
  <2>1. r \in Known
    BY <1>11 DEF JobMoves, Known
  <2>2. PICK s \in ProviderStatus : job' = WithStatus(r, s)
    BY <1>11 DEF JobMoves
  <2>3. last' = last
    BY <1>11 DEF JobMoves
  <2> QED
    BY <1>0, <1>8, <2>1, <2>2, <2>3, SilentStepGuards
<1>12. CASE OtherIsLeastBusy \/ UNCHANGED backendVars
  <2>1. job' = job /\ last' = last
    BY <1>12 DEF OtherIsLeastBusy, backendVars
  <2> QED
    BY <1>0, <2>1 DEF LastJobKnown, IdsGuardJobs, Known
<1> QED
  BY <1>1, <1>2, <1>3, <1>4, <1>6, <1>7, <1>9, <1>10, <1>11, <1>12
  DEF BackendNext, Delegated, Provider

\* No operation has asked for an id at first.
LEMMA JobInvInit == BackendInit => JobInv
<1> SUFFICES ASSUME BackendInit PROVE JobInv
  OBVIOUS
<1>1. last.op = "none" /\ last.job = NoRaw
  BY DEF BackendInit, Did
<1> QED
  BY <1>1, TypeInit DEF JobInv, LastJobKnown, IdsGuardJobs, JobOps

\* Every step keeps what is known of jobs and ids.
LEMMA JobInvStep ==
    ASSUME Unnested
    PROVE  JobInv /\ [BackendNext]_backendVars => JobInv'
  BY TypeStep, GuardStep DEF JobInv

\* When no identifier continues another one, an operation on a job is refused
\* exactly when the id was made on another device, and the provider is otherwise
\* asked about that very job.
THEOREM IdsGuarded ==
    ASSUME Unnested
    PROVE  BackendSpec => []IdsGuardJobs
<1>1. JobInv => IdsGuardJobs
  BY DEF JobInv
<1> QED
  BY <1>1, JobInvInit, JobInvStep, PTL DEF BackendSpec

-----------------------------------------------------------------------------
(* Statuses.                                                                *)

\* There are four phases.
LEMMA PhaseTyped == ASSUME NEW s PROVE Phase(s) \in 0..3
  BY DEF Phase

\* A job that has ended does not change any more.
LEMMA EndedJobStays ==
    ASSUME BackendTypeOK, [BackendNext]_backendVars,
           NEW q \in Known, Phase(job[q].status) = 3
    PROVE  job'[q] = job[q]
<1>0. q \in Raw
  BY DEF Known
<1>1. ASSUME NEW r \in Known, Phase(job[r].status) # 3, NEW s \in ProviderStatus,
             job' = WithStatus(r, s)
      PROVE  job'[q] = job[q]
  BY <1>0, <1>1, MovesKeep
<1>2. ASSUME NEW d \in Device, SubmitJob(d) PROVE job'[q] = job[q]
  <2>1. CASE job' = job
    BY <2>1
  <2>2. CASE \E r \in Raw \ Known, s \in ProviderStatus :
                job' = [job EXCEPT ![r] = [device |-> d, status |-> s]]
    BY <1>0, <2>2, QueuedProps
  <2> QED
    BY <1>2, <2>1, <2>2 DEF SubmitJob
<1>3. ASSUME NEW r \in Known, NEW d \in Device, CancelJob(r, d) PROVE job'[q] = job[q]
  <2>1. CASE /\ last'.asked \in Known
             /\ Phase(job[last'.asked].status) < 3
             /\ job' = WithStatus(last'.asked, "CANCELLED")
    <3>1. "CANCELLED" \in ProviderStatus
      BY NameAssumption
    <3>2. Phase(job[last'.asked].status) # 3
      BY <2>1
    <3> QED
      BY <1>1, <2>1, <3>1, <3>2
  <2>2. CASE job' = job
    BY <2>2
  <2> QED
    BY <1>0, <1>3, <2>1, <2>2, CancelJobStep
<1>4. ASSUME NEW r \in Raw, JobMoves(r) PROVE job'[q] = job[q]
  <2>1. r \in Known
    BY <1>4 DEF JobMoves, Known
  <2>2. PICK s \in ProviderStatus :
            Phase(s) > Phase(job[r].status) /\ job' = WithStatus(r, s)
    BY <1>4 DEF JobMoves
  <2>3. Phase(job[r].status) # 3
    <3>1. Phase(s) \in 0..3 /\ Phase(job[r].status) \in 0..3
      BY PhaseTyped
    <3> QED
      BY <2>2, <3>1
  <2> QED
    BY <1>1, <2>1, <2>2, <2>3
<1>5. CASE UNCHANGED job
  BY <1>5
<1> QED
  BY <1>2, <1>3, <1>4, <1>5
  DEF BackendNext, Delegated, Provider, backendVars, Connect, Disconnect, ReadLive,
      ReadFails, GetJobStatus, GetResult, AutoConnectFails, OtherIsLeastBusy

\* So it is with one whose final status was reported.
LEMMA EndedStays ==
    ASSUME FinalInv, [BackendNext]_backendVars, NEW q \in Raw, final[q] \in Documented
    PROVE  job'[q] = job[q]
  BY EndedJobStays DEF FinalInv, JobInv, FinalHasEnded

\* The provider forgets no job.
LEMMA KnownGrows ==
    ASSUME BackendTypeOK, [BackendNext]_backendVars
    PROVE  Known \subseteq Known'
<1>1. CASE UNCHANGED job
  BY <1>1 DEF Known
<1>2. ASSUME NEW d \in Device, SubmitJob(d) PROVE Known \subseteq Known'
  <2>1. CASE \E r \in Raw \ Known, s \in ProviderStatus :
                job' = [job EXCEPT ![r] = [device |-> d, status |-> s]]
    BY <2>1, QueuedProps
  <2> QED
    BY <1>1, <1>2, <2>1 DEF SubmitJob
<1>3. ASSUME NEW r \in Known, NEW d \in Device, CancelJob(r, d) PROVE Known \subseteq Known'
  BY <1>1, <1>3, CancelJobStep, MovesKeep, NameAssumption
<1>4. ASSUME NEW r \in Raw, JobMoves(r) PROVE Known \subseteq Known'
  BY <1>4, MovesKeep DEF JobMoves, Known
<1> QED
  BY <1>1, <1>2, <1>3, <1>4
  DEF BackendNext, Delegated, Provider, backendVars, Connect, Disconnect, ReadLive,
      ReadFails, GetJobStatus, GetResult, AutoConnectFails, OtherIsLeastBusy

\* Only get_job_status() reports a status; the rest keeps what was reported.
LEMMA FinalKept ==
    ASSUME FinalInv, [BackendNext]_backendVars, final' = final
    PROVE  FinalHasEnded'
<1>1. ASSUME NEW q \in Raw, final'[q] \in Documented
      PROVE  q \in Known' /\ Phase(job'[q].status) = 3 /\ job'[q].status = final'[q]
  <2>1. job'[q] = job[q]
    BY <1>1, EndedStays
  <2> QED
    BY <1>1, <2>1 DEF FinalInv, FinalHasEnded, Known
<1> QED
  BY <1>1 DEF FinalHasEnded

\* A final status is reported of the job that was asked about, and, if it is a
\* documented one, that job has ended.
LEMMA StatusReported ==
    ASSUME FinalInv, Unnested, [BackendNext]_backendVars,
           NEW r \in Known, NEW d \in Device, GetJobStatus(r, d)
    PROVE  FinalHasEnded'
<1>0. BackendTypeOK
  BY DEF FinalInv, JobInv
<1>1. r \in Raw
  BY <1>0, KnownTyped
<1>2. /\ job' = job
      /\ final' = IF last'.answer \in FinalStatus
                  THEN [final EXCEPT ![r] = Found(r, d).status] ELSE final
  BY <1>0, GetJobStatusStep
<1>3. ASSUME last'.answer \in FinalStatus
      PROVE  Found(r, d) = job[r] /\ last'.answer = Normalized(job[r].status)
  <2>1. ParseJobId(Identifier[d], JobId(r)) = r
    BY <1>0, <1>3, FoundWhenFinal, GuardProps
  <2>2. Found(r, d) = job[r]
    BY <2>1 DEF Found
  <2> QED
    BY <1>0, <1>3, <2>2, FoundWhenFinal
<1>4. ASSUME NEW q \in Raw, final'[q] \in Documented
      PROVE  q \in Known' /\ Phase(job'[q].status) = 3 /\ job'[q].status = final'[q]
  <2>1. Known' = Known
    BY <1>2 DEF Known
  <2>2. CASE last'.answer \in FinalStatus /\ q = r
    <3>1. final'[q] = job[r].status
      BY <1>0, <1>1, <1>2, <1>3, <2>2 DEF BackendTypeOK
    <3>2. Phase(job[r].status) = 3
      BY <1>3, <1>4, <2>2, <3>1, FinalPhase
    <3> QED
      BY <1>2, <2>1, <2>2, <3>1, <3>2
  <2>3. CASE ~(last'.answer \in FinalStatus /\ q = r)
    <3>1. final'[q] = final[q]
      BY <1>0, <1>1, <1>2, <2>3 DEF BackendTypeOK
    <3> QED
      BY <1>2, <1>4, <2>1, <3>1 DEF FinalInv, FinalHasEnded
  <2> QED
    BY <2>2, <2>3
<1> QED
  BY <1>4 DEF FinalHasEnded

\* Every step keeps the reported final statuses true.
LEMMA FinalInvStep ==
    ASSUME Unnested
    PROVE  FinalInv /\ [BackendNext]_backendVars => FinalInv'
<1> SUFFICES ASSUME FinalInv, [BackendNext]_backendVars PROVE FinalInv'
  OBVIOUS
<1>1. JobInv'
  BY JobInvStep DEF FinalInv
<1>2. ASSUME NEW r \in Known, NEW d \in Device, GetJobStatus(r, d) PROVE FinalHasEnded'
  BY <1>2, StatusReported
<1>3. ASSUME final' = final PROVE FinalHasEnded'
  BY <1>3, FinalKept
<1>4. FinalHasEnded'
  BY <1>2, <1>3
  DEF BackendNext, Delegated, Provider, backendVars, Connect, Disconnect, ReadLive,
      ReadFails, SubmitJob, GetResult, CancelJob, AutoConnectFails, JobMoves,
      OtherIsLeastBusy
<1> QED
  BY <1>1, <1>4 DEF FinalInv

\* When no identifier continues another one, a status reported as final is never
\* contradicted afterwards, whatever statuses the provider has, unless it is one the
\* table was not written for, and reported as failed (ibm_backend.py:54-61, 228).
THEOREM FinalStatusHolds ==
    ASSUME Unnested
    PROVE  BackendSpec => FinalIsFinal
<1>1. BackendInit => FinalInv
  <2>1. BackendInit => FinalHasEnded
    BY DEF BackendInit, FinalHasEnded, Documented
  <2> QED
    BY <2>1, JobInvInit DEF FinalInv
<1>2. FinalInv /\ [BackendNext]_backendVars =>
         \A r \in Raw : final[r] # "none" =>
            \/ Normalized(job'[r].status) = Normalized(final[r])
            \/ final[r] \notin Documented /\ Normalized(final[r]) = "failed"
  <2> SUFFICES ASSUME FinalInv, [BackendNext]_backendVars, NEW r \in Raw
               PROVE  \/ Normalized(job'[r].status) = Normalized(final[r])
                      \/ final[r] \notin Documented /\ Normalized(final[r]) = "failed"
    OBVIOUS
  <2>1. CASE final[r] \in Documented
    BY <2>1, EndedStays DEF FinalInv, FinalHasEnded
  <2>2. CASE final[r] \notin Documented
    BY <2>2 DEF Normalized, IBM_STATUS_MAP, Documented
  <2> QED
    BY <2>1, <2>2
<1> QED
  BY <1>1, <1>2, FinalInvStep, PTL DEF BackendSpec, FinalIsFinal

=============================================================================
