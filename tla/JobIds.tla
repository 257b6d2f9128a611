------------------------------- MODULE JobIds -------------------------------
(***************************************************************************)
(* Composite job ids (backend.py): "{identifier}_{raw job id}".  A name is *)
(* a sequence of tokens: the separator "_", or a run of characters that    *)
(* contains none.                                                          *)
(***************************************************************************)
EXTENDS Naturals, Sequences

CONSTANTS
    Token,    \* the pieces names are made of
    Sep       \* "_"

ASSUME SepAssumption == Sep \in Token

Prefix(identifier) == identifier \o <<Sep>>

StartsWith(s, p) == Len(p) <= Len(s) /\ SubSeq(s, 1, Len(p)) = p

\* _make_job_id.
MakeJobId(identifier, raw) == Prefix(identifier) \o raw

\* Wrong on purpose: the separator is not part of the prefix that is compared.
Belongs_NoSep(identifier, jobId) == StartsWith(jobId, identifier)

\* _parse_job_id does not raise.
Belongs(identifier, jobId) == StartsWith(jobId, Prefix(identifier))

\* _parse_job_id: what is left of an id that belongs.
ParseJobId(identifier, jobId) == SubSeq(jobId, Len(Prefix(identifier)) + 1, Len(jobId))

\* b continues a after a separator ("AER_GPU" and "AER").
Nested(a, b) == StartsWith(b, Prefix(a))

=============================================================================
