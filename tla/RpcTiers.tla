------------------------------ MODULE RpcTiers ------------------------------
(* _METHOD_TIERS and _RETRY_TIERS of client.py: which RPCs are resent once   *)
(* when the connection is lost.  A method missing from the table is read.    *)

TierOf(m) ==
    IF m = "connect" THEN "session"
    ELSE IF m \in {"submit_job", "cancel_job"} THEN "write"
    ELSE "read"

\* Wrong on purpose: the write tier is retried as well.
RetryTiers_All == {"session", "read", "write"}

RetryTiers == {"session", "read"}

Retried(m) == TierOf(m) \in RetryTiers

IsWrite(m) == TierOf(m) = "write"

=============================================================================
