-------------------------- MODULE MC_CachedBackend --------------------------
(* Small instances of CachedBackend and CacheSwitch for TLC. *)
EXTENDS CacheSwitch, TLC

CONSTANTS fez, kyiv, none, default

TwoDevices == {fez, kyiv}

Tokens == {"FEZ", "2", "_", "r1", "r2"}

Underscore == "_"

\* FEZ and FEZ2: one begins with the other, without a separator.
Names == (fez :> <<"FEZ">>) @@ (kyiv :> <<"FEZ", "2">>)

\* A raw id that contains the separator.
OneJob == {<<"r1", "_", "r2">>}
NoJobs == {}

\* A job that waits, in a status the table knows and in one it does not, and two
\* ways to end.
Statuses == {"INITIALIZING", "VALIDATING", "DONE", "CANCELLED"}

\* The topology lives longer than the calibration.
TimesToLive == [topology |-> 2, calibration |-> 1]

=============================================================================
