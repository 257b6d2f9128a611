---------------------------- MODULE MC_HalSystem ----------------------------
(* Small instances of HalSystem for TLC. *)
EXTENDS HalSystem, TLC

CONSTANTS fez, kyiv, none, default, ann, bob

TwoDevices == {fez, kyiv}
Tokens == {"FEZ", "KYIV", "_", "r1", "r2"}
Underscore == "_"
Names == (fez :> <<"FEZ">>) @@ (kyiv :> <<"KYIV">>)
TwoJobs == {<<"r1">>, <<"r2">>}
Statuses == {"QUEUED", "DONE", "CANCELLED"}
ShortLives == [topology |-> 1, calibration |-> 1]

OneUser == {ann}
TwoUsers == {ann, bob}

\* ann polls, bob asks for the result at once.
Polls == {ann}

\* ann wants a device, bob takes the least busy one.
Choices == [u \in Users |-> IF u = ann THEN fez ELSE default]

=============================================================================
