---------------------------- MODULE MC_DeviceData ----------------------------
(* Devices of one and two qubits for TLC.  A known value is named after its  *)
(* place, so that it is seen when it turns up anywhere else.                 *)
EXTENDS DeviceData, TLC

MCStandard == {"x", "measure", "cx", "cz", "ccx", "global_phase"}

MCWidth == ("x" :> 1) @@ ("measure" :> 1) @@ ("cx" :> 2) @@ ("cz" :> 2) @@ ("ccx" :> 3)
             @@ ("global_phase" :> 0) @@ ("if_else" :> 0) @@ ("fsim" :> 2)

MCText == [q \in 0..2 |-> ToString(q)]

\* What is known: all, only of the first place, nan, or nothing.
Value(id, known, what, at, isFirst) ==
    IF known = "all" \/ (known = "some" /\ isFirst) THEN <<id, what, at>>
    ELSE IF known = "nan" THEN Nan ELSE None

Instruction(id, known, name, places) ==
    name :> [at \in places |->
                IF at = <<>> THEN None ELSE Value(id, known, name, at, at[1] = 0)]

PropertiesOf(id, known, n) ==
    LET Of(what) == [q \in 0..(n - 1) |-> IF known = "some" /\ q = 1 THEN Raises
                                          ELSE Value(id, known, what, q, q = 0)]
    IN  IF known = "none" THEN None
        ELSE [readout_error |-> Of("readout"), t1 |-> Of("t1"), t2 |-> Of("t2")]

\* x here and there, a measurement without a gate error, and more.
Device(id, known, n, x, more) ==
    [num_qubits |-> n,
     target     |-> Instruction(id, known, "x", x) @@ more
                      @@ Instruction(id, "none", "measure", {<<q>> : q \in 0..(n - 1)}),
     properties |-> PropertiesOf(id, known, n)]

\* Instructions that apply anywhere: no standard gate, and one of three qubits; and
\* a gate of two qubits that is not standard.
Anywhere(id, known) ==
    {<<>>, Instruction(id, known, "if_else", {<<>>}), Instruction(id, known, "ccx", {<<>>}),
     Instruction(id, known, "global_phase", {<<>>})}

Custom(id, known) == {Instruction(id, known, "fsim", places) : places \in {{<<1, 0>>}, {<<>>}}}

\* One direction of a pair, both, any pair; or one gate for each direction.
Pairs(id, known) ==
    {Instruction(id, known, "cx", places) :
        places \in {{<<0, 1>>}, {<<0, 1>>, <<1, 0>>}, {<<>>}}}
    \cup {Instruction(id, known, "cx", {<<0, 1>>}) @@ Instruction(id, known, "cz", {<<1, 0>>})}

MCDevices ==
    UNION {
        {Device(id, known, 1, {<<0>>}, more) : more \in Anywhere(id, known)}
        \cup {Device(id, known, 2, x, pairs @@ more) :
                x \in {{<<0>>}, {<<0>>, <<1>>}, {<<>>}},
                pairs \in Pairs(id, known), more \in Anywhere(id, known) \cup Custom(id, known)}
      : id \in {"fez", "kyiv"}, known \in {"all", "some", "nan", "none"}}

=============================================================================
