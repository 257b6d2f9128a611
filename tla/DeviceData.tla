----------------------------- MODULE DeviceData ------------------------------
(***************************************************************************)
(* The data of get_target(): what IBMBackend.get_topology() and            *)
(* get_calibration() take from the provider's objects (ibm_backend.py),    *)
(* what becomes of it on the way to the client (dispatch.py, client.py),   *)
(* and the Target that target_builder.py makes of it.  The two reads may   *)
(* be answered by two devices; how that comes about is HalSystem's.        *)
(* Numbers are opaque: a value stands for itself and can only be passed on.*)
(***************************************************************************)
EXTENDS Naturals, Sequences

CONSTANTS
    Devices,   \* what the provider's objects may say of a device
    Standard,  \* the names in get_standard_gate_name_mapping()
    Width,     \* number of qubits of an instruction, by name
    Text,      \* str() of a qubit's number
    None,
    Nan,       \* float("nan")
    Raises     \* the SDK raises instead of giving a value

\* str() of two numbers differs.
ASSUME DataAssumption ==
    /\ DOMAIN Text \subseteq Nat
    /\ \A p, q \in DOMAIN Text : Text[p] = Text[q] => p = q
    /\ Standard \subseteq DOMAIN Width
    /\ \A name \in DOMAIN Width : Width[name] \in Nat
    /\ "measure" \in Standard => Width["measure"] = 1
    /\ None # Nan

\* The qargs of an instruction that applies to any qubits: None in the code.
Global == <<>>

Qubits(d) == 0..(d.num_qubits - 1)

AnyPair(d) == {pair \in Qubits(d) \X Qubits(d) : pair[1] # pair[2]}

\* The qargs an instruction may have: as many qubits as it has, none of them twice.
QargsOf(d, name) ==
    CASE Width[name] = 0 -> {Global}
      [] Width[name] = 1 -> {<<q>> : q \in Qubits(d)}
      [] Width[name] = 2 -> AnyPair(d)
      [] OTHER           -> {qargs \in Seq(Qubits(d)) : Len(qargs) = Width[name]}

\* A device offers each of its instructions somewhere.  It has properties of each
\* of its qubits, if it has any, and an error for each instruction and qargs: a
\* number, nan or None.
ASSUME DeviceAssumption ==
    \A d \in Devices :
        /\ d.num_qubits \in Nat
        /\ 0..(d.num_qubits - 1) \subseteq DOMAIN Text
        /\ DOMAIN d.target \subseteq DOMAIN Width
        /\ \A name \in DOMAIN d.target :
              /\ DOMAIN d.target[name] # {}
              /\ \A qargs \in DOMAIN d.target[name] :
                    qargs = Global \/ qargs \in QargsOf(d, name)
              /\ \A qargs \in DOMAIN d.target[name] : d.target[name][qargs] # Raises
        /\ d.properties # None =>
              \A f \in {d.properties.readout_error, d.properties.t1, d.properties.t2} :
                 DOMAIN f = 0..(d.num_qubits - 1)

VARIABLES
    device,      \* answers get_topology()
    calibrated,  \* answers get_calibration()
    stage,       \* where get_target() stands
    topology,    \* its two locals
    calibration,
    target       \* what it returns

dataVars == <<device, calibrated, stage, topology, calibration, target>>

-----------------------------------------------------------------------------
(* The daemon's end: a device's target maps each instruction to its qargs   *)
(* and these to an error, a number or None.                                 *)

\* Wrong on purpose: each pair once.
SynthesizedPairs_Once(d) == {pair \in AnyPair(d) : pair[1] < pair[2]}

SynthesizedPairs(d) == AnyPair(d)

\* target.build_coupling_map(): None when no pair is singled out.
PairsOf(d) == {pair \in AnyPair(d) : \E name \in DOMAIN d.target : pair \in DOMAIN d.target[name]}

Unconstrained(d) ==
    \/ \E name \in DOMAIN d.target : Width[name] = 2 /\ Global \in DOMAIN d.target[name]
    \/ PairsOf(d) = {} /\ \E name \in DOMAIN d.target : Global \in DOMAIN d.target[name]

GetTopology(d) ==
    [num_qubits      |-> d.num_qubits,
     coupling_map    |-> IF Unconstrained(d) THEN SynthesizedPairs(d) ELSE PairsOf(d),
     basis_gates     |-> DOMAIN d.target \cap Standard,
     fully_connected |-> Unconstrained(d)]

\* f"{gate_name}_{'_'.join(map(str, qargs))}", or the name alone: the keys as the
\* daemon spells them.
Key(name, qargs) == <<name>> \o qargs

NanIfNone(value) == IF value = None THEN Nan ELSE value

\* Wrong on purpose: what is not known is left out.
GateKeys_KnownOnly(d) ==
    UNION {{Key(name, qargs) : qargs \in {q \in DOMAIN d.target[name] : d.target[name][q] # None}} :
              name \in DOMAIN d.target}

GateKeys(d) == UNION {{Key(name, qargs) : qargs \in DOMAIN d.target[name]} :
                         name \in DOMAIN d.target}

\* _safe
Safe(f, q) == IF f[q] \in {None, Raises} THEN Nan ELSE f[q]

GetCalibration(d) ==
    [gate_errors    |-> [key \in GateKeys(d) |-> NanIfNone(d.target[Head(key)][Tail(key)])],
     readout_errors |-> [q \in Qubits(d) |-> Safe(d.properties.readout_error, q)],
     t1_seconds     |-> [q \in Qubits(d) |-> Safe(d.properties.t1, q)],
     t2_seconds     |-> [q \in Qubits(d) |-> Safe(d.properties.t2, q)]]

-----------------------------------------------------------------------------
(* The wire: the keys of a JSON object are strings.                         *)

Jsonable(f) ==
    [key \in {Text[q] : q \in DOMAIN f} |-> f[CHOOSE q \in DOMAIN f : Text[q] = key]]

IntKeyed(object) ==
    [q \in {p \in DOMAIN Text : Text[p] \in DOMAIN object} |-> object[Text[q]]]

OverTheWire(c) ==
    [c EXCEPT !.readout_errors = IntKeyed(Jsonable(@)),
              !.t1_seconds     = IntKeyed(Jsonable(@)),
              !.t2_seconds     = IntKeyed(Jsonable(@))]

-----------------------------------------------------------------------------
(* The client's end: build_target.                                          *)

\* Wrong on purpose: nan gets into the Target.
NanToNone_Never(value) == value

NanToNone(value) == IF value = Nan THEN None ELSE value

\* dict.get(key, nan)
Lookup(f, key) == IF key \in DOMAIN f THEN f[key] ELSE Nan

Placement(t, name) ==
    CASE Width[name] = 1 -> {<<q>> : q \in Qubits(t)}
      [] Width[name] = 2 -> t.coupling_map
      [] OTHER           -> {Global}

\* f"{name}_{q}" and f"{name}_{q1}_{q2}": the keys as the client spells them.
QubitKey(name, q) == <<name, q>>

\* Wrong on purpose: the qubits of a pair in the other order.
PairKey_Swapped(name, q1, q2) == <<name, q2, q1>>

PairKey(name, q1, q2) == <<name, q1, q2>>

InstructionError(c, name, qargs) ==
    CASE Width[name] = 1 /\ name = "measure" -> Lookup(c.readout_errors, qargs[1])
      [] Width[name] = 1 /\ name # "measure" -> Lookup(c.gate_errors, QubitKey(name, qargs[1]))
      [] Width[name] = 2 -> Lookup(c.gate_errors, PairKey(name, qargs[1], qargs[2]))
      [] OTHER           -> Nan

BuildTarget(t, c) ==
    [qubits |->
        [q \in Qubits(t) |-> [t1 |-> NanToNone(Lookup(c.t1_seconds, q)),
                              t2 |-> NanToNone(Lookup(c.t2_seconds, q))]],
     instructions |->
        [name \in t.basis_gates \cap Standard |->
            [qargs \in Placement(t, name) |-> NanToNone(InstructionError(c, name, qargs))]]]

-----------------------------------------------------------------------------
(* get_target                                                               *)

DataInit ==
    /\ device \in Devices
    /\ calibrated \in Devices
    /\ stage = "topology"
    /\ topology = None
    /\ calibration = None
    /\ target = None

FetchTopology ==
    /\ stage = "topology"
    /\ topology' = GetTopology(device)
    /\ stage' = "calibration"
    /\ UNCHANGED <<device, calibrated, calibration, target>>

\* Where backend.properties() is None, get_calibration() and so get_target() raise.
FetchCalibration ==
    /\ stage = "calibration"
    /\ IF calibrated.properties = None
       THEN stage' = "raised" /\ UNCHANGED calibration
       ELSE stage' = "build" /\ calibration' = OverTheWire(GetCalibration(calibrated))
    /\ UNCHANGED <<device, calibrated, topology, target>>

Build ==
    /\ stage = "build"
    /\ target' = BuildTarget(topology, calibration)
    /\ stage' = "built"
    /\ UNCHANGED <<device, calibrated, topology, calibration>>

DataNext == FetchTopology \/ FetchCalibration \/ Build

DataSpec == DataInit /\ [][DataNext]_dataVars

-----------------------------------------------------------------------------
(* Properties.  Each says of the client's data what the provider's own say. *)

Built == stage = "built"

\* Where a device offers an instruction, spelled out.
Offered(d, name) ==
    IF Global \notin DOMAIN d.target[name] THEN DOMAIN d.target[name]
    ELSE IF Width[name] \in {1, 2} THEN QargsOf(d, name)
    ELSE {Global}

KnownOf(f, x) ==
    IF x \in DOMAIN f THEN IF f[x] \in {Nan, Raises} THEN None ELSE f[x] ELSE None

\* A Target knows no nan, only None (target_builder.py:46-53).
DataTypeOK ==
    /\ stage \in {"topology", "calibration", "build", "built", "raised"}
    /\ Built =>
          /\ DOMAIN target.qubits = Qubits(device)
          /\ \A q \in Qubits(device) : Nan \notin {target.qubits[q].t1, target.qubits[q].t2}
          /\ \A name \in DOMAIN target.instructions :
                \A qargs \in DOMAIN target.instructions[name] :
                   target.instructions[name][qargs] # Nan

\* backend.py:74-78: every qubit and every gate and qargs of the device is a key,
\* known or not, on the client's side too, where JSON has been in between.
KeysComplete ==
    stage \in {"build", "built"} =>
        /\ \A name \in DOMAIN calibrated.target : \A qargs \in DOMAIN calibrated.target[name] :
              Key(name, qargs) \in DOMAIN calibration.gate_errors
        /\ \A f \in {calibration.readout_errors, calibration.t1_seconds, calibration.t2_seconds} :
              DOMAIN f = Qubits(calibrated)

\* Whatever the calibrated device knows of a gate on its qubits, of a readout or
\* of a qubit arrives at that place of the Target, and nothing else does, also when
\* the topology is another device's (target_builder.py:76-113).
ErrorsArrive ==
    Built =>
        /\ \A q \in Qubits(device) :
              target.qubits[q] = [t1 |-> KnownOf(calibrated.properties.t1, q),
                                  t2 |-> KnownOf(calibrated.properties.t2, q)]
        /\ \A name \in DOMAIN target.instructions :
              \A qargs \in DOMAIN target.instructions[name] \ {Global} :
                 target.instructions[name][qargs] =
                    IF name = "measure" THEN KnownOf(calibrated.properties.readout_error, qargs[1])
                    ELSE IF name \in DOMAIN calibrated.target
                         THEN KnownOf(calibrated.target[name], qargs)
                         ELSE None

\* The simplification of target_builder.py:65-71: gates are the same everywhere.
Uniform(d) ==
    /\ \A name \in DOMAIN d.target \cap Standard :
          /\ Width[name] <= 2
          /\ Width[name] = 1 => Offered(d, name) = {<<q>> : q \in Qubits(d)}
    /\ \A one, two \in DOMAIN d.target :
          Width[one] = 2 /\ Width[two] = 2 => Offered(d, one) = Offered(d, two)

\* No instruction of one or two qubits is missing from the Target anywhere the
\* device offers it; and on a uniform device the Target offers none where the
\* device does not.
PlacedAsOffered ==
    Built => \A name \in DOMAIN device.target \cap Standard :
        /\ name \in DOMAIN target.instructions
        /\ Width[name] <= 2 => Offered(device, name) \subseteq DOMAIN target.instructions[name]
        /\ Uniform(device) => DOMAIN target.instructions[name] = Offered(device, name)

=============================================================================
