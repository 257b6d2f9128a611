-------------------------- MODULE DeviceDataProofs ---------------------------
(***************************************************************************)
(* get_target() for any devices, standard gates and numbers of qubits:     *)
(* what is known of a device arrives at its place of the Target and        *)
(* nowhere else, and gates are offered where the device offers them.      *)
(***************************************************************************)
EXTENDS DeviceData, SequenceTheorems, TLAPS

-----------------------------------------------------------------------------
(* Keys.                                                                    *)

\* A gate's key gives back the gate and its qargs.
LEMMA KeyProps ==
    ASSUME NEW name, NEW qargs \in Seq(Nat)
    PROVE  /\ Head(Key(name, qargs)) = name
           /\ Tail(Key(name, qargs)) = qargs
<1> DEFINE Piece == Nat \cup {name}
<1>1. qargs \in Seq(Piece) /\ <<name>> \in Seq(Piece)
  OBVIOUS
<1> HIDE DEF Piece
<1>2. /\ Len(<<name>> \o qargs) = Len(qargs) + 1
      /\ (<<name>> \o qargs)[1] = name
      /\ \A i \in 1..Len(qargs) : (<<name>> \o qargs)[i + 1] = qargs[i]
      /\ <<name>> \o qargs \in Seq(Piece)
  BY <1>1
<1>3. Head(<<name>> \o qargs) = name
  BY <1>1, <1>2
<1>4. Tail(<<name>> \o qargs) = qargs
  BY <1>1, <1>2
<1>5. QED
  BY <1>3, <1>4 DEF Key

\* JSON's string keys are undone by int().
LEMMA JsonRoundTrip ==
    ASSUME NEW d \in Devices, NEW f, f = [q \in Qubits(d) |-> f[q]]
    PROVE  IntKeyed(Jsonable(f)) = f
<1>1. /\ Qubits(d) \subseteq DOMAIN Text
      /\ \A p, q \in DOMAIN Text : Text[p] = Text[q] => p = q
  BY DataAssumption, DeviceAssumption DEF Qubits
<1>2. DOMAIN f = Qubits(d)
  OBVIOUS
<1>3. \A q \in Qubits(d) : (CHOOSE p \in DOMAIN f : Text[p] = Text[q]) = q
  BY <1>1, <1>2
<1>4. DOMAIN Jsonable(f) = {Text[q] : q \in Qubits(d)}
  BY <1>2 DEF Jsonable
<1>5. \A q \in Qubits(d) : Jsonable(f)[Text[q]] = f[q]
  BY <1>2, <1>3 DEF Jsonable
<1>6. {p \in DOMAIN Text : Text[p] \in DOMAIN Jsonable(f)} = Qubits(d)
  BY <1>1, <1>4
<1>7. IntKeyed(Jsonable(f)) = [q \in Qubits(d) |-> Jsonable(f)[Text[q]]]
  BY <1>6 DEF IntKeyed
<1>8. QED
  BY <1>5, <1>7

-----------------------------------------------------------------------------
(* The two ends.                                                            *)

\* What the client has got of device d.
LEMMA Decoded ==
    ASSUME NEW d \in Devices
    PROVE  LET c == OverTheWire(GetCalibration(d)) IN
           /\ c.gate_errors = GetCalibration(d).gate_errors
           /\ c.readout_errors = [q \in Qubits(d) |-> Safe(d.properties.readout_error, q)]
           /\ c.t1_seconds = [q \in Qubits(d) |-> Safe(d.properties.t1, q)]
           /\ c.t2_seconds = [q \in Qubits(d) |-> Safe(d.properties.t2, q)]
<1> DEFINE g == GetCalibration(d)
           r == [q \in Qubits(d) |-> Safe(d.properties.readout_error, q)]
           one == [q \in Qubits(d) |-> Safe(d.properties.t1, q)]
           two == [q \in Qubits(d) |-> Safe(d.properties.t2, q)]
<1>1. g = [gate_errors |-> g.gate_errors, readout_errors |-> r, t1_seconds |-> one, t2_seconds |-> two]
  BY DEF GetCalibration
<1>2. /\ IntKeyed(Jsonable(r)) = r
      /\ IntKeyed(Jsonable(one)) = one
      /\ IntKeyed(Jsonable(two)) = two
  BY JsonRoundTrip
<1> HIDE DEF g, r, one, two
<1>3. OverTheWire(g) = [gate_errors |-> g.gate_errors, readout_errors |-> r,
                        t1_seconds |-> one, t2_seconds |-> two]
  <2>1. g.readout_errors = r /\ g.t1_seconds = one /\ g.t2_seconds = two
    BY <1>1
  <2>2. OverTheWire(g) = [[[g EXCEPT !.readout_errors = r] EXCEPT !.t1_seconds = one]
                             EXCEPT !.t2_seconds = two]
    <3> DEFINE w == [g EXCEPT !.readout_errors = r]
               x == [w EXCEPT !.t1_seconds = one]
    <3>1. w.t1_seconds = one /\ x.t2_seconds = two
      BY <1>1
    <3>2. QED
      BY <1>2, <2>1, <3>1, Zenon DEF OverTheWire
  <2>3. QED
    BY <1>1, <2>2
<1>4. QED
  BY <1>3 DEF g, r, one, two

\* Pairs of qubits.
LEMMA PairTyped ==
    ASSUME NEW d \in Devices, NEW pair \in AnyPair(d)
    PROVE  pair \in Seq(Nat) /\ Len(pair) = 2
<1>1. Qubits(d) \subseteq Nat
  BY DeviceAssumption DEF Qubits
<1>2. PICK a \in Nat, b \in Nat : pair = <<a, b>>
  BY <1>1 DEF AnyPair
<1>3. QED
  BY <1>2

\* The qargs of an instruction are qubits, as many as it has, or none.
LEMMA QargsTyped ==
    ASSUME NEW d \in Devices, NEW name \in DOMAIN d.target, NEW qargs \in DOMAIN d.target[name]
    PROVE  qargs \in Seq(Nat) /\ (qargs = Global \/ Len(qargs) = Width[name])
<1>1. qargs = Global \/ qargs \in QargsOf(d, name)
  BY DeviceAssumption
<1>2. Qubits(d) \subseteq Nat
  BY DeviceAssumption DEF Qubits
<1>3. CASE qargs = Global
  BY <1>3 DEF Global
<1>4. CASE qargs # Global /\ Width[name] = 1
  <2>1. PICK q \in Nat : qargs = <<q>>
    BY <1>1, <1>2, <1>4 DEF QargsOf
  <2>2. QED
    BY <1>4, <2>1
<1>5. CASE qargs # Global /\ Width[name] = 2
  <2>1. qargs \in AnyPair(d)
    BY <1>1, <1>5 DEF QargsOf
  <2>2. QED
    BY <1>5, <2>1, PairTyped
<1>6. CASE qargs # Global /\ Width[name] \notin {1, 2}
  <2>1. qargs \in Seq(Qubits(d)) /\ Len(qargs) = Width[name]
    BY <1>1, <1>6 DEF QargsOf
  <2>2. QED
    BY <1>2, <2>1, SeqMonotonic
<1>7. QED
  BY <1>3, <1>4, <1>5, <1>6

\* Every gate of the device has an entry at its qargs, and no other gate has.
LEMMA GateLookup ==
    ASSUME NEW d \in Devices, NEW name, NEW qargs \in Seq(Nat)
    PROVE  Lookup(GetCalibration(d).gate_errors, Key(name, qargs)) =
              IF name \in DOMAIN d.target /\ qargs \in DOMAIN d.target[name]
              THEN NanIfNone(d.target[name][qargs]) ELSE Nan
<1> DEFINE g == [key \in GateKeys(d) |-> NanIfNone(d.target[Head(key)][Tail(key)])]
<1>1. GetCalibration(d).gate_errors = g /\ DOMAIN g = GateKeys(d)
  BY DEF GetCalibration
<1>2. Key(name, qargs) \in GateKeys(d) <=> name \in DOMAIN d.target /\ qargs \in DOMAIN d.target[name]
  <2>1. ASSUME Key(name, qargs) \in GateKeys(d)
        PROVE  name \in DOMAIN d.target /\ qargs \in DOMAIN d.target[name]
    <3>1. PICK gate \in DOMAIN d.target : \E at \in DOMAIN d.target[gate] :
              Key(name, qargs) = Key(gate, at)
      BY <2>1 DEF GateKeys
    <3>2. PICK at \in DOMAIN d.target[gate] : Key(name, qargs) = Key(gate, at)
      BY <3>1
    <3>3. at \in Seq(Nat)
      BY QargsTyped
    <3>4. gate = name /\ at = qargs
      <4>1. Head(Key(name, qargs)) = name /\ Tail(Key(name, qargs)) = qargs
        BY KeyProps
      <4>2. Head(Key(gate, at)) = gate /\ Tail(Key(gate, at)) = at
        BY <3>3, KeyProps
      <4>3. QED
        BY <3>2, <4>1, <4>2
    <3>5. QED
      BY <3>4
  <2>2. ASSUME name \in DOMAIN d.target, qargs \in DOMAIN d.target[name]
        PROVE  Key(name, qargs) \in GateKeys(d)
    BY <2>2 DEF GateKeys
  <2>3. QED
    BY <2>1, <2>2
<1>3. Key(name, qargs) \in GateKeys(d) => g[Key(name, qargs)] = NanIfNone(d.target[name][qargs])
  BY KeyProps
<1>4. QED
  <2> HIDE DEF g
  <2>1. QED
    BY <1>1, <1>2, <1>3 DEF Lookup

\* nan and None become None, and anything else is what the device knows.
LEMMA GateKnown ==
    ASSUME NEW d \in Devices, NEW name, NEW qargs \in Seq(Nat)
    PROVE  NanToNone(Lookup(GetCalibration(d).gate_errors, Key(name, qargs))) =
              IF name \in DOMAIN d.target THEN KnownOf(d.target[name], qargs) ELSE None
<1>1. CASE name \in DOMAIN d.target /\ qargs \in DOMAIN d.target[name]
  <2>1. d.target[name][qargs] # Raises
    BY <1>1, DeviceAssumption
  <2>2. QED
    BY <1>1, <2>1, GateLookup, DataAssumption DEF NanToNone, NanIfNone, KnownOf
<1>2. CASE ~(name \in DOMAIN d.target /\ qargs \in DOMAIN d.target[name])
  BY <1>2, GateLookup DEF NanToNone, KnownOf
<1>3. QED
  BY <1>1, <1>2

LEMMA SafeKnown ==
    ASSUME NEW d \in Devices, NEW f, DOMAIN f = Qubits(d), NEW q
    PROVE  NanToNone(Lookup([p \in Qubits(d) |-> Safe(f, p)], q)) = KnownOf(f, q)
  BY DataAssumption DEF NanToNone, Lookup, Safe, KnownOf

-----------------------------------------------------------------------------
(* The theorems.                                                            *)

\* What get_target() holds is made of the two devices.
DataInv ==
    /\ device \in Devices /\ calibrated \in Devices
    /\ stage \in {"topology", "calibration", "build", "built", "raised"}
    /\ stage # "topology" => topology = GetTopology(device)
    /\ stage \in {"build", "built"} =>
          /\ calibrated.properties # None
          /\ calibration = OverTheWire(GetCalibration(calibrated))
    /\ stage = "built" => target = BuildTarget(topology, calibration)

LEMMA DataInvariant == DataSpec => []DataInv
<1>1. DataInit => DataInv
  BY DEF DataInit, DataInv
<1>2. DataInv /\ [DataNext]_dataVars => DataInv'
  <2> SUFFICES ASSUME DataInv, [DataNext]_dataVars PROVE DataInv'
    OBVIOUS
  <2>1. CASE FetchTopology
    BY <2>1 DEF FetchTopology, DataInv
  <2>2. CASE FetchCalibration
    BY <2>2 DEF FetchCalibration, DataInv
  <2>3. CASE Build
    BY <2>3 DEF Build, DataInv
  <2>4. CASE UNCHANGED dataVars
    BY <2>4 DEF dataVars, DataInv
  <2>5. QED
    BY <2>1, <2>2, <2>3, <2>4 DEF DataNext
<1>3. QED
  BY <1>1, <1>2, PTL DEF DataSpec

\* The parts of a Target.
LEMMA TargetParts ==
    ASSUME NEW t, NEW c
    PROVE  /\ BuildTarget(t, c).qubits =
                [q \in Qubits(t) |-> [t1 |-> NanToNone(Lookup(c.t1_seconds, q)),
                                     t2 |-> NanToNone(Lookup(c.t2_seconds, q))]]
           /\ DOMAIN BuildTarget(t, c).instructions = t.basis_gates \cap Standard
           /\ \A name \in t.basis_gates \cap Standard :
                 BuildTarget(t, c).instructions[name] =
                    [qargs \in Placement(t, name) |-> NanToNone(InstructionError(c, name, qargs))]
  BY DEF BuildTarget

\* No nan gets through.
LEMMA NoNan == ASSUME NEW value PROVE NanToNone(value) # Nan
  BY DataAssumption DEF NanToNone

\* A Target has the topology's qubits, and its values are numbers or None.
THEOREM TargetTyped == DataSpec => []DataTypeOK
<1>1. DataInv => DataTypeOK
  <2> SUFFICES ASSUME DataInv, Built PROVE DataTypeOK
    BY DEF DataInv, DataTypeOK, Built
  <2>1. target = BuildTarget(topology, calibration) /\ topology = GetTopology(device)
    BY DEF DataInv, Built
  <2>2. Qubits(topology) = Qubits(device)
    BY <2>1 DEF GetTopology, Qubits
  <2> DEFINE c == calibration
             t == topology
  <2>3. /\ target.qubits = [q \in Qubits(t) |-> [t1 |-> NanToNone(Lookup(c.t1_seconds, q)),
                                                t2 |-> NanToNone(Lookup(c.t2_seconds, q))]]
        /\ \A name \in DOMAIN target.instructions :
              target.instructions[name] =
                 [qargs \in Placement(t, name) |-> NanToNone(InstructionError(c, name, qargs))]
    BY <2>1, TargetParts
  <2>4. \A q \in Qubits(device) : Nan \notin {target.qubits[q].t1, target.qubits[q].t2}
    <3>1. \A q \in Qubits(device) :
              target.qubits[q] = [t1 |-> NanToNone(Lookup(c.t1_seconds, q)),
                                  t2 |-> NanToNone(Lookup(c.t2_seconds, q))]
      BY <2>2, <2>3
    <3>2. \A value : NanToNone(value) # Nan
      BY NoNan
    <3>3. ASSUME NEW q \in Qubits(device)
          PROVE  Nan \notin {target.qubits[q].t1, target.qubits[q].t2}
      <4> DEFINE one == NanToNone(Lookup(c.t1_seconds, q))
                 two == NanToNone(Lookup(c.t2_seconds, q))
      <4>1. target.qubits[q] = [t1 |-> one, t2 |-> two] /\ one # Nan /\ two # Nan
        BY <3>1, <3>2
      <4> HIDE DEF one, two
      <4>2. QED
        BY <4>1
    <3>4. QED
      BY <3>3
  <2>5. ASSUME NEW name \in DOMAIN target.instructions,
               NEW qargs \in DOMAIN target.instructions[name]
        PROVE  target.instructions[name][qargs] # Nan
    <3>1. target.instructions[name][qargs] = NanToNone(InstructionError(c, name, qargs))
      BY <2>3
    <3>2. NanToNone(InstructionError(c, name, qargs)) # Nan
      BY NoNan
    <3>3. QED
      BY <3>1, <3>2
  <2>6. DOMAIN target.qubits = Qubits(device)
    BY <2>2, <2>3
  <2>7. QED
    BY <2>4, <2>5, <2>6 DEF DataInv, DataTypeOK
<1>2. QED
  BY <1>1, DataInvariant, PTL

\* Every qubit and every gate at its qargs has a key on the client's side
\* (backend.py:74-78).
THEOREM EveryKeyArrives == DataSpec => []KeysComplete
<1>1. DataInv => KeysComplete
  <2> SUFFICES ASSUME DataInv, stage \in {"build", "built"} PROVE KeysComplete
    BY DEF KeysComplete
  <2>1. /\ calibrated \in Devices /\ calibration = OverTheWire(GetCalibration(calibrated))
    BY DEF DataInv
  <2>2. DOMAIN calibration.gate_errors = GateKeys(calibrated)
    BY <2>1, Decoded DEF GetCalibration
  <2>3. \A f \in {calibration.readout_errors, calibration.t1_seconds, calibration.t2_seconds} :
            DOMAIN f = Qubits(calibrated)
    BY <2>1, Decoded
  <2>4. \A name \in DOMAIN calibrated.target : \A qargs \in DOMAIN calibrated.target[name] :
            Key(name, qargs) \in GateKeys(calibrated)
    BY DEF GateKeys
  <2>5. QED
    BY <2>2, <2>3, <2>4 DEF KeysComplete
<1>2. QED
  BY <1>1, DataInvariant, PTL

\* What is known of a qubit, a readout or a gate arrives at its place, and nothing
\* else does, also when the topology is another device's (target_builder.py:76-113).
THEOREM EveryErrorArrives == DataSpec => []ErrorsArrive
<1>1. DataInv => ErrorsArrive
  <2> SUFFICES ASSUME DataInv, Built PROVE ErrorsArrive
    BY DEF ErrorsArrive
  <2> DEFINE t == topology
             c == calibration
             p == calibrated.properties
  <2>0. /\ device \in Devices /\ calibrated \in Devices
        /\ target = BuildTarget(t, c) /\ t = GetTopology(device)
        /\ c = OverTheWire(GetCalibration(calibrated)) /\ p # None
    BY DEF DataInv, Built
  <2>1. Qubits(t) = Qubits(device) /\ t.coupling_map \subseteq AnyPair(device)
    BY <2>0 DEF GetTopology, Qubits, SynthesizedPairs, PairsOf
  <2>2. /\ DOMAIN p.readout_error = Qubits(calibrated)
        /\ DOMAIN p.t1 = Qubits(calibrated) /\ DOMAIN p.t2 = Qubits(calibrated)
    BY <2>0, DeviceAssumption DEF Qubits
  <2>3. /\ c.gate_errors = GetCalibration(calibrated).gate_errors
        /\ c.readout_errors = [q \in Qubits(calibrated) |-> Safe(p.readout_error, q)]
        /\ c.t1_seconds = [q \in Qubits(calibrated) |-> Safe(p.t1, q)]
        /\ c.t2_seconds = [q \in Qubits(calibrated) |-> Safe(p.t2, q)]
    BY <2>0, Decoded
  <2>4. \A q : /\ NanToNone(Lookup(c.readout_errors, q)) = KnownOf(p.readout_error, q)
               /\ NanToNone(Lookup(c.t1_seconds, q)) = KnownOf(p.t1, q)
               /\ NanToNone(Lookup(c.t2_seconds, q)) = KnownOf(p.t2, q)
    BY <2>0, <2>2, <2>3, SafeKnown
  <2>p. /\ target.qubits = [q \in Qubits(t) |-> [t1 |-> NanToNone(Lookup(c.t1_seconds, q)),
                                                t2 |-> NanToNone(Lookup(c.t2_seconds, q))]]
        /\ DOMAIN target.instructions = t.basis_gates \cap Standard
        /\ \A name \in t.basis_gates \cap Standard :
              target.instructions[name] =
                 [qargs \in Placement(t, name) |-> NanToNone(InstructionError(c, name, qargs))]
    BY <2>0, TargetParts
  <2>5. \A q \in Qubits(device) : target.qubits[q] = [t1 |-> KnownOf(p.t1, q), t2 |-> KnownOf(p.t2, q)]
    BY <2>1, <2>4, <2>p
  <2>6. ASSUME NEW name \in DOMAIN target.instructions,
               NEW qargs \in DOMAIN target.instructions[name] \ {Global}
        PROVE  target.instructions[name][qargs] =
                  IF name = "measure" THEN KnownOf(p.readout_error, qargs[1])
                  ELSE IF name \in DOMAIN calibrated.target THEN KnownOf(calibrated.target[name], qargs)
                  ELSE None
    <3>1. /\ name \in Standard /\ qargs \in Placement(t, name) \ {Global}
          /\ target.instructions[name][qargs] = NanToNone(InstructionError(c, name, qargs))
      BY <2>6, <2>p
    <3>2. /\ qargs \in Seq(Nat)
          /\ \/ Width[name] = 1 /\ QubitKey(name, qargs[1]) = Key(name, qargs)
             \/ Width[name] = 2 /\ PairKey(name, qargs[1], qargs[2]) = Key(name, qargs)
      <4>0. Qubits(device) \subseteq Nat
        BY <2>0, DeviceAssumption DEF Qubits
      <4>1. CASE Width[name] = 1
        <5>1. PICK q \in Qubits(device) : qargs = <<q>>
          BY <2>1, <3>1, <4>1 DEF Placement
        <5>2. QED
          BY <4>0, <4>1, <5>1 DEF QubitKey, Key
      <4>2. CASE Width[name] = 2
        <5>1. Placement(t, name) = t.coupling_map
          BY <4>2 DEF Placement
        <5>2. qargs \in Nat \X Nat
          BY <2>1, <3>1, <4>0, <5>1 DEF AnyPair
        <5>3. PICK a \in Nat, b \in Nat : qargs = <<a, b>>
          BY <5>2
        <5>4. QED
          BY <4>2, <5>3 DEF PairKey, Key
      <4>3. CASE Width[name] \notin {1, 2}
        BY <3>1, <4>3 DEF Placement
      <4>4. QED
        BY <4>1, <4>2, <4>3
    <3>3. CASE name = "measure"
      BY <2>4, <3>1, <3>3, DataAssumption DEF InstructionError
    <3>4. CASE name # "measure"
      <4>1. InstructionError(c, name, qargs) =
               Lookup(GetCalibration(calibrated).gate_errors, Key(name, qargs))
        BY <2>3, <3>2, <3>4 DEF InstructionError
      <4>2. QED
        BY <2>0, <3>1, <3>2, <3>4, <4>1, GateKnown
    <3>5. QED
      BY <3>3, <3>4
  <2>7. QED
    BY <2>5, <2>6 DEF ErrorsArrive
<1>2. QED
  BY <1>1, DataInvariant, PTL

\* Pairs are the qargs of instructions of two qubits.
LEMMA PairsAreOffered ==
    ASSUME NEW d \in Devices, NEW pair \in PairsOf(d)
    PROVE  /\ pair \in AnyPair(d)
           /\ \E name \in DOMAIN d.target : Width[name] = 2 /\ pair \in Offered(d, name)
<1>1. pair \in AnyPair(d)
  BY DEF PairsOf
<1>2. PICK name \in DOMAIN d.target : pair \in DOMAIN d.target[name]
  BY DEF PairsOf
<1>3. Len(pair) = 2 /\ pair # Global
  <2>1. Len(pair) = 2
    BY <1>1, PairTyped
  <2>2. Len(Global) = 0
    BY DEF Global
  <2>3. QED
    BY <2>1, <2>2
<1>4. Width[name] = 2
  BY <1>2, <1>3, QargsTyped
<1>5. pair \in Offered(d, name)
  BY <1>1, <1>2, <1>4 DEF Offered, QargsOf
<1>6. QED
  BY <1>1, <1>4, <1>5

\* Where a gate of two qubits is offered, the coupling map has an edge; and where
\* all of them are offered on the same pairs, only there.
LEMMA PairsPlaced ==
    ASSUME NEW d \in Devices, NEW name \in DOMAIN d.target, Width[name] = 2,
           NEW map, map = GetTopology(d).coupling_map
    PROVE  /\ Offered(d, name) \subseteq map
           /\ Uniform(d) => map = Offered(d, name)
<1> DEFINE own == DOMAIN d.target[name]
<1>1. map = IF Unconstrained(d) THEN AnyPair(d) ELSE PairsOf(d)
  BY DEF GetTopology, SynthesizedPairs
<1>2. Offered(d, name) = IF Global \in own THEN AnyPair(d) ELSE own
  BY DEF Offered, QargsOf
<1>3. PairsOf(d) \subseteq AnyPair(d)
  BY DEF PairsOf
<1>4. Global \in own => Unconstrained(d)
  BY DEF Unconstrained
<1>5. ASSUME Global \notin own PROVE own \subseteq PairsOf(d) /\ own # {}
  <2>1. own # {} /\ \A qargs \in own : qargs \in QargsOf(d, name)
    BY <1>5, DeviceAssumption
  <2>2. QargsOf(d, name) = AnyPair(d)
    BY DEF QargsOf
  <2>3. QED
    BY <2>1, <2>2 DEF PairsOf
<1>6. Offered(d, name) \subseteq map
  BY <1>1, <1>2, <1>3, <1>4, <1>5
<1>7. ASSUME Uniform(d) PROVE map \subseteq Offered(d, name)
  <2>1. \A other \in DOMAIN d.target : Width[other] = 2 => Offered(d, other) = Offered(d, name)
    BY <1>7 DEF Uniform
  <2>2. PairsOf(d) \subseteq Offered(d, name)
    BY <2>1, PairsAreOffered
  <2>3. CASE Global \in own
    BY <1>1, <1>2, <1>3, <2>3
  <2>4. CASE Global \notin own
    <3>1. PairsOf(d) # {}
      BY <1>5, <2>4
    <3>2. CASE Unconstrained(d)
      <4>1. PICK other \in DOMAIN d.target : Width[other] = 2 /\ Global \in DOMAIN d.target[other]
        BY <3>1, <3>2 DEF Unconstrained
      <4>2. Offered(d, other) = AnyPair(d)
        BY <4>1 DEF Offered, QargsOf
      <4>3. QED
        BY <1>1, <2>1, <3>2, <4>1, <4>2
    <3>3. CASE ~Unconstrained(d)
      BY <1>1, <2>2, <3>3
    <3>4. QED
      BY <3>2, <3>3
  <2>5. QED
    BY <2>3, <2>4
<1>8. QED
  BY <1>6, <1>7

\* The Target offers an instruction of up to two qubits wherever the device does,
\* and only there if the device is uniform (target_builder.py:65-71, 94-118).
THEOREM EveryGatePlaced == DataSpec => []PlacedAsOffered
<1>1. DataInv => PlacedAsOffered
  <2> SUFFICES ASSUME DataInv, Built, NEW name \in DOMAIN device.target \cap Standard
               PROVE  /\ name \in DOMAIN target.instructions
                      /\ Width[name] <= 2 =>
                            Offered(device, name) \subseteq DOMAIN target.instructions[name]
                      /\ Uniform(device) =>
                            DOMAIN target.instructions[name] = Offered(device, name)
    BY DEF PlacedAsOffered
  <2> DEFINE t == GetTopology(device)
             own == DOMAIN device.target[name]
             singles == {<<q>> : q \in Qubits(device)}
  <2>1. /\ device \in Devices /\ target = BuildTarget(t, calibration)
        /\ Width[name] \in Nat /\ name \in DOMAIN device.target /\ name \in Standard
    BY DataAssumption DEF DataInv, Built
  <2>2. t.basis_gates = DOMAIN device.target \cap Standard /\ Qubits(t) = Qubits(device)
    BY DEF GetTopology, Qubits
  <2>3. name \in DOMAIN target.instructions /\ DOMAIN target.instructions[name] = Placement(t, name)
    <3>1. name \in t.basis_gates \cap Standard
      BY <2>1, <2>2
    <3> DEFINE c == calibration
    <3> HIDE DEF t, c
    <3>2. /\ name \in DOMAIN BuildTarget(t, c).instructions
          /\ DOMAIN BuildTarget(t, c).instructions[name] = Placement(t, name)
      BY <3>1 DEF BuildTarget
    <3>3. target = BuildTarget(t, c)
      BY <2>1 DEF c
    <3>4. QED
      BY <3>2, <3>3
  <2>4. own # {} /\ \A qargs \in own : qargs = Global \/ qargs \in QargsOf(device, name)
    BY <2>1, DeviceAssumption
  <2>5. CASE Width[name] = 0
    <3>1. Placement(t, name) = {Global} /\ QargsOf(device, name) = {Global}
      BY <2>5 DEF Placement, QargsOf
    <3>2. Offered(device, name) = {Global}
      BY <2>4, <2>5, <3>1 DEF Offered
    <3>3. QED
      BY <2>3, <3>1, <3>2
  <2>6. CASE Width[name] = 1
    <3>1. Placement(t, name) = singles /\ QargsOf(device, name) = singles
      BY <2>2, <2>6 DEF Placement, QargsOf
    <3>2. Offered(device, name) \subseteq singles
      BY <2>4, <2>6, <3>1 DEF Offered
    <3>3. Uniform(device) => Offered(device, name) = singles
      BY <2>1, <2>6 DEF Uniform
    <3>4. QED
      BY <2>3, <3>1, <3>2, <3>3
  <2>7. CASE Width[name] = 2
    <3>1. Placement(t, name) = t.coupling_map
      BY <2>7 DEF Placement
    <3>2. QED
      BY <2>1, <2>3, <2>7, <3>1, PairsPlaced
  <2>8. CASE Width[name] > 2
    <3>1. ~Uniform(device) /\ ~(Width[name] <= 2)
      BY <2>1, <2>8 DEF Uniform
    <3>2. QED
      BY <2>3, <3>1
  <2>9. QED
    BY <2>1, <2>5, <2>6, <2>7, <2>8
<1>2. QED
  BY <1>1, DataInvariant, PTL

=============================================================================
