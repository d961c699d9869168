------------------------------ MODULE Validate ------------------------------
(***************************************************************************)
(* The validators of crates/stabstream-validate, and the schemas of        *)
(* crates/stabstream-core they go by.                                      *)
(*                                                                         *)
(* A frame has detector_events (tokens), meas_results, timing_offsets,     *)
(* ancilla_count, qubit_count and code_type.  A schema has the last three  *)
(* too, code_type being << >> when its name is not known, and stabilizers: *)
(* for each the ancillas, from 0, whose outcomes it combines.              *)
(***************************************************************************)
EXTENDS Rle, FiniteSets

CONSTANT MAX_TIMING_OFFSET_NS  \* 10000

ASSUME ValidateAssumption == MAX_TIMING_OFFSET_NS \in Nat

Schema ==
  [ancilla_count : Nat, qubit_count : Nat, code_type : Seq(Nat),
   stabilizers : Seq(Seq(Nat))]

CheckTiming(frame) == \A i \in DOMAIN frame.timing_offsets :
                         frame.timing_offsets[i] <= MAX_TIMING_OFFSET_NS

CheckSchemaConsistency(frame, schema) ==
  /\ frame.ancilla_count = schema.ancilla_count
  /\ frame.qubit_count = schema.qubit_count
  /\ schema.code_type \in {<< >>, <<frame.code_type>>}

\* The combined outcome of some ancillas, 0 or 1: one that was not measured has
\* no say.
Parity(meas, qubits) ==
  LET parity[n \in 0 .. Len(qubits)] ==
        IF n = 0 THEN 0
        ELSE IF qubits[n] < Len(meas) /\ meas[qubits[n] + 1] <= 0 THEN 1 - parity[n - 1]
        ELSE parity[n - 1]
  IN  parity[Len(qubits)]

\* Each stabilizer's outcome is the event at its index.
CheckParity(frame, schema) ==
  \A s \in DOMAIN schema.stabilizers :
     (Parity(frame.meas_results, schema.stabilizers[s]) = 1)
       <=> EventAt(frame.detector_events, s - 1)

\* What StrictParity asks of a frame; registered is << >> or the schema that the
\* registry has for the stream.
Accepts(registered, frame) ==
  /\ CheckTiming(frame)
  /\ registered # << >> => CheckSchemaConsistency(frame, registered[1])
                           /\ CheckParity(frame, registered[1])

-----------------------------------------------------------------------------
(* What it comes to *)

\* With a schema, the decoded events are those that the outcomes call for, one
\* for each stabilizer, and none beyond the last event is fired.
Consistent(registered, frame) ==
  LET events == DecodeDetectorEvents(frame.detector_events)
      Down(qubits) == {k \in DOMAIN qubits :
                         /\ qubits[k] < Len(frame.meas_results)
                         /\ frame.meas_results[qubits[k] + 1] <= 0}
  IN  /\ Range(frame.timing_offsets) \subseteq 0..MAX_TIMING_OFFSET_NS
      /\ registered # << >> =>
           LET schema == registered[1]
           IN  /\ frame.ancilla_count = schema.ancilla_count
               /\ \A s \in DOMAIN schema.stabilizers :
                    (s <= Len(events) /\ events[s]) <=>
                       Cardinality(Down(schema.stabilizers[s])) % 2 = 1
=============================================================================
