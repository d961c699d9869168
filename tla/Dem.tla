-------------------------------- MODULE Dem --------------------------------
(***************************************************************************)
(* The text of a detector error model and what it is parsed to:            *)
(* crates/stabstream-dem/src/parser.rs.                                    *)
(*                                                                         *)
(* A line is a record with a kind: "error" with p, detectors and           *)
(* observables; "detector" or "observable" with an id; "repeat" with a     *)
(* count; "close", the line }; "malformed", a line whose parser refuses    *)
(* it; "other", everything that is skipped.  Of a probability only         *)
(* whether it is "zero" (or below), "one" (or above) or "some" in between  *)
(* matters.  Coordinates are left out.                                     *)
(***************************************************************************)
EXTENDS Integers, Sequences, SequencesExt

Largest(S) == CHOOSE x \in S : \A y \in S : y <= x

NamedBy(line) ==
  CASE line.kind = "error" -> Range(line.detectors)
    [] line.kind = "detector" -> {line.id}
    [] OTHER -> {}

ObservablesOf(line) == IF line.kind = "error" THEN Range(line.observables) ELSE {}

Mechanism(line) == [p |-> line.p, detectors |-> line.detectors, observables |-> line.observables]

ErrorsOf(lines) ==
  LET errors == SelectSeq(lines, LAMBDA line : line.kind = "error")
  IN  [k \in DOMAIN errors |-> Mechanism(errors[k])]

\* One line outside of blocks.
ParseLine(s, line) ==
  [s EXCEPT !.errors = @ \o ErrorsOf(<<line>>),
            !.max_detector = Largest({@} \cup NamedBy(line)),
            !.max_observable = Largest({@} \cup ObservablesOf(line)
                                 \cup (IF line.kind = "observable" THEN {line.id} ELSE {}))]

Refused(s) == [s EXCEPT !.mode = "refused"]

\* A block is parsed by itself and its errors are repeated.  A block in it has
\* lost its end to it.  Its detectors count even if it is repeated 0 times; its
\* logical_observable lines do not.
CloseBlock(s) ==
  LET ids(Named(_)) == UNION {Named(s.block[k]) : k \in DOMAIN s.block}
  IN  IF \E k \in DOMAIN s.block : s.block[k].kind \in {"repeat", "malformed"}
      THEN Refused(s)
      ELSE [s EXCEPT !.errors = @ \o FlattenSeq([turn \in 1..s.count |-> ErrorsOf(s.block)]),
                     !.max_detector = Largest({@} \cup ids(NamedBy)),
                     !.max_observable = Largest({@} \cup ids(ObservablesOf)),
                     !.mode = "top"]

\* What the next line does, at the top, in a block or after an error.
ReadLine(s, line) ==
  CASE s.mode = "refused" -> s
    [] s.mode = "block" -> IF line.kind = "close"
                           THEN CloseBlock(s)
                           ELSE [s EXCEPT !.block = Append(@, line)]
    [] s.mode = "top" /\ line.kind = "repeat" ->
         [s EXCEPT !.mode = "block", !.count = line.count, !.block = << >>]
    [] s.mode = "top" /\ line.kind = "malformed" -> Refused(s)
    [] OTHER -> ParseLine(s, line)

\* DetectorErrorModel::parse: ok is FALSE for any of its errors.
Parse(text) ==
  LET end == FoldLeft(ReadLine, [mode |-> "top", count |-> 0, block |-> << >>, errors |-> << >>,
                                 max_detector |-> -1, max_observable |-> -1], text)
  IN  [ok |-> end.mode = "top",
       detector_count |-> end.max_detector + 1,
       observable_count |-> end.max_observable + 1,
       errors |-> end.errors]
=============================================================================
