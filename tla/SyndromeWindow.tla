--------------------------- MODULE SyndromeWindow ---------------------------
(***************************************************************************)
(* SyndromeWindow and OwnedSyndromeData of                                 *)
(* crates/stabstream-core/src/window.rs: the last rounds of a stream, and  *)
(* their detector events as one flat matrix.                               *)
(*                                                                         *)
(* A round is [frame_id, detector_events]; a window a record of the        *)
(* struct's fields.                                                        *)
(***************************************************************************)
EXTENDS Integers, Sequences, SequencesExt

\* What a run-length token stands for, and decode_rle: the runs one after the
\* other, cut or filled up with FALSE to ancilla_count.
Run(token) == [j \in 1..token.run |-> token.mode]

DecodeRle(rle, ancilla_count) ==
  LET out == FlattenSeq([k \in DOMAIN rle |-> Run(rle[k])])
  IN  [i \in 1..ancilla_count |-> IF i <= Len(out) THEN out[i] ELSE FALSE]

NewWindow(ancilla_count, window_depth) ==
  [frames |-> << >>, window_depth |-> window_depth,
   detector_matrix |-> << >>, ancilla_count |-> ancilla_count]

\* The row of a round: exactly ancilla_count entries.
Row(events, ancilla_count) ==
  [i \in 1..ancilla_count |-> IF i <= Len(events) THEN events[i] ELSE FALSE]

RebuildMatrix(frames, ancilla_count) ==
  FlattenSeq([k \in DOMAIN frames |-> Row(frames[k].detector_events, ancilla_count)])

\* Mutant: the oldest goes too late.
Slide_OneTooMany(frames, window_depth, data) ==
  Append(IF Len(frames) > window_depth THEN SubSeq(frames, 2, Len(frames)) ELSE frames, data)

\* The rounds after a push: the oldest goes when the window is full.
Slide(frames, window_depth, data) ==
  Append(IF Len(frames) = window_depth THEN SubSeq(frames, 2, Len(frames)) ELSE frames, data)

PushOwned(window, data) ==
  LET frames == Slide(window.frames, window.window_depth, data)
  IN  [frames |-> frames, window_depth |-> window.window_depth,
       detector_matrix |-> RebuildMatrix(frames, window.ancilla_count),
       ancilla_count |-> window.ancilla_count]

\* The indices, from 0, of the fired entries of the matrix, in order.
ActiveDetectors(window) ==
  LET matrix == window.detector_matrix
      active[n \in 0..Len(matrix)] ==
        IF n = 0 THEN << >>
        ELSE IF matrix[n] THEN Append(active[n - 1], n - 1) ELSE active[n - 1]
  IN  active[Len(matrix)]
=============================================================================
