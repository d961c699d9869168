---------------------------- MODULE MCRecording ----------------------------
(***************************************************************************)
(* Jobs, analyses and a decoder for checking Recording.                    *)
(***************************************************************************)
EXTENDS Recording

Shot(events) ==
  [events |-> events, flips |-> << >>, tags |-> {}, timing |-> FALSE, parity |-> FALSE,
   annotations |-> << >>]

Blank == Shot(<< >>)

A == Shot(<<TRUE, TRUE, TRUE>>)
B == Shot(<<FALSE, TRUE, FALSE>>)
C == Shot(<<FALSE, FALSE, FALSE>>)
D == Shot(<<TRUE>>)

\* Wide enough that a part of it is taken for the whole, and another is not.
E == Shot(<<TRUE, FALSE, TRUE, TRUE>>)

Job(program, shots) == [program |-> program, shots |-> shots, truth |-> << >>]

\* A frame with every block, one with few, and one that only has the truth.
Full == [A EXCEPT !.flips = <<{0}>>, !.timing = TRUE, !.parity = TRUE, !.annotations = <<1>>,
                  !.tags = {"hardware_id", "cycle_us", "observable_flips"}]
Some == [B EXCEPT !.annotations = <<0>>, !.tags = {"temperature_mk"}, !.parity = TRUE]
True == [C EXCEPT !.flips = <<{0, 1}>>, !.tags = {"observable_flips"}]

MCJobs ==
  {Job("from_file", <<A, Blank, B, C>>),
   Job("from_file", <<A, D, B>>),
   Job("from_file", << >>),
   Job("stim", <<E, E, E>>),
   [Job("stim_obs", <<Blank, B, A, Blank, C>>) EXCEPT !.truth = << << >>, <<{}>>, << >>, <<{0}>> >>],
   Job("serve", <<A, Blank, B>>),
   Job("serve_dem", <<B, A, C, B>>),
   Job("serve_dem", <<Blank, Blank>>),
   Job("stim_encoder", <<E, Blank, E>>),
   Job("stim_encoder", <<Blank, A>>),
   Job("export", <<Full, Some, True>>),
   Job("export", <<[C EXCEPT !.events = <<FALSE, TRUE, FALSE, TRUE, FALSE>>], A>>),
   Job("record", <<A, [B EXCEPT !.timing = TRUE, !.parity = TRUE], C>>),
   Job("write_qssf", <<[B EXCEPT !.flips = <<{1}>>], [A EXCEPT !.flips = <<{}>>],
                       [C EXCEPT !.flips = <<{0, 1}>>], [B EXCEPT !.flips = <<{0}>>]>>),
   Job("write_qssf", <<[B EXCEPT !.flips = <<{1}>>], D, [A EXCEPT !.flips = <<{}>>],
                       Shot(<<TRUE, TRUE, TRUE, TRUE, TRUE>>)>>)}

Config(depth, observables) == [window_depth |-> depth, observable_count |-> observables]

MCConfigs == {Config(1, 2), Config(2, 1), Config(0, 1)}

\* A decoder that depends on every round of the window and on their order.
MCDecodeWindow(w) ==
  LET active == ActiveDetectors(w)
  IN  IF active = << >> THEN {} ELSE {active[1] % 2, Len(active) % 2}
=============================================================================
