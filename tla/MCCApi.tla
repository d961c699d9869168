------------------------------- MODULE MCCApi -------------------------------
(***************************************************************************)
(* Frames and error models for checking CApi.                              *)
(***************************************************************************)
EXTENDS CApi

Frame(ancilla_count, rle, observable_flips) ==
  [ancilla_count |-> ancilla_count, rle |-> rle, observable_flips |-> observable_flips]

Token(mode, run) == [mode |-> mode, run |-> run]

\* Runs that stop early, that go on too long, that are empty; a frame that is
\* narrower than the rest.
MCFrames ==
  {Frame(2, <<Token(TRUE, 1)>>, NoTag),
   Frame(2, <<Token(FALSE, 1), Token(TRUE, 3)>>, {1}),
   Frame(2, << >>, {}),
   Frame(1, <<Token(FALSE, 0), Token(TRUE, 1)>>, {0})}

Error(detectors, observables) ==
  [p |-> "some", detectors |-> detectors, observables |-> observables]

\* A chain with an open end for two rounds of two; a hyperedge, a certain error
\* and a part of its own; a model that is smaller than a round.
MCModels ==
  {[detector_count |-> 4,
    errors |-> <<Error(<<0, 1>>, <<0>>), Error(<<1, 2>>, << >>), Error(<<3>>, <<0, 1>>),
                 Error(<<2, 3>>, <<1>>)>>],
   [detector_count |-> 5,
    errors |-> <<Error(<<0, 2, 4>>, <<0>>), [Error(<<0, 1>>, <<1>>) EXCEPT !.p = "one"],
                 Error(<<1, 3>>, <<1>>), Error(<<3>>, <<0>>), Error(<< >>, <<1>>)>>],
   [detector_count |-> 1, errors |-> <<Error(<<0>>, <<0>>)>>]}
=============================================================================
