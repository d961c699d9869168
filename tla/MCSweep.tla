------------------------------ MODULE MCSweep ------------------------------
(***************************************************************************)
(* Command lines for checking Sweep.                                       *)
(***************************************************************************)
EXTENDS Sweep

Error(p, detectors, observables) ==
  [kind |-> "error", p |-> p, detectors |-> detectors, observables |-> observables]

Repeat(count) == [kind |-> "repeat", count |-> count]

Detector(id) == [kind |-> "detector", id |-> id]

Observable(id) == [kind |-> "observable", id |-> id]

Kind(kind) == [kind |-> kind]

\* Two open ends, and a detector that comes in a block that is never run.
Chain == <<Error("some", <<0, 1>>, <<0>>), Error("some", <<1>>, << >>),
           Repeat(0), Error("one", <<2>>, <<1>>), Kind("close"), Observable(1)>>

\* A block: a hyperedge twice, and one that always fires.
Block == <<Kind("other"), Repeat(2), Error("some", <<0, 1, 2>>, <<1>>), Detector(2),
           Kind("close"), Error("one", <<0>>, <<0, 1>>)>>

\* A detector and an observable are named twice; an error that is as good as
\* impossible, and one without a detector.
Twice == <<Error("some", <<1, 1, 0>>, <<0, 0>>), Error("zero", <<0>>, << >>),
           Error("some", << >>, <<1>>)>>

Nested == <<Repeat(1), Repeat(1), Kind("close"), Kind("close")>>

Malformed == <<Error("some", <<0>>, << >>), Kind("malformed")>>

Open == <<Repeat(2), Error("some", <<0>>, << >>)>>

Args(dems, decoder, shots, observable_count) ==
  [dems |-> dems, distances |-> << >>, p_physical_overrides |-> << >>,
   decoder |-> decoder, shots |-> shots, observable_count |-> observable_count]

MCArguments ==
  {Args(<<Chain>>, "union-find", 3, 2),
   [Args(<<Block, Twice>>, "union-find", 2, 2) EXCEPT !.distances = <<3, 5>>],
   Args(<<Twice>>, "null", 2, 1),
   Args(<<Block, Malformed>>, "union-find", 1, 1),
   Args(<<Chain, Nested>>, "union-find", 0, 2),
   [Args(<<Open, Chain>>, "union-find", 1, 0) EXCEPT !.p_physical_overrides = <<"a", "b">>],
   [Args(<<Unreadable, Block>>, "union-find", 1, 1) EXCEPT !.distances = <<3, 5>>],
   Args(<<Chain>>, "union-find", 1, 0),
   [Args(<<Chain, Block>>, "union-find", 1, 1) EXCEPT !.distances = <<3>>]}
=============================================================================
