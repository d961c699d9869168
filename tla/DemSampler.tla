----------------------------- MODULE DemSampler -----------------------------
(***************************************************************************)
(* Sampling shots from an error model: DemSampler of                       *)
(* crates/stabstream-sim/src/noise.rs.  Which mechanisms fire is free; a   *)
(* bitmask of observables is a set.                                        *)
(***************************************************************************)
EXTENDS Integers, Sequences, SequencesExt

\* The draws a mechanism of this probability fires on are those up to a
\* threshold: all of them for "one", and the draw 0 even for "zero".
CanFire(p) == p \in {"zero", "some", "one"}

CanStay(p) == p \in {"zero", "some"}

\* The sets of mechanisms that can fire in one shot.
FiringSets(dem) ==
  {fired \in SUBSET DOMAIN dem.errors :
     \A k \in DOMAIN dem.errors :
       IF k \in fired THEN CanFire(dem.errors[k].p) ELSE CanStay(dem.errors[k].p)}

Toggle(events, detector) == [events EXCEPT ![detector + 1] = ~ @]

Fire(shot, err) ==
  [detector_events |-> FoldLeft(Toggle, shot.detector_events, err.detectors),
   observable_flips |-> SymDiff(shot.observable_flips, Range(err.observables))]

\* sample, when the mechanisms of fired fire.
Sample(dem, fired) ==
  LET indices == SelectSeq([k \in DOMAIN dem.errors |-> k], LAMBDA k : k \in fired)
  IN  FoldLeft(Fire, [detector_events |-> [d \in 1..dem.detector_count |-> FALSE],
                      observable_flips |-> {}],
               [j \in DOMAIN indices |-> dem.errors[indices[j]]])
=============================================================================
