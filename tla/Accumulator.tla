---------------------------- MODULE Accumulator ----------------------------
(***************************************************************************)
(* LogicalErrorAccumulator, crates/stabstream-metrics/src/lib.rs: counters *)
(* that many threads add to without a lock.  Each fetch_add is a step of   *)
(* its own; record is CountShot and then one CountError for every          *)
(* observable that was missed, in ascending order.                         *)
(***************************************************************************)
EXTENDS Integers, Sequences, FiniteSets, Functions

VARIABLES total_shots, logical_errors

counters == <<total_shots, logical_errors>>

\* The indices of the observables that are tracked: at most 64.
Tracked(observable_count) ==
  0 .. (IF observable_count < 64 THEN observable_count ELSE 64) - 1

\* new, and reset.
Cleared(observable_count) ==
  /\ total_shots' = 0
  /\ logical_errors' = [i \in Tracked(observable_count) |-> 0]

CountShot ==
  /\ total_shots' = total_shots + 1
  /\ UNCHANGED logical_errors

CountError(i) ==
  /\ logical_errors' = [logical_errors EXCEPT ![i] = @ + 1]
  /\ UNCHANGED total_shots

\* record, by a thread that nobody can interrupt.
RecordMissed(missed) ==
  /\ total_shots' = total_shots + 1
  /\ logical_errors' = [i \in DOMAIN logical_errors |->
                          logical_errors[i] + (IF i \in missed THEN 1 ELSE 0)]

Total(counts) == FoldFunction(+, 0, counts)

\* report, when nobody counts.  A rate is a fraction, the mean of the rates of
\* all observables too: 0 without shots or observables.
Report ==
  LET parts == total_shots * Cardinality(DOMAIN logical_errors)
  IN  [total_shots |-> total_shots,
       logical_errors |-> logical_errors,
       mean_logical_error_rate |->
         IF parts = 0 THEN [num |-> 0, den |-> 1]
         ELSE [num |-> Total(logical_errors), den |-> parts]]
=============================================================================
