------------------------------- MODULE Sweep -------------------------------
(***************************************************************************)
(* The threshold sweep, run of crates/stabstream-threshold/src/run.rs: for *)
(* one error model after the other, worker threads sample and decode shots *)
(* and count the observables that were missed in one accumulator.          *)
(*                                                                         *)
(* The range of shots is split into jobs, each with a decoder of its own   *)
(* (map_init); a job is a set of shot numbers here.  Log lines, the plot   *)
(* and the table on the terminal are left out.                             *)
(***************************************************************************)
EXTENDS Accumulator, Dem, DemSampler, SyndromeWindow, UnionFind

CONSTANTS
  Workers,     \* the threads of the pool
  Arguments,   \* command lines: dems (texts), distances, p_physical_overrides,
               \* decoder, shots, observable_count
  Unreadable   \* a text that cannot be read

ASSUME SweepAssumption ==
  /\ IsFiniteSet(Workers)
  /\ \A a \in Arguments :
       /\ a.shots \in Nat
       /\ a.observable_count \in Nat
       /\ a.dems \in Seq(Range(a.dems))

VARIABLES
  args,
  phase,        \* "start", "read", "shoot", "done" or "failed"
  data_points,
  file,         \* the points in the output file
  dem,          \* the model of the current point
  claimed,      \* how many shots are in jobs by now
  job,          \* the shots a worker has left
  scratch,      \* the working arrays of the decoder of its job
  shot,         \* the shot it records: its number, whether total_shots has it,
                \* and the observables that are still to count
  judged        \* history: what the shots of the current point came to

main    == <<args, phase, data_points, file, dem>>
workers == <<claimed, job, scratch, shot>>
vars    == <<main, workers, counters, judged>>

Observables == Tracked(args.observable_count)

Points == Len(args.dems)

Idle == [at |-> 0, counted |-> TRUE, left |-> {}]

Busy(w) == ~ shot[w].counted \/ shot[w].left # {}

Graph == FromDem(dem)

NoDem == [ok |-> TRUE, detector_count |-> 0, observable_count |-> 0, errors |-> << >>]

Init ==
  /\ args \in Arguments
  /\ phase = "start"
  /\ data_points = << >>
  /\ file = << >>
  /\ dem = NoDem
  /\ claimed = 0
  /\ job = [w \in Workers |-> {}]
  /\ scratch = [w \in Workers |-> NewDecoder(FromDem(NoDem))]
  /\ shot = [w \in Workers |-> Idle]
  /\ judged = << >>
  /\ total_shots = 0
  /\ logical_errors = [i \in Observables |-> 0]

-----------------------------------------------------------------------------
(* The main thread *)

\* A list of labels is empty, or as long as the list of models.
Fits(labels) == labels = << >> \/ Len(labels) = Points

Validate ==
  /\ phase = "start"
  /\ phase' = IF Fits(args.distances) /\ Fits(args.p_physical_overrides)
              THEN "read" ELSE "failed"
  /\ UNCHANGED <<args, data_points, file, dem, workers, counters, judged>>

NextText == args.dems[Len(data_points) + 1]

\* The next model is parsed; its sampler, graph and accumulator are new.
ReadModel ==
  /\ phase = "read"
  /\ Len(data_points) < Points
  /\ NextText # Unreadable
  /\ Parse(NextText).ok
  /\ phase' = "shoot"
  /\ dem' = Parse(NextText)
  /\ Cleared(args.observable_count)
  /\ claimed' = 0
  /\ judged' = << >>
  /\ UNCHANGED <<args, data_points, file, job, scratch, shot>>

\* Mutant: the points it has are saved.
ReadFails_Saves ==
  /\ phase = "read"
  /\ Len(data_points) < Points
  /\ NextText = Unreadable \/ (NextText # Unreadable /\ ~ Parse(NextText).ok)
  /\ phase' = "failed"
  /\ file' = data_points
  /\ UNCHANGED <<args, data_points, dem, workers, counters, judged>>

\* A text that cannot be read or parsed ends the sweep: nothing is written.
ReadFails ==
  /\ phase = "read"
  /\ Len(data_points) < Points
  /\ NextText = Unreadable \/ (NextText # Unreadable /\ ~ Parse(NextText).ok)
  /\ phase' = "failed"
  /\ UNCHANGED <<args, data_points, file, dem, workers, counters, judged>>

\* Mutant: it does not wait for the jobs.
Join_WhenClaimed == claimed = args.shots

\* for_each returns when every job is done.
Join ==
  /\ claimed = args.shots
  /\ \A w \in Workers : job[w] = {} /\ ~ Busy(w)

DataPoint(n, report) ==
  [distance |-> IF args.distances = << >> THEN 0 ELSE args.distances[n],
   p_physical |-> IF args.p_physical_overrides = << >> THEN "inferred"
                  ELSE args.p_physical_overrides[n],
   p_l |-> report.mean_logical_error_rate,
   shots |-> args.shots,
   logical_errors |-> Total(report.logical_errors)]

TakeReport ==
  /\ phase = "shoot"
  /\ Join
  /\ data_points' = Append(data_points, DataPoint(Len(data_points) + 1, Report))
  /\ phase' = "read"
  /\ UNCHANGED <<args, file, dem, workers, counters, judged>>

WriteFile ==
  /\ phase = "read"
  /\ Len(data_points) = Points
  /\ file' = data_points
  /\ phase' = "done"
  /\ UNCHANGED <<args, data_points, dem, workers, counters, judged>>

\* The file cannot be created, or not be written to its end.
WriteFails ==
  /\ phase = "read"
  /\ Len(data_points) = Points
  /\ \E n \in 0..Len(data_points) : file' = SubSeq(data_points, 1, n)
  /\ phase' = "failed"
  /\ UNCHANGED <<args, data_points, dem, workers, counters, judged>>

-----------------------------------------------------------------------------
(* The workers *)

\* Mutant: a job reaches into the next one.
StartJob_Overlaps(w) ==
  /\ phase = "shoot"
  /\ job[w] = {} /\ ~ Busy(w)
  /\ \E next \in claimed + 1 .. args.shots :
       /\ job' = [job EXCEPT ![w] = claimed .. next]
       /\ claimed' = next
  /\ scratch' = [scratch EXCEPT ![w] = NewDecoder(Graph)]
  /\ UNCHANGED <<main, shot, counters, judged>>

\* A worker takes the next part of the range as a job, with a new decoder.
StartJob(w) ==
  /\ phase = "shoot"
  /\ job[w] = {} /\ ~ Busy(w)
  /\ \E next \in claimed + 1 .. args.shots :
       /\ job' = [job EXCEPT ![w] = claimed .. next - 1]
       /\ claimed' = next
  /\ scratch' = [scratch EXCEPT ![w] = NewDecoder(Graph)]
  /\ UNCHANGED <<main, shot, counters, judged>>

\* flat_shot_to_window: the events of a shot as a window of one round.
ShotWindow(events) ==
  PushOwned(NewWindow(dem.detector_count, 1), [frame_id |-> 0, detector_events |-> events])

\* decode_window, with the arrays uf; the null decoder says that nothing
\* flipped, and so does the other without an active detector.
Decode(uf, events) ==
  LET active == ActiveDetectors(ShotWindow(events))
  IN  IF args.decoder = "null" \/ active = << >>
      THEN [uf |-> uf, flips |-> {}]
      ELSE DecodeActive(Graph, uf, active)

\* The next shot of a job is sampled and decoded, and record gets the
\* observables whose flips are not those of the ground truth.
Shoot(w) ==
  /\ phase = "shoot"
  /\ job[w] # {} /\ ~ Busy(w)
  /\ \E fired \in FiringSets(dem), k \in job[w] :
       LET sampled == Sample(dem, fired)
           decoded == Decode(scratch[w], sampled.detector_events)
           missed == SymDiff(decoded.flips, sampled.observable_flips) \cap Observables
       IN  /\ \A other \in job[w] : k <= other
           /\ scratch' = [scratch EXCEPT ![w] = decoded.uf]
           /\ shot' = [shot EXCEPT ![w] = [at |-> k, counted |-> FALSE, left |-> missed]]
           /\ job' = [job EXCEPT ![w] = @ \ {k}]
           /\ judged' = [n \in DOMAIN judged \cup {k} |->
                           IF n = k THEN [fired |-> fired, missed |-> missed] ELSE judged[n]]
  /\ UNCHANGED <<main, claimed, counters>>

RecordShot(w) ==
  /\ phase = "shoot"
  /\ ~ shot[w].counted
  /\ CountShot
  /\ shot' = [shot EXCEPT ![w] = [at |-> @.at, counted |-> TRUE, left |-> @.left]]
  /\ UNCHANGED <<main, claimed, job, scratch, judged>>

RecordError(w) ==
  /\ phase = "shoot"
  /\ shot[w].counted
  /\ \E i \in shot[w].left :
       /\ \A j \in shot[w].left : i <= j
       /\ CountError(i)
       /\ shot' = [shot EXCEPT ![w].left = @ \ {i}]
  /\ UNCHANGED <<main, claimed, job, scratch, judged>>

-----------------------------------------------------------------------------
MainThread == Validate \/ ReadModel \/ ReadFails \/ TakeReport \/ WriteFile \/ WriteFails

Worker(w) == StartJob(w) \/ Shoot(w) \/ RecordShot(w) \/ RecordError(w)

\* Nothing else may come to a stop: deadlock is checked.
Ended ==
  /\ phase \in {"done", "failed"}
  /\ UNCHANGED vars

Next == MainThread \/ Ended \/ \E w \in Workers : Worker(w)

Spec == Init /\ [][Next]_vars

-----------------------------------------------------------------------------
(* Properties *)

\* The types of what the sweep keeps; jobs are made of shots in the range.
TypeOK ==
  /\ args \in Arguments
  /\ phase \in {"start", "read", "shoot", "done", "failed"}
  /\ claimed \in 0..args.shots
  /\ total_shots \in Nat
  /\ logical_errors \in [Observables -> Nat]
  /\ job \in [Workers -> SUBSET (0..args.shots - 1)]
  /\ shot \in [Workers -> [at : 0..args.shots, counted : BOOLEAN, left : SUBSET Observables]]
  /\ DOMAIN judged \subseteq 0..args.shots - 1

Missed(i) == {k \in DOMAIN judged : i \in judged[k].missed}

\* What a point says of its shots, whose threads counted without a lock: every
\* shot was sampled once and counted once, and the errors of every observable
\* are the shots that missed it.
PointIsExact ==
  phase = "read" /\ data_points # << >> =>
    LET point == data_points[Len(data_points)]
    IN  /\ DOMAIN judged = 0..args.shots - 1
        /\ total_shots = args.shots
        /\ point.logical_errors = Total([i \in Observables |-> Cardinality(Missed(i))])

\* How a shot is judged by itself: by the clusters that the detectors of its
\* mechanisms grow to in the graph, whatever the worker decoded before.
JudgedAlone(fired) ==
  LET Flipped(d) == {k \in fired : d \in Range(dem.errors[k].detectors)}
      active == {d \in 0..dem.detector_count - 1 : Cardinality(Flipped(d)) % 2 = 1}
      truth == {i \in Observables :
                  Cardinality({k \in fired : i \in Range(dem.errors[k].observables)}) % 2 = 1}
      answer == IF args.decoder = "null" \/ active = {} THEN {}
                ELSE PartitionFlips(Graph, active)
  IN  SymDiff(answer, truth) \cap Observables

\* A decoder serves all shots of a job; none of them shows in the judgement of
\* a later one.  The sampler and the decoder index arrays of detector_count by
\* the detectors that an error names, also by those only a repeat block names.
ShotsAreIndependent ==
  /\ phase = "shoot" => \A k \in DOMAIN judged : judged[k].missed = JudgedAlone(judged[k].fired)
  /\ \A k \in DOMAIN dem.errors :
       \A d \in Range(dem.errors[k].detectors) : d < dem.detector_count

\* A sweep that cannot have all its points writes none of them, and a file that
\* is written holds one for every model, in their order.
OutputIsComplete ==
  /\ file # << >> => Len(data_points) = Points
  /\ phase = "done" =>
       /\ Len(file) = Points
       /\ \A n \in 1..Points : args.dems[n] # Unreadable /\ Parse(args.dems[n]).ok
       /\ args.distances # << >> => \A n \in 1..Points : file[n].distance = args.distances[n]

=============================================================================
