------------------------------- MODULE Replay -------------------------------
(***************************************************************************)
(* The offline analysis of a recording: analyze_file and run_analysis of   *)
(* crates/stabstream-replay/src/analyze.rs, and StreamPlayer.  One step is *)
(* one turn of the loop over the frames.                                   *)
(*                                                                         *)
(* The decoder is any implementation of the Decoder trait, and what it     *)
(* takes for a window any time.  A rate is a fraction.                     *)
(***************************************************************************)
EXTENDS QssfFile, Accumulator

CONSTANTS
  Configs,         \* AnalysisConfig: [window_depth, observable_count]
  DecodeWindow(_), \* the observables a decoder takes for flipped
  Elapsed          \* how long it may take

VARIABLES
  analysis,      \* "none", "frames", "done", "error" or "adrift"
  config,
  at,            \* how much of the recording was read
  window,        \* << >> or <<window>>
  frames_processed,
  ancilla_fire_counts,
  syndrome_weight_hist,
  any_ground_truth,
  latencies,
  report

replay == <<analysis, config, at, window, frames_processed, ancilla_fire_counts,
            syndrome_weight_hist, any_ground_truth, latencies, report>>

NoReport ==
  [frames_processed |-> 0, total_shots |-> 0, observable_count |-> 0,
   logical_errors |-> << >>, mean_logical_error_rate |-> [num |-> 0, den |-> 1],
   ground_truth_available |-> FALSE, latency |-> [mean |-> 0, p50 |-> 0, p99 |-> 0, max |-> 0],
   ancilla_count |-> 0, fires |-> << >>, syndrome_weight_histogram |-> << >>]

ReplayInit ==
  /\ analysis = "none"
  /\ config \in Configs
  /\ at = 0
  /\ window = << >>
  /\ frames_processed = 0
  /\ ancilla_fire_counts = << >>
  /\ syndrome_weight_hist = << >>
  /\ any_ground_truth = FALSE
  /\ latencies = << >>
  /\ report = NoReport
  /\ total_shots = 0
  /\ logical_errors = [i \in Tracked(config.observable_count) |-> 0]

-----------------------------------------------------------------------------
(* Latencies *)

Sorted(numbers) == SortSeq(numbers, <)

\* The nearest rank: the number at p percent of the way, rounded up.
Percentile(sorted, p) ==
  IF sorted = << >> THEN 0
  ELSE LET rank == (Len(sorted) * p + 99) \div 100
       IN  sorted[IF rank = 0 THEN 1 ELSE rank]

Latency(numbers) ==
  LET sorted == Sorted(numbers)
  IN  [mean |-> IF sorted = << >> THEN 0 ELSE FoldLeft(+, 0, sorted) \div Len(sorted),
       p50 |-> Percentile(sorted, 50),
       p99 |-> Percentile(sorted, 99),
       max |-> IF sorted = << >> THEN 0 ELSE Last(sorted)]

-----------------------------------------------------------------------------
(* The loop *)

\* Mutant: the length of the file does not matter.
Open_AnyLength(bytes, headless) ==
  /\ analysis = "none"
  /\ analysis' = "frames"
  /\ at' = IF headless THEN 0 ELSE FileHeaderLen
  /\ UNCHANGED <<config, window, frames_processed, ancilla_fire_counts, syndrome_weight_hist,
                 any_ground_truth, latencies, report, counters>>

\* analyze_file.  A file that ends inside the file header is an error, so that
\* an empty one is; a compressed recording has none.
Open(bytes, headless) ==
  /\ analysis = "none"
  /\ IF headless \/ Len(bytes) >= FileHeaderLen
     THEN analysis' = "frames" /\ at' = (IF headless THEN 0 ELSE FileHeaderLen)
     ELSE analysis' = "error" /\ UNCHANGED at
  /\ UNCHANGED <<config, window, frames_processed, ancilla_fire_counts, syndrome_weight_hist,
                 any_ground_truth, latencies, report, counters>>

Fired(events) == {i \in DOMAIN events : events[i]}

\* The counts of the ancillas, and those of the weights, are as long as the
\* first frame is wide; what lies beyond is not counted.
CountEvents(events, width) ==
  LET fires  == IF window = << >> THEN [i \in 1..width |-> 0] ELSE ancilla_fire_counts
      hist   == IF window = << >> THEN [i \in 1..width + 1 |-> 0] ELSE syndrome_weight_hist
      weight == Cardinality(Fired(events))
  IN  /\ ancilla_fire_counts' = [i \in DOMAIN fires |->
                                   fires[i] + (IF i \in Fired(events) THEN 1 ELSE 0)]
      /\ syndrome_weight_hist' = [i \in DOMAIN hist |->
                                    hist[i] + (IF i = weight + 1 THEN 1 ELSE 0)]

IsFull(w) == Len(w.frames) = w.window_depth

\* The round goes into the window, which is made for the first one.
PushRound(frame, events) ==
  PushOwned(IF window = << >> THEN NewWindow(frame.ancilla_count, config.window_depth)
            ELSE window[1],
            [frame_id |-> frame.frame_id, detector_events |-> events])

SymmetricDifference(a, b) == (a \ b) \cup (b \ a)

\* record: the answer for a window, against the truth of its latest round.
Judge(w, truth) ==
  RecordMissed(SymmetricDifference(DecodeWindow(w), truth) \cap Tracked(config.observable_count))

\* One frame: counted, pushed, and the window decoded if it is full.  Without
\* the tag of the ground truth, nothing flipped.
Frame(raw) ==
  LET frame  == ParseRawFrame(raw)
      events == DecodeRle(frame.detector_events, frame.ancilla_count)
      truth  == IF frame.observable_flips = << >> THEN {} ELSE frame.observable_flips[1]
      pushed == PushRound(frame, events)
  IN  /\ frames_processed' = frames_processed + 1
      /\ CountEvents(events, frame.ancilla_count)
      /\ any_ground_truth' = (any_ground_truth \/ frame.observable_flips # << >>)
      /\ window' = <<pushed>>
      /\ IF IsFull(pushed)
         THEN /\ \E elapsed \in Elapsed : latencies' = Append(latencies, elapsed)
              /\ Judge(pushed, truth)
         ELSE UNCHANGED <<latencies, counters>>

FinalReport ==
  [frames_processed |-> frames_processed, total_shots |-> total_shots,
   observable_count |-> config.observable_count,
   logical_errors |-> logical_errors,
   mean_logical_error_rate |-> Report.mean_logical_error_rate,
   ground_truth_available |-> any_ground_truth, latency |-> Latency(latencies),
   ancilla_count |-> Len(ancilla_fire_counts), fires |-> ancilla_fire_counts,
   syndrome_weight_histogram |-> syndrome_weight_hist]

\* One turn of the loop.  An error leaves no report at all.
Turn(bytes) ==
  /\ analysis = "frames"
  /\ UNCHANGED config
  /\ \E next \in {ReadNextFrame(bytes, at)} :
       /\ at' = next.at
       /\ \/ /\ next.status = "frame"
             /\ Frame(next.frame)
             /\ UNCHANGED <<analysis, report>>
          \/ /\ next.status = "end"
             /\ analysis' = "done"
             /\ report' = FinalReport
             /\ UNCHANGED <<window, frames_processed, ancilla_fire_counts, syndrome_weight_hist,
                            any_ground_truth, latencies, counters>>
          \/ /\ next.status \in {"error", "adrift"}
             /\ analysis' = next.status
             /\ UNCHANGED <<window, frames_processed, ancilla_fire_counts, syndrome_weight_hist,
                            any_ground_truth, latencies, report, counters>>
=============================================================================
