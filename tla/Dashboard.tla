----------------------------- MODULE Dashboard -----------------------------
(***************************************************************************)
(* The terminal dashboard: MetricsAggregator of dashboard/src/metrics.rs,  *)
(* the loop that feeds it, and the export of what it remembers             *)
(* (dashboard/src/main.rs).                                                *)
(*                                                                         *)
(* A frame is what the parser returns: [frame_id, ancilla_count,           *)
(* detector_events (tokens), observable_flips (at most one set)].  Wall    *)
(* times, the latencies among them, and the screen are left out.           *)
(***************************************************************************)
EXTENDS QssfFile

CONSTANTS
  WINDOW,         \* 1000
  EXPORT_WINDOW   \* 2000

ASSUME DashboardAssumption ==
  /\ WINDOW \in Nat \ {0}
  /\ EXPORT_WINDOW \in Nat \ {0}

VARIABLES
  total_frames,
  cluster_sizes,      \* cluster_size_1 to cluster_size_4plus
  rates,              \* syndrome_rates and fire_rates: [fired, of]
  per_ancilla_fires,
  heatmap_frames,
  ancilla_count,
  obs_errors, obs_total,
  export_buf,         \* [events, frame_id]
  exported,           \* the last file that was exported
  shown               \* history: the frames that had events

aggregator == <<total_frames, cluster_sizes, rates, per_ancilla_fires, heatmap_frames,
                ancilla_count, obs_errors, obs_total, export_buf>>
dashboard == <<aggregator, exported, shown>>

DashboardInit ==
  /\ total_frames = 0
  /\ cluster_sizes = [b \in 1..4 |-> 0]
  /\ rates = << >>
  /\ per_ancilla_fires = << >>
  /\ heatmap_frames = 0
  /\ ancilla_count = 0
  /\ obs_errors = 0
  /\ obs_total = 0
  /\ export_buf = << >>
  /\ exported = << >>
  /\ shown = << >>

-----------------------------------------------------------------------------
(* The aggregator *)

ClusterBucket(events) ==
  CASE events \in 0..1 -> 1
    [] events \in 2..3 -> 2
    [] events \in 4..5 -> 3
    [] events > 5      -> 4

\* Mutant: one too many is kept.
PushLast_OneTooMany(queue, value, limit) ==
  Append(IF Len(queue) > limit THEN Tail(queue) ELSE queue, value)

\* push_window, and the export ring: the oldest goes when the queue is full.
PushLast(queue, value, limit) ==
  Append(IF Len(queue) >= limit THEN Tail(queue) ELSE queue, value)

\* record: the basic counters.
Record(fired, of) ==
  /\ total_frames' = total_frames + 1
  /\ rates' = PushLast(rates, [fired |-> fired, of |-> of], WINDOW)
  /\ cluster_sizes' = [b \in 1..4 |->
                         cluster_sizes[b] + (IF b = ClusterBucket(fired) THEN 1 ELSE 0)]

\* Mutant: the counts are not cleared.
Heatmap_KeepsCounts(n) == [fires |-> [i \in 1..n |-> 0], frames |-> heatmap_frames]

\* The heatmap a round of n ancillas is counted in: a new one if the width
\* changed.
Heatmap(n) ==
  IF Len(per_ancilla_fires) # n
  THEN [fires |-> [i \in 1..n |-> 0], frames |-> 0]
  ELSE [fires |-> per_ancilla_fires, frames |-> heatmap_frames]

\* record_ancilla_events; a frame without events leaves everything as it is.
RecordAncillaEvents(events, frame_id, flips) ==
  IF events = << >>
  THEN UNCHANGED <<per_ancilla_fires, heatmap_frames, ancilla_count, obs_errors, obs_total,
                   export_buf, shown>>
  ELSE /\ per_ancilla_fires' = [i \in 1..Len(events) |->
                                  Heatmap(Len(events)).fires[i] + (IF events[i] THEN 1 ELSE 0)]
       /\ heatmap_frames' = Heatmap(Len(events)).frames + 1
       /\ ancilla_count' = IF Len(per_ancilla_fires) # Len(events)
                           THEN Len(events) % CountModulus ELSE ancilla_count
       /\ obs_total' = obs_total + Len(flips)
       /\ obs_errors' = obs_errors + (IF flips # << >> /\ flips # <<{}>> THEN 1 ELSE 0)
       /\ export_buf' = PushLast(export_buf, [events |-> events, frame_id |-> frame_id],
                                 EXPORT_WINDOW)
       /\ shown' = Append(shown, [events |-> events, frame_id |-> frame_id,
                                  observable_flips |-> flips])

\* A frame arrives at run_stream_loop.
ShowFrame(frame) ==
  /\ Record(Popcount(frame.detector_events), frame.ancilla_count)
  /\ RecordAncillaEvents(DecodeDetectorEvents(frame.detector_events), frame.frame_id,
                         frame.observable_flips)
  /\ UNCHANGED exported

-----------------------------------------------------------------------------
(* The export *)

\* Mutant: the measurements are not counted.
ExportedFrame_NarrowerLength(entry, width) ==
  LET de == EncodeDetectorEvents(entry.events)
  IN  FrameBytes([frame_id |-> entry.frame_id, ancilla_count |-> width,
                  payload_len |-> PrefixLen + Len(de), flags |-> {}],
                 de, entry.events, << >>, "header")

\* A frame of the export: its header says how wide the stream is now.
ExportedFrame(entry, width) ==
  LET de == EncodeDetectorEvents(entry.events)
  IN  FrameBytes([frame_id |-> entry.frame_id, ancilla_count |-> width,
                  payload_len |-> PrefixLen + Len(de) + Len(entry.events), flags |-> {}],
                 de, entry.events, << >>, "header")

\* export_snapshot: no file when there is nothing to export.
Export ==
  /\ exported' = IF export_buf = << >> \/ ancilla_count = 0 THEN exported
                 ELSE FileHeader \o
                      FlattenSeq([k \in DOMAIN export_buf |->
                                    ExportedFrame(export_buf[k], ancilla_count)])
  /\ UNCHANGED <<aggregator, shown>>

-----------------------------------------------------------------------------
(* Properties *)

\* The last frames of a sequence, at most so many.
LastOf(frames, limit) ==
  SubSeq(frames, IF Len(frames) > limit THEN Len(frames) - limit + 1 ELSE 1, Len(frames))

\* What an export would hold is the tail of what was shown, whatever widths the
\* frames had.
ExportIsTheTail ==
  export_buf = [k \in DOMAIN LastOf(shown, EXPORT_WINDOW) |->
                  [events |-> LastOf(shown, EXPORT_WINDOW)[k].events,
                   frame_id |-> LastOf(shown, EXPORT_WINDOW)[k].frame_id]]

\* The frames the heatmap is about.
Mapped == Len(shown) - heatmap_frames + 1 .. Len(shown)

\* The heatmap is about the latest frames, all of one width, and counts each of
\* their events: its rates are proportions, also after a change of the width.
HeatmapIsExact ==
  /\ heatmap_frames <= Len(shown)
  /\ \A k \in Mapped : Len(shown[k].events) = Len(per_ancilla_fires)
  /\ \A i \in DOMAIN per_ancilla_fires :
       per_ancilla_fires[i] = Cardinality({k \in Mapped : shown[k].events[i]})
=============================================================================
