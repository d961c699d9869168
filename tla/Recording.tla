----------------------------- MODULE Recording -----------------------------
(***************************************************************************)
(* From a writer to a reader: what one program writes, the analysis, the   *)
(* dashboard or a Python program reads.                                    *)
(*                                                                         *)
(* The analysis opens a file, which may be cut anywhere: the writer was    *)
(* killed, the disk was full, or it still writes.  The dashboard reads a   *)
(* whole file, or a socket while frames arrive; that they arrive in parts  *)
(* is the subject of QssfStream.                                           *)
(***************************************************************************)
EXTENDS Writers, PyLoaders, Dashboard

VARIABLES
  reader,     \* "analyze", "dashboard" or "python"
  cut,        \* how much of the file the analysis finds
  screen,     \* "off", "on", "closed", "error" or "adrift"
  stream_at   \* how much of the stream the dashboard has read

vars == <<writer, replay, counters, dashboard, loader, loaders, reader, cut, screen, stream_at>>

Init ==
  /\ WriterInit
  /\ ReplayInit
  /\ DashboardInit
  /\ LoadersInit
  /\ reader \in {"analyze", "dashboard", "python"}
  /\ reader # "analyze" => job.program # "record"
  /\ reader = "dashboard" => config = CHOOSE c \in Configs : TRUE
  /\ loader \in IF reader = "python" THEN Loaders ELSE {"none"}
  /\ cut = 0
  /\ screen = "off"
  /\ stream_at = 0

\* Programs whose stream is read while they write.
Sockets == {"serve", "serve_dem", "stim_encoder"}

Ended == phase \in {"done", "failed"}

Write ==
  /\ WriterNext
  /\ UNCHANGED <<replay, counters, dashboard, loader, loaders, reader, cut, screen, stream_at>>

-----------------------------------------------------------------------------
(* The analysis *)

Recorded == SubSeq(file, 1, cut)

OpenRecording ==
  /\ reader = "analyze"
  /\ Ended
  /\ job.program \notin Sockets
  /\ \E n \in IF job.program = "record" THEN {Len(file)} ELSE 0..Len(file) :
        /\ cut' = n
        /\ Open(SubSeq(file, 1, n), job.program = "record")
  /\ UNCHANGED <<writer, dashboard, loader, loaders, reader, screen, stream_at>>

AnalyzeTurn ==
  /\ Turn(Recorded)
  /\ UNCHANGED <<writer, dashboard, loader, loaders, reader, cut, screen, stream_at>>

-----------------------------------------------------------------------------
(* The dashboard *)

OpenScreen ==
  /\ reader = "dashboard"
  /\ screen = "off"
  /\ Ended \/ (job.program \in Sockets /\ file # << >>)
  /\ IF Len(file) >= FileHeaderLen
     THEN screen' = "on" /\ stream_at' = FileHeaderLen
     ELSE screen' = "closed" /\ UNCHANGED stream_at
  /\ UNCHANGED <<writer, replay, counters, dashboard, loader, loaders, reader, cut>>

\* next_frame comes back with a frame, with the end of the stream, or fails; it
\* waits for what it asks for while the writer may still send it.
ScreenTurn ==
  /\ screen = "on"
  /\ Ended \/ HasNext(file, stream_at)
  /\ \E next \in {NextOnWire(file, stream_at)} :
       /\ stream_at' = next.at
       /\ \/ /\ next.status = "frame"
             /\ ShowFrame(next.frame)
             /\ UNCHANGED screen
          \/ /\ next.status = "end"
             /\ screen' = "closed"
             /\ UNCHANGED dashboard
          \/ /\ next.status \in {"error", "adrift"}
             /\ screen' = next.status
             /\ UNCHANGED dashboard
  /\ UNCHANGED <<writer, replay, counters, loader, loaders, reader, cut>>

\* The user presses e, or q.
PressExport ==
  /\ screen = "on"
  /\ Export
  /\ UNCHANGED <<writer, replay, counters, loader, loaders, reader, cut, screen, stream_at>>

PressQuit ==
  /\ screen = "on"
  /\ screen' = "closed"
  /\ UNCHANGED <<writer, replay, counters, dashboard, loader, loaders, reader, cut, stream_at>>

-----------------------------------------------------------------------------
(* A Python program, of a whole file *)

StartLoader ==
  /\ reader = "python"
  /\ Ended
  /\ OpenLoader(file)
  /\ UNCHANGED <<writer, replay, dashboard, loader, reader, cut, screen, stream_at>>

TurnLoader ==
  /\ LoaderTurn(file)
  /\ UNCHANGED <<writer, replay, dashboard, loader, reader, cut, screen, stream_at>>

Next ==
  \/ Write
  \/ OpenRecording \/ AnalyzeTurn
  \/ StartLoader \/ TurnLoader
  \/ OpenScreen \/ ScreenTurn \/ PressExport \/ PressQuit

Spec == Init /\ [][Next]_vars

-----------------------------------------------------------------------------
(* Properties *)

\* The phases of the three parts and what they keep in them: an analysis has a
\* window exactly when it has seen a frame, and a report exactly when it is done.
TypeOK ==
  /\ phase \in {"start", "write", "done", "failed"}
  /\ stim \in {"well", "failed"}
  /\ Len(ends) = frame_id
  /\ analysis \in {"none", "frames", "done", "error", "adrift"}
  /\ at \in 0..cut
  /\ cut \in 0..Len(file)
  /\ window # << >> <=> frames_processed > 0
  /\ report # NoReport => analysis = "done"
  /\ screen \in {"off", "on", "closed", "error", "adrift"}
  /\ stream_at \in 0..Len(file)
  /\ total_frames <= frame_id

\* How many frames end within the first n bytes.
FramesIn(n) == Cardinality({k \in DOMAIN ends : ends[k] <= n})

\* Of a file that was cut anywhere, the analysis reads exactly the frames that
\* are whole; it takes a cut inside a header for the end, and any other inside
\* a frame for an error.
ReadsAPrefix ==
  reader = "analyze" /\ Sound =>
    /\ analysis # "adrift"
    /\ frames_processed = FramesIn(at)
    /\ analysis = "done" => frames_processed = FramesIn(cut)
    /\ analysis = "error" => cut \notin Range(ends) \/ stim = "failed"

\* The rounds k - depth + 1 to k of what a job describes, as a window that was
\* made for the first frame.
WindowAt(k) ==
  LET width == Described[1].ancilla_count
      depth == config.window_depth
      Event(round, i) == i <= Len(Described[round].events) /\ Described[round].events[i]
  IN  [frames |-> [j \in 1..depth |->
                     [frame_id |-> k - depth + j - 1,
                      detector_events |-> Described[k - depth + j].events]],
       window_depth |-> depth,
       detector_matrix |-> [m \in 1..depth * width |->
                              Event(k - depth + 1 + (m - 1) \div width, ((m - 1) % width) + 1)],
       ancilla_count |-> width]

\* Whether the truth of a round is known.
Judged(k) == Described[k].observable_flips # << >>

\* The observables that the answer for the window up to such a round gets wrong.
WrongAt(k) == SymmetricDifference(DecodeWindow(WindowAt(k)), Described[k].observable_flips[1])

\* A percentile is the least of the numbers that so many percent reach.
IsPercentile(v, p) ==
  LET UpTo(n) == Cardinality({k \in DOMAIN latencies : latencies[k] <= n})
  IN  IF latencies = << >> THEN v = 0
      ELSE /\ v \in Range(latencies)
           /\ 100 * UpTo(v) >= p * Len(latencies)
           /\ 100 * UpTo(v - 1) < p * Len(latencies)

\* The report says of the frames that were read what the job described: which
\* fired how often, how many at once, whether there was ground truth, and, for
\* every window that was full, which observables the decoder got wrong against
\* the truth of its latest round.  Of windows whose latest round has no truth
\* nothing is claimed: analyze.rs counts what the decoder finds there as wrong,
\* though analyze.rs:3-4 and 322-324 give rates only with a truth, and the
\* report's comment has zeros without.
ReportIsExact ==
  analysis = "done" /\ Sound =>
    LET depth == config.window_depth
        read  == 1..frames_processed
        decoded == IF depth = 0 THEN {} ELSE depth..frames_processed
        unjudged == {k \in decoded : ~ Judged(k)}
        Wrong(o) == {k \in decoded \ unjudged : o \in WrongAt(k)}
        Weight(k) == Cardinality(Fired(Described[k].events))
    IN  /\ report.frames_processed = frames_processed
        /\ report.total_shots = Cardinality(decoded)
        /\ report.ground_truth_available <=> \E k \in read : Described[k].observable_flips # << >>
        /\ report.ancilla_count = IF read = {} THEN 0 ELSE Described[1].ancilla_count
        /\ \A i \in 1..report.ancilla_count :
             report.fires[i] = Cardinality({k \in read : i \in Fired(Described[k].events)})
        /\ \A w \in DOMAIN report.syndrome_weight_histogram :
             report.syndrome_weight_histogram[w] = Cardinality({k \in read : Weight(k) = w - 1})
        /\ \A o \in Tracked(config.observable_count) :
             report.logical_errors[o] - Cardinality(Wrong(o)) \in 0..Cardinality(unjudged)
        /\ IsPercentile(report.latency.p50, 50)
        /\ IsPercentile(report.latency.p99, 99)
        /\ IsPercentile(report.latency.max, 100)

\* How many frames begin before the n-th byte ends.
FramesBefore(n) ==
  Cardinality({k \in DOMAIN ends : (IF k = 1 THEN FileHeaderLen ELSE ends[k - 1]) < n})

\* How many events of the latest of n rounds that were read may have been lost:
\* of a line that stim did not print to its end, next_frame takes the terminator
\* for the measurements that are missing, finds the end of the stream where it
\* looks for the terminator, and returns the frame all the same.
Lost(n) == IF stim = "failed" /\ n = Len(ends) THEN 0..TerminatorLen ELSE {0}

\* The first n rounds of what a job describes, the n-th without its last m events.
CutRounds(n, m) ==
  [k \in 1..n |->
     IF k = n THEN [Described[k] EXCEPT !.events = SubSeq(@, 1, Len(@) - m)] ELSE Described[k]]

\* The same where frames are decoded to their width: the events that are missing
\* did not fire.
PaddedRounds(n, m) ==
  [k \in 1..n |->
     IF k = n THEN [Described[k] EXCEPT !.events = [i \in DOMAIN @ |-> i <= Len(@) - m /\ @[i]]]
     ELSE Described[k]]

\* Rounds as a window that was made for frames of this width.
WindowOf(rounds, width, depth) ==
  FoldLeft(PushOwned, NewWindow(width, depth),
           [k \in DOMAIN rounds |->
              [frame_id |-> rounds[k].frame_id, detector_events |-> rounds[k].events]])

\* What a loader has yielded is made of the rounds it has read.
Loaded(read) ==
  LET n       == Len(read)
      size    == config.window_depth
      Across(k) == read[k].ancilla_count
      first   == SelectSeq(read, LAMBDA d : d.ancilla_count = Across(1))
      Events(frames) == [k \in DOMAIN frames |-> frames[k].events]
      full    == IF size = 0 THEN 0 ELSE n \div size
      \* The width that the k-th window was made for, and the window.
      WidthOf(k) == Across(IF k = 1 THEN 1 ELSE (k - 1) * size)
      Window(k)  == WindowOf(SubSeq(read, (k - 1) * size + 1, k * size), WidthOf(k), size)
      Missing(k) == read[k].observable_flips = << >>
      Missed(k)  == SymmetricDifference(DecodeWindow(Window(k)), read[k * size].observable_flips[1])
      Single(k)  == <<k - 1, DecodeWindow(WindowOf(<<read[k]>>, Across(k), 1))>>
      mixed   == \E k \in 2..n : Across(k) # Across(1)
  IN  CASE loader = "batch" ->
             /\ FlattenSeq(yielded) \o EventsOf(buf) = Events(first)
             /\ \A k \in DOMAIN yielded :
                  size = 0 \/ Len(yielded[k]) = size \/ (loading = "done" /\ k = Len(yielded))
             /\ loading # "error" /\ (loading = "done" => buf = << >>)
        [] loader = "windows" ->
             /\ yielded = [k \in 1..full |-> Window(k)]
             /\ loading # "error"
        [] loader = "replay" ->
             LET good == IF loading = "error" THEN full - 1 ELSE full
             IN  job.program # "serve_dem" =>
                   /\ yielded = [k \in 1..good |-> <<k * size - 1, DecodeWindow(Window(k))>>]
                   /\ total_shots = good
                   /\ \A o \in DOMAIN logical_errors :
                        logical_errors[o] = Cardinality({k \in 1..good : o \in Missed(k)})
                   /\ loading = "error" => Missing(n)
        [] loader = "realtime" ->
             /\ yielded = [k \in DOMAIN yielded |-> Single(k)]
             /\ loading # "error" => Len(yielded) + Len(buf) = n
             /\ loading = "done" => buf = << >>
             /\ loading = "error" => mixed
        [] loader = "dataset" ->
             job.program # "serve_dem" =>
               /\ loading = "done" => yielded =
                    <<[detector_matrix |-> Events(read),
                       observable_flips |-> [k \in 1..n |-> read[k].observable_flips[1]]]>>
               /\ loading = "error" => mixed \/ \E k \in 1..n : Missing(k)

\* What a Python program has of a recording is what the job described: batches of
\* the frames of the first width, in order and none lost; windows of the frames
\* one after the other, none twice; a decoder's answers for the same windows, the
\* errors among them counted against the truth of their last frame; answers for
\* single frames; or a table with a truth for each row.  Only of the round in
\* which stim died, and only if it is the last, may the last events be missing,
\* no more than a terminator has bytes.  It raises only for frames without ground
\* truth, where it looks at it, and for rows that do not stack, or where stim
\* left a part of a line.  The ground truth of a sampled model is not claimed:
\* encode_shot_frame drops it, though its comment (stabstream-sim/src/lib.rs:34-35)
\* says that it is in the payload.
LoadersReadTheRun ==
  /\ Sound => loading # "adrift"
  /\ reader = "python" /\ Sound /\ loading # "none" /\ (stim = "failed" => loading # "error") =>
       LET n == FramesBefore(loaded_at)
       IN  \E m \in Lost(n) : Loaded(PaddedRounds(n, m))

\* What the screen shows and counts is these rounds.
ShownAre(read) ==
  LET some == NotBlank(read, [k \in DOMAIN read |-> read[k].events])
      Bucket(b) == {k \in DOMAIN read : ClusterBucket(Cardinality(Fired(read[k].events))) = b}
  IN  /\ Len(shown) = Len(some)
      /\ \A k \in DOMAIN shown :
           /\ shown[k].events = some[k].events /\ shown[k].frame_id = some[k].frame_id
           /\ job.program # "serve_dem" => shown[k].observable_flips = some[k].observable_flips
      /\ \A b \in 1..4 : cluster_sizes[b] = Cardinality(Bucket(b))

\* The frames on the screen are those of the job, in its order, with the truth
\* of their shot; the counters add up to them.  As for the loaders, the round in
\* which stim died may be the last one without its last events, and nothing is
\* claimed of the ground truth of a sampled model.
ScreenShowsTheRun ==
  reader = "dashboard" /\ Sound =>
    LET With(k) == shown[k].observable_flips # << >>
    IN  /\ total_frames = FramesBefore(stream_at)
        /\ \E m \in Lost(total_frames) : ShownAre(CutRounds(total_frames, m))
        /\ obs_total = Cardinality({k \in DOMAIN shown : With(k)})
        /\ obs_errors = Cardinality({k \in DOMAIN shown :
                                       With(k) /\ shown[k].observable_flips # <<{}>>})
        /\ screen = "error" => stim = "failed"
        /\ screen # "adrift"

\* An exported file holds the latest frames, and either reader of it gets them
\* back, as long as their widths are the same.
ExportReadsBack ==
  [][exported' # exported =>
       LET tail == LastOf(shown, EXPORT_WINDOW)
           Expected ==
             [k \in DOMAIN tail |->
                [frame_id |-> tail[k].frame_id, events |-> tail[k].events]]
           ReadsAs(read) ==
             /\ read.status = "end"
             /\ Expected =
                  [k \in DOMAIN read.frames |->
                     [frame_id |-> read.frames[k].frame_id,
                      events |-> DecodeRle(read.frames[k].detector_events,
                                           read.frames[k].ancilla_count)]]
       IN  Cardinality({Len(tail[k].events) : k \in DOMAIN tail}) = 1 =>
             \A by_length \in BOOLEAN : ReadsAs(AllFrames(exported', by_length))]_vars
=============================================================================
