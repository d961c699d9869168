----------------------------- MODULE PyLoaders -----------------------------
(***************************************************************************)
(* How Python programs read a recording: load_qssf_batch,                  *)
(* load_qssf_windows and load_dataset of python/stabstream/io.py,          *)
(* ReplayStream of replay.py and realtime_stream of sim.py.  All read the  *)
(* frames of a StabstreamStream without a decoder; one step is one frame.  *)
(*                                                                         *)
(* batch_size and window_depth are the window_depth of the configuration,  *)
(* and the decoder is its decoder.  An array is the sequence of its rows.  *)
(***************************************************************************)
EXTENDS Replay

VARIABLES
  loader,      \* which of them runs, or "none"
  loading,     \* "none", "frames", "done", "error": it raised, or "adrift"
  loaded_at,   \* how much of the file was read
  anchor,      \* anchor_ancillas, -1 for None
  buf,         \* the frames that were not yielded yet
  current,     \* << >> or <<window>>
  yielded      \* what was yielded, or returned

loaders == <<loading, loaded_at, anchor, buf, current, yielded>>

Loaders == {"batch", "windows", "dataset", "replay", "realtime"}

LoadersInit ==
  /\ loading = "none"
  /\ loaded_at = 0
  /\ anchor = -1
  /\ buf = << >>
  /\ current = << >>
  /\ yielded = << >>

\* The stream is opened; the file header is read with the first frame, and a
\* file that ends inside it has none.
OpenLoader(bytes) ==
  /\ loading = "none"
  /\ loading' = "frames"
  /\ loaded_at' = IF Len(bytes) >= FileHeaderLen THEN FileHeaderLen ELSE Len(bytes)
  /\ UNCHANGED <<anchor, buf, current, yielded, counters>>

\* A frame of the Python class: its events are decoded to its width.
PyFrame(frame) ==
  [frame_id |-> frame.frame_id, ancilla_count |-> frame.ancilla_count,
   detector_events |-> DecodeRle(frame.detector_events, frame.ancilla_count),
   observable_flips |-> frame.observable_flips]

EventsOf(frames) == [k \in DOMAIN frames |-> frames[k].detector_events]

\* np.stack takes rows of one length only.
Stackable(frames) == Cardinality({frames[k].ancilla_count : k \in DOMAIN frames}) <= 1

-----------------------------------------------------------------------------
(* A frame *)

\* Mutant: the buffer goes on after it was yielded.
BatchFrame_KeepsBuffer(frame) ==
  /\ anchor' = IF anchor = -1 THEN frame.ancilla_count ELSE anchor
  /\ IF frame.ancilla_count # anchor' THEN UNCHANGED <<buf, yielded>>
     ELSE /\ buf' = Append(buf, frame)
          /\ yielded' = IF Len(buf) + 1 = config.window_depth
                        THEN Append(yielded, EventsOf(buf')) ELSE yielded
  /\ UNCHANGED <<loading, current, counters>>

\* load_qssf_batch: frames of another width than the first are dropped.
BatchFrame(frame) ==
  /\ anchor' = IF anchor = -1 THEN frame.ancilla_count ELSE anchor
  /\ IF frame.ancilla_count # anchor' THEN UNCHANGED <<buf, yielded>>
     ELSE IF Len(buf) + 1 = config.window_depth
     THEN buf' = << >> /\ yielded' = Append(yielded, EventsOf(Append(buf, frame)))
     ELSE buf' = Append(buf, frame) /\ UNCHANGED yielded
  /\ UNCHANGED <<loading, current, counters>>

NewWindowFor(frame) == NewWindow(frame.ancilla_count, config.window_depth)

\* The window with one more round: it is made for the first frame, and when it
\* is full the next one is made for the frame that filled it.
PushFrame(frame) ==
  PushOwned(IF current = << >> THEN NewWindowFor(frame) ELSE current[1],
            [frame_id |-> frame.frame_id, detector_events |-> frame.detector_events])

WindowsFrame(frame) ==
  /\ current' = <<IF IsFull(PushFrame(frame)) THEN NewWindowFor(frame) ELSE PushFrame(frame)>>
  /\ yielded' = IF IsFull(PushFrame(frame)) THEN Append(yielded, PushFrame(frame)) ELSE yielded
  /\ UNCHANGED <<loading, anchor, buf, counters>>

\* ReplayStream: a full window is decoded and judged by the latest frame, whose
\* getter raises if it has no ground truth.
ReplayFrame(frame) ==
  /\ IF ~ IsFull(PushFrame(frame))
     THEN current' = <<PushFrame(frame)>> /\ UNCHANGED <<loading, yielded, counters>>
     ELSE IF frame.observable_flips = << >>
     THEN loading' = "error" /\ UNCHANGED <<current, yielded, counters>>
     ELSE /\ Judge(PushFrame(frame), frame.observable_flips[1])
          /\ yielded' = Append(yielded, <<frame.frame_id, DecodeWindow(PushFrame(frame))>>)
          /\ current' = <<NewWindowFor(frame)>>
          /\ UNCHANGED loading
  /\ UNCHANGED <<anchor, buf>>

\* decode_batch: each row for itself.
DecodeRow(frame) ==
  DecodeWindow(PushOwned(NewWindow(frame.ancilla_count, 1),
                         [frame_id |-> frame.frame_id, detector_events |-> frame.detector_events]))

\* The frames of a batch with their results, unless they do not stack.
YieldBatch(frames) ==
  /\ IF Stackable(frames)
     THEN /\ yielded' = yielded \o [k \in DOMAIN frames |->
                                      <<frames[k].frame_id, DecodeRow(frames[k])>>]
          /\ UNCHANGED loading
     ELSE loading' = "error" /\ UNCHANGED yielded
  /\ buf' = << >>

RealtimeFrame(frame) ==
  /\ IF Len(buf) + 1 >= config.window_depth
     THEN YieldBatch(Append(buf, frame))
     ELSE buf' = Append(buf, frame) /\ UNCHANGED <<loading, yielded>>
  /\ UNCHANGED <<anchor, current, counters>>

DatasetFrame(frame) ==
  /\ buf' = Append(buf, frame)
  /\ UNCHANGED <<loading, anchor, current, yielded, counters>>

-----------------------------------------------------------------------------
(* The end *)

\* The frames left over are a batch; rounds left over in a window are dropped.
BatchEnd ==
  /\ loading' = "done"
  /\ yielded' = IF buf = << >> THEN yielded ELSE Append(yielded, EventsOf(buf))
  /\ buf' = << >>

WindowsEnd == loading' = "done" /\ UNCHANGED <<yielded, buf>>

RealtimeEnd ==
  /\ loading' = IF Stackable(buf) THEN "done" ELSE "error"
  /\ yielded' = IF Stackable(buf)
                THEN yielded \o [k \in DOMAIN buf |-> <<buf[k].frame_id, DecodeRow(buf[k])>>]
                ELSE yielded
  /\ buf' = << >>

\* The getter raises for a frame without ground truth, before `or 0` is reached.
DatasetEnd ==
  /\ IF Stackable(buf) /\ \A k \in DOMAIN buf : buf[k].observable_flips # << >>
     THEN /\ loading' = "done"
          /\ yielded' = <<[detector_matrix |-> EventsOf(buf),
                           observable_flips |->
                             [k \in DOMAIN buf |-> buf[k].observable_flips[1]]]>>
     ELSE loading' = "error" /\ UNCHANGED yielded
  /\ UNCHANGED buf

\* One turn of `for frame in load_qssf(path)`.
LoaderTurn(bytes) ==
  /\ loading = "frames"
  /\ \E next \in {NextOnWire(bytes, loaded_at)} :
       /\ loaded_at' = next.at
       /\ \/ /\ next.status = "frame"
             /\ \/ loader = "batch"    /\ BatchFrame(PyFrame(next.frame))
                \/ loader = "windows"  /\ WindowsFrame(PyFrame(next.frame))
                \/ loader = "replay"   /\ ReplayFrame(PyFrame(next.frame))
                \/ loader = "realtime" /\ RealtimeFrame(PyFrame(next.frame))
                \/ loader = "dataset"  /\ DatasetFrame(PyFrame(next.frame))
          \/ /\ next.status = "end"
             /\ \/ loader = "batch"               /\ BatchEnd
                \/ loader \in {"windows", "replay"} /\ WindowsEnd
                \/ loader = "realtime"            /\ RealtimeEnd
                \/ loader = "dataset"             /\ DatasetEnd
             /\ UNCHANGED <<anchor, current, counters>>
          \/ /\ next.status \in {"error", "adrift"}
             /\ loading' = next.status
             /\ UNCHANGED <<anchor, buf, current, yielded, counters>>
=============================================================================
