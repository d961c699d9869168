-------------------------------- MODULE CApi --------------------------------
(***************************************************************************)
(* A stream handle of the C API: c_api.rs and inner.rs of                  *)
(* crates/stabstream-ffi.  One thread calls at a time, as the API asks.    *)
(*                                                                         *)
(* What the stream under the handle yields is free here: a frame, an       *)
(* error, or the end (QssfStream says when it is which).  A frame is known *)
(* by its number, its ancillas, its run-length coded events and its        *)
(* ground-truth tag.  A call with a null pointer, and text that is no      *)
(* UTF-8 or no error model, change nothing.                                *)
(***************************************************************************)
EXTENDS SyndromeWindow, UnionFind, FiniteSets

CONSTANTS
  Frames,     \* [ancilla_count, rle, observable_flips]
  Models,     \* parsed error models, detector_count above every detector named
  Depths,     \* window depths a caller passes, 0 for inferred
  NoTag,      \* observable_flips when the frame has no tag
  Unset,      \* a decoder that is None
  MaxFrames,  \* bound: frames read from the stream over one handle
  MaxSets     \* bound: error models set over one handle

ASSUME CApiAssumption ==
  /\ \A f \in Frames :
       f.ancilla_count \in Nat /\ f.rle \in Seq([mode : BOOLEAN, run : Nat])
  /\ \A m \in Models :
       /\ m.detector_count \in Nat
       /\ m.errors \in Seq([p : {"zero", "some", "one"},
                             detectors : Seq(0..m.detector_count - 1),
                             observables : Seq(Nat)])
  /\ Depths \subseteq Nat
  /\ MaxFrames \in Nat
  /\ MaxSets \in Nat
  /\ Unset \notin Models

VARIABLES
  handle,                 \* "null", "open", or "aborted" with the process
  last_observable_flips,
  decoder,                \* the model the decoder was made from, or Unset
  scratch,                \* the decoder's working arrays
  window,
  window_depth_hint,
  dem_detector_count,
  result,                 \* the last call and what it returned
  read,                   \* how many frames the stream gave
  sets,                   \* how often a decoder was set
  given,                  \* history: the frames next_frame returned
  mark                    \* history: how many of them before the decoder was set

inner   == <<last_observable_flips, decoder, scratch, window, window_depth_hint,
             dem_detector_count>>
history == <<read, sets, given, mark>>
vars    == <<handle, inner, result, history>>

\* The window that is None: no other has depth 0.
NoWindow == NewWindow(0, 0)

InnerInit ==
  /\ last_observable_flips = NoTag
  /\ decoder = Unset
  /\ scratch = Unset
  /\ window = NoWindow
  /\ window_depth_hint = 0
  /\ dem_detector_count = 0
  /\ read = 0
  /\ sets = 0
  /\ given = << >>
  /\ mark = 0

Fresh ==
  /\ last_observable_flips' = NoTag
  /\ decoder' = Unset
  /\ scratch' = Unset
  /\ window' = NoWindow
  /\ window_depth_hint' = 0
  /\ dem_detector_count' = 0
  /\ read' = 0
  /\ sets' = 0
  /\ given' = << >>
  /\ mark' = 0

Returns(call, value) == [call |-> call, value |-> value]

Init ==
  /\ handle = "null"
  /\ result = Returns("none", "none")
  /\ InnerInit

\* stabstream_open: InnerHandle as open_inner builds it.
Open ==
  /\ handle = "null"
  /\ handle' = "open"
  /\ result' = Returns("open", "handle")
  /\ Fresh

OpenFails ==
  /\ handle = "null"
  /\ result' = Returns("open", "null")
  /\ UNCHANGED <<handle, inner, history>>

-----------------------------------------------------------------------------
(* stabstream_next_frame *)

\* Mutant: the division rounds up.
Depth_RoundsUp(frame) ==
  LET width == Max({frame.ancilla_count, 1})
      inferred == (dem_detector_count + width - 1) \div width
  IN  IF window_depth_hint > 0 THEN window_depth_hint ELSE Max({inferred, 1})

\* The depth of a window for frames like this one.
Depth(frame) ==
  LET inferred == dem_detector_count \div Max({frame.ancilla_count, 1})
  IN  IF window_depth_hint > 0 THEN window_depth_hint ELSE Max({inferred, 1})

\* push_frame_to_window.
PushFrameToWindow(frame, data) ==
  window' = IF decoder = Unset
            THEN window
            ELSE PushOwned(IF window = NoWindow
                           THEN NewWindow(frame.ancilla_count, Depth(frame))
                           ELSE window, data)

Owned(frame) ==
  [frame_id |-> read + 1,
   detector_events |-> DecodeRle(frame.rle, frame.ancilla_count)]

NextFrame(frame) ==
  /\ handle = "open"
  /\ read < MaxFrames
  /\ last_observable_flips' = frame.observable_flips
  /\ PushFrameToWindow(frame, Owned(frame))
  /\ result' = Returns("next_frame", read + 1)
  /\ read' = read + 1
  /\ given' = Append(given, [frame |-> frame, data |-> Owned(frame)])
  /\ UNCHANGED <<handle, decoder, scratch, window_depth_hint, dem_detector_count, sets, mark>>

\* The buffer is too small for the measurements: the frame is read, and gone.
BufferTooSmall ==
  /\ handle = "open"
  /\ read < MaxFrames
  /\ read' = read + 1
  /\ result' = Returns("next_frame", "InvalidArg")
  /\ UNCHANGED <<handle, inner, sets, given, mark>>

NextFrameFails ==
  /\ handle = "open"
  /\ \E status \in {"ParseError", "EndOfStream"} : result' = Returns("next_frame", status)
  /\ UNCHANGED <<handle, inner, history>>

-----------------------------------------------------------------------------
(* stabstream_set_decoder_dem *)

\* Mutant: the window outlives its decoder.
SetDecoderDem_KeepsWindow(dem, window_depth) ==
  /\ handle = "open"
  /\ sets < MaxSets
  /\ window_depth_hint' = window_depth
  /\ dem_detector_count' = dem.detector_count
  /\ decoder' = dem
  /\ scratch' = NewDecoder(FromDem(dem))
  /\ window' = window
  /\ result' = Returns("set_decoder_dem", 0)
  /\ sets' = sets + 1
  /\ mark' = Len(given)
  /\ UNCHANGED <<handle, last_observable_flips, read, given>>

SetDecoderDem(dem, window_depth) ==
  /\ handle = "open"
  /\ sets < MaxSets
  /\ window_depth_hint' = window_depth
  /\ dem_detector_count' = dem.detector_count
  /\ decoder' = dem
  /\ scratch' = NewDecoder(FromDem(dem))
  /\ window' = NoWindow
  /\ result' = Returns("set_decoder_dem", 0)
  /\ sets' = sets + 1
  /\ mark' = Len(given)
  /\ UNCHANGED <<handle, last_observable_flips, read, given>>

SetDecoderDemFails ==
  /\ handle = "open"
  /\ result' = Returns("set_decoder_dem", -1)
  /\ UNCHANGED <<handle, inner, history>>

-----------------------------------------------------------------------------
(* stabstream_decode_frame *)

NoDecoder ==
  /\ handle = "open"
  /\ decoder = Unset \/ window = NoWindow
  /\ result' = Returns("decode_frame", IF last_observable_flips = NoTag THEN {}
                                       ELSE last_observable_flips)
  /\ UNCHANGED <<handle, inner, history>>

\* decode_window.  An active detector that is no node of the graph is an index
\* out of bounds: the panic cannot unwind into C and ends the process.
DecodeWindow ==
  LET active == ActiveDetectors(window)
      graph == FromDem(decoder)
      decoded == DecodeActive(graph, scratch, active)
  IN  /\ handle = "open"
      /\ decoder # Unset /\ window # NoWindow
      /\ CASE active = << >> ->
                /\ result' = Returns("decode_frame", {})
                /\ UNCHANGED <<handle, scratch>>
           [] \E k \in DOMAIN active : active[k] \notin NodesOf(graph) ->
                /\ handle' = "aborted"
                /\ result' = Returns("none", "none")
                /\ UNCHANGED scratch
           [] OTHER ->
                /\ result' = Returns("decode_frame", decoded.flips)
                /\ scratch' = decoded.uf
                /\ UNCHANGED handle
      /\ UNCHANGED <<last_observable_flips, decoder, window, window_depth_hint,
                     dem_detector_count, history>>

DecodeFrame == NoDecoder \/ DecodeWindow

\* stabstream_close frees the handle; nothing is called with it after that.
Close ==
  /\ handle = "open"
  /\ handle' = "null"
  /\ result' = Returns("none", "none")
  /\ Fresh

Next ==
  \/ Open \/ OpenFails \/ Close
  \/ \E frame \in Frames : NextFrame(frame)
  \/ BufferTooSmall \/ NextFrameFails
  \/ \E dem \in Models, depth \in Depths : SetDecoderDem(dem, depth)
  \/ SetDecoderDemFails
  \/ DecodeFrame

Spec == Init /\ [][Next]_vars

-----------------------------------------------------------------------------
\* Types; the matrix has a row per round held.
TypeOK ==
  /\ handle \in {"null", "open", "aborted"}
  /\ decoder \in Models \cup {Unset}
  /\ window_depth_hint \in Depths \cup {0}
  /\ read \in 0..MaxFrames
  /\ Len(given) <= read
  /\ mark \in 0..Len(given)
  /\ window # NoWindow =>
       /\ Len(window.frames) \in 1..window.window_depth
       /\ Len(window.detector_matrix) = Len(window.frames) * window.ancilla_count

\* The frames the caller was given since it set the decoder: how many, and the
\* first of them.
SinceCount == Len(given) - mark

First == given[mark + 1].frame

\* As many of the last of them as a window for the first of them holds.
HeldCount == Min({Depth(First), SinceCount})

Held == [k \in 1..HeldCount |-> given[Len(given) - HeldCount + k]]

\* The window holds the last frames that the caller was given since it set the
\* decoder, in order, across refused, failed and repeated calls and new
\* decoders; until there is one, there is no window.
WindowIsTheTail ==
  IF decoder = Unset \/ SinceCount = 0
  THEN window = NoWindow
  ELSE /\ window.ancilla_count = First.ancilla_count
       /\ window.frames = [k \in 1..HeldCount |-> Held[k].data]

\* Whether ancilla a, from 0, fires in a frame: a run of fired events covers it.
Fires(frame, a) ==
  LET before[k \in 1..Len(frame.rle)] ==
        IF k = 1 THEN 0 ELSE before[k - 1] + frame.rle[k - 1].run
  IN  \E k \in DOMAIN frame.rle :
        /\ a < frame.ancilla_count
        /\ frame.rle[k].mode
        /\ a \in before[k]..before[k] + frame.rle[k].run - 1

\* The detectors that fire: a round has as many as the first frame has ancillas.
FiredNodes ==
  LET width == First.ancilla_count
  IN  {node \in 0..HeldCount * width - 1 :
         Fires(Held[(node \div width) + 1].frame, node % width)}

\* What decode_frame returns depends on the frames the caller was given since
\* it set the decoder and on nothing else: not on earlier decodes, whose forest
\* and counts are still in the arrays, nor on an earlier decoder's window.
\* Before there is such a frame it is the tag of the last one given.
AnswersFromTheFrames ==
  result.call = "decode_frame" =>
    result.value =
      CASE given = << >> -> {}
        [] given # << >> /\ (decoder = Unset \/ SinceCount = 0) ->
             LET tag == given[Len(given)].frame.observable_flips
             IN  IF tag = NoTag THEN {} ELSE tag
        [] OTHER -> IF FiredNodes = {} THEN {} ELSE PartitionFlips(FromDem(decoder), FiredNodes)

\* A decode leaves a forest that counts the active detectors of each tree at
\* its root, and no odd tree could have grown further.
GrowthIsComplete ==
  result.call = "decode_frame" /\ window # NoWindow /\ FiredNodes # {} =>
    IsGrown(FromDem(decoder), scratch, FiredNodes)

\* Where the depth is inferred, what fires in the window is always a detector of
\* the model, neither its boundary nor out of bounds (which ends the process),
\* whatever widths the frames have, unless one round alone has more ancillas than
\* the model has detectors.  Only a caller that asks for a depth can ask for too
\* much.
InferredDepthFits ==
  /\ window # NoWindow
  /\ window_depth_hint = 0
  /\ window.ancilla_count <= decoder.detector_count
  => /\ handle # "aborted"
     /\ \A node \in Range(ActiveDetectors(window)) : node < decoder.detector_count
=============================================================================
