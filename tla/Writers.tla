------------------------------ MODULE Writers ------------------------------
(***************************************************************************)
(* The programs that write QSSF: the exporter and the importers of         *)
(* crates/stabstream-convert, the frame encoders of crates/stabstream-sim  *)
(* and of the dashboard, StreamRecorder, and write_qssf of the Python      *)
(* package.                                                                *)
(*                                                                         *)
(* A job is one run of one program.  Its input is a sequence of shots:     *)
(* [events, flips] for a line of text or a sample, and for a library call  *)
(* also the blocks that come with the frame.  An empty line has no events. *)
(* Time stamps and schema ids are left out.                                *)
(***************************************************************************)
EXTENDS QssfFile

CONSTANT Jobs  \* [program, shots, truth]

Programs == {"from_file", "stim", "stim_obs", "serve", "serve_dem", "stim_encoder", "export",
             "record", "write_qssf"}

\* An optional value.
Optional(S) == {s \in Seq(S) : Len(s) <= 1}

Shots == [events : Seq(BOOLEAN), flips : Optional(SUBSET Nat), tags : SUBSET Range(TagOrder),
          timing : BOOLEAN, parity : BOOLEAN, annotations : Optional(Nat)]

\* Metadata has the tag of the ground truth when there is one.
ASSUME WritersAssumption ==
  \A j \in Jobs :
    /\ j.program \in Programs /\ j.shots \in Seq(Shots) /\ j.truth \in Seq(Optional(SUBSET Nat))
    /\ j.program = "export" => \A k \in DOMAIN j.shots :
         "observable_flips" \in j.shots[k].tags <=> j.shots[k].flips # << >>

VARIABLES
  job,
  todo,           \* the shots still to come
  obs_lines,      \* the lines of the observables file still to come
  line_width,     \* ancilla_count of the importer: the first line's, -1 for None
  frame_id,
  file,           \* the bytes written, to a file or a socket
  stim,           \* whether stim, if there is one, is well
  phase,          \* "start", "write", "done" or "failed"
  ends            \* history: where each frame ends in the file

writer == <<job, todo, obs_lines, line_width, frame_id, file, stim, phase, ends>>

\* Programs that read the text of stim detect, from a pipe or a file.
Importers == {"from_file", "stim", "stim_obs"}

\* Those that spawn stim and read while it runs.
StreamsStim == {"stim", "serve", "stim_encoder"}

LineByLine == Importers \cup {"serve", "stim_encoder"}

WriterInit ==
  /\ job \in Jobs
  /\ todo = job.shots
  /\ obs_lines = job.truth
  /\ line_width = -1
  /\ frame_id = 0
  /\ file = << >>
  /\ stim = "well"
  /\ phase = "start"
  /\ ends = << >>

-----------------------------------------------------------------------------
(* Encoders *)

Blocks(shot, meta, annotated) ==
  (IF shot.timing THEN Field("timing", 0, Len(shot.events) * 2) ELSE << >>) \o
  (IF shot.parity THEN Field("parity", 0, (Len(shot.events) + 7) \div 8) ELSE << >>) \o
  (IF meta # NoMetadata THEN WriteMetadataTlv(meta) ELSE << >>) \o
  (IF annotated # << >> THEN WriteAnnotations(annotated[1]) ELSE << >>)

\* Mutant: the metadata is not counted.
ExportedLen_NoMetadata(hdr, de, meta, annotated) ==
  PrefixLen + Len(de) + hdr.ancilla_count + TimingLen(hdr) + ParityLen(hdr) +
  (IF annotated # << >> THEN Len(WriteAnnotations(annotated[1])) ELSE 0)

\* The payload_len of QssfExporter: the blocks as they are, the fields before
\* them as the header has it.
ExportedLen(hdr, de, meta, annotated) ==
  PrefixLen + Len(de) + hdr.ancilla_count + TimingLen(hdr) + ParityLen(hdr) +
  (IF meta # NoMetadata THEN Len(WriteMetadataTlv(meta)) ELSE 0) +
  (IF annotated # << >> THEN Len(WriteAnnotations(annotated[1])) ELSE 0)

Flags(shot, meta, annotated) ==
  {flag \in {"timing", "parity", "metadata", "annotations"} :
     CASE flag = "timing"      -> shot.timing
       [] flag = "parity"      -> shot.parity
       [] flag = "metadata"    -> meta # NoMetadata
       [] flag = "annotations" -> annotated # << >>}

\* QssfExporter::write_frame, after the file header.
ExportFrame(shot, meta, annotated, id, width) ==
  LET de  == EncodeDetectorEvents(shot.events)
      hdr == [frame_id |-> id, ancilla_count |-> width, payload_len |-> 0,
              flags |-> Flags(shot, meta, annotated)]
  IN  FrameBytes([hdr EXCEPT !.payload_len = ExportedLen(hdr, de, meta, annotated)],
                 de, shot.events, Blocks(shot, meta, annotated), "header")

\* encode_shot_frame and its copies: no blocks; the ground truth is dropped.
EncodeShotFrame(events, id, width) ==
  LET de == EncodeDetectorEvents(events)
  IN  FrameBytes([frame_id |-> id, ancilla_count |-> width,
                  payload_len |-> PrefixLen + Len(de) + width, flags |-> {}],
                 de, events, << >>, "header")

\* StreamRecorder::write_frame: the header is the caller's, and the checksum at
\* the end is that of the whole frame.
RecordFrame(shot, id) ==
  LET de  == EncodeDetectorEvents(shot.events)
      hdr == [frame_id |-> id, ancilla_count |-> Len(shot.events), payload_len |-> 0,
              flags |-> Flags(shot, NoMetadata, << >>)]
  IN  FrameBytes([hdr EXCEPT !.payload_len = ExportedLen(hdr, de, NoMetadata, << >>)],
                 de, shot.events, Blocks(shot, NoMetadata, << >>), "whole")

\* The metadata of a frame whose only tag is the ground truth, if it has one.
FlipsOnly(flips) ==
  IF flips = << >> THEN NoMetadata
  ELSE [tags |-> {"observable_flips"}, flips |-> flips[1]]

-----------------------------------------------------------------------------
(* Importers *)

\* The lines from the first whose text is not empty.
SkipBlank(lines, texts) ==
  LET k == SelectInSeq(texts, LAMBDA text : text # << >>)
  IN  IF k = 0 THEN << >> ELSE SubSeq(lines, k, Len(lines))

\* The lines as a program sees them: run_stim_encoder takes its first line as
\* it comes.
Lines ==
  IF job.program = "stim_encoder" /\ line_width = -1 THEN todo
  ELSE SkipBlank(todo, [k \in DOMAIN todo |-> todo[k].events])

\* next_flips: an observables file that has ended gives None.
Flips == SkipBlank(obs_lines, obs_lines)

\* The first line decides on the width of all frames.
Width(events) ==
  IF line_width = -1 THEN Len(events) % CountModulus ELSE line_width

\* The file header, from a program that has none in its file yet.
HeaderOnce == IF file = << >> THEN FileHeader ELSE << >>

-----------------------------------------------------------------------------
(* The programs *)

\* Exporters write the file header with the first frame, a recorder none, the
\* other programs at once.
Start ==
  /\ phase = "start"
  /\ phase' = "write"
  /\ file' = IF job.program \in Importers \cup {"export", "record"} THEN << >> ELSE FileHeader
  /\ UNCHANGED <<job, todo, obs_lines, line_width, frame_id, stim, ends>>

\* Where stim writes the observables to a file of its own, its status is looked
\* at before anything it wrote.
StimObsFails ==
  /\ phase = "start"
  /\ job.program = "stim_obs"
  /\ phase' = "failed"
  /\ stim' = "failed"
  /\ UNCHANGED <<job, todo, obs_lines, line_width, frame_id, file, ends>>

\* Stim dies: what it printed of the current line is all that is to come.
StimDies ==
  /\ phase = "write"
  /\ job.program \in StreamsStim
  /\ stim = "well"
  /\ todo # << >>
  /\ \E n \in 0..Len(Head(todo).events) :
        todo' = <<[Head(todo) EXCEPT !.events = SubSeq(@, 1, n)]>>
  /\ stim' = "failed"
  /\ UNCHANGED <<job, obs_lines, line_width, frame_id, file, phase, ends>>

Written(bytes, width) ==
  /\ file' = file \o bytes
  /\ line_width' = width
  /\ frame_id' = frame_id + 1
  /\ ends' = Append(ends, Len(file'))
  /\ UNCHANGED <<job, stim, phase>>

\* Mutant: the empty lines of the observables file are counted.
ImportFrame_CountsBlanks ==
  /\ phase = "write"
  /\ job.program \in Importers
  /\ Lines # << >>
  /\ LET shot  == Head(Lines)
         flips == IF job.program = "stim_obs" /\ obs_lines # << >> THEN Head(obs_lines) ELSE << >>
     IN  Written(HeaderOnce \o ExportFrame(shot, FlipsOnly(flips), << >>, frame_id,
                                           Width(shot.events)),
                 Width(shot.events))
  /\ todo' = Tail(Lines)
  /\ obs_lines' = IF obs_lines # << >> THEN Tail(obs_lines) ELSE << >>

\* StimImporter, or StimWithObsImporter, and export_owned_frame.
ImportFrame ==
  /\ phase = "write"
  /\ job.program \in Importers
  /\ Lines # << >>
  /\ LET shot  == Head(Lines)
         flips == IF job.program = "stim_obs" /\ Flips # << >> THEN Head(Flips) ELSE << >>
     IN  Written(HeaderOnce \o ExportFrame(shot, FlipsOnly(flips), << >>, frame_id,
                                           Width(shot.events)),
                 Width(shot.events))
  /\ todo' = Tail(Lines)
  /\ obs_lines' = IF job.program = "stim_obs" /\ Flips # << >> THEN Tail(Flips) ELSE << >>

\* serve_circuit_to_socket, and the dashboard's run_stim_encoder.
ServeLine ==
  /\ phase = "write"
  /\ job.program \in {"serve", "stim_encoder"}
  /\ Lines # << >>
  /\ LET events == Head(Lines).events
     IN  Written(EncodeShotFrame(events, frame_id, Width(events)), Width(events))
  /\ todo' = Tail(Lines)
  /\ UNCHANGED obs_lines

\* serve_dem_to_socket: samples, whose width is that of the model.
ServeSample ==
  /\ phase = "write"
  /\ job.program = "serve_dem"
  /\ todo # << >>
  /\ LET events == Head(todo).events
     IN  Written(EncodeShotFrame(events, frame_id, Len(events) % CountModulus), -1)
  /\ todo' = Tail(todo)
  /\ UNCHANGED obs_lines

\* A caller of QssfExporter::write_frame with a frame of its own.
ExportOne ==
  /\ phase = "write"
  /\ job.program = "export"
  /\ todo # << >>
  /\ LET shot == Head(todo)
         meta == IF shot.tags = {} THEN NoMetadata
                 ELSE [tags |-> shot.tags,
                       flips |-> IF shot.flips = << >> THEN {} ELSE shot.flips[1]]
     IN  Written(HeaderOnce \o ExportFrame(shot, meta, shot.annotations, frame_id,
                                           Len(shot.events) % CountModulus), -1)
  /\ todo' = Tail(todo)
  /\ UNCHANGED obs_lines

\* A caller of StreamRecorder::write_frame.
RecordOne ==
  /\ phase = "write"
  /\ job.program = "record"
  /\ todo # << >>
  /\ Written(RecordFrame(Head(todo), frame_id), -1)
  /\ todo' = Tail(todo)
  /\ UNCHANGED obs_lines

\* write_qssf: every frame has a width of its own, one that does not fit raises.
PythonFrame ==
  /\ phase = "write"
  /\ job.program = "write_qssf"
  /\ todo # << >>
  /\ LET shot == Head(todo)
     IN  IF Len(shot.events) < CountModulus
         THEN Written(ExportFrame(shot, FlipsOnly(shot.flips), << >>, frame_id,
                                  Len(shot.events)), -1)
         ELSE phase' = "failed" /\ UNCHANGED <<job, line_width, frame_id, file, stim, ends>>
  /\ todo' = Tail(todo)
  /\ UNCHANGED obs_lines

\* The input ends.  run_stim_to_qssf asks stim for its status now, and leaves
\* the file as it is; the others do not ask.
Finish ==
  /\ phase = "write"
  /\ (IF job.program \in LineByLine THEN Lines ELSE todo) = << >>
  /\ phase' = IF job.program = "stim" /\ stim = "failed" THEN "failed" ELSE "done"
  /\ todo' = << >>
  /\ UNCHANGED <<job, obs_lines, line_width, frame_id, file, stim, ends>>

WriterNext ==
  \/ Start \/ StimObsFails \/ StimDies
  \/ ImportFrame \/ ServeLine \/ ServeSample \/ ExportOne \/ RecordOne \/ PythonFrame
  \/ Finish

-----------------------------------------------------------------------------
(* What a job is to come to *)

\* The lines whose text is not empty.
NotBlank(lines, texts) ==
  LET kept[n \in 0..Len(lines)] ==
        IF n = 0 THEN << >>
        ELSE IF texts[n] # << >> THEN Append(kept[n - 1], lines[n]) ELSE kept[n - 1]
  IN  kept[Len(lines)]

\* The frames that a job's input describes: for lines of text, one for each
\* line that is not empty, with the truth of the line of the same number.  What
\* the sampler knows of a shot (serve_dem) is not written: encode_shot_frame
\* drops its observable_flips, though its comment (stabstream-sim/src/lib.rs:34)
\* says that they are in the payload.  No property compares that truth.
Described ==
  LET shots == IF job.program \in LineByLine
               THEN NotBlank(job.shots, [k \in DOMAIN job.shots |-> job.shots[k].events])
               ELSE job.shots
      lines == NotBlank(job.truth, job.truth)
      Truth(k) ==
        CASE job.program = "stim_obs" -> IF k \in DOMAIN lines THEN lines[k] ELSE << >>
          [] job.program \in {"export", "write_qssf"} -> shots[k].flips
          [] OTHER -> << >>
  IN  [k \in DOMAIN shots |->
         [frame_id |-> k - 1, ancilla_count |-> Len(shots[k].events),
          events |-> shots[k].events, observable_flips |-> Truth(k)]]

\* Whether the frames say what their headers say: the lines of a text are of
\* one width, it fits a header, and stim did not die inside the first of them,
\* whose part would pass for a line.
Sound ==
  LET widths == {d.ancilla_count : d \in Range(Described)}
  IN  /\ \A n \in widths : n < CountModulus
      /\ job.program \in LineByLine => Cardinality(widths) <= 1
      /\ line_width # -1 => line_width \in widths
      /\ job.program = "stim_encoder" => job.shots = << >> \/ Head(job.shots).events # << >>
=============================================================================
