------------------------------ MODULE QssfWire ------------------------------
(***************************************************************************)
(* The bytes of a QSSF stream, as the parser in                            *)
(* crates/stabstream-deserialize meets them.                               *)
(*                                                                         *)
(* A byte is known by where it stands: <<f, part, j, k>> is byte k of the  *)
(* part of frame f called part, j telling apart the parts that repeat in a *)
(* frame (its metadata values).  A run of bytes therefore decodes to a     *)
(* field exactly when it is that field's bytes, whole and in order, which  *)
(* is what checksums and length prefixes tell the parser.                  *)
(*                                                                         *)
(* The number of bytes of the fixed-size parts are parameters; the lengths *)
(* of the variable parts come from the frame.                              *)
(***************************************************************************)
EXTENDS Integers, Sequences, SequencesExt

CONSTANTS
  FileHeaderLen,   \* 26 in the format
  FrameHeaderLen,  \* 36
  PrefixLen,       \* 2: the length of detector_events, the number of tags
  TagHeaderLen,    \* 4: tag and length of a metadata value
  AnnotationLen,   \* 10
  TerminatorLen    \* 6: sentinel and CRC

ASSUME WireAssumption ==
  {FileHeaderLen, FrameHeaderLen, PrefixLen, TagHeaderLen, AnnotationLen, TerminatorLen}
    \subseteq Nat \ {0}

Bytes(f, part, j, n) == [k \in 1..n |-> <<f, part, j, k>>]

\* A frame as its writer means it, its payload by value: detector_events are
\* tokens.  crc and end say whether the header's own checksum and the terminator
\* are right.
Frame ==
  {fr \in [id : Nat, ancilla_count : Nat, qubit_count : Nat, code_type : Nat,
           detector_events : Seq([mode : BOOLEAN, run : Nat]), meas_results : Seq(Int),
           timing : BOOLEAN, timing_offsets : Seq(Nat), parity : BOOLEAN,
           metadata : BOOLEAN, tags : Seq(Nat), annotated : BOOLEAN, annotations : Nat,
           crc : BOOLEAN, end : BOOLEAN] :
     /\ Len(fr.meas_results) = fr.ancilla_count
     /\ Len(fr.timing_offsets) = IF fr.timing THEN fr.ancilla_count ELSE 0
     /\ fr.metadata \/ fr.tags = << >>
     /\ fr.annotated \/ fr.annotations = 0}

TimingLen(fr) == IF fr.timing THEN fr.ancilla_count * 2 ELSE 0

ParityLen(fr) == IF fr.parity THEN (fr.ancilla_count + 7) \div 8 ELSE 0

MetadataBlock(f, fr) ==
  IF fr.metadata
  THEN Bytes(f, "tag_count", 0, PrefixLen) \o
       FlattenSeq([j \in DOMAIN fr.tags |->
          Bytes(f, "tag", j, TagHeaderLen) \o Bytes(f, "value", j, fr.tags[j])])
  ELSE << >>

AnnotationBlock(f, fr) ==
  IF fr.annotated
  THEN Bytes(f, "count", 0, 1) \o Bytes(f, "annotations", 0, fr.annotations * AnnotationLen)
  ELSE << >>

FrameBytes(f, fr) ==
  Bytes(f, "header", 0, FrameHeaderLen) \o
  Bytes(f, "de_len", 0, PrefixLen) \o
  Bytes(f, "de", 0, Len(fr.detector_events)) \o
  Bytes(f, "meas", 0, fr.ancilla_count) \o
  Bytes(f, "timing", 0, TimingLen(fr)) \o
  Bytes(f, "parity", 0, ParityLen(fr)) \o
  MetadataBlock(f, fr) \o
  AnnotationBlock(f, fr) \o
  Bytes(f, "terminator", 0, TerminatorLen)

StreamBytes(frames) ==
  Bytes(0, "file_header", 0, FileHeaderLen) \o
  FlattenSeq([f \in DOMAIN frames |-> FrameBytes(f, frames[f])])
=============================================================================
