---------------------------- MODULE MCQssfStream ----------------------------
(***************************************************************************)
(* Streams and layouts for checking QssfStream.                            *)
(***************************************************************************)
EXTENDS QssfStream

Ones(n) == [k \in 1..n |-> [mode |-> FALSE, run |-> 1]]

Plain == [id |-> 1, ancilla_count |-> 2, qubit_count |-> 3, code_type |-> 1,
          detector_events |-> Ones(1), meas_results |-> <<1, 1>>,
          timing |-> FALSE, timing_offsets |-> << >>, parity |-> FALSE,
          metadata |-> FALSE, tags |-> << >>, annotated |-> FALSE, annotations |-> 0,
          crc |-> TRUE, end |-> TRUE]

\* Every optional block present.
Full == [Plain EXCEPT !.detector_events = Ones(2), !.ancilla_count = 1, !.meas_results = <<1>>,
                      !.timing = TRUE, !.timing_offsets = <<2>>, !.parity = TRUE,
                      !.metadata = TRUE, !.tags = <<2, 0>>,
                      !.annotated = TRUE, !.annotations = 1]

Id(fr, n) == [fr EXCEPT !.id = n]

\* Blocks that are announced and empty.
Hollow == [Plain EXCEPT !.detector_events = << >>, !.metadata = TRUE, !.annotated = TRUE]

Unregistered(streams) == {[frames |-> fs, schema |-> << >>] : fs \in streams}

\* Sound streams, ids with gaps.
WellFormed ==
  Unregistered({<<Id(Plain, 0), Id(Full, 1), Id(Plain, 4)>>,
                <<Id(Full, 3), Id(Hollow, 5)>>})

\* An offset out of bounds.
Late == [Plain EXCEPT !.timing = TRUE, !.timing_offsets = <<0, 3>>]

\* An id that repeats, a header or a terminator that is damaged, a frame the
\* validators reject, each followed by a sound frame.
Flawed ==
  Unregistered({<<Id(Plain, 1), Id(Plain, 1), Id(Plain, 2)>>,
                <<Id([Plain EXCEPT !.crc = FALSE], 1), Id(Plain, 2)>>,
                <<Id([Full EXCEPT !.end = FALSE], 1), Id(Plain, 2)>>,
                <<Id(Late, 1), Id(Plain, 2)>>})

\* Streams that bring every field of a frame across the end of the ring: a
\* first frame of varying length, alone or after another, shifts the rest.
Lead(d) == [Plain EXCEPT !.detector_events = Ones(d)]
Shifted ==
  Unregistered({<<Id(Lead(d), 1), Id(Full, 2), Id(Plain, 3)>> : d \in 0..9} \cup
               {<<Id(Plain, 1), Id(Lead(d), 2), Id(Full, 3), Id(Plain, 4)>> : d \in 0..9})

\* Three stabilizers: one combines both ancillas, one has the second and one
\* that is never measured, one has none.
Small == [ancilla_count |-> 2, qubit_count |-> 3, code_type |-> <<1>>,
          stabilizers |-> << <<0, 1>>, <<1, 7>>, << >> >>]

Fires(meas, tokens) == [Plain EXCEPT !.meas_results = meas, !.detector_events = tokens]

Token(mode, run) == [mode |-> mode, run |-> run]

\* A frame that is as the schema has it, and ones that are not: the events of
\* another frame, events that are one late, one too many, another width.
Registered ==
  {[schema |-> <<Small>>,
    frames |-> <<Id(Fires(<<1, -1>>, <<Token(TRUE, 2)>>), 1), Id(frame, 2),
                 Id(Fires(<<-1, -1>>, <<Token(FALSE, 1), Token(TRUE, 1)>>), 3)>>] :
     frame \in {Fires(<<1, 1>>, <<Token(TRUE, 2)>>),
                Fires(<<-1, -1>>, <<Token(TRUE, 1)>>),
                Fires(<<1, -1>>, <<Token(TRUE, 3)>>),
                [Plain EXCEPT !.ancilla_count = 1, !.meas_results = <<1>>],
                [Plain EXCEPT !.code_type = 2]}}

\* Streams whose frames are all sound or only rejected by the validators.
Readable == WellFormed \cup Unregistered({<<Id(Late, 1), Id(Full, 2)>>}) \cup Registered

AnyStream == WellFormed \cup Flawed \cup Shifted \cup Registered

\* The sites a call waits at before it consumed anything of a frame.
BetweenFrames == {"file_header", "header"}
=============================================================================
