-------------------------------- MODULE Rle --------------------------------
(***************************************************************************)
(* The run-length code of detector events:                                 *)
(* crates/stabstream-deserialize/src/rle.rs and its look-up in the         *)
(* validators.  A token is [mode, run].                                    *)
(***************************************************************************)
EXTENDS SyndromeWindow

CONSTANT MaxRun  \* the longest run of a token, 127

ASSUME RleAssumption == MaxRun \in Nat \ {0}

\* One more event: the last run goes on, or a run begins.
Extend(tokens, b) ==
  IF tokens # << >> /\ Last(tokens).mode = b /\ Last(tokens).run < MaxRun
  THEN [tokens EXCEPT ![Len(tokens)].run = @ + 1]
  ELSE Append(tokens, [mode |-> b, run |-> 1])

EncodeDetectorEvents(events) ==
  LET tokens[n \in 0..Len(events)] ==
        IF n = 0 THEN << >> ELSE Extend(tokens[n - 1], events[n])
  IN  tokens[Len(events)]

DecodeDetectorEvents(tokens) == FlattenSeq([k \in DOMAIN tokens |-> Run(tokens[k])])

\* The number of fired events, without decoding.
Popcount(tokens) ==
  LET fired[n \in 0..Len(tokens)] ==
        IF n = 0 THEN 0
        ELSE IF tokens[n].mode THEN fired[n - 1] + tokens[n].run ELSE fired[n - 1]
  IN  fired[Len(tokens)]

\* How many events come before token k.
Before(tokens, k) ==
  LET sum[n \in 0 .. k - 1] == IF n = 0 THEN 0 ELSE sum[n - 1] + tokens[n].run
  IN  sum[k - 1]

\* Mutant: a run begins one position late.
EventAt_OneLate(tokens, i) ==
  \E k \in DOMAIN tokens :
     /\ Before(tokens, k) < i
     /\ i <= Before(tokens, k) + tokens[k].run
     /\ tokens[k].mode

\* decode_detector_bit: the event at position i, from 0; none past the end.
EventAt(tokens, i) ==
  \E k \in DOMAIN tokens :
     /\ Before(tokens, k) <= i
     /\ i < Before(tokens, k) + tokens[k].run
     /\ tokens[k].mode
=============================================================================
