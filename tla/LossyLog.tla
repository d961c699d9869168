------------------------------ MODULE LossyLog ------------------------------
(***************************************************************************)
(* What a reader of the shared-memory ring or of the broadcast channel is  *)
(* promised: the frames of a producer that never waits, in order, each at  *)
(* most once.  Frames that fell more than Slots behind are given up, and   *)
(* the reader is told how many; a frame that is Slots or more behind by    *)
(* the time it is handed out may come back damaged, or Ahead fewer where   *)
(* the producer is seen to write that many frames beyond what it has       *)
(* published; a newer one never does.                                      *)
(*                                                                         *)
(* Nothing is said about slots, counters or copying: ShmRing is shown to   *)
(* implement this module, and so is each receiver of Broadcast.            *)
(***************************************************************************)
EXTENDS Integers, Sequences

CONSTANTS
  Slots,  \* how many frames are kept
  Ahead,  \* how far writing may be ahead of what is published
  Length  \* the lengths a frame can have

VARIABLES
  log,    \* the frames published so far, each known by its length
  next,   \* how many of them the reader is done with
  reply   \* what the reader was last told

Behind == Len(log) - next

Init ==
  /\ log = << >>
  /\ next = 0
  /\ reply = [kind |-> "none"]

Publish ==
  /\ \E l \in Length : log' = Append(log, l)
  /\ UNCHANGED <<next, reply>>

Empty ==
  /\ Behind = 0
  /\ reply' = [kind |-> "empty"]
  /\ UNCHANGED <<log, next>>

Take ==
  /\ Behind > 0
  /\ reply' = [kind |-> "frame", number |-> next + 1, len |-> log[next + 1]]
  /\ next' = next + 1
  /\ UNCHANGED log

TakeDamaged ==
  /\ Behind + Ahead >= Slots
  /\ reply' = [kind |-> "damaged", number |-> next + 1]
  /\ next' = next + 1
  /\ UNCHANGED log

Refuse ==
  /\ Behind + Ahead >= Slots
  /\ reply' = [kind |-> "corrupt"]
  /\ UNCHANGED <<log, next>>

GiveUp ==
  /\ Behind > Slots
  /\ reply' = [kind |-> "overrun", skipped |-> Behind - Slots]
  /\ next' = Len(log) - Slots
  /\ UNCHANGED log

\* Another reader takes over, from the first frame or from the next to come.
Join ==
  /\ reply' = [kind |-> "none"]
  /\ next' \in {0, Len(log)}
  /\ UNCHANGED log

Next == Publish \/ Empty \/ Take \/ TakeDamaged \/ Refuse \/ GiveUp \/ Join

Spec == Init /\ [][Next]_<<log, next, reply>>
=============================================================================
