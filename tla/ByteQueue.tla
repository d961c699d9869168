----------------------------- MODULE ByteQueue -----------------------------
(***************************************************************************)
(* What the stream parser expects of its ring buffer: a bounded FIFO of    *)
(* bytes.  A writer offers a chunk and the queue takes the longest prefix  *)
(* that fits; a reader releases bytes from the front.  Nothing is said     *)
(* about indices, wrapping or copying: RingBuffer is shown to implement    *)
(* this module.                                                            *)
(***************************************************************************)
EXTENDS Integers, Sequences

CONSTANTS
  Cap,    \* the number of bytes the queue holds
  Byte,   \* the values a byte can have
  Chunks  \* the chunks a writer may offer, sequences of bytes

VARIABLE queue

Init == queue = << >>

Accepted(data) ==
  IF Len(data) <= Cap - Len(queue) THEN Len(data) ELSE Cap - Len(queue)

Enqueue(data) == queue' = queue \o SubSeq(data, 1, Accepted(data))

Dequeue(n) ==
  /\ n <= Len(queue)
  /\ queue' = SubSeq(queue, n + 1, Len(queue))

Next ==
  \/ \E data \in Chunks : Enqueue(data)
  \/ \E n \in 0..Cap : Dequeue(n)

Spec == Init /\ [][Next]_queue
=============================================================================
