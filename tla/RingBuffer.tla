----------------------------- MODULE RingBuffer -----------------------------
(***************************************************************************)
(* The byte ring under the QSSF stream parser                              *)
(* (crates/stabstream-deserialize/src/ring_buffer.rs).                     *)
(*                                                                         *)
(* read_pos and write_pos are global byte counts held in a usize: they     *)
(* wrap at Modulus, never at the capacity, and a position is turned into   *)
(* an index with pos % buf.len().  All operators keep the source's names.  *)
(*                                                                         *)
(* QssfStream instantiates this module for its ring_buf field.             *)
(***************************************************************************)
EXTENDS Integers, Sequences

CONSTANTS
  Cap,      \* buf.len(), fixed by RingBuffer::new
  Modulus,  \* 2^w for a w-bit usize
  Byte,     \* the values a byte can have
  Zero,     \* the byte a new buffer is filled with
  Chunks    \* the byte strings write is called with

\* A Rust slice is never longer than isize::MAX, so the capacity stays below
\* the range of the counters.
ASSUME RingAssumption ==
  /\ Cap \in Nat \ {0}
  /\ Modulus \in Nat
  /\ Cap < Modulus
  /\ Zero \in Byte
  /\ Chunks \subseteq Seq(Byte)

VARIABLES
  buf,       \* the backing store, indexed from 0
  read_pos,  \* count of bytes ever consumed, modulo Modulus
  write_pos  \* count of bytes ever written, modulo Modulus

vars == <<buf, read_pos, write_pos>>

Index == 0 .. (Cap - 1)

\* usize::min
Least(m, n) == IF m <= n THEN m ELSE n

-----------------------------------------------------------------------------
(* Wrapping arithmetic on positions, and the index of a position. *)

WrappingAdd(pos, n) == (pos + n) % Modulus

WrappingSub(pos, n) == (pos - n) % Modulus

IndexOf(pos) == pos % Cap

available_read == WrappingSub(write_pos, read_pos)

available_write == Cap - available_read

-----------------------------------------------------------------------------
(* Operations *)

Init ==
  /\ buf = [i \in Index |-> Zero]
  /\ read_pos = 0
  /\ write_pos = 0

\* Mutant: write does not look at the free space.
Accepted_All(data) == Len(data)

\* The number of bytes write accepts, which is also what it returns.
Accepted(data) == Least(Len(data), available_write)

\* The two-segment copy: first_len bytes up to the end of the store, the
\* rest of the accepted prefix from index 0.
Write(data) ==
  LET to_write  == Accepted(data)
      write_idx == IndexOf(write_pos)
      first_len == Least(Cap - write_idx, to_write)
  IN  /\ buf' = [i \in Index |->
                   IF i \in write_idx .. (write_idx + first_len - 1)
                   THEN data[i - write_idx + 1]
                   ELSE IF i < to_write - first_len
                        THEN data[first_len + i + 1]
                        ELSE buf[i]]
      /\ write_pos' = WrappingAdd(write_pos, to_write)
      /\ UNCHANGED read_pos

\* consume has no check of its own: that n bytes are there is what the
\* callers establish with a peek or a fill (QssfStream!RingHoldsTheStream).
Consume(n) ==
  /\ read_pos' = WrappingAdd(read_pos, n)
  /\ UNCHANGED <<buf, write_pos>>

\* A region of n bytes at the read position does not cross the end.
Contiguous(n) == IndexOf(read_pos) + n <= Cap

\* peek returns Some exactly when Peekable holds, and then the slice Peek.
Peekable(n) == n <= available_read /\ Contiguous(n)

Peek(n) == [i \in 1..n |-> buf[IndexOf(read_pos) + i - 1]]

\* Mutant: the second segment is not read.
PeekWrapped_Clamped(n) ==
  LET read_idx == IndexOf(read_pos)
  IN  [i \in 1..n |-> buf[Least(read_idx + i - 1, Cap - 1)]]

\* peek_wrapped: a borrow of the store, or a copy of both segments into the
\* caller's scratch when the region crosses the end.
PeekWrapped(n) ==
  LET read_idx == IndexOf(read_pos)
      first    == Cap - read_idx
  IN  IF Contiguous(n)
      THEN Peek(n)
      ELSE [i \in 1..n |-> IF i <= first THEN buf[read_idx + i - 1]
                                         ELSE buf[i - first - 1]]

Next ==
  \/ \E data \in Chunks : Write(data)
  \/ \E n \in 0..Cap : n <= available_read /\ Consume(n)

Spec == Init /\ [][Next]_vars

-----------------------------------------------------------------------------
(* Properties *)

\* The bytes that are stored and not consumed, oldest first.
Contents ==
  [i \in 1..available_read |-> buf[IndexOf(WrappingAdd(read_pos, i - 1))]]

\* Every variable has the shape the code gives it.
TypeOK ==
  /\ buf \in [Index -> Byte]
  /\ read_pos \in 0 .. (Modulus - 1)
  /\ write_pos \in 0 .. (Modulus - 1)

\* However the two counters wrap, they never drift further apart than the
\* capacity, so available_write (an unchecked usize subtraction) does not
\* underflow.
CapacityInvariant == available_read <= Cap

\* Whichever of its two paths peek_wrapped takes, it hands out the oldest
\* unread bytes in the order they were written; peek does so whenever it
\* returns a slice at all.
PeeksReadTheFront ==
  \A n \in 0..available_read :
     /\ PeekWrapped(n) = SubSeq(Contents, 1, n)
     /\ Peekable(n) => Peek(n) = SubSeq(Contents, 1, n)

\* Every write appends to, and every consume removes from, one bounded FIFO:
\* no byte is lost, duplicated, reordered or overwritten before it is read.
Queue == INSTANCE ByteQueue WITH queue <- Contents
ImplementsByteQueue == Queue!Spec
=============================================================================
