---------------------------- MODULE MCRingBuffer ----------------------------
(***************************************************************************)
(* Every byte string up to one byte longer than the ring.                  *)
(***************************************************************************)
EXTENDS RingBuffer

MCChunks == UNION {[1..k -> Byte] : k \in 0 .. (Cap + 1)}
=============================================================================
