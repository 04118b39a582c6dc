--------------------------- MODULE RingRefinement ---------------------------
(***************************************************************************)
(* The ring implements the byte queue: its queue is the live bytes in      *)
(* order, and its checkpoint is one that no reallocation invalidated.      *)
(***************************************************************************)
EXTENDS RingBuffer

live == [i \in 1 .. Length |-> At(i - 1)]

checkpoint == IF mark # NoMark /\ mark.cap = cap THEN mark.len ELSE -1

Queue == INSTANCE ByteQueue WITH q <- live, saved <- checkpoint

\* Every operation of the ring, wherever its bytes lie in the allocation, is an
\* operation of a plain queue of bytes, with LZ77's meaning for matches.
ImplementsByteQueue == Queue!Spec
=============================================================================
