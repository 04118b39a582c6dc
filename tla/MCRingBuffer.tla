---------------------------- MODULE MCRingBuffer ----------------------------
(***************************************************************************)
(* A small instance of the ring, with its refinement, for TLC.             *)
(***************************************************************************)
EXTENDS RingRefinement, TLC

Bytes == Permutations(Byte)

\* Bound: rollback points are followed in rings of up to four cells.  The six-cell
\* ring leaves room for literals and a match that overlaps itself at an offset of
\* two, on either side of the wrap.
RollbackInSmallRings == cap < MaxCap - 1 \/ mark = NoMark
=============================================================================
