-------------------------------- MODULE LZ77 --------------------------------
(***************************************************************************)
(* What a parse of a block is, independently of how it was found: a list   *)
(* of sequences (some literals, then a copy from `off` bytes back), the    *)
(* rest of the block being literals.  The match finders are held to it:    *)
(* executing their parse over what the decoder already has must give the   *)
(* block back.  Bytes are elements of a small set, positions count from 0. *)
(***************************************************************************)
EXTENDS Integers, Sequences, FiniteSets

CONSTANTS
    MinMatch,      \* bytes compared before a candidate counts as a match (read32: 4)
    HashReadSize   \* bytes a position must have ahead of it to be hashed (8)

(***************************************************************************)
(* 4 and 8 in the code.  The kernels index the position two past the one   *)
(* a match was found at, which is behind the match's end only because a    *)
(* match is longer than that; and they compare MinMatch bytes one past a   *)
(* position they may hash.                                                 *)
(***************************************************************************)
ASSUME ReadSizes == MinMatch > 2 /\ HashReadSize > MinMatch

At(d, p) == d[p + 1]

Prefix(d, n) == SubSeq(d, 1, n)

Larger(a, b) == IF a >= b THEN a ELSE b

Smaller(a, b) == IF a <= b THEN a ELSE b

\* usize / u32 saturating_sub
SatSub(a, b) == IF a >= b THEN a - b ELSE 0

\* The place of the highest set bit.
RECURSIVE HighBit(_)
HighBit(v) == IF v < 2 THEN 0 ELSE 1 + HighBit(v \div 2)

(***************************************************************************)
(* The n bytes at p and at q are the same.  A candidate that does not lie  *)
(* inside the data compares unequal: the code would read past the buffer   *)
(* there, and the invariants on the tables are what rules that out.        *)
(***************************************************************************)
SameBytes(d, p, q, n) ==
    /\ Larger(p, q) + n <= Len(d)
    /\ \A k \in 0 .. n - 1 : At(d, p + k) = At(d, q + k)

\* How many bytes agree from p and from q on, p's side stopping at `end`.
RECURSIVE CountForward(_, _, _, _)
CountForward(d, p, q, end) ==
    IF p < end /\ q < Len(d) /\ At(d, p) = At(d, q)
    THEN 1 + CountForward(d, p + 1, q + 1, end)
    ELSE 0

\* How many bytes agree going back from p and q, down to `anchor` and `low`.
RECURSIVE CountBack(_, _, _, _, _)
CountBack(d, p, q, anchor, low) ==
    IF p > anchor /\ q > low /\ At(d, p - 1) = At(d, q - 1)
    THEN 1 + CountBack(d, p - 1, q - 1, anchor, low)
    ELSE 0

(***************************************************************************)
(* The hash of the n bytes at p, before it is cut to a table: the slot is  *)
(* its residue, the tag what is above the slot.                            *)
(***************************************************************************)
RECURSIVE HashBytes(_, _, _)
HashBytes(d, p, n) ==
    IF n = 0 THEN 0 ELSE At(d, p) + 3 * HashBytes(d, p + 1, n - 1)

Triple(ll, off, ml) == [ll |-> ll, off |-> off, ml |-> ml]

\* encode_offset_with_history, what it does to the three repeat offsets
NoteOffset(reps, off, ll) ==
    IF ll > 0 /\ off = reps[1] THEN reps
    ELSE IF off = reps[2] THEN <<off, reps[1], reps[3]>>
    ELSE <<off, reps[1], reps[2]>>

(***************************************************************************)
(* The decoder's side: `out` is everything it has, `at` how much of the    *)
(* block is done.  A copy reads byte by byte, so it may overlap itself.    *)
(***************************************************************************)
RECURSIVE CopyMatch(_, _, _)
CopyMatch(out, off, n) ==
    IF n = 0 THEN out
    ELSE CopyMatch(Append(out, out[Len(out) - off + 1]), off, n - 1)

RECURSIVE ExecuteParse(_, _, _, _)
ExecuteParse(out, block, at, seqs) ==
    IF seqs = <<>>
    THEN out \o SubSeq(block, at + 1, Len(block))
    ELSE LET s == Head(seqs)
             lits == out \o SubSeq(block, at + 1, at + s.ll)
         IN IF s.off \notin 1 .. Len(lits) \/ at + s.ll + s.ml > Len(block)
            THEN <<>>
            ELSE ExecuteParse(CopyMatch(lits, s.off, s.ml), block,
                              at + s.ll + s.ml, Tail(seqs))

\* Executed after `have`, the parse gives the block.
Regenerates(have, block, seqs) ==
    ExecuteParse(have, block, 0, seqs) = have \o block

(***************************************************************************)
(* The life of a dictionary's own tables (encoding/dict_attach.rs).  A     *)
(* backend holds them attached; `keep` is what it set aside: tables parked *)
(* fully built, for the next frame that attaches the same dictionary.      *)
(* Tables kept only for their allocation are emptied before use and are    *)
(* not told apart from none.                                               *)
(***************************************************************************)

NoTables == [attached |-> FALSE]

\* DictAttach::invalidate
Detached == [tab |-> NoTables, region |-> 0, primed |-> FALSE, next |-> 0]

NothingKept == [parked |-> FALSE]

IsAttached(dict) == dict.tab.attached

\* mark_primed: only when there is a table
MarkPrimed(dict) == [dict EXCEPT !.primed = @ \/ IsAttached(dict)]

\* DictKeep::park returns what is attached (nothing) and what is kept
ParkKeep(dict, keep) ==
    IF IsAttached(dict) /\ dict.primed THEN [parked |-> TRUE, dict |-> dict] ELSE keep

\* DictKeep::revive: a parked table is attached again or given up
Revives(dict, keep, accepted) == keep.parked /\ ~IsAttached(dict) /\ accepted

ReviveDict(dict, keep, accepted) == IF Revives(dict, keep, accepted) THEN keep.dict ELSE dict
=============================================================================
