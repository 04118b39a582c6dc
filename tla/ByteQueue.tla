------------------------------ MODULE ByteQueue ------------------------------
(***************************************************************************)
(* What a decoder's output backend promises (the BufferBackend trait of    *)
(* src/zstd/src/decoding/buffer_backend.rs): a queue q of bytes that grows *)
(* at one end, is dropped from the other, and can be cut back to the       *)
(* length it had at a checkpoint.  saved is that length, NotSaved when     *)
(* there is no checkpoint or the backend can no longer return to it.       *)
(***************************************************************************)
EXTENDS Integers, Sequences

CONSTANTS Byte,     \* the values of a byte
          MaxWrite  \* the longest single write

VARIABLES q, saved

NotSaved == -1

ByteStrings == UNION {[1 .. n -> Byte] : n \in 0 .. MaxWrite}

\* A backend may lose its checkpoint in any step that may reallocate.
MayLoseCheckpoint == saved' = saved \/ saved' = NotSaved

\* The match of ml bytes that starts `offset` bytes before the end of h; where
\* it overlaps its own output it repeats.
LZ77Match(h, offset, ml) ==
  [k \in 1 .. ml |-> h[Len(h) - offset + 1 + ((k - 1) % offset)]]

-----------------------------------------------------------------------------
Init == q = << >> /\ saved = NotSaved

\* extend, extend_and_fill, extend_from_reader.
Write(data) ==
  /\ q' = q \o data
  /\ MayLoseCheckpoint

\* reserve and its kin; a read that failed.
Reallocate ==
  /\ q' = q
  /\ MayLoseCheckpoint

\* extend_from_within_unchecked.
Repeat(start, n) ==
  /\ start + n <= Len(q)
  /\ q' = q \o [k \in 1 .. n |-> q[start + k]]
  /\ saved' = saved

\* exec_sequence_inline.
Execute(lits, offset, ml) ==
  /\ offset <= Len(q) + Len(lits)
  /\ q' = q \o (lits \o LZ77Match(q \o lits, offset, ml))
  /\ saved' = saved

\* drop_first_n.
Drop(n) ==
  /\ q' = [i \in 1 .. Len(q) - n |-> q[n + i]]
  /\ saved' = NotSaved

\* clear.
Clear == q' = << >> /\ saved' = NotSaved

\* tail() and cap() read for a checkpoint.
Save == q' = q /\ saved' = Len(q)

\* set_tail back to the checkpoint.
Rollback ==
  /\ saved # NotSaved
  /\ q' = [i \in 1 .. saved |-> q[i]]
  /\ saved' = NotSaved

Next ==
  \/ \E data \in ByteStrings : Write(data)
  \/ Reallocate
  \/ \E start \in 0 .. Len(q), n \in 1 .. Len(q) : Repeat(start, n)
  \/ \E lits \in ByteStrings, offset \in 1 .. Len(q) + MaxWrite, ml \in 1 .. MaxWrite :
       Execute(lits, offset, ml)
  \/ \E n \in 1 .. Len(q) : Drop(n)
  \/ Clear
  \/ Save
  \/ Rollback

Spec == Init /\ [][Next]_<<q, saved>>
=============================================================================
