------------------------ MODULE CompressionContext ------------------------
(***************************************************************************)
(* The streaming compression context (encoding/streaming_encoder.rs): it   *)
(* takes input, cuts it into blocks and writes the frame into a drain it   *)
(* is handed with every call.  Its calls are operators from a context and  *)
(* a drain to a context and a drain, so that the Rust encoder and the C    *)
(* interface, which own drains of different kinds, share them.             *)
(*                                                                         *)
(* A frame on a drain is a sequence of pieces, its header, its blocks and  *)
(* its checksum; what a block compresses to is not modelled, only which    *)
(* bytes it stands for.  Every input byte is a number of its own.          *)
(***************************************************************************)
EXTENDS Integers, Sequences, FiniteSetsExt

CONSTANTS
  BlockCapacity,     \* block_capacity: the most input one block stands for
  ContentChecksum,   \* content_checksum: whether a frame ends in one
  Changes            \* the bytes at which the pre-splitter sees the data change

ASSUME CapacityAssumption ==
  BlockCapacity \in Nat \ {0} /\ ContentChecksum \in BOOLEAN /\ Changes \subseteq Nat

Unknown == -1    \* no pledged size
NoDictionary == 0

-----------------------------------------------------------------------------
(* Pieces of a frame, and drains.  A drain takes every write or, when it   *)
(* is about to fail (bad = 1), refuses one of them and takes the next.     *)

Piece(t, data, last) == [t |-> t, data |-> data, last |-> last, fcs |-> Unknown, dict |-> NoDictionary]
Header(fcs, dict) == [t |-> "header", data |-> << >>, last |-> FALSE, fcs |-> fcs, dict |-> dict]
Block(data, last) == Piece("block", data, last)
Checksum(data) == Piece("checksum", data, FALSE)

Drain(bad) == [bytes |-> << >>, bad |-> bad]

Fails(d) == d.bad = 1

Called(d) == IF d.bad = 0 THEN d ELSE [d EXCEPT !.bad = @ - 1]

write_all(d, piece) == IF Fails(d) THEN Called(d) ELSE [Called(d) EXCEPT !.bytes = Append(@, piece)]

-----------------------------------------------------------------------------
(* The context.  `hashed` is what the hasher has seen.                     *)

NewContext ==
  [errored |-> FALSE, started |-> FALSE, pledged |-> Unknown, consumed |-> 0,
   pending |-> << >>, hashed |-> << >>, dictionary |-> NoDictionary]

\* What the context answers: the context and drain after the call, whether it
\* went well ("ok", "InvalidInput", "drain" or "sticky") and the input taken.
Answer(c, d, code, taken) == [c |-> c, d |-> d, code |-> code, taken |-> taken]

fail(c) == [c EXCEPT !.errored = TRUE]

pending_len(c) == IF c.started THEN Len(c.pending) ELSE 0

ensure_settable(c) == IF c.errored THEN "sticky" ELSE IF c.started THEN "InvalidInput" ELSE "ok"

set_pledged_content_size(c, size) ==
  IF ensure_settable(c) = "ok" THEN [c EXCEPT !.pledged = size] ELSE c

\* set_encoder_dictionary, or set_dictionary_from_bytes with none.
set_dictionary(c, dict) ==
  IF ensure_settable(c) = "ok" THEN [c EXCEPT !.dictionary = dict] ELSE c

\* Mutant: the input an abandoned frame left in the match finder stays.
ensure_frame_started_over(c, d) ==
  IF c.started THEN Answer(c, d, "ok", 0)
  ELSE IF Fails(d) THEN Answer(fail([c EXCEPT !.hashed = << >>]), Called(d), "drain", 0)
  ELSE Answer([c EXCEPT !.started = TRUE, !.hashed = << >>],
              write_all(d, Header(c.pledged, c.dictionary)), "ok", 0)

\* The first write, flush of something or finish of a frame writes its header.
\* What an abandoned frame left uncommitted goes with the match finder's reset.
ensure_frame_started(c, d) ==
  LET fresh == [c EXCEPT !.pending = << >>, !.hashed = << >>]
  IN IF c.started THEN Answer(c, d, "ok", 0)
     ELSE IF Fails(d) THEN Answer(fail(fresh), Called(d), "drain", 0)
     ELSE Answer([fresh EXCEPT !.started = TRUE],
                 write_all(d, Header(c.pledged, c.dictionary)), "ok", 0)

\* One block of the first n pending bytes.  They are committed to the match
\* finder before the drain is asked, and hashed after.
encode_block(c, d, n, last) ==
  LET data == SubSeq(c.pending, 1, n)
      cut == [c EXCEPT !.pending = SubSeq(@, n + 1, Len(@))]
  IN IF Fails(d) THEN Answer(fail(cut), Called(d), "drain", 0)
     ELSE Answer([cut EXCEPT !.hashed = @ \o data], write_all(d, Block(data, last)), "ok", 0)

\* Where a full block is cut: before the first byte at which the data changes.
pre_split_len(c) ==
  Min({BlockCapacity} \cup {n \in 1 .. BlockCapacity - 1 : c.pending[n + 1] \in Changes})

emit_full_pending_block(c, d) ==
  IF pending_len(c) # BlockCapacity THEN Answer(c, d, "ok", 0)
  ELSE encode_block(c, d, pre_split_len(c), FALSE)

emit_pending_block(c, d, last) == encode_block(c, d, pending_len(c), last)

-----------------------------------------------------------------------------
(* write: the bytes go to the block being filled, which is written out the *)
(* moment it is full.  A block that fails ends the loop, and the bytes     *)
(* taken so far are reported.                                              *)

Taking(c, d, rest, taken, code) == [c |-> c, d |-> d, rest |-> rest, taken |-> taken, code |-> code]

\* One turn of its loop, which leaves things alone once the loop has ended.
TakeTurn(w) ==
  IF w.rest = << >> \/ w.code # "ok" THEN w
  ELSE LET n == Min({Len(w.rest), BlockCapacity - pending_len(w.c)})
           emitted == emit_full_pending_block([w.c EXCEPT !.pending = @ \o SubSeq(w.rest, 1, n)], w.d)
       IN Taking(emitted.c, emitted.d, SubSeq(w.rest, n + 1, Len(w.rest)), w.taken + n, emitted.code)

\* A turn takes a byte or more, so there are no more turns than bytes.
TakeInput(c, d, buf) ==
  LET after[i \in 0 .. Len(buf)] ==
        IF i = 0 THEN Taking(c, d, buf, 0, "ok") ELSE TakeTurn(after[i - 1])
      ended == after[Len(buf)]
  IN Answer([ended.c EXCEPT !.consumed = @ + ended.taken], ended.d, "ok", ended.taken)

Accepted(c, buf) ==
  IF c.pledged = Unknown THEN buf ELSE SubSeq(buf, 1, Min({Len(buf), c.pledged - c.consumed}))

write(c, d, buf) ==
  IF c.errored THEN Answer(c, d, "sticky", 0)
  ELSE IF buf = << >> THEN Answer(c, d, "ok", 0)
  ELSE IF c.pledged # Unknown /\ c.consumed >= c.pledged THEN Answer(c, d, "InvalidInput", 0)
  ELSE LET begun == ensure_frame_started(c, d)
       IN IF begun.code # "ok" THEN begun
          ELSE TakeInput(begun.c, begun.d, Accepted(c, buf))

\* The drain's own flush, which ends flush and finish_frame.
FlushDrain(c, d) ==
  IF Fails(d) THEN Answer(fail(c), Called(d), "drain", 0) ELSE Answer(c, Called(d), "ok", 0)

flush(c, d) ==
  IF c.errored THEN Answer(c, d, "sticky", 0)
  ELSE IF pending_len(c) = 0 THEN FlushDrain(c, d)
  ELSE LET emitted == emit_pending_block(c, d, FALSE)
       IN IF emitted.code # "ok" THEN emitted ELSE FlushDrain(emitted.c, emitted.d)

\* Mutant: the pledge of a frame outlives it.
abandon_frame_pledged(c) == [c EXCEPT !.started = FALSE, !.consumed = 0]

\* Mutant: with the frame its failure is forgotten.
abandon_frame_forgiving(c) ==
  [c EXCEPT !.started = FALSE, !.consumed = 0, !.pledged = Unknown, !.errored = FALSE]

\* The frame goes, its pledge with it; a failure stays.
abandon_frame(c) == [c EXCEPT !.started = FALSE, !.consumed = 0, !.pledged = Unknown]

EmitChecksum(c, d) ==
  IF ~ContentChecksum THEN Answer(c, d, "ok", 0)
  ELSE IF Fails(d) THEN Answer(fail(c), Called(d), "drain", 0)
  ELSE Answer(c, write_all(d, Checksum(c.hashed)), "ok", 0)

\* The last block, the checksum and the drain's flush, each after the one
\* before it went well.
CloseFrame(c, d) ==
  LET emitted == emit_pending_block(c, d, TRUE)
      summed == EmitChecksum(emitted.c, emitted.d)
      flushed == FlushDrain(summed.c, summed.d)
  IN IF emitted.code # "ok" THEN emitted
     ELSE IF summed.code # "ok" THEN summed
     ELSE IF flushed.code # "ok" THEN flushed
     ELSE [flushed EXCEPT !.c = abandon_frame(@)]

finish_frame(c, d) ==
  IF c.errored THEN Answer(c, d, "sticky", 0)
  ELSE IF c.pledged # Unknown /\ c.consumed # c.pledged THEN Answer(c, d, "InvalidInput", 0)
  ELSE LET begun == ensure_frame_started(c, d)
       IN IF begun.code # "ok" THEN begun ELSE CloseFrame(begun.c, begun.d)

-----------------------------------------------------------------------------
(* What the pieces on a drain say, for the properties.                     *)

\* The input bytes a piece stands for, and those a sequence of pieces does.
BlockData(x) == IF x.t = "block" THEN x.data ELSE << >>

Contents(pieces) ==
  LET upto[i \in 0 .. Len(pieces)] == IF i = 0 THEN << >> ELSE upto[i - 1] \o BlockData(pieces[i])
  IN upto[Len(pieces)]

\* A frame that goes on: its header, then blocks, none of them the last.
IsOpenFrame(pieces) ==
  /\ \A i \in DOMAIN pieces : pieces[i].t = (IF i = 1 THEN "header" ELSE "block")
  /\ \A i \in DOMAIN pieces : ~pieces[i].last /\ Len(pieces[i].data) <= BlockCapacity

\* A whole frame of the bytes in content, closed by its last block and, with
\* the checksum on, by the checksum of all of them.
IsFrameOf(pieces, content) ==
  LET blocks == IF ContentChecksum THEN Len(pieces) - 1 ELSE Len(pieces)
  IN /\ blocks >= 2
     /\ IsOpenFrame(SubSeq(pieces, 1, blocks - 1))
     /\ pieces[blocks].t = "block" /\ pieces[blocks].last /\ Len(pieces[blocks].data) <= BlockCapacity
     /\ ContentChecksum => pieces[blocks + 1] = Checksum(content)
     /\ Contents(pieces) = content
     /\ pieces[1].fcs \in {Unknown, Len(content)}
=============================================================================
