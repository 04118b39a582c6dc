---------------------------- MODULE DecodeBuffer ----------------------------
(***************************************************************************)
(* The decode buffer, src/zstd/src/decoding/decode_buffer.rs: the window of *)
(* history matches read, the bytes not yet handed out, the running count   *)
(* of the frame's output and its running digest.                           *)
(*                                                                         *)
(* The backend is its promise (ByteQueue, which RingBuffer implements): a  *)
(* sequence of live bytes.  frame and output are history variables: all    *)
(* that this frame decoded, and all that the caller was given of it.  The  *)
(* digest is the sequence of bytes that went into it.                      *)
(***************************************************************************)
EXTENDS Integers, Sequences

CONSTANTS Byte,       \* the values of a byte
          Dict,       \* the content of the dictionary a frame may use
          Windows,    \* the window sizes of frames
          BlockLimit, \* the most a block may produce, whatever the window
          MaxFrame,   \* bound: the longest frame a run explores
          MixedCalls  \* whether a caller mixes decode_block with the other calls

ASSUME DecodeBufferAssumption ==
  /\ Dict \in Seq(Byte)
  /\ Windows \subseteq Nat \ {0}
  /\ BlockLimit \in Nat \ {0}
  /\ MaxFrame \in Nat
  /\ MixedCalls \in BOOLEAN

VARIABLES
  buffer, delivered, total_output_counter, window_size, ceiling,
  compute_hash, hash, hash_dirty,
  checks,   \* the frame has a checksum and the decoder does not ignore it
  dict,     \* the active dictionary's content, empty when there is none
  block,    \* the compressed block in progress: its checkpoint, its literals
  newest,   \* what the last call's block produced
  phase,    \* "open", "block", "failed", "finished"
  frame, output

delivery  == <<delivered, output, hash, hash_dirty>>
setting   == <<window_size, checks, dict>>
vars == <<buffer, delivered, total_output_counter, window_size, ceiling, compute_hash,
          hash, hash_dirty, checks, dict, block, newest, phase, frame, output>>

Min2(a, b) == IF a <= b THEN a ELSE b
Max2(a, b) == IF a >= b THEN a ELSE b

NoBlock == [len |-> 0, total |-> 0, literals |-> 0]

block_maximum == Min2(window_size, BlockLimit)
undelivered   == Len(buffer) - delivered

\* The byte strings of at most n bytes.
Bytes(n) == UNION {[1 .. k -> Byte] : k \in 0 .. n}

Suffix(s, n) == SubSeq(s, Len(s) - n + 1, Len(s))

-----------------------------------------------------------------------------
(* Matches.                                                                *)

\* A match of ml bytes whose source starts `offset` bytes before the end of q.
Match(q, offset, ml) ==
  [k \in 1 .. ml |-> q[Len(q) - offset + 1 + ((k - 1) % offset)]]

Copied(bytes)  == [ok |-> TRUE,  bytes |-> bytes]
Refused(bytes) == [ok |-> FALSE, bytes |-> bytes]

\* Mutant: the dictionary is reachable for the whole frame.
repeat_from_dict_anywhere(q, total, offset, ml) ==
  LET bytes_from_dict == offset - Len(q)
      tail == Suffix(dict, bytes_from_dict)
  IN  IF bytes_from_dict > Len(dict) \/ Len(q) + ml > ceiling
      THEN Refused(<< >>)
      ELSE IF bytes_from_dict < ml
           THEN Copied(tail \o Match(q \o tail, Len(q \o tail), ml - bytes_from_dict))
           ELSE Copied(SubSeq(tail, 1, ml))

\* repeat_from_dict: the match starts before the output, so its first bytes are
\* the dictionary's last; reachable only while the output is within the window.
repeat_from_dict(q, total, offset, ml) ==
  LET bytes_from_dict == offset - Len(q)
      tail == Suffix(dict, bytes_from_dict)
  IN  IF \/ Max2(total, Len(q)) > window_size
         \/ bytes_from_dict > Len(dict)
         \/ Len(q) + ml > ceiling
      THEN Refused(<< >>)
      ELSE IF bytes_from_dict < ml
           THEN Copied(tail \o Match(q \o tail, Len(q \o tail), ml - bytes_from_dict))
           ELSE Copied(SubSeq(tail, 1, ml))

\* repeat_inner: what a match appends to the live bytes q.
repeat(q, total, offset, ml) ==
  IF offset = 0 THEN Refused(<< >>)
  ELSE IF ml = 0 THEN Copied(<< >>)
  ELSE IF offset > Len(q) THEN repeat_from_dict(q, total, offset, ml)
  ELSE IF Len(q) + ml > ceiling THEN Refused(<< >>)
  ELSE Copied(Match(q, offset, ml))

\* Mutant: the literals of the sequence do not count towards the window.
dict_match_source_noLiterals(ll, offset, ml) ==
  LET bytes_from_dict == offset - (Len(buffer) + ll)
  IN  /\ offset > Len(buffer) + ll
      /\ Max2(total_output_counter, Len(buffer)) <= window_size
      /\ bytes_from_dict <= Len(dict)
      /\ ml <= bytes_from_dict

\* dict_match_source: whether the inline executor may read the whole match out
\* of the dictionary.
dict_match_source(ll, offset, ml) ==
  LET bytes_from_dict == offset - (Len(buffer) + ll)
  IN  /\ offset > Len(buffer) + ll
      /\ Max2(total_output_counter, Len(buffer)) + ll <= window_size
      /\ bytes_from_dict <= Len(dict)
      /\ ml <= bytes_from_dict

\* execute_one_sequence_pipelined: the bytes a sequence appends; on the inline
\* path when the backend has contiguous room for it (RingBuffer's inline_exec_ok).
execute_one_sequence(lits, offset, ml, inline) ==
  LET fits == Len(buffer) + Len(lits) + ml <= ceiling
      cold == repeat(buffer \o lits, total_output_counter + Len(lits), offset, ml)
  IN  IF offset = 0 THEN Refused(<< >>)
      ELSE IF inline /\ fits /\ dict_match_source(Len(lits), offset, ml)
      THEN Copied(lits \o SubSeq(Suffix(dict, offset - (Len(buffer) + Len(lits))), 1, ml))
      ELSE IF inline /\ fits /\ offset <= Len(buffer) + Len(lits)
      THEN Copied(lits \o Match(buffer \o lits, offset, ml))
      ELSE [ok |-> cold.ok, bytes |-> lits \o cold.bytes]

-----------------------------------------------------------------------------
(* A new frame.                                                            *)

Init ==
  /\ buffer = << >> /\ delivered = 0 /\ total_output_counter = 0
  /\ window_size \in Windows
  /\ ceiling = MaxFrame + BlockLimit
  /\ compute_hash = TRUE /\ hash = << >> /\ hash_dirty = FALSE
  /\ checks \in BOOLEAN
  /\ dict \in {<< >>, Dict}
  /\ block = NoBlock /\ newest = 0 /\ phase = "open"
  /\ frame = << >> /\ output = << >>

\* DecodeBuffer::reset.  The digest is seeded afresh only if it was written to;
\* the compute_hash setting stays as the last frame left it.
Reset ==
  /\ phase # "block"
  /\ window_size' \in Windows /\ checks' \in BOOLEAN /\ dict' \in {<< >>, Dict}
  /\ buffer' = << >> /\ delivered' = 0 /\ total_output_counter' = 0
  /\ ceiling' = MaxFrame + BlockLimit
  /\ hash' = IF hash_dirty THEN << >> ELSE hash
  /\ hash_dirty' = FALSE
  /\ block' = NoBlock /\ newest' = 0 /\ phase' = "open"
  /\ frame' = << >> /\ output' = << >>
  /\ UNCHANGED compute_hash

-----------------------------------------------------------------------------
(* Blocks.  Each decoding call first applies the frame's checksum setting  *)
(* to the buffer (set_compute_hash).                                       *)

Write(bytes) ==
  /\ Len(frame) + Len(bytes) <= MaxFrame
  /\ buffer' = buffer \o bytes
  /\ total_output_counter' = total_output_counter + Len(bytes)
  /\ frame' = frame \o bytes

\* A Raw or RLE block, or a compressed one without sequences: push,
\* extend_and_fill or extend_from_reader.
PushBlock(bytes) ==
  /\ phase = "open"
  /\ Len(bytes) <= block_maximum
  /\ Write(bytes)
  /\ compute_hash' = checks
  /\ newest' = Len(bytes)
  /\ UNCHANGED <<ceiling, block, phase>> /\ UNCHANGED delivery /\ UNCHANGED setting

\* reserve_for_block, set_block_output_ceiling, checkpoint: a block with
\* sequences begins, holding n literals.
BeginSequences(n) ==
  /\ phase = "open"
  /\ n <= block_maximum
  /\ compute_hash' = checks
  /\ ceiling' = Len(buffer) + block_maximum
  /\ block' = [len |-> Len(buffer), total |-> total_output_counter, literals |-> n]
  /\ newest' = 0
  /\ phase' = "block"
  /\ UNCHANGED <<buffer, total_output_counter, frame>> /\ UNCHANGED delivery
  /\ UNCHANGED setting

ExecuteSequence(lits, offset, ml, inline) ==
  LET r == execute_one_sequence(lits, offset, ml, inline)
  IN  /\ phase = "block"
      /\ Len(lits) <= block.literals
      /\ r.ok
      /\ Write(r.bytes)
      /\ block' = [block EXCEPT !.literals = @ - Len(lits)]
      /\ UNCHANGED <<ceiling, compute_hash, newest, phase>> /\ UNCHANGED delivery
      /\ UNCHANGED setting

\* try_restore_checkpoint after `bytes` more were written: undone, unless the
\* block outgrew its reservation, when the backend may have reallocated.
Restored(bytes) ==
  LET written == Len(buffer) + Len(bytes) - block.len
  IN  \/ /\ buffer' = SubSeq(buffer, 1, block.len)
         /\ total_output_counter' = block.total
         /\ frame' = SubSeq(frame, 1, Len(frame) - (Len(buffer) - block.len))
      \/ /\ written > block_maximum
         /\ Write(bytes)

\* A sequence the executor refuses, or (lits empty, offset 0) a bitstream that
\* ends too early or too late: the block is rolled back and reported.
SequenceFails(lits, offset, ml) ==
  LET r == execute_one_sequence(lits, offset, ml, FALSE)
  IN  /\ phase = "block"
      /\ Len(lits) <= block.literals
      /\ ~ r.ok
      /\ Restored(r.bytes)
      /\ phase' = "failed"
      /\ block' = NoBlock
      /\ UNCHANGED <<ceiling, compute_hash, newest>> /\ UNCHANGED delivery
      /\ UNCHANGED setting

\* The rest of the literals, then the check of the block's whole output.
FinishSequences(rest) ==
  /\ phase = "block"
  /\ Len(rest) = block.literals
  /\ Write(rest)
  /\ LET produced == Len(buffer) + Len(rest) - block.len
     IN  /\ phase' = IF produced > block_maximum THEN "failed" ELSE "open"
         /\ newest' = IF produced > block_maximum THEN 0 ELSE produced
  /\ block' = NoBlock
  /\ UNCHANGED <<ceiling, compute_hash>> /\ UNCHANGED delivery /\ UNCHANGED setting

\* The frame's last block is decoded.
FinishFrame ==
  /\ phase = "open"
  /\ phase' = "finished"
  /\ UNCHANGED <<buffer, total_output_counter, ceiling, compute_hash, block, newest, frame>>
  /\ UNCHANGED delivery /\ UNCHANGED setting

\* run_direct_decode: a whole frame decoded into the caller's slice, its digest
\* and its length then installed here (set_hash, set_total_output).
DirectDecode(bytes) ==
  /\ phase = "open" /\ frame = << >> /\ block = NoBlock
  /\ Len(bytes) <= MaxFrame
  /\ frame' = bytes /\ output' = bytes
  /\ total_output_counter' = Len(bytes)
  /\ hash' = IF checks THEN bytes ELSE hash
  /\ hash_dirty' = (hash_dirty \/ checks)
  /\ phase' = "finished"
  /\ UNCHANGED <<buffer, delivered, ceiling, compute_hash, block, newest>>
  /\ UNCHANGED setting

-----------------------------------------------------------------------------
(* Handing output out.                                                     *)

\* Mutant: the window is not kept.
released_all(d, keep_window) == d

\* release_delivered(keep_window): what was handed out and lies past the window.
released(d, keep_window) ==
  Min2(Max2(0, Len(buffer) - (IF keep_window THEN window_size ELSE 0)), d)

Release(d, keep_window) ==
  /\ buffer' = Suffix(buffer, Len(buffer) - released(d, keep_window))
  /\ delivered' = d - released(d, keep_window)

\* The bytes given to the caller, and to the digest.
HandOut(bytes) ==
  /\ output' = output \o bytes
  /\ hash' = IF compute_hash THEN hash \o bytes ELSE hash

\* Mutant: the second slice is handed out though the first was cut short.
Deliver_on(amount, keep_window, s1, w1, w2) ==
  LET wraps == delivered < s1
      n1 == Min2(IF wraps THEN s1 - delivered ELSE undelivered, amount)
      n2 == Min2(IF wraps THEN Len(buffer) - s1 ELSE 0, amount - n1)
  IN  /\ phase # "block"
      /\ w1 \in 0 .. n1
      /\ w2 \in 0 .. n2
      /\ keep_window \/ phase = "finished"
      /\ LET taken == SubSeq(buffer, delivered + 1, delivered + w1)
                        \o SubSeq(buffer, s1 + 1, s1 + w2)
         IN  HandOut(taken)
      /\ hash_dirty' = (hash_dirty \/ (compute_hash /\ amount # 0))
      /\ Release(delivered + w1 + w2, keep_window)
      /\ newest' = 0
      /\ UNCHANGED <<total_output_counter, ceiling, compute_hash, block, phase, frame>>
      /\ UNCHANGED setting

\* deliver_to(amount, keep_window, ..): the backend shows its bytes as two
\* slices, the first of s1 bytes; the sink takes w1 of the first piece and, only
\* if that was all of it, w2 of the second.  A sink that fails or stops short
\* keeps what it took.  Calls on a finished frame may let the window go.
Deliver(amount, keep_window, s1, w1, w2) ==
  LET wraps == delivered < s1
      n1 == Min2(IF wraps THEN s1 - delivered ELSE undelivered, amount)
      n2 == Min2(IF wraps THEN Len(buffer) - s1 ELSE 0, amount - n1)
  IN  /\ phase # "block"
      /\ w1 \in 0 .. n1
      /\ w2 \in 0 .. (IF w1 = n1 THEN n2 ELSE 0)
      /\ keep_window \/ phase = "finished"
      /\ LET taken == SubSeq(buffer, delivered + 1, delivered + w1)
                        \o SubSeq(buffer, s1 + 1, s1 + w2)
         IN  HandOut(taken)
      /\ hash_dirty' = (hash_dirty \/ (compute_hash /\ amount # 0))
      /\ Release(delivered + w1 + w2, keep_window)
      /\ newest' = 0
      /\ UNCHANGED <<total_output_counter, ceiling, compute_hash, block, phase, frame>>
      /\ UNCHANGED setting

\* deliver_newest: decode_block hands out the block it just decoded; all of the
\* buffer then counts as delivered.
DeliverNewest ==
  /\ phase \in {"open", "finished"}
  /\ newest > 0
  /\ MixedCalls \/ undelivered = newest
  /\ HandOut(Suffix(buffer, newest))
  /\ hash_dirty' = (hash_dirty \/ compute_hash)
  /\ Release(Len(buffer), TRUE)
  /\ newest' = 0
  /\ UNCHANGED <<total_output_counter, ceiling, compute_hash, block, phase, frame>>
  /\ UNCHANGED setting

\* insert_block, in a run of blocks outside any frame (so without a checksum):
\* output the caller already holds joins the history.  It is pushed in pieces
\* of at most the window and trimmed after each (mark_delivered,
\* drop_to_window_size), which leaves the window's worth of it.
InsertBlock(content) ==
  LET all  == buffer \o content
      kept == Min2(Len(all), window_size)
  IN  /\ phase = "open"
      /\ ~ checks
      /\ content # << >>
      /\ MixedCalls \/ undelivered = 0
      /\ Len(frame) + Len(content) <= MaxFrame
      /\ buffer' = Suffix(all, kept)
      /\ delivered' = kept
      /\ total_output_counter' = total_output_counter + Len(content)
      /\ frame' = frame \o content
      /\ output' = output \o content
      /\ newest' = 0
      /\ UNCHANGED <<ceiling, compute_hash, hash, hash_dirty, block, phase>>
      /\ UNCHANGED setting

-----------------------------------------------------------------------------
Offsets(lits) == 0 .. Len(buffer) + Len(lits) + Len(dict) + 1
Lengths       == 1 .. BlockLimit

Next ==
  \/ Reset
  \/ \E bytes \in Bytes(BlockLimit) : PushBlock(bytes)
  \/ \E n \in 0 .. BlockLimit : BeginSequences(n)
  \/ \E lits \in Bytes(block.literals), ml \in Lengths, inline \in BOOLEAN :
       \E offset \in Offsets(lits) : ExecuteSequence(lits, offset, ml, inline)
  \/ \E lits \in Bytes(block.literals), ml \in Lengths :
       \E offset \in Offsets(lits) : SequenceFails(lits, offset, ml)
  \/ \E rest \in Bytes(block.literals) : FinishSequences(rest)
  \/ FinishFrame
  \/ \E bytes \in Bytes(BlockLimit) : DirectDecode(bytes)
  \/ \E amount \in 0 .. undelivered, keep_window \in BOOLEAN, s1 \in 1 .. Len(buffer) :
       \E w1, w2 \in 0 .. amount : Deliver(amount, keep_window, s1, w1, w2)
  \/ DeliverNewest
  \/ \E content \in Bytes(BlockLimit) : InsertBlock(content)

Spec == Init /\ [][Next]_vars

-----------------------------------------------------------------------------
(* Properties.                                                             *)

\* Every variable has its type, and what was handed out of the live bytes is
\* at most all of them.
TypeOK ==
  /\ buffer \in Seq(Byte) /\ frame \in Seq(Byte) /\ output \in Seq(Byte) /\ hash \in Seq(Byte)
  /\ delivered \in 0 .. Len(buffer)
  /\ total_output_counter \in Nat /\ ceiling \in Nat /\ newest \in Nat
  /\ window_size \in Windows /\ dict \in {<< >>, Dict}
  /\ compute_hash \in BOOLEAN /\ hash_dirty \in BOOLEAN /\ checks \in BOOLEAN
  /\ block \in [len : Nat, total : Nat, literals : Nat]
  /\ phase \in {"open", "block", "failed", "finished"}

\* The caller is given exactly the frame's bytes, in order, none twice and none
\* lost, whatever sizes it reads in, wherever the slices split, and however often
\* its sink stops short or fails; a rolled back block takes no byte back.  The output
\* counter, on which the reach of the dictionary and the declared size depend,
\* counts them, through drains, rollbacks, inserted blocks and a direct decode; and
\* the digest a checksum is compared with is that of the bytes handed out, also
\* after a frame that was decoded directly or without a checksum.
OutputInOrder ==
  /\ output \o Suffix(buffer, undelivered) = frame
  /\ total_output_counter = Len(frame)
  /\ checks => hash = output

\* While blocks may still come, the buffer holds the end of the frame, and at
\* least a window of it: no drain lets go of history a match may need.  Between
\* blocks, with all output taken, it holds no more than the window.
WindowKept ==
  /\ phase \in {"open", "block"} =>
       /\ Len(buffer) <= Len(frame)
       /\ buffer = Suffix(frame, Len(buffer))
       /\ Len(buffer) >= Min2(window_size, Len(frame))
  /\ phase = "open" /\ undelivered = 0 => Len(buffer) <= window_size

\* What a match may legally name: bytes within the window, or the dictionary
\* while the output is still within the window.
Legal(lits, offset) ==
  LET pos == Len(frame) + Len(lits)
  IN  /\ offset >= 1
      /\ \/ offset <= Min2(window_size, pos)
         \/ pos <= window_size /\ offset <= pos + Len(dict)

\* Every legal sequence within the block's ceiling executes, and the inline and
\* the cold path of the executor give every sequence the same outcome.
LegalSequencesExecute ==
  phase = "block" =>
    \A lits \in Bytes(block.literals), ml \in Lengths :
      \A offset \in Offsets(lits) :
        LET cold == execute_one_sequence(lits, offset, ml, FALSE)
        IN  /\ execute_one_sequence(lits, offset, ml, TRUE).ok => cold.ok
            /\ Legal(lits, offset) /\ Len(buffer) + Len(lits) + ml <= ceiling => cold.ok

\* An executed sequence has LZ77's meaning over the dictionary followed by the
\* whole frame: what was released, and a dictionary no longer reachable, are
\* never read as if they were there.
SequenceMeaning ==
  \A lits \in Bytes(block.literals), ml \in Lengths, inline \in BOOLEAN :
    \A offset \in Offsets(lits) :
      ExecuteSequence(lits, offset, ml, inline) =>
        LET history == dict \o frame \o lits
        IN  /\ offset > Len(frame \o lits) => Len(frame \o lits) <= window_size
            /\ offset <= Len(history)
            /\ frame' = frame \o lits \o Match(history, offset, ml)
SequenceIsLZ77 == [][SequenceMeaning]_vars
=============================================================================
