---------------------------- MODULE FrameDecoder ----------------------------
(***************************************************************************)
(* Frames as bytes, and the decoder of one frame that reads them from what *)
(* it is given.                                                            *)
(***************************************************************************)
EXTENDS Integers, Sequences, SequencesExt

(***************************************************************************)
(* A zstd stream as its readers see it: frames and skippable frames laid   *)
(* out over bytes.  Every byte is a cell that says which piece of the      *)
(* format it belongs to and at which place in it, so a reader that starts  *)
(* at the wrong byte finds nothing there.  The lengths are the format's: 4 *)
(* bytes of magic number, 8 of skippable header, 3 of block header, 4 of   *)
(* checksum.  Content bytes are small numbers, and a content checksum is   *)
(* the sequence of bytes it was computed over (a digest that never         *)
(* collides).                                                              *)
(***************************************************************************)

MagicLength == 4
SkipHeaderLength == 8
BlockHeaderLength == 3
ChecksumLength == 4

\* The byte a reader gets where there is no content.
Misread == 0

Cells(token, length) == [i \in 1 .. length |-> [token |-> token, i |-> i]]

Junk == [t |-> "junk"]

TokenAt(src) == IF src # << >> /\ src[1].i = 1 THEN src[1].token ELSE Junk

ByteOf(cell) == IF cell.token.t = "content" THEN cell.token.byte ELSE Misread

(* Frame headers say how long they are, whether a checksum follows the     *)
(* last block, what content size they declare (a set of at most one) and   *)
(* what they ask of the decoder: nothing, a window over the lowered        *)
(* ceiling, or a dictionary it does not have.  A block header gives the    *)
(* block's type, its size field and whether it is the last; for the        *)
(* model's use it also carries what the block regenerates, and whether a   *)
(* Compressed block is damaged.                                            *)

FrameHeader(length, checksum, fcs, asks) ==
  [t |-> "frame", length |-> length, checksum |-> checksum, fcs |-> fcs, asks |-> asks]

SkipHeader(size) == [t |-> "skip", length |-> SkipHeaderLength, size |-> size]

BlockHeader(type, size, last, out, damaged) ==
  [t |-> "block", type |-> type, size |-> size, last |-> last, out |-> out, damaged |-> damaged]

content_size(block) == IF block.type = "RLE" THEN 1 ELSE block.size

ContentCells(block) ==
  [i \in 1 .. content_size(block) |->
     [token |-> [t |-> "content", byte |-> IF block.type = "Compressed" THEN Misread ELSE block.out[i]],
      i |-> 1]]

(* The items of a stream: a frame is its header, its blocks and, with the  *)
(* checksum flag, the bytes its checksum was computed over.                *)

EncodeBlock(block) == Cells(block, BlockHeaderLength) \o ContentCells(block)

EncodeItem(item) ==
  CASE item.header.t = "frame" ->
         Cells(item.header, item.header.length)
         \o FlattenSeq([i \in DOMAIN item.blocks |-> EncodeBlock(item.blocks[i])])
         \o (IF item.header.checksum
             THEN Cells([t |-> "checksum", of |-> item.checksum], ChecksumLength) ELSE << >>)
    [] item.header.t = "skip" ->
         Cells(item.header, item.header.length)
         \o [i \in 1 .. item.header.size |-> [token |-> [t |-> "content", byte |-> Misread], i |-> 1]]
    [] OTHER -> Cells(item.header, item.header.length)

EncodeStream(items) == FlattenSeq([k \in DOMAIN items |-> EncodeItem(items[k])])

\* The bytes an item decodes to.
Content(item) ==
  IF item.header.t = "frame"
  THEN FlattenSeq([i \in DOMAIN item.blocks |-> item.blocks[i].out]) ELSE << >>

(***************************************************************************)
(* The frame decoder (zstd/src/decoding/frame_decoder.rs) as its drivers   *)
(* see it: given the bytes in hand and the room there is, each operation   *)
(* returns the decoder's next state, what it read and what it wrote.       *)
(* The window the decoded bytes stay in is DecodeBuffer's subject; here    *)
(* the buffer is the bytes not handed out yet.  Legacy frames, magicless   *)
(* headers and per-block checksums are left out.                           *)
(***************************************************************************)

CONSTANTS
  BlockMaximum,     \* the most a block may hold: the frame's window, 128 KiB at most
  ContentChecksum   \* "None", "EmitOnly" or "Verify"

ASSUME BlockMaximum \in Nat \ {0} /\ ContentChecksum \in {"None", "EmitOnly", "Verify"}

(* The decoder's state (FrameDecoderState): the header of the frame it is  *)
(* in, the counters, the checksum read (a set of at most one), the bytes   *)
(* still to hand out, how many the frame has made and the digest of those  *)
(* handed out.                                                             *)

FrameState(header) ==
  [frame_header |-> header, frame_finished |-> FALSE, check_sum |-> {},
   block_counter |-> 0, bytes_read_counter |-> header.length,
   buffer |-> << >>, total_output |-> 0, hash |-> << >>, window_refused |-> FALSE]

NoFrame == FrameState([FrameHeader(0, FALSE, {}, "nothing") EXCEPT !.t = "none"])

HasState(d) == d.frame_header.t # "none"

awaits_checksum(d) == d.frame_finished /\ d.frame_header.checksum /\ d.check_sum = {}

is_finished(d) ==
  IF ~HasState(d) THEN TRUE
  ELSE d.frame_finished /\ (d.frame_header.checksum => d.check_sum # {})

can_collect(d) == Len(d.buffer)

verify_content_size(d) ==
  d.frame_finished => d.frame_header.fcs \subseteq {d.total_output}

verify_content_checksum(d) ==
  ContentChecksum = "Verify" /\ d.frame_header.checksum => d.check_sum \subseteq {d.hash}

(* Reading a frame header: reset, through read_frame_header_with_format.   *)
(* The result's error is "none", "SkipFrame" (a skippable frame's header,  *)
(* read whole) or another; what was read of the source stays read.  A      *)
(* window over the ceiling is refused before the state is reset, a missing *)
(* dictionary after.                                                       *)

Lowest(a, b) == IF a < b THEN a ELSE b

reset(d, src, ceiling_low) ==
  LET header == TokenAt(src)
      Read(state, error) == [d |-> state, used |-> header.length, error |-> error]
  IN IF header.t \notin {"frame", "skip"}
     THEN [d |-> d, used |-> Lowest(MagicLength, Len(src)), error |-> "BadMagicNumber"]
     ELSE IF Len(src) < header.length
     THEN [d |-> d, used |-> Len(src), error |-> "ReadFrameHeaderError"]
     ELSE IF header.t = "skip" THEN Read(d, "SkipFrame")
     ELSE IF ceiling_low /\ header.asks = "window" THEN Read(d, "WindowSizeTooBig")
     ELSE IF header.asks = "dictionary" THEN Read(FrameState(header), "DictNotProvided")
     ELSE Read(FrameState(header), "none")

(* A block: its header, three bytes, and its content.  The blocks of a     *)
(* model state at most 128 KiB, over which read_block_header fails by      *)
(* itself; the frame's maximum is the smaller of that and its window.      *)

Reserved == BlockHeader("Reserved", 0, FALSE, << >>, FALSE)

read_block_header(src) == IF TokenAt(src).t = "block" THEN TokenAt(src) ELSE Reserved

decompressed_size(block) == IF block.type = "Compressed" THEN 0 ELSE block.size

block_fits_the_maximum(block) == decompressed_size(block) <= BlockMaximum
compressed_content_fits(block) == block.type = "Compressed" => content_size(block) <= BlockMaximum

\* The bytes a block puts in the buffer; a damaged one some, before it fails.
Regenerated(block, content) ==
  CASE block.type = "Raw" -> [i \in 1 .. block.size |-> ByteOf(content[i])]
    [] block.type = "RLE" -> [i \in 1 .. block.size |-> ByteOf(content[1])]
    [] OTHER -> block.out

Push(d, bytes) ==
  [d EXCEPT !.buffer = @ \o bytes, !.total_output = @ + Len(bytes)]

decode_block_content(d, block, content) ==
  IF ~block_fits_the_maximum(block) \/ ~compressed_content_fits(block) THEN [d |-> d, ok |-> FALSE]
  ELSE IF Len(content) < content_size(block) THEN [d |-> d, ok |-> FALSE]
  ELSE [d |-> Push(d, Regenerated(block, content)), ok |-> ~block.damaged]

\* What a decoded block leaves in the state, its last block's checksum aside.
BlockDone(d, block) ==
  [d EXCEPT !.bytes_read_counter = @ + content_size(block),
            !.block_counter = @ + 1,
            !.frame_finished = @ \/ block.last]

TakeChecksum(d, src) ==
  [d EXCEPT !.bytes_read_counter = @ + ChecksumLength,
            !.check_sum = {IF TokenAt(src).t = "checksum" THEN TokenAt(src).of ELSE <<Misread>>}]

Rest(src, n) == SubSeq(src, n + 1, Len(src))

(* Handing bytes out: the drains of the decode buffer, hashing them when   *)
(* the frame's checksum is looked at.                                      *)

\* Mutant: bytes handed out stay to be handed out again.
Deliver_kept(d, room) ==
  LET n == Lowest(room, can_collect(d))
      bytes == SubSeq(d.buffer, 1, n)
      compute_hash == ContentChecksum # "None" /\ d.frame_header.checksum
  IN [d |-> [d EXCEPT !.hash = IF compute_hash THEN @ \o bytes ELSE @], out |-> bytes]

Deliver(d, room) ==
  LET n == Lowest(room, can_collect(d))
      bytes == SubSeq(d.buffer, 1, n)
      compute_hash == ContentChecksum # "None" /\ d.frame_header.checksum
  IN [d |-> [d EXCEPT !.buffer = Rest(@, n), !.hash = IF compute_hash THEN @ \o bytes ELSE @],
      out |-> bytes]

(* How many bytes the frame's next step needs in hand (input_needed).      *)

input_needed(d, src) ==
  LET block == read_block_header(src)
  IN CASE ~HasState(d) -> 0
       [] HasState(d) /\ d.frame_finished -> IF awaits_checksum(d) THEN ChecksumLength ELSE 0
       [] OTHER ->
            IF Len(src) < BlockHeaderLength \/ block.type = "Reserved" \/ block.size > BlockMaximum
            THEN BlockHeaderLength
            ELSE BlockHeaderLength + content_size(block)

(* decode_available: the block loop of decode_from_to.  Output goes to the *)
(* target first; a block is decoded only with nothing of the last one left *)
(* and room in the target, and only when all of it is in hand.             *)

RECURSIVE DecodeLoop(_, _, _, _)
DecodeLoop(d, src, room, out) ==
  LET handed == Deliver(d, room - Len(out))
      written == out \o handed.out
      block == read_block_header(src)
      content == Rest(src, BlockHeaderLength)
      begun == [handed.d EXCEPT !.bytes_read_counter = @ + BlockHeaderLength]
      decoded == decode_block_content(begun, block, content)
      done == BlockDone(decoded.d, block)
      after == Rest(content, content_size(block))
      Stop(state, error) == [d |-> state, out |-> written, error |-> error]
  IN IF d.frame_finished THEN [d |-> d, out |-> out, error |-> "none"]
     ELSE IF can_collect(handed.d) > 0 \/ (room > 0 /\ Len(written) = room) THEN Stop(handed.d, "none")
     ELSE IF Len(src) < BlockHeaderLength THEN Stop(handed.d, "none")
     ELSE IF block.type = "Reserved" THEN Stop(handed.d, "FailedToReadBlockHeader")
     ELSE IF Len(content) < content_size(block) THEN Stop(handed.d, "none")
     ELSE IF ~decoded.ok THEN Stop(decoded.d, "FailedToReadBlockBody")
     ELSE IF ~block.last THEN DecodeLoop(done, after, room, written)
     ELSE Stop(IF done.frame_header.checksum /\ Len(after) >= ChecksumLength
               THEN TakeChecksum(done, after) ELSE done, "none")

decode_available(d, src, room) ==
  LET takes == awaits_checksum(d) /\ Len(src) >= ChecksumLength
      looped == DecodeLoop(IF takes THEN TakeChecksum(d, src) ELSE d,
                           IF takes THEN Rest(src, ChecksumLength) ELSE src, room, << >>)
      stepped == IF is_finished(d) THEN [d |-> d, out |-> << >>, error |-> "none"] ELSE looped
      handed == Deliver(stepped.d, room - Len(stepped.out))
  IN IF d.window_refused
     THEN [d |-> d, read |-> 0, out |-> << >>, error |-> "WindowSizeTooBig"]
     ELSE IF stepped.error # "none"
     THEN [d |-> stepped.d, read |-> 0, out |-> << >>, error |-> stepped.error]
     ELSE [d |-> handed.d, read |-> handed.d.bytes_read_counter - d.bytes_read_counter,
           out |-> stepped.out \o handed.out, error |-> "none"]

\* decode_from_to: the same, and the frame's checks on the call that drains it.
Checked(step) ==
  IF step.error = "none" /\ is_finished(step.d) /\ can_collect(step.d) = 0
     /\ ~(verify_content_size(step.d) /\ verify_content_checksum(step.d))
  THEN [step EXCEPT !.error = "ContentMismatch"] ELSE step

decode_from_to(d, src, room) == Checked(decode_available(d, src, room))

(* decode_blocks with BlockDecodingStrategy::All, reading from a source    *)
(* that holds src and then ends.  Unlike the loop above it counts a block  *)
(* header the moment it is read.                                           *)

RECURSIVE decode_blocks(_, _)
decode_blocks(d, src) ==
  LET block == read_block_header(src)
      begun == [d EXCEPT !.bytes_read_counter = @ + BlockHeaderLength]
      content == Rest(src, BlockHeaderLength)
      decoded == decode_block_content(begun, block, content)
      done == BlockDone(decoded.d, block)
      after == Rest(content, content_size(block))
  IN IF d.window_refused \/ Len(src) < BlockHeaderLength \/ block.type = "Reserved" THEN [d |-> d, ok |-> FALSE]
     ELSE IF ~decoded.ok THEN decoded
     ELSE IF ~block.last THEN decode_blocks(done, after)
     ELSE IF ~done.frame_header.checksum THEN [d |-> done, ok |-> TRUE]
     ELSE IF Len(after) < ChecksumLength THEN [d |-> done, ok |-> FALSE]
     ELSE [d |-> TakeChecksum(done, after), ok |-> TRUE]

(* A Raw block read through the decoder in pieces.                         *)

\* The block that starts at src if it is Raw and fits; an error if it does not fit.
start_raw_block(d, src) ==
  LET block == read_block_header(src)
  IN CASE d.window_refused -> [kind |-> "error", error |-> "WindowSizeTooBig"]
       [] ~d.window_refused /\ (d.frame_finished \/ block.type # "Raw") -> [kind |-> "none"]
       [] ~d.window_refused /\ ~d.frame_finished /\ block.type = "Raw" /\ ~block_fits_the_maximum(block) ->
            [kind |-> "error", error |-> "FailedToReadBlockBody"]
       [] OTHER -> [kind |-> "raw", size |-> block.size, last |-> block.last,
                    d |-> [d EXCEPT !.bytes_read_counter = @ + BlockHeaderLength]]

raw_block_push(d, content) == Push(d, [i \in DOMAIN content |-> ByteOf(content[i])])

\* Mutant: the bytes of a Raw block read in pieces are not counted.
finish_raw_block_uncounted(d, size, last) ==
  [d EXCEPT !.block_counter = @ + 1, !.frame_finished = @ \/ last]

finish_raw_block(d, size, last) ==
  [d EXCEPT !.bytes_read_counter = @ + size, !.block_counter = @ + 1,
            !.frame_finished = @ \/ last]

\* set_max_window_size: a frame in progress is refused or admitted again.
set_max_window_size(d, low) ==
  IF HasState(d) /\ ~d.frame_finished
  THEN [d EXCEPT !.window_refused = (low /\ d.frame_header.asks = "window")]
  ELSE d

-----------------------------------------------------------------------------
(* What the decoders must make of an item, for their properties. *)

\* An item the decoder must accept.
Sound(item) ==
  CASE item.header.t = "skip" -> TRUE
    [] item.header.t = "frame" ->
         /\ item.header.asks # "dictionary"
         /\ item.header.fcs \subseteq {Len(Content(item))}
         /\ ContentChecksum = "Verify" /\ item.header.checksum => item.checksum = Content(item)
         /\ \A i \in DOMAIN item.blocks :
              /\ item.blocks[i].type # "Reserved" /\ ~item.blocks[i].damaged
              /\ item.blocks[i].size <= BlockMaximum
    [] OTHER -> FALSE
=============================================================================
