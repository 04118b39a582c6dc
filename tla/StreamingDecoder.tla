-------------------------- MODULE StreamingDecoder --------------------------
(***************************************************************************)
(* The pull decoder (zstd/src/decoding/streaming_decoder.rs): a Read over  *)
(* a source of compressed bytes.  One action is one turn of the loop in    *)
(* read_reporting_frames (or of start_frame, which it calls at a frame     *)
(* boundary), because every turn may call the source, which answers with   *)
(* some bytes, none (its end), or WouldBlock.  The caller then calls read  *)
(* again, with a buffer of any length, and may change the window ceiling   *)
(* between calls.                                                          *)
(***************************************************************************)
EXTENDS FrameDecoder

CONSTANTS
  Streams,          \* the streams a source may hold, each a sequence of items
  BufferLengths,    \* the lengths of the buffers the caller reads into
  SkipChunk,        \* SKIP_CHUNK
  RawChunk,         \* RAW_CHUNK
  MaxBlocked,       \* bound: how often the source answers WouldBlock
  MaxCeilings       \* bound: how often the caller moves the window ceiling

ASSUME /\ SkipChunk \in Nat \ {0} /\ RawChunk \in Nat \ {0}
       /\ BufferLengths \subseteq Nat
       /\ MaxBlocked \in Nat /\ MaxCeilings \in Nat

VARIABLES
  which,        \* the stream behind the source
  source_end,   \* where the source ends, which may be inside the stream
  taken,        \* how many bytes the source has given
  start,        \* how many of them the decoder has consumed: the rest is Input::pending
  skip_left, raw, position,
  d,            \* the FrameDecoder
  ceiling_low,  \* the window ceiling is below what some frames ask for
  called,       \* the length of the buffer of the read in progress; 0 between calls
  buf,          \* the bytes this call has put in it
  result,       \* what the last call returned
  output,       \* all bytes returned to the caller
  reports,      \* the FinishedFrames handed out
  blocked, ceilings

input == <<taken, start, skip_left, raw>>
caller == <<which, source_end, ceiling_low, ceilings>>
vars == <<which, source_end, taken, start, skip_left, raw, position, d, ceiling_low,
          called, buf, result, output, reports, blocked, ceilings>>

NoRaw == [size |-> 0, left |-> 0, last |-> FALSE]

StreamBytes == [k \in DOMAIN Streams |-> EncodeStream(Streams[k])]

pending == SubSeq(StreamBytes[which], start + 1, taken)

Ok(n) == [kind |-> "Ok", n |-> n, error |-> "none"]
Err(e) == [kind |-> "Err", n |-> Len(buf), error |-> e]
Pending == [kind |-> "none", n |-> 0, error |-> "none"]

\* Errors that leave the stream where it was, for a later call to go on from.
Resumable == {"none", "WouldBlock", "WindowSizeTooBig"}

Init ==
  /\ which \in DOMAIN Streams
  /\ source_end \in 0 .. Len(StreamBytes[which])
  /\ taken = 0 /\ start = 0 /\ skip_left = 0 /\ raw = NoRaw
  /\ position = "BeforeFirstFrame" /\ d = NoFrame
  /\ ceiling_low = FALSE /\ called = 0 /\ buf = << >> /\ result = Pending
  /\ output = << >> /\ reports = << >> /\ blocked = 0 /\ ceilings = 0

-----------------------------------------------------------------------------
(* The caller. *)

\* read: an empty buffer, or the end of the stream, is answered at once.
Read(length) ==
  /\ called = 0 /\ result.error \in Resumable
  /\ IF length = 0 \/ position = "End"
     THEN result' = Ok(0) /\ called' = 0
     ELSE result' = Pending /\ called' = length
  /\ buf' = << >>
  /\ UNCHANGED <<position, d, output, reports, blocked>> /\ UNCHANGED input /\ UNCHANGED caller

\* Some frame of the stream asks for more than the lower ceiling.
AsksForMore == \E k \in DOMAIN Streams[which] : Streams[which][k].header.t = "frame"
                                               /\ Streams[which][k].header.asks = "window"

\* decoder_mut().set_max_window_size between two reads, where it can be told apart.
SetMaxWindowSize ==
  /\ called = 0 /\ ceilings < MaxCeilings /\ AsksForMore
  /\ ceiling_low' = ~ceiling_low /\ ceilings' = ceilings + 1
  /\ d' = set_max_window_size(d, ~ceiling_low)
  /\ UNCHANGED <<which, source_end, position, called, buf, result, output, reports, blocked>>
  /\ UNCHANGED input

-----------------------------------------------------------------------------
(* Returning from read, and the source's answers to Input::fill.           *)

ReturnOk ==
  /\ result' = Ok(Len(buf)) /\ output' = output \o buf
  /\ called' = 0 /\ buf' = << >>

ReturnErr(e) ==
  /\ result' = Err(e) /\ called' = 0 /\ buf' = << >>
  /\ UNCHANGED output

Continues == UNCHANGED <<called, buf, result, output>>

AtEnd == taken = source_end

Gives(most) == 1 .. Lowest(most, source_end - taken)

Blocks ==
  /\ blocked < MaxBlocked /\ blocked' = blocked + 1
  /\ ReturnErr("WouldBlock")
  /\ UNCHANGED <<position, d, reports>> /\ UNCHANGED input /\ UNCHANGED caller

Fill(want) ==
  \E n \in Gives(want - Len(pending)) : taken' = taken + n /\ UNCHANGED <<start, skip_left, raw>>

-----------------------------------------------------------------------------
(* start_frame: at a frame boundary.                                       *)

AtBoundary == called > 0 /\ position # "InFrame"

\* A skippable frame's payload is passed over, a chunk at a time, what is
\* pending first; the source ending inside it is an error.
SkipPayload ==
  /\ AtBoundary /\ skip_left > 0 /\ ~(pending = << >> /\ AtEnd)
  /\ \E n \in IF pending = << >> THEN Gives(Lowest(skip_left, SkipChunk)) ELSE {0} :
       LET take == Lowest(skip_left, Len(pending) + n)
       IN taken' = taken + n /\ start' = start + take /\ skip_left' = skip_left - take
  /\ Continues /\ UNCHANGED <<raw, position, d, reports, blocked>> /\ UNCHANGED caller

SkipFails ==
  /\ AtBoundary /\ skip_left > 0 /\ pending = << >> /\ AtEnd
  /\ ReturnErr("FailedToSkipFrame")
  /\ UNCHANGED <<position, d, reports, blocked>> /\ UNCHANGED input /\ UNCHANGED caller

SkipBlocks == AtBoundary /\ skip_left > 0 /\ pending = << >> /\ ~AtEnd /\ Blocks

\* How many bytes the header needs, as far as the bytes in hand tell (header_len).
header_len ==
  LET header == TokenAt(pending)
  IN IF Len(pending) < MagicLength \/ header.t \notin {"frame", "skip"} THEN MagicLength
     ELSE IF header.t = "skip" THEN SkipHeaderLength
     ELSE IF Len(pending) < MagicLength + 1 THEN MagicLength + 1
     ELSE header.length

HeaderIsShort == AtBoundary /\ skip_left = 0 /\ Len(pending) < header_len

FillHeader ==
  /\ HeaderIsShort /\ ~AtEnd
  /\ Fill(header_len)
  /\ Continues /\ UNCHANGED <<position, d, reports, blocked>> /\ UNCHANGED caller

HeaderBlocks == HeaderIsShort /\ ~AtEnd /\ Blocks

\* The source ends between frames: the stream's end, unless there was no frame.
EndAtBoundary ==
  /\ HeaderIsShort /\ AtEnd /\ pending = << >>
  /\ IF position = "BeforeFirstFrame"
     THEN ReturnErr("ReadFrameHeaderError") /\ UNCHANGED position
     ELSE ReturnOk /\ position' = "End"
  /\ UNCHANGED <<d, reports, blocked>> /\ UNCHANGED input /\ UNCHANGED caller

\* The header is whole, or cut by the end of the source: the decoder reads it.
StartFrame ==
  /\ AtBoundary /\ skip_left = 0
  /\ Len(pending) >= header_len \/ (AtEnd /\ pending # << >>)
  /\ LET started == reset(d, pending, ceiling_low)
     IN /\ d' = started.d /\ start' = start + started.used
        /\ CASE started.error = "none" ->
                  position' = "InFrame" /\ Continues /\ UNCHANGED skip_left
             [] started.error = "SkipFrame" ->
                  /\ position' = "BetweenFrames" /\ Continues
                  /\ skip_left' = TokenAt(pending).size
             [] OTHER ->
                  /\ ReturnErr(IF started.error = "WindowSizeTooBig" THEN "HeaderRefused" ELSE started.error)
                  /\ UNCHANGED <<position, skip_left>>
  /\ UNCHANGED <<taken, raw, reports, blocked>> /\ UNCHANGED caller

-----------------------------------------------------------------------------
(* Inside a frame, in the order of the loop's tests.                       *)

InFrame == called > 0 /\ position = "InFrame"

FrameDrained == is_finished(d) /\ can_collect(d) = 0

\* Mutant: a read ends with the frame, whether it has bytes to return or not.
FinishFrame_returns ==
  /\ InFrame /\ FrameDrained
  /\ IF buf # << >> THEN ReturnOk /\ UNCHANGED <<position, reports>>
     ELSE IF ~(verify_content_size(d) /\ verify_content_checksum(d))
     THEN ReturnErr("ContentMismatch") /\ UNCHANGED <<position, reports>>
     ELSE /\ reports' = Append(reports, [compressed_size |-> d.bytes_read_counter,
                                         decompressed_size |-> d.total_output])
          /\ position' = "BetweenFrames" /\ ReturnOk
  /\ UNCHANGED <<d, blocked>> /\ UNCHANGED input /\ UNCHANGED caller

\* A frame that is done hands its bytes back first, and is checked with none in hand.
FinishFrame ==
  /\ InFrame /\ FrameDrained
  /\ IF buf # << >> THEN ReturnOk /\ UNCHANGED <<position, reports>>
     ELSE IF ~(verify_content_size(d) /\ verify_content_checksum(d))
     THEN ReturnErr("ContentMismatch") /\ UNCHANGED <<position, reports>>
     ELSE /\ reports' = Append(reports, [compressed_size |-> d.bytes_read_counter,
                                         decompressed_size |-> d.total_output])
          /\ position' = "BetweenFrames" /\ Continues
  /\ UNCHANGED <<d, blocked>> /\ UNCHANGED input /\ UNCHANGED caller

BufferIsFull == InFrame /\ ~FrameDrained /\ Len(buf) = called

\* The checksum is taken in the call that hands out the frame's last bytes,
\* if the source gives its four bytes now and the step succeeds.
ReturnFull ==
  /\ BufferIsFull
  /\ IF awaits_checksum(d) /\ can_collect(d) = 0
     THEN \E n \in {0} \cup Gives(ChecksumLength - Len(pending)) :
            LET have == SubSeq(StreamBytes[which], start + 1, taken + n)
                step == decode_available(d, SubSeq(have, 1, ChecksumLength), 0)
                gave_up == Len(have) < ChecksumLength /\ taken + n < source_end
                taking == Len(have) >= ChecksumLength /\ step.error = "none"
            IN /\ taken' = taken + n
               /\ gave_up => blocked < MaxBlocked
               /\ blocked' = IF gave_up THEN blocked + 1 ELSE blocked
               /\ d' = IF taking THEN step.d ELSE d
               /\ start' = IF taking THEN start + step.read ELSE start
     ELSE UNCHANGED <<taken, start, d, blocked>>
  /\ ReturnOk
  /\ UNCHANGED <<skip_left, raw, position, reports>> /\ UNCHANGED caller

HasRoom == InFrame /\ ~FrameDrained /\ Len(buf) < called

RawIsOpen == HasRoom /\ raw # NoRaw /\ can_collect(d) = 0

RawReads ==
  /\ d.window_refused = FALSE /\ ~AtEnd
  /\ \E n \in Gives(Lowest(raw.left, RawChunk)) :
       LET pushed == raw_block_push(d, SubSeq(StreamBytes[which], taken + 1, taken + n))
       IN /\ taken' = taken + n /\ start' = start + n
          /\ IF raw.left = n
             THEN d' = finish_raw_block(pushed, raw.size, raw.last) /\ raw' = NoRaw
             ELSE d' = pushed /\ raw' = [raw EXCEPT !.left = @ - n]
  /\ Continues

\* A Raw block in progress is read on, into the decode buffer; cut short by
\* the end of the source it is taken out of Input and not put back.
ReadRaw ==
  /\ RawIsOpen
  /\ \/ buf # << >> /\ ReturnOk /\ UNCHANGED <<taken, start, raw, d>>
     \/ buf = << >> /\ d.window_refused /\ ReturnErr("WindowSizeTooBig") /\ UNCHANGED <<taken, start, raw, d>>
     \/ buf = << >> /\ RawReads
     \/ /\ buf = << >> /\ d.window_refused = FALSE /\ AtEnd
        /\ ReturnErr("FailedToReadBlockBody") /\ raw' = NoRaw /\ UNCHANGED <<taken, start, d>>
  /\ UNCHANGED <<skip_left, position, reports, blocked>> /\ UNCHANGED caller

RawBlocks == RawIsOpen /\ buf = << >> /\ d.window_refused = FALSE /\ ~AtEnd /\ Blocks

StepIsShort ==
  /\ HasRoom /\ raw = NoRaw /\ can_collect(d) = 0
  /\ input_needed(d, pending) > Len(pending)

\* Nothing is left to hand out and the next step is not all here: what this
\* call has goes back rather than wait on the source.
ReturnEarly ==
  /\ StepIsShort /\ buf # << >>
  /\ ReturnOk
  /\ UNCHANGED <<position, d, reports, blocked>> /\ UNCHANGED input /\ UNCHANGED caller

OffersRaw ==
  /\ StepIsShort /\ buf = << >> /\ Len(pending) = BlockHeaderLength
  /\ start_raw_block(d, pending).kind # "none"

\* A Raw block is entered on its header alone.
StartRaw ==
  /\ OffersRaw
  /\ LET block == start_raw_block(d, pending)
     IN IF block.kind = "error"
        THEN ReturnErr(block.error) /\ UNCHANGED <<start, raw, d>>
        ELSE /\ start' = start + BlockHeaderLength /\ Continues
             /\ IF block.size = 0
                THEN d' = finish_raw_block(block.d, 0, block.last) /\ UNCHANGED raw
                ELSE /\ raw' = [size |-> block.size, left |-> block.size, last |-> block.last]
                     /\ d' = block.d
  /\ UNCHANGED <<taken, skip_left, position, reports, blocked>> /\ UNCHANGED caller

FillStep ==
  /\ StepIsShort /\ buf = << >> /\ ~OffersRaw /\ ~AtEnd
  /\ Fill(input_needed(d, pending))
  /\ Continues /\ UNCHANGED <<position, d, reports, blocked>> /\ UNCHANGED caller

StepBlocks == StepIsShort /\ buf = << >> /\ ~OffersRaw /\ ~AtEnd /\ Blocks

(* cut_short: the source ended inside a frame, or a whole step decoded     *)
(* nothing.  What is pending goes to decode_blocks for its error.          *)

cut_short ==
  IF awaits_checksum(d) THEN UNCHANGED d /\ ReturnErr("FailedToReadChecksum")
  ELSE LET decoded == decode_blocks(d, pending)
       IN d' = decoded.d /\ ReturnErr(IF decoded.ok THEN "UnexpectedEof" ELSE "CutShort")

\* Mutant: at its end the source is asked again.
CutShort_spins ==
  /\ StepIsShort /\ buf = << >> /\ ~OffersRaw /\ AtEnd
  /\ UNCHANGED vars

CutShort ==
  /\ StepIsShort /\ buf = << >> /\ ~OffersRaw /\ AtEnd
  /\ cut_short
  /\ UNCHANGED <<position, reports, blocked>> /\ UNCHANGED input /\ UNCHANGED caller

StepIsWhole ==
  /\ HasRoom /\ ~RawIsOpen /\ ~StepIsShort

DecodeAvailable ==
  /\ StepIsWhole
  /\ \E step \in {decode_available(d, pending, called - Len(buf))} :
        IF step.error # "none"
        THEN d' = step.d /\ ReturnErr(step.error) /\ UNCHANGED start
        ELSE /\ start' = start + step.read
             /\ IF step.read > 0 \/ step.out # << >>
                THEN d' = step.d /\ buf' = buf \o step.out /\ UNCHANGED <<called, result, output>>
                ELSE IF buf # << >> THEN d' = step.d /\ ReturnOk
                ELSE cut_short
  /\ UNCHANGED <<taken, skip_left, raw, position, reports, blocked>> /\ UNCHANGED caller

Step ==
  \/ SkipPayload \/ SkipFails \/ FillHeader \/ EndAtBoundary \/ StartFrame
  \/ FinishFrame \/ ReturnFull \/ ReadRaw \/ ReturnEarly \/ StartRaw \/ FillStep
  \/ CutShort \/ DecodeAvailable
  \/ SkipBlocks \/ HeaderBlocks \/ RawBlocks \/ StepBlocks

Next == (\E length \in BufferLengths : Read(length)) \/ SetMaxWindowSize \/ Step

CanRead == called = 0 /\ result.error \in Resumable

\* The loop of a read goes on until it returns, and a caller that wants the
\* stream keeps reading with room in its buffer.  The second conjunct is
\* weak fairness of Read, with its enabling condition written out.
Fairness ==
  /\ WF_vars(Step)
  /\ []<>~CanRead \/ []<><<\E length \in BufferLengths \ {0} : Read(length)>>_vars

Spec == Init /\ [][Next]_vars /\ Fairness

-----------------------------------------------------------------------------
(* What the streams hold, for the properties. *)

StreamContents ==
  [s \in DOMAIN Streams |-> [k \in 0 .. Len(Streams[s]) |->
     FlattenSeq([i \in 1 .. k |-> Content(Streams[s][i])])]]

StreamEnds ==
  [s \in DOMAIN Streams |-> [k \in DOMAIN Streams[s] |-> Len(EncodeStream(SubSeq(Streams[s], 1, k)))]]

Upto(k) == StreamContents[which][k]
EndOf(k) == StreamEnds[which][k]
Items == DOMAIN Streams[which]

SoundEnds ==
  [s \in DOMAIN Streams |->
     {StreamEnds[s][k] : k \in {k \in DOMAIN Streams[s] : \A i \in 1 .. k : Sound(Streams[s][i])}}]

\* The source holds whole sound items and nothing else.
Intact == source_end \in SoundEnds[which]

TrueReport(item) ==
  [compressed_size |-> Len(EncodeItem(item)), decompressed_size |-> Len(Content(item))]

IsFrame(item) == item.header.t = "frame"

-----------------------------------------------------------------------------
(* Properties. *)

(***************************************************************************)
(* Whatever pieces the source gives, wherever it says WouldBlock and       *)
(* whatever buffers the caller brings, the bytes returned, those in the    *)
(* caller's buffer and those the decoder still holds are the stream's      *)
(* content from its first byte: none lost, repeated or out of order (the   *)
(* loop of read_reporting_frames, Input and decode_available together).    *)
(***************************************************************************)
InOrder == IsPrefix((output \o buf) \o d.buffer, Upto(Len(Streams[which])))

(***************************************************************************)
(* Each frame is reported once, in stream order, with the sizes it really  *)
(* has, and no frame whose content size, checksum or blocks are wrong is   *)
(* ever reported (FinishedFrame, verify_finished_frame).                   *)
(***************************************************************************)
ReportsAreTrue ==
  LET frames == SelectSeq(Streams[which], IsFrame)
  IN /\ Len(reports) <= Len(frames)
     /\ \A i \in DOMAIN reports : reports[i] = TrueReport(frames[i]) /\ Sound(frames[i])

\* A read answers Err only when it has put nothing in the caller's buffer, so
\* no byte is lost with the error, and with room in the buffer Ok(0) only at the
\* end of the stream (the contract of Read).
ReadAnswers ==
  [][called > 0 /\ called' = 0 =>
       /\ result'.kind = "Err" => result'.n = 0
       /\ result' = Ok(0) => position' = "End"]_vars

\* A source of whole sound frames is read to the end of the stream; one cut
\* inside a frame, or holding a wrong one, ends in an error.  A ceiling too
\* low for a frame refuses its header for good, and its blocks while it stays low.
Finishes ==
  \/ <>(IF Intact THEN position = "End" ELSE result.error \notin Resumable)
  \/ AsksForMore /\ (<>[]ceiling_low \/ <>(result.error = "HeaderRefused"))
=============================================================================
