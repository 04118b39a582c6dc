--------------------------- MODULE CompressStream ---------------------------
(***************************************************************************)
(* Compression over the C interface: ZSTD_compressStream2 and what shares  *)
(* its context, ZSTD_CCtx (c-api/src/streaming.rs, context.rs, attach.rs,  *)
(* params.rs).  The stream keeps one compression context from frame to     *)
(* frame, which writes into `pending`; each call copies out what fits.     *)
(* Dictionaries are attached to the context and named by serials, so that  *)
(* one already attached is not attached again; a prefix serves one frame.  *)
(* One action is one call; room is counted in pieces of the frame.         *)
(***************************************************************************)
EXTENDS CompressionContext

CONSTANTS
  BLOCK_SIZE_MAX,   \* the most a call hands to the context at a time
  InputLengths,     \* how many bytes a call may bring
  OutputLengths,    \* how much room a call may bring
  Pledges,          \* the sizes a caller may pledge
  MaxBytes,         \* bound: bytes brought in all
  MaxFrames,        \* bound: frames begun
  MaxDictionaries   \* bound: dictionaries attached

ASSUME StreamAssumption ==
  /\ BLOCK_SIZE_MAX \in Nat \ {0} /\ BlockCapacity <= BLOCK_SIZE_MAX
  /\ InputLengths \subseteq Nat /\ OutputLengths \subseteq Nat /\ Pledges \subseteq Nat
  /\ MaxBytes \in Nat /\ MaxFrames \in Nat /\ MaxDictionaries \in Nat

Directives == {"continue", "flush", "end"}

VARIABLES
  stream,       \* CStreamState, kept between frames; NoStream before the first
  pledged,      \* params.pledged_src_size
  attached,     \* attached_dict: its kind and serial
  compressor,   \* the one-shot compressor: the serial it is known by and the dictionary in it
  progress,     \* ZSTD_frameProgression's counters
  serials,      \* dictionary serials given out, the first to a CDict
  \* The caller's side.
  taken,        \* bytes the calls have taken in all
  input,        \* those of the frame in hand
  wire,         \* what has been handed out of it
  asked,        \* what the caller asked of it: size, dictionary, and whether a block was lost
  next_frame,   \* what the caller has asked of the frame to come
  last,         \* the last call: its directive, input left over and answer
  ending,       \* turns with every call that only ends the frame, with some room
  frames

ours == <<stream, pledged, attached, compressor, progress, serials>>
callers == <<taken, input, wire, asked, next_frame, last, ending, frames>>
vars == <<ours, callers>>

NoStream == [context |-> NewContext, dictionary |-> 0, open |-> FALSE, pending |-> << >>,
             producer_failed |-> FALSE, made |-> FALSE]

NewStream == [NoStream EXCEPT !.made = TRUE]

NoAttach == [kind |-> "None", serial |-> 0]

NoProgress == [ingested |-> 0, produced |-> 0, flushed |-> 0]

Wishes(size, dict, once) == [size |-> size, dict |-> dict, once |-> once, lost |-> FALSE]

Init ==
  /\ stream = NoStream /\ pledged = Unknown /\ attached = NoAttach
  /\ compressor = [held |-> 0, dictionary |-> 0] /\ progress = NoProgress /\ serials = 1
  /\ taken = 0 /\ input = << >> /\ wire = << >> /\ frames = 0 /\ ending = FALSE
  /\ asked = Wishes(Unknown, 0, FALSE) /\ next_frame = asked
  /\ last = [op |-> "none", left |-> 0, answer |-> 0, error |-> "none"]

-----------------------------------------------------------------------------
(* The stream. *)

in_frame(s) == s.open \/ s.pending # << >>

stream_in_progress == in_frame(stream)

release_dictionary(s, serial) ==
  IF serial # 0 /\ s.dictionary = serial /\ ~s.open
  THEN [s EXCEPT !.context = set_dictionary(@, NoDictionary), !.dictionary = 0]
  ELSE s

\* The settings of the next frame, the dictionary only when it is another one.
configure(s, size, serial) ==
  LET with_dictionary == IF s.dictionary # serial THEN set_dictionary(s.context, serial) ELSE s.context
      with_pledge == IF size = Unknown THEN with_dictionary
                     ELSE set_pledged_content_size(with_dictionary, size)
  IN [s EXCEPT !.context = with_pledge, !.dictionary = serial]

open_frame(s, size, serial) ==
  [configure(IF s.made THEN s ELSE NewStream, size, serial) EXCEPT !.open = TRUE]

\* replace_attached_dict as it leaves the stream and the one-shot compressor.
StreamAfterReplacing(s, replaced, serial) ==
  IF replaced = 0 \/ replaced = serial THEN s ELSE release_dictionary(s, replaced)

CompressorAfterReplacing(k, replaced, serial) ==
  IF replaced # 0 /\ replaced # serial /\ k.held = replaced THEN [held |-> 0, dictionary |-> 0] ELSE k

\* consume_prefix.
AfterPrefix(attach) == IF attach.kind = "Prefix" THEN NoAttach ELSE attach

-----------------------------------------------------------------------------
(* The work of a call: w is the stream, the counters, how much input has   *)
(* been taken, the pieces handed out and the error, if any.                *)

\* Mutant: output goes out only when all of it fits.
CopyOut_whole(w, room) ==
  IF Len(w.s.pending) > room - Len(w.out) THEN w
  ELSE [w EXCEPT !.s.pending = << >>, !.out = @ \o w.s.pending,
                 !.progress.flushed = @ + Len(w.s.pending)]

\* drain: as much produced output as fits goes out, and counts as flushed.
CopyOut(w, room) ==
  LET n == Min({Len(w.s.pending), room - Len(w.out)})
  IN [w EXCEPT !.s.pending = SubSeq(@, n + 1, Len(@)),
               !.out = @ \o SubSeq(w.s.pending, 1, n),
               !.progress.flushed = @ + n]

\* A call on the context, whose output goes to the end of pending.
Produced(w, done) ==
  [w EXCEPT !.s.context = done.c, !.s.pending = done.d.bytes,
            !.progress.produced = @ + (Len(done.d.bytes) - Len(w.s.pending))]

AsDrain(s) == [bytes |-> s.pending, bad |-> 0]

\* Input is taken, at most a block's worth at a time, while everything produced
\* so far has gone out.
BlockTurn(w, src, room) ==
  LET end == Min({Len(src), w.pos + BLOCK_SIZE_MAX})
      wrote == write(w.s.context, AsDrain(w.s), SubSeq(src, w.pos + 1, end))
  IN IF w.pos = Len(src) \/ w.s.pending # << >> \/ w.error # "none" THEN w
     ELSE IF wrote.code = "InvalidInput" THEN [w EXCEPT !.error = "srcSize_wrong"]
     ELSE IF wrote.code # "ok" \/ wrote.taken = 0 THEN [w EXCEPT !.error = "GENERIC"]
     ELSE CopyOut([Produced(w, wrote) EXCEPT !.pos = @ + wrote.taken,
                                             !.progress.ingested = @ + wrote.taken], room)

\* A turn takes a byte or more, so there are no more turns than bytes.
TakeBlocks(w, src, room) ==
  LET after[i \in 0 .. Len(src)] == IF i = 0 THEN w ELSE BlockTurn(after[i - 1], src, room)
  IN after[Len(src)]

Flushed(w) == Produced(w, flush(w.s.context, AsDrain(w.s)))

\* Mutant: the dictionary stays when the frame closes.
Ended_keeping(w, serial) ==
  LET finished == finish_frame(w.s.context, AsDrain(w.s))
  IN IF finished.code = "InvalidInput" THEN [w EXCEPT !.error = "srcSize_wrong"]
     ELSE IF finished.code # "ok" THEN [w EXCEPT !.error = "GENERIC"]
     ELSE [Produced(w, finished) EXCEPT !.s.open = FALSE]

\* The frame closes; a dictionary that is no longer the attached one, such as
\* the prefix it spent, goes with it.
Ended(w, serial) ==
  LET finished == finish_frame(w.s.context, AsDrain(w.s))
      closed == [Produced(w, finished) EXCEPT !.s.open = FALSE]
  IN IF finished.code = "InvalidInput" THEN [w EXCEPT !.error = "srcSize_wrong"]
     ELSE IF finished.code # "ok" THEN [w EXCEPT !.error = "GENERIC"]
     ELSE IF closed.s.dictionary = serial THEN closed
     ELSE [closed EXCEPT !.s = release_dictionary(@, closed.s.dictionary)]

\* Mutant: an end with input left over closes the frame without it.
Directed_early(w, op, src, serial) ==
  IF w.error # "none" \/ ~w.s.open THEN w
  ELSE IF op = "flush" THEN Flushed(w) ELSE IF op = "end" THEN Ended(w, serial) ELSE w

\* A flush or an end applies once all the input is in.
Directed(w, op, src, serial) ==
  IF w.error # "none" \/ w.pos < Len(src) \/ ~w.s.open THEN w
  ELSE IF op = "flush" THEN Flushed(w) ELSE IF op = "end" THEN Ended(w, serial) ELSE w

-----------------------------------------------------------------------------
(* The calls. *)

Brings(n) == [i \in 1 .. n |-> taken + i]

\* Blocks of input went to the sequence producer in this call.
Parsed(s, w) == Len(Contents(w.out \o w.s.pending)) > Len(Contents(s.pending))

\* The caller's record of a call that took pos bytes of src and gave it out.
Note(begins, op, src, w, lost, answer, error) ==
  LET now == IF ~begins THEN asked
             ELSE Wishes(IF op = "end" THEN Len(src) ELSE next_frame.size, next_frame.dict, FALSE)
  IN /\ taken' = taken + w.pos
     /\ input' = (IF begins THEN << >> ELSE input) \o SubSeq(src, 1, w.pos)
     /\ wire' = (IF begins THEN << >> ELSE wire) \o w.out
     /\ asked' = [now EXCEPT !.lost = @ \/ lost]
     /\ next_frame' = IF ~begins THEN next_frame
                      ELSE Wishes(Unknown, IF next_frame.once THEN 0 ELSE next_frame.dict, FALSE)
     /\ last' = [op |-> op, left |-> Len(src) - w.pos, answer |-> answer, error |-> error]
     /\ frames' = IF begins THEN frames + 1 ELSE frames

\* How a call comes back: with an error, the stream as it stands; with the
\* producer's failure, no stream, the frame being lost; or with what is left
\* to hand out.
Return(begins, op, src, s, taking, w, room, fails) ==
  LET failed == s.producer_failed \/ fails
      out == CopyOut(w, room)
  IN IF w.error # "none"
     THEN /\ stream' = [w.s EXCEPT !.producer_failed = failed] /\ progress' = w.progress
          /\ Note(begins, op, src, w, fails, 0, w.error)
     ELSE IF failed
     THEN /\ stream' = NoStream /\ progress' = taking.progress
          /\ Note(begins, op, src, w, fails, 0, "sequenceProducer_failed")
     ELSE /\ stream' = out.s /\ progress' = out.progress
          /\ Note(begins, op, src, out, FALSE, Len(out.s.pending), "none")

Idle(s, counters) == [s |-> s, progress |-> counters, pos |-> 0, out |-> << >>, error |-> "none"]

\* The stream a call works on: the frame in hand, or a new one under the
\* settings made since the last.
Opened(begins, op, n) ==
  IF ~begins THEN stream
  ELSE StreamAfterReplacing(open_frame(stream, IF op = "end" THEN n ELSE pledged, attached.serial),
                            attached.serial, AfterPrefix(attached).serial)

\* ZSTD_compressStream2, and with it compressStream, flushStream, endStream
\* and compressStream2_simpleArgs.
Call(op, n, room, fails) ==
  LET begins == ~stream_in_progress
      src == Brings(n)
      s == Opened(begins, op, n)
  IN /\ taken + n <= MaxBytes /\ (begins => frames < MaxFrames)
     /\ pledged' = IF begins THEN Unknown ELSE pledged
     /\ attached' = IF begins THEN AfterPrefix(attached) ELSE attached
     /\ compressor' = CompressorAfterReplacing(compressor, attached.serial, attached'.serial)
     /\ ending' = IF op = "end" /\ n = 0 /\ room > 0 THEN ~ending ELSE ending
     /\ UNCHANGED serials
     /\ \E idle \in {Idle(s, IF begins THEN NoProgress ELSE progress)} :
          IF n > 0 /\ ~s.open
          THEN /\ ~fails /\ stream' = s /\ progress' = idle.progress
               /\ Note(begins, op, src, idle, FALSE, 0, "stage_wrong")
          ELSE \E taking \in {TakeBlocks(CopyOut(idle, room), src, room)} :
                 \E w \in {Directed(taking, op, src, attached'.serial)} :
                   /\ fails => Parsed(s, w)
                   /\ Return(begins, op, src, s, taking, w, room, fails)

\* ZSTD_CCtx_setPledgedSrcSize, refused while a frame is in progress.
SetPledgedSrcSize(size) ==
  /\ ~stream_in_progress
  /\ pledged' = size /\ next_frame' = [next_frame EXCEPT !.size = size]
  /\ UNCHANGED <<stream, attached, compressor, progress, serials, taken, input, wire, asked, last, ending, frames>>

\* replace_attached_dict.
Replace(attach) ==
  /\ attached' = attach
  /\ stream' = StreamAfterReplacing(stream, attached.serial, attach.serial)
  /\ compressor' = CompressorAfterReplacing(compressor, attached.serial, attach.serial)
  /\ next_frame' = [next_frame EXCEPT !.dict = attach.serial, !.once = (attach.kind = "Prefix")]

\* ZSTD_CCtx_loadDictionary and refPrefix give the dictionary a serial of its
\* own; refCDict uses the CDict's; each of them with nothing detaches what is
\* there.  Refused while a frame is in progress.
Attach(kind) ==
  LET fresh == kind \in {"Load", "Prefix"}
  IN /\ ~stream_in_progress /\ (fresh => serials < MaxDictionaries)
     /\ Replace(CASE fresh -> [kind |-> kind, serial |-> serials + 1]
                  [] kind = "RefCDict" -> [kind |-> kind, serial |-> 1]
                  [] OTHER -> NoAttach)
     /\ serials' = IF fresh THEN serials + 1 ELSE serials
     /\ UNCHANGED <<pledged, progress, taken, input, wire, asked, last, ending, frames>>

\* reset_session: the frame in flight goes, and the stream with it.
StreamAfterReset == IF stream_in_progress THEN NoStream ELSE stream

\* ZSTD_CCtx_reset(ZSTD_reset_session_only), which initCStream begins with.
ResetSession ==
  /\ stream' = StreamAfterReset /\ pledged' = Unknown
  /\ next_frame' = [next_frame EXCEPT !.size = Unknown]
  /\ input' = << >> /\ wire' = << >> /\ last' = [op |-> "none", left |-> 0, answer |-> 0, error |-> "none"]
  /\ UNCHANGED <<attached, compressor, progress, serials, taken, asked, ending, frames>>

\* ZSTD_CCtx_reset(ZSTD_reset_parameters): the dictionary references go too.
ResetParameters ==
  /\ ~stream_in_progress
  /\ attached' = NoAttach /\ stream' = StreamAfterReplacing(stream, attached.serial, 0)
  /\ compressor' = [held |-> 0, dictionary |-> 0] /\ pledged' = Unknown
  /\ next_frame' = Wishes(Unknown, 0, FALSE)
  /\ UNCHANGED <<progress, serials, taken, input, wire, asked, last, ending, frames>>

\* ZSTD_compress2 of n bytes: the session is reset, the kept compressor is
\* given the attached dictionary unless it has it, and the frame it makes goes
\* out whole, if it fits.  The prefix is spent either way.
Compress2(n, fits) ==
  LET kept == IF compressor.held # attached.serial
              THEN [held |-> attached.serial, dictionary |-> attached.serial] ELSE compressor
      after == AfterPrefix(attached)
      frame == <<Header(n, kept.dictionary), Block(Brings(n), TRUE)>>
                 \o (IF ContentChecksum THEN <<Checksum(Brings(n))>> ELSE << >>)
  IN /\ taken + n <= MaxBytes /\ n <= BlockCapacity /\ frames < MaxFrames /\ frames' = frames + 1
     /\ stream' = StreamAfterReplacing(StreamAfterReset, attached.serial, after.serial)
     /\ compressor' = CompressorAfterReplacing(kept, attached.serial, after.serial)
     /\ attached' = after /\ pledged' = Unknown
     /\ taken' = IF fits THEN taken + n ELSE taken
     /\ input' = IF fits THEN Brings(n) ELSE << >>
     /\ wire' = IF fits THEN frame ELSE << >>
     /\ progress' = IF fits THEN [ingested |-> n, produced |-> Len(frame), flushed |-> Len(frame)]
                    ELSE progress
     /\ asked' = Wishes(n, next_frame.dict, FALSE)
     /\ next_frame' = Wishes(Unknown, IF next_frame.once THEN 0 ELSE next_frame.dict, FALSE)
     /\ last' = [op |-> "end", left |-> 0, answer |-> 0, error |-> IF fits THEN "none" ELSE "dstSize_tooSmall"]
     /\ UNCHANGED <<serials, ending>>

Next ==
  \/ \E op \in Directives, n \in InputLengths, room \in OutputLengths, fails \in BOOLEAN :
       Call(op, n, room, fails)
  \/ \E size \in Pledges : SetPledgedSrcSize(size)
  \/ \E kind \in {"None", "Load", "RefCDict", "Prefix"} : Attach(kind)
  \/ ResetSession
  \/ ResetParameters
  \/ \E n \in InputLengths, fits \in BOOLEAN : Compress2(n, fits)

\* A caller ends the frame it has begun: it goes on calling with ZSTD_e_end,
\* no more input and some room for as long as the frame is in progress, when
\* such a call is always possible.
Fairness == []<>~stream_in_progress \/ []<><<ending' # ending>>_vars

Spec == Init /\ [][Next]_vars /\ Fairness

-----------------------------------------------------------------------------
(* Properties. *)

(***************************************************************************)
(* Whatever the calls bring and take, what has been handed out of a frame  *)
(* and what waits in pending are, together, the frame of exactly the bytes *)
(* taken since it began: a header with the size this caller pledged for    *)
(* this frame, blocks in order, the rest still in the context, and, once   *)
(* ended, the last block and the checksum (compressStream2's loop with     *)
(* write, flush and finish_frame, over frames abandoned and errors).       *)
(***************************************************************************)
FrameHoldsTheInput ==
  LET all == wire \o stream.pending
  IN stream_in_progress =>
       /\ IF stream.open
          THEN /\ IsOpenFrame(all) /\ (stream.context.started <=> all # << >>)
               /\ Contents(all) \o SubSeq(stream.context.pending, 1, pending_len(stream.context)) = input
          ELSE IsFrameOf(all, input)
       /\ all # << >> => all[1].fcs = asked.size

(***************************************************************************)
(* Every frame is compressed with the dictionary attached for it, a prefix *)
(* with the one frame after it, although the contexts keep dictionaries    *)
(* and are handed them by serial; and between frames neither keeps one     *)
(* that is no longer attached ("let the replaced one go as well, each as   *)
(* soon as it is between frames", replace_attached_dict).                  *)
(***************************************************************************)
DictionaryServesItsFrames ==
  /\ wire \o stream.pending # << >> => (wire \o stream.pending)[1].dict = asked.dict
  /\ ~stream.open => stream.dictionary \in {0, attached.serial}
  /\ stream.context.dictionary = stream.dictionary
  /\ compressor.held \in {0, attached.serial}

(***************************************************************************)
(* "The return value is the number of bytes still to be flushed, non-zero  *)
(* while input remains (`0` after `ZSTD_e_end` means the frame is          *)
(* complete)" (ZSTD_compressStream2): a 0 for an end comes with the whole  *)
(* frame handed out, of the size pledged and with no block lost by the     *)
(* producer; a 0 for a flush with every byte taken handed out; and input   *)
(* left over can still be brought, the frame being open.  And              *)
(* ZSTD_getFrameProgression tells where the frame stands, with no more     *)
(* waiting to be copied out than one slice of input and a block make.      *)
(***************************************************************************)
AnswerTells ==
  /\ last.error = "none" /\ last.op \in Directives =>
       /\ last.left > 0 => last.answer > 0 /\ stream.open
       /\ last.op # "continue" /\ last.answer = 0 => Contents(wire) = input
       /\ last.op = "end" /\ last.answer = 0 =>
            IsFrameOf(wire, input) /\ ~asked.lost /\ asked.size \in {Unknown, Len(input)}
  /\ stream_in_progress =>
       /\ progress = [ingested |-> Len(input), produced |-> Len(wire \o stream.pending), flushed |-> Len(wire)]
       /\ Len(Contents(stream.pending)) < BLOCK_SIZE_MAX + BlockCapacity

(***************************************************************************)
(* A frame that is being ended, with some room in each call, ends: the     *)
(* calls hand all of it out, unless it is short of the size pledged for    *)
(* it, which every end then reports.                                       *)
(***************************************************************************)
Finishes ==
  stream_in_progress
    ~> (~stream_in_progress \/ (stream.open /\ asked.size > Len(input) /\ last.error = "srcSize_wrong"))
=============================================================================
