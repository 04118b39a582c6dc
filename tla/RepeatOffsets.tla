--------------------------- MODULE RepeatOffsets ---------------------------
(***************************************************************************)
(* The repeat-offset history the two ends of a frame must keep equal.      *)
(* A block codes an offset that occurs in the history as 1, 2 or 3 and any *)
(* other one as itself plus 3, so an encoder whose history differs from    *)
(* the decoder's writes a frame that decodes to other bytes.               *)
(*                                                                         *)
(* The encoder advances its history while it codes a block's sequences and *)
(* only then decides whether the block is kept or written raw; a block     *)
(* written raw must leave the history it found.  The decoder advances a    *)
(* shadow copy and installs it once the whole block has been executed.     *)
(* Blocks stored without a search (RLE, the raw fast path) touch neither   *)
(* history and are stutters here.                                          *)
(***************************************************************************)
EXTENDS OffsetCodes, Sequences

CONSTANTS
    Offset,          \* match offsets the encoder may find
    DictHistories,   \* histories a dictionary may seed a frame with
    MaxSequences     \* bound: sequences in one block or partition

ASSUME OffsetAssumption ==
    /\ MaxU32 \in Nat /\ MaxU32 >= 11
    /\ Offset \subseteq 1..(MaxU32 - 3)
    /\ DictHistories \subseteq [0..2 -> 1..MaxU32]
    /\ MaxSequences \in Nat

VARIABLES
    phase,              \* "idle", "coding", "decoding" or "failed"
    fast,               \* the frame runs the Fast strategy (uses_fast_offset_codes)
    offset_hist,        \* CompressState.offset_hist
    saved_offset_hist,  \* the encoder's copy from before the block
    coded,              \* the sequences coded so far, and after emission on the wire
    use_long_pipeline,  \* which decoder loop runs the block
    scratch_hist,       \* DecoderScratch.offset_hist
    shadow_hist,        \* the decoder's working copy
    saved_scratch_hist, \* the decoder's copy from before the block
    resolved,           \* the offsets the decoder has resolved in this block
    rolled_back         \* whether the failed block's bytes were taken back

coder == <<fast, offset_hist, saved_offset_hist, coded>>
resolver == <<use_long_pipeline, scratch_hist, shadow_hist, saved_scratch_hist,
             resolved, rolled_back>>
offsetVars == <<phase, coder, resolver>>

\* What the running loop makes of one sequence on the wire.
Resolve(seq) ==
    IF use_long_pipeline
    THEN do_offset_history(seq.of.base + seq.of.extra, seq.lit0, shadow_hist)
    ELSE decode_resolved(seq.of, seq.lit0, shadow_hist)

-----------------------------------------------------------------------------
InitOffsets ==
    /\ phase = "idle"
    /\ fast \in BOOLEAN
    /\ offset_hist = DefaultHistory
    /\ saved_offset_hist = DefaultHistory
    /\ coded = <<>>
    /\ use_long_pipeline = FALSE
    /\ scratch_hist = DefaultHistory
    /\ shadow_hist = DefaultHistory
    /\ saved_scratch_hist = DefaultHistory
    /\ resolved = <<>>
    /\ rolled_back = FALSE

\* A frame begins on both ends, from the format's history or a dictionary's.
StartOffsets(hist, tag) ==
    /\ phase \in {"idle", "failed"}
    /\ phase' = "idle"
    /\ fast' = tag
    /\ offset_hist' = hist
    /\ scratch_hist' = hist
    /\ coded' = <<>>
    /\ resolved' = <<>>
    /\ UNCHANGED <<saved_offset_hist, use_long_pipeline, shadow_hist,
                   saved_scratch_hist, rolled_back>>

\* A block, or a partition of one after a split, is about to be coded.
BeginBlock ==
    /\ phase = "idle"
    /\ phase' = "coding"
    /\ saved_offset_hist' = offset_hist
    /\ UNCHANGED <<fast, offset_hist, coded, resolver>>

CodeSequence(o, lit0) ==
    LET c == IF fast THEN encode_offset_with_history_fast(o, lit0, offset_hist)
             ELSE encode_offset_with_history(o, lit0, offset_hist)
    IN /\ phase = "coding"
       /\ Len(coded) < MaxSequences
       /\ coded' = Append(coded, [of |-> encode_offset(c.code), lit0 |-> lit0,
                                  offset |-> o, after |-> c.hist])
       /\ offset_hist' = c.hist
       /\ UNCHANGED <<phase, fast, saved_offset_hist, resolver>>

\* A raw fallback that keeps the history the discarded block advanced.
WriteRaw_advanced ==
    /\ phase = "coding"
    /\ phase' = "idle"
    /\ coded' = <<>>
    /\ UNCHANGED <<fast, offset_hist, saved_offset_hist, resolver>>

\* The block did not shrink: its source bytes go out instead.
WriteRaw ==
    /\ phase = "coding"
    /\ phase' = "idle"
    /\ offset_hist' = saved_offset_hist
    /\ coded' = <<>>
    /\ UNCHANGED <<fast, saved_offset_hist, resolver>>

\* The block is kept, and the decoder sets up to run it.
WriteCompressed(long) ==
    /\ phase = "coding"
    /\ phase' = "decoding"
    /\ use_long_pipeline' = long
    /\ shadow_hist' = scratch_hist
    /\ saved_scratch_hist' = scratch_hist
    /\ resolved' = <<>>
    /\ UNCHANGED <<coder, scratch_hist, rolled_back>>

DecodeSequence ==
    /\ phase = "decoding"
    /\ Len(resolved) < Len(coded)
    /\ LET r == Resolve(coded[Len(resolved) + 1])
       IN /\ resolved' = Append(resolved, r.offset)
          /\ shadow_hist' = r.hist
    /\ UNCHANGED <<phase, coder, use_long_pipeline, scratch_hist,
                   saved_scratch_hist, rolled_back>>

\* The shadow is installed once every sequence has been executed.
FinishBlock ==
    /\ phase = "decoding"
    /\ Len(resolved) = Len(coded)
    /\ phase' = "idle"
    /\ scratch_hist' = shadow_hist
    /\ coded' = <<>>
    /\ resolved' = <<>>
    /\ UNCHANGED <<fast, offset_hist, saved_offset_hist, use_long_pipeline,
                   shadow_hist, saved_scratch_hist, rolled_back>>

\* A sequence of a damaged block fails to execute: the shadow is dropped,
\* whether or not the bytes could be rolled back.
SequenceFails ==
    /\ phase = "decoding"
    /\ Len(resolved) > 0
    /\ phase' = "failed"
    /\ rolled_back' \in BOOLEAN
    /\ UNCHANGED <<coder, use_long_pipeline, scratch_hist, shadow_hist,
                   saved_scratch_hist, resolved>>

\* A failure on left-over bits that keeps the history it had installed.
BitsLeftOver_kept ==
    /\ phase = "decoding"
    /\ Len(resolved) = Len(coded) /\ Len(coded) > 0
    /\ phase' = "failed"
    /\ rolled_back' \in BOOLEAN
    /\ scratch_hist' = shadow_hist
    /\ UNCHANGED <<coder, use_long_pipeline, shadow_hist, saved_scratch_hist,
                   resolved>>

\* Bits are left over after the last sequence, the shadow already installed:
\* the history goes back with the bytes, or stays with them.
BitsLeftOver ==
    /\ phase = "decoding"
    /\ Len(resolved) = Len(coded) /\ Len(coded) > 0
    /\ phase' = "failed"
    /\ rolled_back' \in BOOLEAN
    /\ scratch_hist' = IF rolled_back' THEN saved_scratch_hist ELSE shadow_hist
    /\ UNCHANGED <<coder, use_long_pipeline, shadow_hist, saved_scratch_hist,
                   resolved>>

NextOffsets ==
    \/ \E hist \in DictHistories \cup {DefaultHistory}, tag \in BOOLEAN :
          StartOffsets(hist, tag)
    \/ BeginBlock
    \/ \E o \in Offset, lit0 \in BOOLEAN : CodeSequence(o, lit0)
    \/ WriteRaw
    \/ \E long \in BOOLEAN : WriteCompressed(long)
    \/ DecodeSequence
    \/ FinishBlock
    \/ SequenceFails
    \/ BitsLeftOver

OffsetsSpec == InitOffsets /\ [][NextOffsets]_offsetVars

-----------------------------------------------------------------------------
CodedSequence ==
    [of : [bits : 0..2, base : {1, 2, 4}, extra : Nat], lit0 : BOOLEAN,
     offset : Offset, after : Usable]

\* Every variable has its type, and no history holds offset zero: the encoder
\* never puts one there and the decoder never resolves one from its blocks.
OffsetsTypeOK ==
    /\ phase \in {"idle", "coding", "decoding", "failed"}
    /\ fast \in BOOLEAN /\ use_long_pipeline \in BOOLEAN /\ rolled_back \in BOOLEAN
    /\ offset_hist \in Usable /\ saved_offset_hist \in Usable
    /\ scratch_hist \in Usable /\ shadow_hist \in Usable
    /\ saved_scratch_hist \in Usable
    /\ coded \in Seq(CodedSequence) /\ Len(coded) <= MaxSequences
    /\ resolved \in Seq(U32)
    /\ phase = "decoding" => Len(resolved) <= Len(coded)

\* Between blocks both ends hold the same history, whatever mix of kept blocks,
\* raw fallbacks, strategies and decoder loops the frame went through.
LockStep == phase = "idle" => offset_hist = scratch_hist

\* The decoder resolves, sequence by sequence, the offsets the matcher found.
OffsetsRoundTrip ==
    phase = "decoding" =>
        \A i \in 1..Len(resolved) : resolved[i] = coded[i].offset

\* The fused resolution of the short loop and the general one of the long
\* pipeline are the same function of the wire, for every code and history.
ResolutionsAgree ==
    \A o \in Offset \cup {1, 2, 3}, lit0 \in BOOLEAN :
        decode_resolved(encode_offset(o), lit0, shadow_hist)
            = do_offset_history(o, lit0, shadow_hist)

\* A block taken back after a failure takes its history back with it.
RolledBackWithItsHistory ==
    phase = "failed" /\ rolled_back => scratch_hist = saved_scratch_hist

\* The optimal parser prices an offset by the code the block will carry.
ParserPricesTheCode ==
    \A o \in Offset, lit0 \in BOOLEAN :
        encode_offset_with_reps(o, lit0, offset_hist)
            = encode_offset_with_history(o, lit0, offset_hist)
=============================================================================
