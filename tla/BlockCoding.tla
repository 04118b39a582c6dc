---------------------------- MODULE BlockCoding -----------------------------
(***************************************************************************)
(* The entropy part of a dictionary, and a block as the two ends code it.  *)
(***************************************************************************)
EXTENDS SequencesSection

(***************************************************************************)
(* The entropy part of a serialized dictionary: four tables and three      *)
(* offsets.  It is written from histograms that hold every symbol at least *)
(* once, so that each table can code whatever a frame meets, and read back *)
(* twice: by the decoder, and by the encoder, which turns what it read     *)
(* into tables of its own.                                                 *)
(***************************************************************************)

CONSTANTS
  SumCeiling,      \* the histogram of the literals is halved down to this
  StartReps        \* the three offsets a dictionary is written with

(* Histograms: every symbol once, and what the samples hold. *)
Counted(size, list) ==
  LET more == Histogram(list)
  IN Computed([i \in 1 .. size |-> 1 + (IF i <= Len(more) THEN more[i] ELSE 0)])

CountedBytes(data) ==
  LET more == CountBytes(data)
  IN Computed([i \in 1 .. 256 |-> 1 + (IF i <= Len(more) THEN more[i] ELSE 0)])

(* build_limited_in: the smallest weight is one. *)
BuildLimitedIn(counts, spare) ==
  LET weights == BuildLimitedWeights(counts, MaxHuffmanLog)
      used == Positive(weights)
      least == 13 - (LET v == [k \in 1 .. Len(used) |-> 13 - weights[used[k]]] IN v[FirstLargest(v)])
  IN BuildFromWeights([i \in 1 .. Len(weights) |-> IF weights[i] = 0 THEN 0 ELSE weights[i] - least + 1], spare)

RECURSIVE Halved(_)
Halved(counts) ==
  IF Sum(counts) >= SumCeiling THEN Halved(Computed([i \in 1 .. Len(counts) |-> DivCeil(counts[i], 2)])) ELSE counts

(* literals_table: a flat table is replaced by one of nine bits. *)
NineBits == [i \in 1 .. 256 |-> CASE i = 1 -> 4 [] i \in {254, 255} -> 1 [] OTHER -> 2]

LiteralsTable(counts) ==
  LET table == BuildLimitedIn(Halved(counts), NoTable)
  IN IF table.log # 8 THEN table ELSE BuildLimitedIn(NineBits, table)

(* write_ncount_at_log *)
WriteNcountAtLog(w, counts, log) ==
  WriteNcount(w, NormalizeCounts(UpToLast(counts), Sum(counts), log, TRUE), log)

FourBytes(v) == Bits(v, 24) \o Zeros(8)    \* of a number below 2^24

(* analyze_entropy's tables, then the offsets: the bits of the dictionary   *)
(* after its number.  data: [literals, codes, offcodes].                    *)
WriteDictionary(data) ==
  LET lit == LiteralsTable(CountedBytes(data.literals))
      head == Flush(WriteHuffmanTable(NewWriter, FillDescription(lit)))
      of == WriteNcountAtLog(head, Counted(data.offcodes + 1, AxisCodes(data.codes, 3)), MaxLogs[3])
      ml == WriteNcountAtLog(of, Counted(53, AxisCodes(data.codes, 2)), MaxLogs[2])
      ll == WriteNcountAtLog(ml, Counted(36, AxisCodes(data.codes, 1)), MaxLogs[1])
  IN AppendBits(ll, FourBytes(StartReps[0]) \o FourBytes(StartReps[1]) \o FourBytes(StartReps[2]))

(* One sequence table of decode_dict_inner; d is [ok, axes, rest]. *)
DecodeAxis(d, axis) ==
  LET built == BuildDecoder(EmptyAxes[axis], d.rest, MaxLogs[axis], Metas[axis], axis = 3)
  IN IF d.ok /\ built.bytes > 0
     THEN [d EXCEPT !.axes[axis] = built.table, !.rest = SubSeq(@, 8 * built.bytes + 1, Len(@))]
     ELSE [d EXCEPT !.ok = FALSE]

(* decode_dict_inner, after the number. *)
DecodeDictionary(source) ==
  LET huf == BuildHuffmanDecoder(source)
      d == DecodeAxis(DecodeAxis(DecodeAxis(
             [ok |-> huf.ok, axes |-> EmptyAxes, rest |-> SubSeq(source, 8 * huf.bytes + 1, Len(source))], 3), 2), 1)
      reps == [i \in 0 .. 2 |-> ForwardBits(d.rest, 32 * i, 32)]
  IN [ok |-> d.ok /\ \A i \in 0 .. 2 : reps[i] > 0,
      huf |-> huf.table, axes |-> d.axes, hist |-> reps]

(* CachedDictionaryEntropy::from_dictionary: what an encoder makes of it. *)
ToPrevious(t) == LET e == ToEncoderTable(t) IN IF e.size = 0 THEN NoPrevious ELSE AsCustom([e EXCEPT !.shared = TRUE])

EncoderEntropy(d) ==
  [huff |-> HuffmanToEncoder(d.huf), previous |-> << ToPrevious(d.axes[1]), ToPrevious(d.axes[2]), ToPrevious(d.axes[3]) >>,
   hist |-> d.hist]

(***************************************************************************)
(* A block as the two ends see it.  The encoder codes the literals and the *)
(* sequences the match finder left, keeps the block's tables when the      *)
(* block is kept and gives them up when it is stored instead; at the       *)
(* strongest levels it first looks for a better block in several parts.    *)
(* The decoder reads the two sections and keeps their tables.              *)
(*                                                                         *)
(* enc is [huff, parked, spare, axes, hist]: the last Huffman table, the   *)
(* one set aside, the one the next will be built in, the three axes of     *)
(* SequenceCodes and the offsets.  dec is [huff, tables, cold, hist].      *)
(***************************************************************************)

CONSTANTS
  MinSplitSequences,   \* MIN_SEQUENCES_BLOCK_SPLITTING
  MaxSplits            \* MAX_NB_BLOCK_SPLITS

MaxBlockSize == 131072

Searches(strategy) == strategy \in {"BtUltra", "BtUltra2"}

LiteralsIn(sequences) == Sum([i \in 1 .. Len(sequences) |-> sequences[i].ll])
MatchedIn(sequences) == Sum([i \in 1 .. Len(sequences) |-> sequences[i].ml])

(***************************************************************************)
(* What the encoder keeps                                                  *)
(***************************************************************************)
Park(enc, table) ==
  IF HasTable(enc.parked) THEN [enc EXCEPT !.spare = table] ELSE [enc EXCEPT !.parked = table]

ClearHuff(enc) == IF HasTable(enc.huff) THEN Park([enc EXCEPT !.huff = NoTable], enc.huff) ELSE enc

ReplaceHuff(enc, table) ==
  LET new == [enc EXCEPT !.huff = table] IN IF HasTable(enc.huff) THEN Park(new, enc.huff) ELSE new

CommitAxis(axis, mode) ==
  [previous |-> Decided(axis.previous, mode), next |-> NextAfter(axis.previous, mode)]

(* p is a block's coding, as EncodeParts gives it. *)
Commit(enc, p) ==
  LET a == enc.axes
      axes == IF p.modes = << >> THEN a
              ELSE << CommitAxis(a[1], p.modes[1]), CommitAxis(a[2], p.modes[2]), CommitAxis(a[3], p.modes[3]) >>
      kept == [enc EXCEPT !.axes = axes, !.hist = p.hist, !.spare = p.spare]
  IN CASE p.huff.kind = "keep" -> kept
       [] p.huff.kind = "clear" -> ClearHuff(kept)
       [] OTHER -> ReplaceHuff(kept, p.huff.table)

(* Mutant: a stored block's tables are kept as those of a coded one. *)
DiscardCommits(enc, p) == Commit(enc, p)

(* What was built stays only as memory. *)
Discard(enc, p) ==
  LET a == enc.axes
      Slot(i) == [a[i] EXCEPT !.next = p.modes[i].next]
      left == [enc EXCEPT !.axes = IF p.modes = << >> THEN a ELSE << Slot(1), Slot(2), Slot(3) >>,
                          !.spare = p.spare]
  IN IF p.huff.kind = "new" THEN Park(left, p.huff.table) ELSE left

(***************************************************************************)
(* One block                                                               *)
(***************************************************************************)
EncodeParts(c, enc, literals, sequences) ==
  LET lit == EncodeLiterals(NewWriter, literals, enc.huff, c.strategy, Searches(c.strategy), c.disabled,
                            enc.spare, Len(sequences))
      seq == EncodeSequences(lit.w, sequences, enc.axes, enc.hist, c.strategy)
  IN [w |-> Flush(seq.w), huff |-> lit.huff, spare |-> lit.spare, modes |-> seq.modes, hist |-> seq.hist]

(* The block is stored when its coding takes "limit" bytes or more.  A      *)
(* block on the wire carries what it was made from, for the properties.     *)
Emit(c, enc, start, size, literals, sequences, limit) ==
  LET p == EncodeParts(c, enc, literals, sequences)
      raw == Len(p.w.output) >= 8 * limit
  IN [enc |-> IF raw THEN Discard(enc, p) ELSE Commit(enc, p),
      block |-> [raw |-> raw, bits |-> IF raw THEN << >> ELSE p.w.output, ok |-> p.w.ok,
                 start |-> start, size |-> size, literals |-> literals, sequences |-> sequences,
                 huff |-> enc.huff, spare |-> enc.spare]]

(* emit_single_sequence_block: a block must gain something. *)
Gainful(size) == SatSub(size, (size \div 256) + 2)

(***************************************************************************)
(* The splitter.  A probe starts from [huff, previous, hist] and says what *)
(* a part would cost and leave; s is [spare, built, parts]: the memory it  *)
(* builds in, the last table it kept, the splits so far.                   *)
(***************************************************************************)
AfterProbe(entry, lit, seq) ==
  LET After(i) == Decided(entry.previous[i], seq.modes[i])
  IN [huff |-> CASE lit.huff.kind = "keep" -> entry.huff [] lit.huff.kind = "clear" -> NoTable
                 [] OTHER -> lit.huff.table,
      previous |-> IF seq.modes = << >> THEN entry.previous ELSE << After(1), After(2), After(3) >>,
      hist |-> seq.hist]

(* estimate_subblock_size, of the sequences after "from" up to "to". *)
Probe(c, b, s, from, to, entry) ==
  LET sequences == SubSeq(b.sequences, from + 1, to)
      at == LiteralsIn(SubSeq(b.sequences, 1, from))
      literals == SubSeq(b.literals, at + 1,
                         IF to = Len(b.sequences) THEN Len(b.literals) ELSE at + LiteralsIn(sequences))
      lit == EstimateLiterals(literals, entry.huff, c.strategy, Searches(c.strategy), c.disabled, s.spare,
                              Len(sequences))
      seq == EstimateSequences(sequences, entry.previous, entry.hist, c.strategy)
      payload == lit.bytes + seq.bytes
      size == Len(literals) + MatchedIn(sequences)
      raw == payload >= Gainful(size)
      new == lit.huff.kind = "new"
  IN [s |-> [s EXCEPT !.spare = IF raw /\ new THEN lit.huff.table ELSE lit.spare,
                      !.built = IF new /\ ~raw THEN lit.huff.table ELSE @],
      cost |-> 3 + (IF raw THEN size ELSE payload), raw |-> raw,
      post |-> IF raw THEN entry ELSE AfterProbe(entry, lit, seq)]

AtLimit(s, from, to) == to - from < MinSplitSequences \/ Len(s.parts) >= MaxSplits

(* derive_block_splits_with_full: [s, post]. *)
RECURSIVE Divide(_, _, _, _, _, _, _)
Divide(c, b, s, from, to, full, entry) ==
  LET mid == (from + to) \div 2
      first == Probe(c, b, s, from, mid, entry)
      second == Probe(c, b, first.s, mid, to, first.post)
      left == Divide(c, b, second.s, from, mid, first.cost, entry)
  IN IF AtLimit(s, from, to) THEN LET whole == Probe(c, b, s, from, to, entry) IN [s |-> whole.s, post |-> whole.post]
     ELSE IF first.cost + second.cost >= full
     THEN LET whole == Probe(c, b, second.s, from, to, entry) IN [s |-> whole.s, post |-> whole.post]
     ELSE IF Len(left.s.parts) >= MaxSplits THEN left
     ELSE Divide(c, b, [left.s EXCEPT !.parts = Append(@, mid)], mid, to, second.cost, left.post)

(* derive_block_splits, and the memory given back afterwards. *)
DeriveSplits(c, b, enc) ==
  LET a == enc.axes
      n == Len(b.sequences)
      entry == [huff |-> enc.huff, previous |-> << a[1].previous, a[2].previous, a[3].previous >>, hist |-> enc.hist]
      s == [spare |-> enc.spare, built |-> NoTable, parts |-> << >>]
      full == Probe(c, b, s, 0, n, entry)
      done == IF AtLimit(s, 0, n) THEN s
              ELSE IF full.raw THEN full.s ELSE Divide(c, b, full.s, 0, n, full.cost, entry).s
  IN [parts |-> Append(done.parts, n), spare |-> IF HasTable(done.built) THEN done.built ELSE done.spare]

(* Mutant: the literals after the last sequence are left out. *)
PartEndShort(b, last, at, sequences) == at + LiteralsIn(sequences)

(* Where a part's literals end. *)
PartEnd(b, last, at, sequences) == IF last THEN Len(b.literals) ELSE at + LiteralsIn(sequences)

(* The parts in turn, unless an assertion fails; the last takes what is left. *)
(* e is [enc, blocks].                                                      *)
RECURSIVE EmitParts(_, _, _, _, _, _, _)
EmitParts(c, b, e, parts, from, at, start) ==
  LET to == Head(parts)
      last == Tail(parts) = << >>
      sequences == SubSeq(b.sequences, from + 1, to)
      end == PartEnd(b, last, at, sequences)
      size == IF last THEN Len(b.literals) + MatchedIn(b.sequences) - start
              ELSE LiteralsIn(sequences) + MatchedIn(sequences)
      out == Emit(c, e.enc, start, size, SubSeq(b.literals, at + 1, end), sequences, Gainful(size))
  IN IF parts = << >> \/ (\E i \in 1 .. Len(e.blocks) : ~e.blocks[i].ok) THEN e
     ELSE EmitParts(c, b, [enc |-> out.enc, blocks |-> Append(e.blocks, out.block)], Tail(parts), to, end, start + size)

(* compress_block with the caller's check, or compress_block_with_post_split. *)
CompressBlock(c, enc, b) ==
  LET size == Len(b.literals) + MatchedIn(b.sequences)
      short == Len(b.sequences) <= 4
      splits == DeriveSplits(c, b, enc)
      whole == Emit(c, enc, 0, size, b.literals, b.sequences,
                    IF c.split THEN Gainful(size) ELSE Min2(size, MaxBlockSize))
  IN IF ~c.split \/ short THEN [enc |-> whole.enc, blocks |-> << whole.block >>]
     ELSE EmitParts(c, b, [enc |-> [enc EXCEPT !.spare = splits.spare], blocks |-> << >>], splits.parts, 0, 0, 0)

(***************************************************************************)
(* Frames                                                                  *)
(***************************************************************************)
NewEncoder ==
  LET axis == [previous |-> NoPrevious, next |-> BlankTable]
  IN [huff |-> NoTable, parked |-> NoTable, spare |-> NoTable, axes |-> << axis, axis, axis >>, hist |-> DefaultHistory]

(* park_previous_before_frame, then the dictionary's table or none. *)
StartAxis(axis, previous) ==
  LET buffer == axis.next.size > 0 /\ ~axis.next.shared
      worth == axis.previous.kind = "custom" /\ ~axis.previous.table.shared
  IN [previous |-> previous, next |-> IF worth /\ ~buffer THEN axis.previous.table ELSE axis.next]

(* A prepared dictionary, as each end holds it. *)
PrepareDictionary(of) ==
  LET codes == SequenceCodes(of.sequences, CodeOffsets(of.sequences, DefaultHistory, FALSE).of)
      d == DecodeDictionary(WriteDictionary([literals |-> of.literals, codes |-> codes, offcodes |-> 17]).output)
  IN [decoder |-> d, encoder |-> EncoderEntropy(d)]

(* The entropy state of run_one_frame, with a dictionary (<< it >>) or none (<< >>). *)
StartEncoder(enc, dictionary) ==
  LET with == dictionary # << >>
      d == dictionary[1].encoder
      a == enc.axes
      Axis(i) == StartAxis(a[i], IF with THEN d.previous[i] ELSE NoPrevious)
      cleared == IF with /\ HasTable(d.huff)
                 THEN [enc EXCEPT !.huff = d.huff, !.parked = IF HasTable(enc.huff) THEN @ ELSE NoTable]
                 ELSE ClearHuff(enc)
  IN [cleared EXCEPT !.axes = << Axis(1), Axis(2), Axis(3) >>, !.hist = IF with THEN d.hist ELSE DefaultHistory]

(* The decoder's: reset, then init_from_dict. *)
StartDecoder(dictionary) ==
  LET d == dictionary[1].decoder
  IN IF dictionary # << >> THEN [huff |-> d.huf, tables |-> d.axes, cold |-> TRUE, hist |-> d.hist]
     ELSE [huff |-> EmptyHuffman, tables |-> EmptyAxes, cold |-> FALSE, hist |-> DefaultHistory]

(* export_entropy and restore_entropy into another decoder. *)
ResumeDecoder(dec) ==
  LET Axis(i) == ReinitFrom(EmptyAxes[i], dec.tables[i])
  IN [huff |-> ReinitHuffman(dec.huff), tables |-> << Axis(1), Axis(2), Axis(3) >>, cold |-> FALSE, hist |-> dec.hist]

(***************************************************************************)
(* decompress_block_inplace_with_parts                                     *)
(***************************************************************************)
DecompressBlock(dec, block, far, kernel) ==
  LET bits == block.bits
      h == ParseLiteralsHeader(bits)
      Rest(from) == SubSeq(bits, 8 * from + 1, Len(bits))
      seqs == ParseSequencesHeader(Rest(h.header + h.payload))
      lit == DecodeLiterals(h, SubSeq(bits, 8 * h.header + 1, 8 * (h.header + h.payload)), dec.huff)
      after == Rest(h.header + h.payload + seqs.header)
      seq == DecodeSequences(seqs, after, dec.tables, dec.cold, far, dec.hist, kernel)
      Bad == [dec |-> dec, ok |-> FALSE, literals |-> << >>, sequences |-> << >>]
  IN IF block.raw THEN [dec |-> dec, ok |-> TRUE, literals |-> block.literals, sequences |-> block.sequences]
     ELSE IF ~h.ok THEN Bad
     ELSE IF Len(bits) < 8 * (h.header + h.payload) \/ ~seqs.ok \/ ~lit.ok THEN Bad
     ELSE IF seqs.n = 0
     THEN [dec |-> [dec EXCEPT !.huff = lit.table], ok |-> after = << >>, literals |-> lit.out, sequences |-> << >>]
     ELSE [dec |-> [huff |-> lit.table, tables |-> seq.tables, cold |-> FALSE, hist |-> seq.hist],
           ok |-> seq.ok /\ seq.held, literals |-> lit.out, sequences |-> seq.out]
=============================================================================
