-------------------------- MODULE SequencesSection --------------------------
(***************************************************************************)
(* The sequences section: its codes and tables, the encoder and the        *)
(* decoder.                                                                *)
(***************************************************************************)
EXTENDS LiteralsSection, OffsetCodes

(***************************************************************************)
(* The codes of a sequence's three numbers, what a table costs for a       *)
(* block's codes, and the choice of each axis's table: the predefined one, *)
(* one repeated symbol, the last one, or a new one.                        *)
(*                                                                         *)
(* An axis remembers the table of the last block that chose one (previous) *)
(* and keeps a table to build the next one in (next; size 0: none).  A     *)
(* table that a dictionary holds as well is not built in; EntropyTables    *)
(* counts the holders.                                                     *)
(***************************************************************************)

LLCode == << 0, 1, 2, 3, 4, 5, 6, 7, 8, 9, 10, 11, 12, 13, 14, 15, 16, 16, 17, 17, 18, 18, 19, 19,
             20, 20, 20, 20, 21, 21, 21, 21, 22, 22, 22, 22, 22, 22, 22, 22, 23, 23, 23, 23, 23, 23,
             23, 23 >> \o [i \in 1 .. 16 |-> 24]

LLExtraBits == [i \in 1 .. 16 |-> 0] \o << 1, 1, 1, 1, 2, 2, 3, 3, 4, 6, 7, 8, 9, 10, 11, 12, 13, 14, 15, 16 >>

MLCode == [i \in 1 .. 32 |-> i - 1] \o << 32, 32, 33, 33, 34, 34, 35, 35, 36, 36, 36, 36, 37, 37, 37, 37,
             38, 38, 38, 38, 38, 38, 38, 38, 39, 39, 39, 39, 39, 39, 39, 39 >>
          \o [i \in 1 .. 64 |-> IF i <= 16 THEN 40 ELSE IF i <= 32 THEN 41 ELSE 42]

MLExtraBits == [i \in 1 .. 32 |-> 0] \o
  << 1, 1, 1, 1, 2, 2, 3, 3, 4, 4, 5, 7, 8, 9, 10, 11, 12, 13, 14, 15, 16 >>

(* A code, and the low bits of the number that follow it. *)
Coded(code, v, bits) == [code |-> code, v |-> v % 2 ^ bits, n |-> bits]

LiteralLength(len) ==
  IF len < 64 THEN Coded(LLCode[len + 1], len, LLExtraBits[LLCode[len + 1] + 1])
  ELSE Coded(Log2(len) + 19, len, Log2(len))

MatchLength(len) ==
  LET base == len - 3
  IN IF base < 128 THEN Coded(MLCode[base + 1], base, MLExtraBits[MLCode[base + 1] + 1])
     ELSE Coded(Log2(base) + 36, base, Log2(base))

OffsetField(off_base) == Coded(Log2(off_base), off_base, Log2(off_base))

(* The offsets' codes, each with the history the one before it left; n      *)
(* sequences from i on, by halves.                                          *)
CodeOffset(c, s, fast) ==
  LET next == IF fast THEN encode_offset_with_history_fast(s.of, s.ll = 0, c.hist)
              ELSE encode_offset_with_history(s.of, s.ll = 0, c.hist)
  IN [of |-> Append(c.of, next.code), hist |-> next.hist]

RECURSIVE CodeFrom(_, _, _, _, _)
CodeFrom(c, sequences, i, n, fast) ==
  LET m == n \div 2
  IN CASE n = 0 \/ Len(c.of) # i - 1 -> c
       [] n = 1 /\ Len(c.of) = i - 1 -> CodeOffset(c, sequences[i], fast)
       [] OTHER -> CodeFrom(CodeFrom(c, sequences, i, m, fast), sequences, i + m, n - m, fast)

CodeOffsets(sequences, hist, fast) ==
  CodeFrom([of |-> << >>, hist |-> hist], sequences, 1, Len(sequences), fast)

(* SequenceCode::pack: the three fields of each sequence. *)
SequenceCodes(sequences, of) ==
  Computed([i \in 1 .. Len(sequences) |->
    << LiteralLength(sequences[i].ll), MatchLength(sequences[i].ml), OffsetField(of[i]) >>])

(* The codes of an axis and their histogram up to the highest. *)
AxisCodes(codes, axis) == Computed([i \in 1 .. Len(codes) |-> codes[i][axis].code])

Histogram(list) ==
  UpToLast([s \in 1 .. 64 |-> Len(SelectSeq(list, LAMBDA c : c = s - 1))])

Distinct(counts) == Len(SelectSeq(counts, LAMBDA c : c > 0))

(***************************************************************************)
(* What a table costs, in whole bits; NoSize where it cannot code a symbol *)
(***************************************************************************)
InverseProbabilityLog256 ==
  << 0, 2048, 1792, 1642, 1536, 1453, 1386, 1329, 1280, 1236, 1197, 1162, 1130, 1100, 1073, 1047,
     1024, 1001, 980, 960, 941, 923, 906, 889, 874, 859, 844, 830, 817, 804, 791, 779, 768, 756,
     745, 734, 724, 714, 704, 694, 685, 676, 667, 658, 650, 642, 633, 626, 618, 610, 603, 595, 588,
     581, 574, 567, 561, 554, 548, 542, 535, 529, 523, 517, 512, 506, 500, 495, 489, 484, 478, 473,
     468, 463, 458, 453, 448, 443, 438, 434, 429, 424, 420, 415, 411, 407, 402, 398, 394, 390, 386,
     382, 377, 373, 370, 366, 362, 358, 354, 350, 347, 343, 339, 336, 332, 329, 325, 322, 318, 315,
     311, 308, 305, 302, 298, 295, 292, 289, 286, 282, 279, 276, 273, 270, 267, 264, 261, 258, 256,
     253, 250, 247, 244, 241, 239, 236, 233, 230, 228, 225, 222, 220, 217, 215, 212, 209, 207, 204,
     202, 199, 197, 194, 192, 190, 187, 185, 182, 180, 178, 175, 173, 171, 168, 166, 164, 162, 159,
     157, 155, 153, 151, 149, 146, 144, 142, 140, 138, 136, 134, 132, 130, 128, 126, 123, 121, 119,
     117, 115, 114, 112, 110, 108, 106, 104, 102, 100, 98, 96, 94, 93, 91, 89, 87, 85, 83, 82, 80,
     78, 76, 74, 73, 71, 69, 67, 66, 64, 62, 61, 59, 57, 55, 54, 52, 50, 49, 47, 46, 44, 42, 41, 39,
     37, 36, 34, 33, 31, 30, 28, 26, 25, 23, 22, 20, 19, 17, 16, 14, 13, 11, 10, 8, 7, 5, 4, 2, 1 >>

(* The cost of counts, each with a symbol's price in 1/256 bits. *)
Total(counts, price) ==
  IF \E i \in 1 .. Len(counts) : counts[i] > 0 /\ price[i] = NoSize THEN NoSize
  ELSE Sum([i \in 1 .. Len(counts) |-> IF counts[i] = 0 THEN 0 ELSE counts[i] * price[i]]) \div 256

EntropyCost(counts, total) ==
  Total(counts, [i \in 1 .. Len(counts) |->
                   InverseProbabilityLog256[Max2((256 * counts[i]) \div total, 1) + 1]])

CrossEntropyCost(counts, t) ==
  LET Norm(s) == Slots(SymbolProbability(t, s)) * 2 ^ (8 - AccLog(t))
      price == Computed([i \in 1 .. Len(counts) |-> IF Norm(i - 1) \in 1 .. 255
                                                    THEN InverseProbabilityLog256[Norm(i - 1) + 1] ELSE NoSize])
  IN IF AccLog(t) > 8 THEN NoSize ELSE Total(counts, price)

FseBitCost(counts, t) ==
  LET log == AccLog(t)
      Delta(s) == Transform(SymbolProbability(t, s), 0, log).nb
      SymbolCost(s) ==
        LET nb == Delta(s) \div 65536
            above == (nb + 1) * 65536 - (Delta(s) + t.size)
            cost == (nb + 1) * 256 - ((above * 256) \div 2 ^ log)
        IN IF SymbolProbability(t, s) = 0 \/ above < 0 \/ cost >= (log + 1) * 256 THEN NoSize ELSE cost
  IN Total(counts, Computed([i \in 1 .. Len(counts) |-> SymbolCost(i - 1)]))

(***************************************************************************)
(* choose_table_from_counts                                                *)
(***************************************************************************)
Remembered(kind, symbol, t) == [kind |-> kind, symbol |-> symbol, table |-> t]
NoPrevious == Remembered("none", 0, BlankTable)
AsDefault == Remembered("default", 0, BlankTable)
AsRle(symbol) == Remembered("rle", symbol, BlankTable)
AsCustom(t) == Remembered("custom", 0, t)

(* PreviousFseTable::as_table; BlankTable: none. *)
TableOf(previous, default) ==
  CASE previous.kind = "default" -> default [] previous.kind = "custom" -> previous.table [] OTHER -> BlankTable

PreviousCost(previous, default, counts) ==
  LET t == TableOf(previous, default) IN IF t.size = 0 THEN NoSize ELSE FseBitCost(counts, t)

(* The cheapest, the earlier of equals; a new table can always be built. *)
CheapestTable(previous, predefined, new) ==
  CASE previous # NoSize /\ (predefined = NoSize \/ previous <= predefined) /\ previous <= new -> "repeat"
    [] predefined # NoSize /\ (previous = NoSize \/ predefined < previous) /\ predefined <= new -> "predefined"
    [] OTHER -> "new"

(* build_into_slot: the memory a table is built in. *)
Writable(next) == IF next.shared THEN BlankTable ELSE next

NoLast == -1

(* A mode is its kind, its symbol or its table, and where the stream's      *)
(* states come from; next is the slot the axis is left with.                *)
Mode(kind, symbol, t, next) == [kind |-> kind, symbol |-> symbol, table |-> t, next |-> next]

ChooseTable(previous, default, counts, max_log, strategy, last_code, next) ==
  LET total == Sum(counts)
      symbol == Len(counts) - 1
      low_prob == total >= 2048
      repeat == Mode("repeat", previous.symbol, TableOf(previous, default), next)
      predefined == Mode("predefined", 0, default, next)
      before == PreviousCost(previous, default, counts)
      built == IF last_code = NoLast THEN CountsTable(counts, max_log, low_prob, Writable(next))
               ELSE SeqTable(counts, max_log, last_code, Writable(next))
      new_cost == HeaderBitsForCounts(counts, max_log, low_prob) + EntropyCost(counts, total)
      best == CheapestTable(before, CrossEntropyCost(counts, default), new_cost)
  IN IF Distinct(counts) = 1
     THEN CASE previous.kind = "rle" /\ previous.symbol = symbol -> repeat
            [] ~(previous.kind = "rle" /\ previous.symbol = symbol)
               /\ total <= 2 /\ SymbolProbability(default, symbol) # 0 -> predefined
            [] OTHER -> Mode("rle", symbol, BlankTable, next)
     ELSE CASE (strategy \in FastBand /\ total < 1000 /\ before # NoSize) \/ best = "repeat" -> repeat
            [] ~(strategy \in FastBand /\ total < 1000 /\ before # NoSize) /\ best = "predefined" -> predefined
            [] OTHER -> Mode("encoded", 0, built, built)

(* decided_previous: what the axis remembers once the block is kept. *)
Decided(previous, mode) ==
  CASE mode.kind = "repeat" -> previous
    [] mode.kind = "predefined" -> AsDefault
    [] mode.kind = "rle" -> AsRle(mode.symbol)
    [] OTHER -> AsCustom(mode.table)

(* commit_last_used_table: the displaced table is kept to build in. *)
NextAfter(previous, mode) ==
  CASE mode.kind = "encoded" -> previous.table
    [] mode.kind \in {"predefined", "rle"} /\ mode.next.size = 0 -> previous.table
    [] OTHER -> mode.next

(***************************************************************************)
(* The sequences section: the count, the modes byte, the tables that are   *)
(* new, and one stream of bits written from the last sequence to the first *)
(* and read from its end.  Axes are numbered as the stream's reader keeps  *)
(* them: 1 literal lengths, 2 match lengths, 3 offsets.                    *)
(***************************************************************************)

LLDist == << 4, 3, 2, 2, 2, 2, 2, 2, 2, 2, 2, 2, 2, 1, 1, 1, 2, 2, 2, 2, 2, 2, 2, 2, 2, 3, 2,
             1, 1, 1, 1, 1, -1, -1, -1, -1 >>
MLDist == << 1, 4, 3, 2, 2, 2, 2, 2, 2 >> \o [i \in 1 .. 37 |-> 1] \o [i \in 1 .. 7 |-> -1]
OFDist == << 1, 1, 1, 1, 1, 1, 2, 2, 2 >> \o [i \in 1 .. 15 |-> 1] \o [i \in 1 .. 5 |-> -1]

Defaults == << BuildTable(LLDist, 6, BlankTable), BuildTable(MLDist, 6, BlankTable), BuildTable(OFDist, 5, BlankTable) >>

MaxLogs == << 9, 9, 8 >>
MaxCodes == << 35, 52, 31 >>

(***************************************************************************)
(* The encoder                                                             *)
(***************************************************************************)
(* encode_seqnum.  Above 0x7FFF the high byte goes first, and the decoder  *)
(* takes it for the low one.                                               *)
WriteCount(w, n) ==
  LET big == n - 32512
      bytes == CASE n <= 127 -> <<n>>
                 [] n \in 128 .. 32767 -> << (n \div 256) + 128, n % 256 >>
                 [] OTHER -> << 255, big \div 256, big % 256 >>
  IN WriteFields(w, [i \in 1 .. Len(bytes) |-> [v |-> bytes[i], n |-> 8]])

ModeBits(mode) ==
  CASE mode.kind = "predefined" -> 0 [] mode.kind = "rle" -> 1 [] mode.kind = "encoded" -> 2 [] OTHER -> 3

WriteModes(w, modes) ==
  WriteBits(w, 64 * ModeBits(modes[1]) + 16 * ModeBits(modes[3]) + 4 * ModeBits(modes[2]), 8)

EncodeTable(w, mode) ==
  CASE mode.kind = "encoded" -> WriteTable(w, mode.table)
    [] mode.kind = "rle" -> WriteBits(w, mode.symbol, 8)
    [] OTHER -> w

ModeTable(mode) == IF mode.table.size = 0 THEN RleTable ELSE mode.table

(* One state leaves for the code's, in the burst. *)
LeaveState(s, modes, fields, axis) ==
  LET state == s.states[axis]
      next == NextState(ModeTable(modes[axis]), fields[axis].code, state)
  IN IF next.nb = -1 THEN [s EXCEPT !.w.ok = FALSE]
     ELSE [s EXCEPT !.w = BurstAdd(@, TransitionBits(state, next.nb), next.nb), !.states[axis] = next.index,
                    !.diff = @ + next.nb]

(* One sequence before the last: offset, match, literals change state, then *)
(* the extra bits, the accumulator flushed where they might not fit.        *)
BurstSequence(s, modes, fields) ==
  LET moved == LeaveState(LeaveState(LeaveState([s EXCEPT !.diff = 0], modes, fields, 3), modes, fields, 2), modes, fields, 1)
      extra == fields[1].n + fields[2].n + fields[3].n
      asserted == /\ moved.diff <= 26
                  /\ fields[1].n <= 16 /\ fields[2].n <= 16 /\ fields[3].n <= 31
                  /\ (extra >= 31 \/ 7 + moved.diff + extra < 64)
      roomy == IF extra >= 31 THEN BurstFlush(moved.w) ELSE moved.w
      lengths == BurstAdd(BurstAdd(roomy, fields[1].v, fields[1].n), fields[2].v, fields[2].n)
      room == IF extra > 56 THEN BurstFlush(lengths) ELSE lengths
      w == BurstFlush(BurstAdd(room, fields[3].v, fields[3].n))
  IN [moved EXCEPT !.w = [w EXCEPT !.ok = @ /\ asserted]]

(* n sequences from codes[i] down; by halves. *)
RECURSIVE BurstSequences(_, _, _, _, _)
BurstSequences(s, modes, codes, i, n) ==
  LET m == n \div 2
  IN CASE n = 0 \/ ~s.w.ok -> s
       [] n = 1 /\ s.w.ok -> BurstSequence(s, modes, codes[i])
       [] OTHER -> BurstSequences(BurstSequences(s, modes, codes, i, m), modes, codes, i - m, n - m)

(* encode_sequences_body; burst begins and ends with whole bytes moved. *)
EncodeStream3(w, modes, codes) ==
  LET last == codes[Len(codes)]
      Start(axis) == IF modes[axis].table.size = 0 THEN 0 ELSE modes[axis].table.states[last[axis].code + 1].start
      head == WriteFields(w, << [v |-> last[1].v, n |-> last[1].n], [v |-> last[2].v, n |-> last[2].n],
                                [v |-> last[3].v, n |-> last[3].n] >>)
      begun == [w |-> BurstFlush(head), states |-> << Start(1), Start(2), Start(3) >>, diff |-> 0]
      done == IF Len(codes) > 1 THEN BurstSequences(begun, modes, codes, Len(codes) - 1, Len(codes) - 1) ELSE [begun EXCEPT !.w = head]
      Final(axis) == IF modes[axis].table.size = 0 THEN [v |-> 0, n |-> 0]
                     ELSE [v |-> done.states[axis], n |-> AccLog(modes[axis].table)]
  IN EndMark(WriteFields(done.w, << Final(2), Final(3), Final(1) >>))

(* The sequences half of encode_block_parts: axes is what each axis         *)
(* remembers and builds in; the modes say what it will remember.            *)
EncodeSequences(w, sequences, axes, hist, strategy) ==
  LET offsets == CodeOffsets(sequences, hist, strategy = "Fast")
      codes == SequenceCodes(sequences, offsets.of)
      Choose(axis) ==
        LET list == AxisCodes(codes, axis)
        IN ChooseTable(axes[axis].previous, Defaults[axis], Histogram(list), MaxLogs[axis], strategy,
                       list[Len(list)], axes[axis].next)
      modes == << Choose(1), Choose(2), Choose(3) >>
      head == WriteModes(WriteCount(w, Len(sequences)), modes)
      tables == EncodeTable(EncodeTable(EncodeTable(head, modes[1]), modes[3]), modes[2])
  IN IF sequences = << >> THEN [w |-> WriteBits(w, 0, 8), modes |-> << >>, hist |-> hist]
     ELSE [w |-> EncodeStream3(tables, modes, codes), modes |-> modes, hist |-> offsets.hist]

(***************************************************************************)
(* estimate_sequences_section_bytes: the same choice on whole counts.  A   *)
(* probe builds in tables of a pool that is only memory: blank ones here.  *)
(***************************************************************************)
ModeBitsTaken(mode, counts) ==
  LET log == AccLog(mode.table)
      Priced(cost, otherwise) == (IF cost = NoSize THEN otherwise ELSE cost) + log
  IN CASE mode.kind = "predefined" -> Priced(CrossEntropyCost(counts, mode.table), 0)
       [] mode.kind = "encoded" -> Priced(FseBitCost(counts, mode.table), EntropyCost(counts, Sum(counts)))
       [] mode.kind = "repeat" /\ mode.table.size > 0 -> Priced(FseBitCost(counts, mode.table), 0)
       [] OTHER -> 0

DescriptionBytes(mode) ==
  CASE mode.kind = "encoded" -> TableHeaderBits(mode.table) \div 8 [] mode.kind = "rle" -> 1 [] OTHER -> 0

EstimateSequences(sequences, previous, hist, strategy) ==
  LET n == Len(sequences)
      offsets == CodeOffsets(sequences, hist, FALSE)
      codes == SequenceCodes(sequences, offsets.of)
      counts == << Histogram(AxisCodes(codes, 1)), Histogram(AxisCodes(codes, 2)), Histogram(AxisCodes(codes, 3)) >>
      Choose(axis) == ChooseTable(previous[axis], Defaults[axis], counts[axis], MaxLogs[axis], strategy, NoLast, BlankTable)
      modes == << Choose(1), Choose(2), Choose(3) >>
      extra == Sum([i \in 1 .. n |-> codes[i][1].n + codes[i][2].n + codes[i][3].n])
      bits == ModeBitsTaken(modes[1], counts[1]) + ModeBitsTaken(modes[2], counts[2])
              + ModeBitsTaken(modes[3], counts[3]) + extra
      head == CASE n <= 127 -> 2 [] n \in 128 .. 32767 -> 3 [] OTHER -> 4
  IN IF n = 0 THEN [bytes |-> 1, modes |-> << >>, hist |-> hist]
     ELSE [bytes |-> head + DescriptionBytes(modes[1]) + DescriptionBytes(modes[2]) + DescriptionBytes(modes[3])
                     + (bits \div 8) + 1,
           modes |-> modes, hist |-> offsets.hist]

(***************************************************************************)
(* The decoder of a sequences section.  The short loop keeps at most eight *)
(* consumed bits in the reader's container between two sequences, and the  *)
(* kernels differ in the refill; the pipeline decodes eight sequences      *)
(* ahead of the one it executes.  Both end with exactly no bit left.       *)
(***************************************************************************)

ADVANCE == 8

LLBase == [i \in 1 .. 16 |-> i - 1] \o << 16, 18, 20, 22, 24, 28, 32, 40, 48, 64, 128, 256, 512, 1024, 2048,
                                        4096, 8192, 16384, 32768, 65536 >>
MLBase == [i \in 1 .. 32 |-> i + 2] \o << 35, 37, 39, 41, 43, 47, 51, 59, 67, 83, 99, 131, 259, 515, 1027, 2051,
                                        4099, 8195, 16387, 32771, 65539 >>

LLMeta == [i \in 1 .. 36 |-> [base |-> LLBase[i], extra |-> LLExtraBits[i]]]
MLMeta == [i \in 1 .. 53 |-> [base |-> MLBase[i], extra |-> MLExtraBits[i]]]
Metas == << LLMeta, MLMeta, NoMeta >>

EmptyAxes == << EmptyDecoder(MaxCodes[1]), EmptyDecoder(MaxCodes[2]), EmptyDecoder(MaxCodes[3]) >>

Predefined ==
  << FromProbabilities(EmptyAxes[1], 6, LLDist, LLMeta, FALSE),
     FromProbabilities(EmptyAxes[2], 6, MLDist, MLMeta, FALSE),
     FromProbabilities(EmptyAxes[3], 5, OFDist, NoMeta, TRUE) >>

(* SequencesHeader::parse_from_header: n = 0 takes no modes byte. *)
ParseSequencesHeader(source) ==
  LET b == [i \in 1 .. 4 |-> ForwardBits(source, 8 * (i - 1), 8)]
      n == CASE b[1] = Short -> Short
             [] b[1] \in 0 .. 127 -> b[1]
             [] b[1] \in 128 .. 254 -> (b[1] - 128) * 256 + b[2]
             [] OTHER -> b[2] + 256 * b[3] + 32512
      counted == CASE b[1] \in 0 .. 127 -> 1 [] b[1] \in 128 .. 254 -> 2 [] OTHER -> 3
      header == IF n = 0 THEN counted ELSE counted + 1
      modes == IF n = 0 \/ b[1] = Short THEN 0 ELSE b[counted + 1]
  IN IF Len(source) < 8 * header THEN [ok |-> FALSE]
     ELSE [ok |-> TRUE, n |-> n, header |-> header,
           modes |-> << modes \div 64, (modes \div 4) % 4, (modes \div 16) % 4 >>]

(* One axis of maybe_update_fse_tables: its table and the bytes it took. *)
UpdateTable(u, axis, mode) ==
  LET source == SubSeq(u.source, 8 * u.bytes + 1, Len(u.source))
      symbol == ForwardBits(source, 0, 8)
      t == u.tables[axis]
      offsets == axis = 3
      built == BuildDecoder(t, source, MaxLogs[axis], Metas[axis], offsets)
      Now(table, bytes) == [u EXCEPT !.tables[axis] = table, !.bytes = @ + bytes]
  IN CASE ~u.ok \/ mode = 3 -> u
       [] u.ok /\ mode = 0 -> Now(Predefined[axis], 0)
       [] u.ok /\ mode = 1 -> IF symbol \in 0 .. MaxCodes[axis]
                              THEN Now(BuildRle(t, symbol, Metas[axis], offsets), 1) ELSE [u EXCEPT !.ok = FALSE]
       [] OTHER -> IF built.bytes > 0 THEN Now(built.table, built.bytes) ELSE [u EXCEPT !.ok = FALSE]

UpdateTables(tables, modes, source) ==
  UpdateTable(UpdateTable(UpdateTable([ok |-> TRUE, tables |-> tables, bytes |-> 0, source |-> source],
                                      1, modes[1]), 3, modes[3]), 2, modes[2])

(* compute_offsets_long_share and compute_use_long_pipeline. *)
LongShare(t) ==
  Len(SelectSeq([i \in 1 .. 2 ^ t.log |-> t.decode[i].extra], LAMBDA e : e > 22)) * 2 ^ SatSub(8, t.log)

UseLongPipeline(n, cold, far, share) == n >= 2 * ADVANCE /\ (cold \/ (far /\ share >= 7))

(***************************************************************************)
(* The loops.  s holds the reader, the three states, the shadow history    *)
(* and the sequences that were executed.                                   *)
(***************************************************************************)
(* refill_sequence (scalar) and refill (avx2). *)
RefillWith(r, kernel) == IF kernel = "scalar" /\ r.consumed \div 8 = 0 THEN r ELSE Refill(r)

UpdateStates(s, tables, r) ==
  LET a == UpdateState(tables[1], s.states[1], r)
      b == UpdateState(tables[2], s.states[2], a.r)
      c == UpdateState(tables[3], s.states[3], b.r)
  IN [s EXCEPT !.r = c.r, !.states = << a.state, b.state, c.state >>]

(* decode_resolved: a sequence with its offset looked up. *)
DecodeResolved(s) ==
  LET ll == s.states[1]
      ml == s.states[2]
      of == s.states[3]
      a == GetBitsUnchecked(s.r, of.extra)
      resolved == decode_resolved([bits |-> of.extra, base |-> of.base, extra |-> a.v], ll.base = 0, s.hist)
      b == GetBitsUnchecked(a.r, ml.extra)
      r == IF b.r.consumed + ll.extra + 26 > WordBits
           THEN (IF b.r.consumed \div 8 = 0 THEN b.r ELSE Refill(b.r)) ELSE b.r
      c == GetBitsUnchecked(r, ll.extra)
  IN [s EXCEPT !.r = [c.r EXCEPT !.ok = @ /\ s.r.consumed <= 8], !.hist = resolved.hist,
               !.out = Append(@, [ll |-> ll.base + c.v, ml |-> ml.base + b.v, of |-> resolved.offset])]

(* Turn i of n: the states move on, but after the last. *)
ShortTurn(s, tables, i, n, kernel) ==
  LET d == DecodeResolved(s)
      u == UpdateStates(d, tables, d.r)
  IN IF i + 1 < n THEN [u EXCEPT !.r = RefillWith(u.r, kernel)] ELSE d

(* decode_one_body: all the extra bits together where they fit. *)
DecodeOne(s) ==
  LET g == GetBitsTriple(s.r, s.states[3].extra, s.states[2].extra, s.states[1].extra)
      ll == s.states[1].base + g.v3
      resolved == do_offset_history(s.states[3].base + g.v1, ll = 0, s.hist)
  IN [s |-> [s EXCEPT !.r = g.r, !.hist = resolved.hist],
      seq |-> [ll |-> ll, ml |-> s.states[2].base + g.v2, of |-> resolved.offset]]

UpdateBits(tables) == tables[1].log + tables[2].log + tables[3].log

(* The short loop of the vbmi2 kernel, one sequence at a time. *)
OneTurn(s, tables, i, n) ==
  LET d == DecodeOne(s)
      t == [d.s EXCEPT !.out = Append(@, d.seq)]
  IN IF i + 1 < n THEN UpdateStates(t, tables, EnsureBits(t.r, UpdateBits(tables))) ELSE t

(* The pipeline's turn i: what the slot held is executed, unless the ring   *)
(* is still being filled; then the states move on, but after the last.      *)
PipelineTurn(s, tables, i, n) ==
  LET d == DecodeOne(s)
      slot == i % ADVANCE
      t == [d.s EXCEPT !.ring[slot] = d.seq,
                       !.out = IF i < ADVANCE THEN @ ELSE Append(@, s.ring[slot])]
  IN IF i < ADVANCE \/ i + 1 < n THEN UpdateStates(t, tables, EnsureBits(t.r, UpdateBits(tables))) ELSE t

(* The turns from i to j - 1 of a loop; by halves. *)
Turn(s, tables, i, n, loop) ==
  CASE loop = "pipeline" -> PipelineTurn(s, tables, i, n)
    [] loop = "vbmi2" -> OneTurn(s, tables, i, n)
    [] OTHER -> ShortTurn(s, tables, i, n, loop)

RECURSIVE Turns(_, _, _, _, _, _)
Turns(s, tables, i, j, n, loop) ==
  LET m == (i + j) \div 2
  IN CASE i = j \/ ~s.r.ok -> s
       [] i + 1 = j /\ s.r.ok -> Turn(s, tables, i, n, loop)
       [] OTHER -> Turns(Turns(s, tables, i, m, n, loop), tables, m, j, n, loop)

Drained(s, n) ==
  [s EXCEPT !.out = @ \o [k \in 1 .. ADVANCE |-> s.ring[(n + k - 1) % ADVANCE]]]

(* init_sequence_stream and the loops; far: more than 2^24 bytes of history. *)
NoSequence == [ll |-> 0, ml |-> 0, of |-> 0]

DecodeSequences(h, source, tables, cold, far, hist, kernel) ==
  LET u == UpdateTables(tables, h.modes, source)
      stream == SubSeq(source, 8 * u.bytes + 1, Len(source))
      pad == SkipPadding(NewReader(stream), 0)
      ll == InitState(u.tables[1], pad.r)
      of == InitState(u.tables[3], ll.r)
      ml == InitState(u.tables[2], of.r)
      begun == [r |-> ml.r, states |-> << ll.state, ml.state, of.state >>, hist |-> hist, out |-> << >>,
                ring |-> [k \in 0 .. (ADVANCE - 1) |-> NoSequence]]
      long == UseLongPipeline(h.n, cold, far, LongShare(u.tables[3]))
      done == CASE long -> Drained(Turns(begun, u.tables, 0, h.n, h.n, "pipeline"), h.n)
                [] ~long /\ kernel = "vbmi2" -> Turns(begun, u.tables, 0, h.n, h.n, kernel)
                [] OTHER -> Turns([begun EXCEPT !.r = RefillWith(@, kernel)], u.tables, 0, h.n, h.n, kernel)
      legal == u.ok /\ pad.ok /\ ll.ok /\ of.ok /\ ml.ok
  IN IF legal
     THEN [ok |-> BitsRemaining(done.r) = 0, held |-> done.r.ok, tables |-> u.tables, hist |-> done.hist, out |-> done.out]
     ELSE [ok |-> FALSE, held |-> TRUE, tables |-> u.tables, hist |-> hist, out |-> << >>]
=============================================================================
