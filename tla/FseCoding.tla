----------------------------- MODULE FseCoding ------------------------------
(***************************************************************************)
(* Bit streams, and finite-state entropy coding over them: the tables both *)
(* ends derive from one distribution, the encoder and the decoder.         *)
(***************************************************************************)
EXTENDS Naturals, Integers, Sequences, TLC

(***************************************************************************)
(* The bit streams of a compressed block.  A stream is a sequence of bits, *)
(* the least significant bit of the first byte first.  BitWriter collects  *)
(* bits in a 64-bit accumulator and moves whole bytes to its output;       *)
(* BitBurst is the same accumulator without the checks; BitReaderReversed  *)
(* reads a stream from its last bit through a 64-bit container; BitReader  *)
(* reads one from its first bit.  "ok" turns false where the code asserts. *)
(***************************************************************************)

WordBits == 64

Min2(a, b) == IF a < b THEN a ELSE b
Max2(a, b) == IF a > b THEN a ELSE b
SatSub(a, b) == IF a > b THEN a - b ELSE 0
DivCeil(a, b) == (a + b - 1) \div b

Bits(v, n) == [i \in 1 .. n |-> (v \div 2 ^ (i - 1)) % 2]
Zeros(n) == [i \in 1 .. n |-> 0]
BytesToBits(b) == [i \in 1 .. 8 * Len(b) |-> (b[((i - 1) \div 8) + 1] \div 2 ^ ((i - 1) % 8)) % 2]

RECURSIVE Value(_)
Value(b) == IF b = << >> THEN 0 ELSE Head(b) + 2 * Value(Tail(b))

BitsToBytes(b) == [i \in 1 .. Len(b) \div 8 |-> Value(SubSeq(b, 8 * i - 7, 8 * i))]

RECURSIVE Log2(_)
Log2(n) == IF n <= 1 THEN 0 ELSE 1 + Log2(n \div 2)

(* The sum of f over a .. b, by halves: the histograms are long. *)
RECURSIVE SumOver(_, _, _)
SumOver(f, a, b) ==
  CASE a > b -> 0
    [] a = b -> f[a]
    [] OTHER -> LET m == (a + b) \div 2 IN SumOver(f, a, m) + SumOver(f, m + 1, b)

(***************************************************************************)
(* BitWriter                                                               *)
(***************************************************************************)
NewWriter == [output |-> << >>, partial |-> << >>, ok |-> TRUE]

Index(w) == Len(w.output) + Len(w.partial)

Misaligned(w) == (8 - (Index(w) % 8)) % 8

Flush(w) ==
  [w EXCEPT !.output = @ \o w.partial, !.partial = << >>, !.ok = @ /\ Len(w.partial) % 8 = 0]

(* write_bits_64_cold: the full accumulator, then the whole bytes of the rest. *)
WriteCold(w, all) ==
  LET kept == Len(all) % 8
  IN [w EXCEPT !.output = @ \o SubSeq(all, 1, Len(all) - kept),
               !.partial = SubSeq(all, Len(all) - kept + 1, Len(all))]

WriteBits(w, v, n) ==
  LET all == w.partial \o Bits(v, n)
      clean == [w EXCEPT !.ok = @ /\ n <= WordBits /\ (n >= 31 \/ v \in 0 .. (2 ^ n - 1))]
  IN CASE n = 0 -> w
       [] Len(all) < WordBits -> [clean EXCEPT !.partial = all]
       [] OTHER -> WriteCold(clean, all)

(* Fields one after the other, each a value v on n bits; by halves. *)
RECURSIVE WriteFields(_, _)
WriteFields(w, fields) ==
  LET m == Len(fields) \div 2
  IN CASE fields = << >> \/ ~w.ok -> w
       [] Len(fields) = 1 -> WriteBits(w, fields[1].v, fields[1].n)
       [] OTHER -> WriteFields(WriteFields(w, SubSeq(fields, 1, m)), SubSeq(fields, m + 1, Len(fields)))

(* append_bytes, and with_aligned_output_mut around a writer of its own. *)
AppendBits(w, b) ==
  LET f == Flush(w)
  IN [f EXCEPT !.output = @ \o b, !.ok = @ /\ Misaligned(w) = 0 /\ Len(b) % 8 = 0]

ResetTo(w, index) ==
  [w EXCEPT !.partial = << >>, !.output = SubSeq(@, 1, index), !.ok = @ /\ index % 8 = 0]

(* change_bits_64: the bits of a header written before its size was known. *)
ChangeBits(w, index, v, n) ==
  LET f == Flush(w)
      b == Bits(v, n)
  IN [f EXCEPT !.output = [i \in 1 .. Len(@) |->
                             IF i \in (index + 1) .. (index + n) THEN b[i - index] ELSE @[i]],
               !.ok = @ /\ index + n < Index(f)]

(* The end mark of a reversed stream: a one above the last bit. *)
EndMark(w) ==
  WriteBits(w, 1, IF Misaligned(w) = 0 THEN 8 ELSE Misaligned(w))

(***************************************************************************)
(* BitBurst: add never spills, flush moves the whole bytes.                *)
(***************************************************************************)
BurstFlush(w) == WriteCold(w, w.partial)

BurstAdd(w, v, n) ==
  [w EXCEPT !.partial = @ \o Bits(v, n),
            !.ok = @ /\ Len(w.partial) + n < WordBits /\ v \in 0 .. (2 ^ n - 1)]

(***************************************************************************)
(* BitReaderReversed                                                       *)
(***************************************************************************)
NewReader(source) ==
  [source |-> source, index |-> Len(source) \div 8, consumed |-> WordBits, extra |-> 0,
   container |-> Zeros(WordBits), ok |-> TRUE]

BitsRemaining(r) == r.index * 8 + (WordBits - r.consumed) - r.extra

LoadWord(source, index) == SubSeq(source, 8 * index + 1, 8 * index + WordBits)

ShiftedLeft(c, n) == IF n >= WordBits THEN Zeros(WordBits) ELSE Zeros(n) \o SubSeq(c, 1, WordBits - n)

(* refill_slow: the bytes that are left go to the top, zeros come in below. *)
RefillSlow(r) ==
  LET word == IF Len(r.source) >= WordBits THEN LoadWord(r.source, 0)
              ELSE r.source \o Zeros(WordBits - Len(r.source))
      left == IF r.index > 0 THEN r.consumed - 8 * r.index ELSE r.consumed
  IN [r EXCEPT !.container = ShiftedLeft(IF r.index > 0 THEN word ELSE @, left),
               !.index = 0, !.consumed = 0, !.extra = @ + left]

Refill(r) ==
  LET whole == r.consumed \div 8
  IN CASE r.index >= 8 \/ (whole > 0 /\ r.index >= whole) ->
            [r EXCEPT !.index = @ - whole, !.consumed = @ % 8,
                      !.container = LoadWord(r.source, r.index - whole)]
       [] whole = 0 -> r
       [] OTHER -> RefillSlow(r)

EnsureBits(r, n) == IF r.consumed + n > WordBits THEN Refill(r) ELSE r

PeekBits(r, n) ==
  IF n = 0 THEN 0
  ELSE Value(SubSeq(r.container, WordBits - r.consumed - n + 1, WordBits - r.consumed))

Consume(r, n) == [r EXCEPT !.consumed = @ + n, !.ok = @ /\ r.consumed + n <= WordBits]

(* A read, as the value and the reader after it. *)
GetBits(r, n) ==
  LET f == EnsureBits(r, n) IN [v |-> PeekBits(f, n), r |-> Consume(f, n)]

GetBitsUnchecked(r, n) ==
  IF r.consumed + n <= WordBits THEN [v |-> PeekBits(r, n), r |-> Consume(r, n)]
  ELSE [v |-> 0, r |-> [r EXCEPT !.ok = FALSE]]

GetBitsTriple(r, n1, n2, n3) ==
  LET f == IF n1 + n2 + n3 <= 56 THEN EnsureBits(r, n1 + n2 + n3) ELSE r
      a == GetBits(f, n1)
      b == GetBits(a.r, n2)
      c == GetBits(b.r, n3)
  IN [v1 |-> a.v, v2 |-> b.v, v3 |-> c.v, r |-> c.r]

(* A reader past the end mark: at most eight bits are skipped to find it. *)
RECURSIVE SkipPadding(_, _)
SkipPadding(r, skipped) ==
  LET g == GetBits(r, 1)
  IN IF g.v = 1 \/ skipped >= 8 THEN [r |-> g.r, ok |-> skipped < 8]
     ELSE SkipPadding(g.r, skipped + 1)

(***************************************************************************)
(* BitReader: n bits from bit "at" on, or Short.                           *)
(***************************************************************************)
Short == -1

ForwardBits(source, at, n) ==
  IF Len(source) - at < n THEN Short ELSE Value(SubSeq(source, at + 1, at + n))

(***************************************************************************)
(* Finite-state entropy coding: the tables both ends derive from one       *)
(* distribution, the encoder and the decoder.                              *)
(***************************************************************************)

(***************************************************************************)
(* The finite-state entropy tables: how counts become probabilities that   *)
(* sum to the table's size, how a description of them is written and read, *)
(* and the transition tables that the encoder and the decoder each build   *)
(* from them.  A distribution is a sequence p, p[s + 1] the probability of *)
(* the symbol s; -1 marks a symbol rarer than one state.                   *)
(*                                                                         *)
(* FixedBits is the code's 62: the fixed point that counts are scaled in,  *)
(* here small enough for TLC's integers and wide enough for the samples.   *)
(***************************************************************************)

CONSTANT FixedBits

Alphabet == 64    \* symbols are below it
AccLogOffset == 5
MaxEncoderLog == 9
EntryMaxAccuracyLog == 16

Slots(p) == IF p = -1 THEN 1 ELSE p
Sum(f) == SumOver(f, 1, Len(f))

(* The sequence f, its elements computed once. *)
Computed(f) == SubSeq(f, 1, Len(f))

(* The highest symbol that occurs, as a place in the sequence of counts. *)
RECURSIVE LastUsed(_, _)
LastUsed(counts, i) == IF i <= 1 \/ counts[i] > 0 THEN i ELSE LastUsed(counts, i - 1)
UpToLast(counts) == SubSeq(counts, 1, LastUsed(counts, Len(counts)))

(***************************************************************************)
(* optimal_table_log and normalize_counts                                  *)
(***************************************************************************)
MinTableLog(total, max_symbol) ==
  Min2(Log2(total) + 1, IF max_symbol = 0 THEN 2 ELSE Log2(max_symbol) + 2)

OptimalTableLog(max_log, total, max_symbol, minus) ==
  LET by_source == Min2(max_log, SatSub(Log2(total - 1), minus))
  IN Min2(Max2(Max2(by_source, MinTableLog(total, max_symbol)), 5), 12)

RestToBeat == <<0, 473195, 504333, 520860, 550000, 700000, 750000, 830000>>

(* A count's share of the table, rounded up past the rest to beat. *)
Proportion(count, step, scale) ==
  LET product == count * step
      share == product \div 2 ^ scale
      rest == product - share * 2 ^ scale
  IN IF share < 8 /\ rest > 2 ^ (scale - 20) * RestToBeat[share + 1] THEN share + 1 ELSE share

(* The states left over once the rare symbols have one each, and who shares *)
(* them: normalize_m2's assignment before the buckets.  -2: not yet.        *)
NotYet == -2

MinorityShares(counts, total, log, low_prob) ==
  LET low == total \div 2 ^ log
      one == (total * 3) \div 2 ^ (log + 1)
      first == [i \in 1 .. Len(counts) |->
                  CASE counts[i] = 0 -> 0
                    [] counts[i] # 0 /\ counts[i] <= low -> low_prob
                    [] counts[i] > low /\ counts[i] <= one -> 1
                    [] OTHER -> NotYet]
      Left(norm) == SumOver([i \in 1 .. Len(counts) |-> IF norm[i] = NotYet THEN counts[i] ELSE 0],
                            1, Len(counts))
      Given(norm) == SumOver([i \in 1 .. Len(counts) |-> IF norm[i] \in {0, NotYet} THEN 0 ELSE 1],
                             1, Len(counts))
      spare == 2 ^ log - Given(first)
      wider == (Left(first) * 3) \div (spare * 2)
      second == [i \in 1 .. Len(counts) |->
                   IF first[i] = NotYet /\ counts[i] <= wider THEN 1 ELSE first[i]]
      norm == IF spare > 0 /\ Left(first) \div spare > one THEN second ELSE first
  IN [norm |-> norm, left |-> Left(norm), given |-> Given(norm), spare |-> 2 ^ log - Given(norm)]

(* The last of the symbols that occur most (max_by_key keeps the last). *)
LastLargest(f) == CHOOSE i \in 1 .. Len(f) : \A j \in 1 .. Len(f) : f[j] < f[i] \/ (f[j] = f[i] /\ j <= i)
FirstLargest(f) == CHOOSE i \in 1 .. Len(f) : \A j \in 1 .. Len(f) : f[j] < f[i] \/ (f[j] = f[i] /\ j >= i)

(* The spare states one by one to the symbols that have some. *)
RECURSIVE RoundRobin(_, _, _)
RoundRobin(norm, i, spare) ==
  CASE spare = 0 -> norm
    [] norm[i] > 0 -> RoundRobin([norm EXCEPT ![i] = @ + 1], (i % Len(norm)) + 1, spare - 1)
    [] OTHER -> RoundRobin(norm, (i % Len(norm)) + 1, spare)

(* The buckets a running total crosses: the weight of each symbol not yet assigned. *)
RECURSIVE Buckets(_, _, _, _, _, _)
Buckets(norm, counts, i, total, r_step, bucket) ==
  IF i > Len(norm) THEN norm
  ELSE IF norm[i] # NotYet THEN Buckets(norm, counts, i + 1, total, r_step, bucket)
  ELSE LET end == total + counts[i] * r_step
       IN Buckets([norm EXCEPT ![i] = end \div bucket - total \div bucket], counts, i + 1, end, r_step, bucket)

NormalizeM2(counts, total, log, low_prob) ==
  LET m == MinorityShares(counts, total, log, low_prob)
      bucket == 2 ^ (FixedBits - log)
      mid == bucket \div 2 - 1
  IN CASE m.spare = 0 -> m.norm
       [] m.spare > 0 /\ m.given = Len(counts) -> [m.norm EXCEPT ![LastLargest(counts)] = @ + m.spare]
       [] m.spare > 0 /\ m.given < Len(counts) /\ m.left = 0 -> RoundRobin(m.norm, 1, m.spare)
       [] OTHER -> Buckets(m.norm, counts, 1, mid, (bucket * m.spare + mid) \div m.left, bucket)

(* counts ends with the last symbol that occurs. *)
NormalizeCounts(counts, total, log, use_low_prob) ==
  LET low_prob == IF use_low_prob THEN -1 ELSE 1
      scale == FixedBits - log
      step == 2 ^ FixedBits \div total
      low == total \div 2 ^ log
      norm == Computed([i \in 1 .. Len(counts) |->
                 CASE counts[i] = 0 -> 0
                   [] counts[i] # 0 /\ counts[i] <= low -> low_prob
                   [] OTHER -> Proportion(counts[i], step, scale)])
      largest == FirstLargest(Computed([i \in 1 .. Len(counts) |-> IF counts[i] <= low THEN 0 ELSE norm[i]]))
      still == 2 ^ log - Sum([i \in 1 .. Len(norm) |-> Slots(norm[i])])
  IN IF -still >= norm[largest] \div 2 THEN NormalizeM2(counts, total, log, low_prob)
     ELSE [norm EXCEPT ![largest] = @ + still]

(***************************************************************************)
(* The description of a distribution (write_ncount).  Remaining states set *)
(* the width of the next value; the small values take one bit less.        *)
(***************************************************************************)
NcountField(p, counter, log) ==
  LET remaining == 2 ^ log - counter + 1
      width == Log2(remaining) + 1
      low == 2 ^ width - 1 - remaining
      mask == 2 ^ (width - 1) - 1
  IN CASE p + 1 < low -> [v |-> p + 1, n |-> width - 1]
       [] p + 1 >= low /\ p + 1 > mask -> [v |-> p + 1 + low, n |-> width]
       [] OTHER -> [v |-> p + 1, n |-> width]

(* The zeros that follow a zero, in pairs of bits: three and more, then the rest. *)
RECURSIVE ZeroRun(_, _)
ZeroRun(probs, i) == IF i <= Len(probs) /\ probs[i] = 0 THEN 1 + ZeroRun(probs, i + 1) ELSE 0
ZeroFields(run) ==
  [i \in 1 .. (run \div 3) |-> [v |-> 3, n |-> 2]] \o << [v |-> run % 3, n |-> 2] >>

RECURSIVE NcountFields(_, _, _, _)
NcountFields(probs, i, counter, log) ==
  IF counter >= 2 ^ log THEN << >>
  ELSE LET run == IF probs[i] = 0 THEN ZeroRun(probs, i + 1) ELSE 0
       IN << NcountField(probs[i], counter, log) >>
          \o (IF probs[i] = 0 THEN ZeroFields(run) ELSE << >>)
          \o NcountFields(probs, i + 1 + run, counter + Slots(probs[i]), log)

WriteNcount(w, probs, log) ==
  LET written == WriteFields([w EXCEPT !.ok = @ /\ Index(w) % 8 = 0],
                             << [v |-> log - AccLogOffset, n |-> 4] >> \o NcountFields(probs, 1, 0, log))
  IN WriteBits(written, 0, Misaligned(written))

(* ncount_header_bits: what write_ncount will write, counted without writing. *)
RECURSIVE NcountBits(_, _, _, _)
NcountBits(probs, i, counter, log) ==
  IF counter >= 2 ^ log THEN 0
  ELSE LET remaining == 2 ^ log - counter + 1
           width == Log2(remaining) + 1
           run == ZeroRun(probs, i + 1)
       IN (IF probs[i] + 1 < 2 ^ width - 1 - remaining THEN width - 1 ELSE width)
          + (IF probs[i] = 0 THEN 2 * (run \div 3) + 2 ELSE 0)
          + NcountBits(probs, i + 1 + (IF probs[i] = 0 THEN run ELSE 0), counter + Slots(probs[i]), log)

NcountHeaderBits(probs, log) == 8 * DivCeil(4 + NcountBits(probs, 1, 0, log), 8)

(***************************************************************************)
(* The encoder's half of a finite-state table and the streams coded with   *)
(* it.  A table keeps arrays of every symbol: a rebuild in place clears    *)
(* the entries of the symbols that the former distribution held and the    *)
(* new one does not reach.                                                 *)
(***************************************************************************)

NoStates == [start |-> -1, probability |-> 0, bits |-> -1]
NoTransform == [nb |-> 0, find |-> 0]

(* shared: a prepared dictionary holds the table as well.  The state or the *)
(* symbol i has the place i + 1.                                            *)
BlankTable ==
  [size |-> 0, next |-> << >>, live |-> 0, shared |-> FALSE,
   states |-> Computed([i \in 1 .. Alphabet |-> NoStates]), tt |-> Computed([i \in 1 .. Alphabet |-> NoTransform])]

AccLog(t) == Log2(t.size)
SymbolProbability(t, s) == t.states[s + 1].probability
Probs(t) == Computed([i \in 1 .. t.live |-> t.states[i].probability])

Step(size) == (size \div 2) + (size \div 8) + 3

Before(a, b) == a[1] < b[1] \/ (a[1] = b[1] /\ a[2] < b[2])

(* Each symbol as often as it has states. *)
RECURSIVE Repeated(_, _)
Repeated(probs, i) ==
  IF i > Len(probs) THEN << >>
  ELSE [k \in 1 .. Max2(probs[i], 0) |-> i - 1] \o Repeated(probs, i + 1)

(* The rarest symbols from the top down, in symbol order. *)
Rare(probs) ==
  LET syms == SelectSeq([i \in 1 .. Len(probs) |-> i], LAMBDA i : probs[i] = -1)
  IN [k \in 1 .. Len(syms) |-> syms[k] - 1]

(* The symbol of each state: the walk by Step over the states below the    *)
(* rare ones meets each once, and comes back to zero.                      *)
Spread(probs, size) ==
  LET rare == Rare(probs)
      walk == SelectSeq([k \in 1 .. size |-> ((k - 1) * Step(size)) % size],
                        LAMBDA u : u <= size - 1 - Len(rare))
      many == Repeated(probs, 1)
      placed == [k \in 1 .. Min2(Len(many), Len(walk)) |-> <<walk[k], many[k]>>]
                \o [k \in 1 .. Len(rare) |-> <<size - k, rare[k]>>]
  IN SortSeq(placed, Before)

(* state_table_flat: the states of each symbol in order, symbol after symbol. *)
Scatter(spread) ==
  LET sorted == SortSeq([k \in 1 .. Len(spread) |-> <<spread[k][2], spread[k][1]>>], Before)
  IN Computed([i \in 1 .. Len(sorted) |-> sorted[i][2]])

(* One symbol's transform, "total" states of lower symbols before it. *)
Transform(p, total, log) ==
  LET out == log - Log2(Max2(p - 1, 1))
  IN CASE p = 0 -> [nb |-> SatSub((log + 1) * 65536, 2 ^ log), find |-> 0]
       [] p \in {-1, 1} -> [nb |-> SatSub(log * 65536, 2 ^ log), find |-> total - 1]
       [] OTHER -> [nb |-> SatSub(out * 65536, p * 2 ^ out), find |-> total - p]

(* The state a stream whose last symbol is this one starts in. *)
StartState(tt, next) ==
  LET out == (tt.nb + 32768) \div 65536
  IN next[(SatSub(out * 65536, tt.nb) \div 2 ^ out) + tt.find + 1]

States(p, tt, next, size) ==
  IF p = 0 THEN [NoStates EXCEPT !.probability = 0]
  ELSE [start |-> StartState(tt, next), probability |-> p, bits |-> (2 * size - 1 + tt.nb) \div 65536]

RECURSIVE Totals(_, _, _)
Totals(probs, i, total) ==
  IF i > Len(probs) THEN << >> ELSE <<total>> \o Totals(probs, i + 1, total + Slots(probs[i]))

(* build_table_from_probabilities_into: "out" is the table whose memory is used. *)
BuildTable(probs, log, out) ==
  LET size == 2 ^ log
      next == Scatter(Spread(probs, size))
      totals == Totals(probs, 1, 0)
      tt == Computed([i \in 1 .. Len(probs) |-> Transform(probs[i], totals[i], log)])
      Kept(i, blank, old) == IF i <= out.live THEN blank ELSE old
  IN [size |-> size, next |-> next, live |-> Len(probs), shared |-> FALSE,
      tt |-> Computed([i \in 1 .. Alphabet |-> IF i <= Len(probs) THEN tt[i] ELSE Kept(i, NoTransform, out.tt[i])]),
      states |-> Computed([i \in 1 .. Alphabet |-> IF i <= Len(probs) THEN States(probs[i], tt[i], next, size)
                                                  ELSE Kept(i, NoStates, out.states[i])])]

(* build_table_from_counts_into *)
CountsTable(counts, max_log, low_prob, out) ==
  LET total == Sum(counts)
      last == LastUsed(counts, Len(counts))
      log == OptimalTableLog(max_log, total, last - 1, 2)
      norm == NormalizeCounts(SubSeq(counts, 1, last), total, log, low_prob)
  IN BuildTable([i \in 1 .. Len(counts) |-> IF i <= last THEN norm[i] ELSE 0], log, out)

(* build_seq_ctable_into: the last sequence's code is carried by the start  *)
(* state, so one of its occurrences is not counted.                         *)
SeqTable(counts, max_log, last_code, out) ==
  LET total == Sum(counts)
      adjust == counts[last_code + 1] > 1
      adjusted == IF adjust THEN [counts EXCEPT ![last_code + 1] = @ - 1] ELSE counts
      norm_total == IF adjust THEN total - 1 ELSE total
      last == LastUsed(counts, Len(counts))
      log == OptimalTableLog(max_log, total, last - 1, 2)
  IN BuildTable(NormalizeCounts(SubSeq(adjusted, 1, last), norm_total, log, norm_total >= 2048), log, out)

(* fse_header_bits_for_counts *)
HeaderBitsForCounts(counts, max_log, low_prob) ==
  LET total == Sum(counts)
      last == LastUsed(counts, Len(counts))
      log == OptimalTableLog(max_log, total, last - 1, 2)
  IN NcountHeaderBits(NormalizeCounts(SubSeq(counts, 1, last), total, log, low_prob), log)

TableHeaderBits(t) == NcountHeaderBits(Probs(t), AccLog(t))
WriteTable(w, t) == WriteNcount(w, Probs(t), AccLog(t))

(***************************************************************************)
(* Coding.  A state is an index below the table's size; leaving it for a   *)
(* symbol writes its low bits.                                             *)
(***************************************************************************)
NextState(t, symbol, state) ==
  LET value == t.size + state
      nb == (value + t.tt[symbol + 1].nb) \div 65536
      slot == (value \div 2 ^ nb) + t.tt[symbol + 1].find
  IN IF slot \in 0 .. (t.size - 1) THEN [nb |-> nb, index |-> t.next[slot + 1]] ELSE [nb |-> -1, index |-> 0]

TransitionBits(state, nb) == state % 2 ^ nb

(* SequenceStateTables: a stream of one repeated symbol has one state. *)
RleTable == [BlankTable EXCEPT !.size = 1, !.next = << 0 >>,
                               !.tt = Computed([i \in 1 .. Alphabet |-> [nb |-> 0, find |-> -1]])]

(* The writer and the two states of an interleaved stream. *)
EncodeSymbol(w, t, state, symbol) ==
  LET n == NextState(t, symbol, state)
  IN [w |-> IF n.nb = -1 THEN [w EXCEPT !.ok = FALSE] ELSE WriteBits(w, TransitionBits(state, n.nb), n.nb),
      state |-> n.index]

EncodePair(s, t, data, ip) ==
  LET a == EncodeSymbol(s.w, t, s.s2, data[ip])
      b == EncodeSymbol(a.w, t, s.s1, data[ip - 1])
  IN [w |-> b.w, s1 |-> b.state, s2 |-> a.state]

(* n pairs from data[ip] down; by halves. *)
RECURSIVE EncodePairs(_, _, _, _, _)
EncodePairs(s, t, data, ip, n) ==
  CASE n = 0 \/ ~s.w.ok -> s
    [] n = 1 /\ s.w.ok -> EncodePair(s, t, data, ip)
    [] OTHER -> LET m == n \div 2
                IN EncodePairs(EncodePairs(s, t, data, ip, m), t, data, ip - 2 * m, n - m)

(* encode_interleaved: the table, the symbols from the last, the states, the mark. *)
EncodeInterleaved(w, t, data) ==
  LET n == Len(data)
      odd == n % 2 = 1
      Start(i) == t.states[data[i] + 1].start
      head == WriteTable(w, t)
      first == EncodeSymbol(head, t, Start(n), data[n - 2])
      done == IF odd THEN EncodePairs([w |-> first.w, s1 |-> first.state, s2 |-> Start(n - 1)],
                                      t, data, n - 3, (n - 3) \div 2)
              ELSE EncodePairs([w |-> head, s1 |-> Start(n - 1), s2 |-> Start(n)],
                               t, data, n - 2, (n - 2) \div 2)
      states == WriteFields(done.w, << [v |-> done.s2, n |-> AccLog(t)], [v |-> done.s1, n |-> AccLog(t)] >>)
  IN EndMark(states)

(***************************************************************************)
(* The decoder's half: a description is read back to probabilities, and    *)
(* the states are spread with the decoder's own two loops.  A failed build *)
(* leaves the table with no states.                                        *)
(***************************************************************************)

(* decode[i + 1] is the state i; probs is what the states were built from. *)
EmptyDecoder(max_symbol) ==
  [max_symbol |-> max_symbol, log |-> 0, probs |-> << >>, decode |-> << >>]

ResetDecoder(t) == EmptyDecoder(t.max_symbol)

(* reinit_from: another table's states, without what they were built from. *)
ReinitFrom(t, other) ==
  [ResetDecoder(t) EXCEPT !.decode = other.decode, !.log = other.log]

(***************************************************************************)
(* read_probabilities: "at" counts bits; Fail stands for any error.        *)
(***************************************************************************)
Fail == [ok |-> FALSE, probs |-> << >>, log |-> 0, bytes |-> 0]

(* The run of zeros after a zero: how many more, and the bits they took. *)
RECURSIVE ReadZeros(_, _, _)
ReadZeros(source, at, zeros) ==
  LET skip == ForwardBits(source, at, 2)
  IN CASE skip = Short -> [zeros |-> Short, at |-> at]
       [] skip = 3 -> ReadZeros(source, at + 2, zeros + 3)
       [] OTHER -> [zeros |-> zeros + skip, at |-> at + 2]

(* One value: its width from what remains, one bit given back when small. *)
ReadValue(source, at, counter, log) ==
  LET remaining == 2 ^ log - counter + 1
      width == Log2(remaining) + 1
      raw == ForwardBits(source, at, width)
      low == 2 ^ width - 1 - remaining
      mask == 2 ^ (width - 1) - 1
      small == raw % 2 ^ (width - 1)
  IN CASE raw = Short -> [v |-> Short, at |-> at]
       [] raw # Short /\ small < low -> [v |-> small, at |-> at + width - 1]
       [] raw # Short /\ small >= low /\ raw > mask -> [v |-> raw - low, at |-> at + width]
       [] OTHER -> [v |-> raw, at |-> at + width]

RECURSIVE ReadProbs(_, _, _, _, _, _)
ReadProbs(source, at, counter, log, max_symbol, probs) ==
  IF counter >= 2 ^ log
  THEN IF counter = 2 ^ log THEN [ok |-> TRUE, probs |-> probs, log |-> log, bytes |-> DivCeil(at, 8)] ELSE Fail
  ELSE LET r == ReadValue(source, at, counter, log)
           z == ReadZeros(source, r.at, 0)
       IN CASE r.v = Short \/ Len(probs) > max_symbol -> Fail
            [] r.v # Short /\ Len(probs) <= max_symbol /\ r.v # 1 ->
                 ReadProbs(source, r.at, counter + Slots(r.v - 1), log, max_symbol, Append(probs, r.v - 1))
            [] OTHER -> IF z.zeros = Short \/ Len(probs) + 1 + z.zeros > max_symbol + 1 THEN Fail
                        ELSE ReadProbs(source, z.at, counter, log, max_symbol, probs \o Zeros(1 + z.zeros))

ReadProbabilities(source, max_log, max_symbol) ==
  LET log == AccLogOffset + ForwardBits(source, 0, 4)
  IN IF ForwardBits(source, 0, 4) = Short \/ log > Min2(max_log, EntryMaxAccuracyLog) THEN Fail
     ELSE ReadProbs(source, 4, 0, log, max_symbol, << >>)

(***************************************************************************)
(* build_decoding_table_inner                                              *)
(***************************************************************************)
(* Two states a turn when no symbol is rare; else the walk skips the rare ones. *)
FastSpread(probs, size) ==
  LET in_order == Repeated(probs, 1)
      Pair(s) == ((s \div 2) * (2 * Step(size))) % size
      At(s) == IF s % 2 = 0 THEN Pair(s) ELSE (Pair(s) + Step(size)) % size
  IN SortSeq([s \in 1 .. size |-> <<At(s - 1), in_order[s]>>], Before)

RECURSIVE NextFree(_, _, _)
NextFree(position, size, limit) ==
  LET p == (position + Step(size)) % size IN IF p >= limit THEN NextFree(p, size, limit) ELSE p

(* w is [position, out]; by halves. *)
RECURSIVE SlowWalk(_, _, _, _, _, _)
SlowWalk(w, many, i, n, size, limit) ==
  CASE n = 0 \/ w.position >= size -> w
    [] n = 1 /\ w.position < size ->
         [position |-> NextFree(w.position, size, limit), out |-> Append(w.out, <<w.position, many[i]>>)]
    [] OTHER -> SlowWalk(SlowWalk(w, many, i, n \div 2, size, limit), many, i + n \div 2, n - n \div 2, size, limit)

DecoderSpread(probs, size) ==
  LET rare == Rare(probs)
      limit == size - Len(rare)
  IN IF rare = << >> THEN FastSpread(probs, size)
     ELSE SortSeq(SlowWalk([position |-> 0, out |-> << >>], Repeated(probs, 1), 1, limit, size, limit).out
                  \o [k \in 1 .. Len(rare) |-> <<size - k, rare[k]>>], Before)

(* The base value and extra bits of a symbol: from a packed list, or an offset's code. *)
NoMeta == << >>
SymbolMeta(meta, offsets, s) ==
  CASE offsets -> IF s < 32 THEN [base |-> 2 ^ s, extra |-> s] ELSE [base |-> 0, extra |-> 0]
    [] ~offsets /\ s < Len(meta) -> meta[s + 1]
    [] OTHER -> [base |-> 0, extra |-> 0]

(* The next states of a symbol count up from its probability. *)
Entry(symbol, next, log, size, meta, offsets) ==
  LET nb == log - Log2(next)
      m == SymbolMeta(meta, offsets, symbol)
  IN [symbol |-> symbol, nb |-> nb, new |-> next * 2 ^ nb - size, base |-> m.base, extra |-> m.extra]

(* e is [counters, out]; by halves. *)
RECURSIVE Entries(_, _, _, _, _, _, _)
Entries(e, spread, i, n, log, meta, offsets) ==
  LET s == spread[i][2]
  IN CASE n = 0 \/ e.counters = << >> -> e
       [] n = 1 /\ e.counters # << >> ->
            [counters |-> [e.counters EXCEPT ![s] = @ + 1],
             out |-> Append(e.out, Entry(s, e.counters[s], log, 2 ^ log, meta, offsets))]
       [] OTHER -> Entries(Entries(e, spread, i, n \div 2, log, meta, offsets),
                           spread, i + n \div 2, n - n \div 2, log, meta, offsets)

BuildDecodingTable(t, probs, log, meta, offsets) ==
  LET size == 2 ^ log
      spread == DecoderSpread(probs, size)
      entries == Entries([counters |-> [s \in 0 .. (Len(probs) - 1) |-> Slots(probs[s + 1])], out |-> << >>],
                         spread, 1, size, log, meta, offsets).out
  IN IF Len(probs) > t.max_symbol + 1 \/ (\E i \in 1 .. Len(entries) : entries[i].nb \notin 0 .. log)
     THEN ResetDecoder(t)
     ELSE [t EXCEPT !.log = log, !.probs = probs, !.decode = entries]

(* build_from_probabilities: the checks on a distribution that is not read. *)
FromProbabilities(t, log, probs, meta, offsets) ==
  LET legal == /\ log \in 1 .. EntryMaxAccuracyLog
               /\ Len(probs) <= t.max_symbol + 1
               /\ \A i \in 1 .. Len(probs) : probs[i] \in -1 .. 2 ^ log
               /\ Sum([i \in 1 .. Len(probs) |-> Slots(probs[i])]) = 2 ^ log
  IN IF legal THEN BuildDecodingTable(t, probs, log, meta, offsets) ELSE t

(* build_decoder_fused: the table, and the bytes its description took.  The *)
(* caller stops on an error (0 bytes) and uses no table of the frame again. *)
BuildDecoder(t, source, max_log, meta, offsets) ==
  LET read == ReadProbabilities(source, max_log, t.max_symbol)
  IN [table |-> IF read.ok THEN BuildDecodingTable(t, read.probs, read.log, meta, offsets) ELSE t,
      bytes |-> read.bytes]

(* build_rle, then the symbol's base value and extra bits. *)
BuildRle(t, symbol, meta, offsets) ==
  LET m == SymbolMeta(meta, offsets, symbol)
  IN [ResetDecoder(t) EXCEPT
        !.decode = << [symbol |-> symbol, nb |-> 0, new |-> 0, base |-> m.base, extra |-> m.extra] >>]

(* to_encoder_table: the tables of a dictionary, for an encoder (size 0: none). *)
ToEncoderTable(t) ==
  IF t.log = 0 \/ t.probs = << >> \/ t.log > MaxEncoderLog THEN BlankTable
  ELSE BuildTable(t.probs, t.log, BlankTable)

(***************************************************************************)
(* The decoder's states                                                    *)
(***************************************************************************)
InitState(t, r) ==
  LET g == GetBits(r, t.log)
      usable == Len(t.decode) = 2 ^ t.log
  IN IF usable THEN [ok |-> TRUE, state |-> t.decode[g.v + 1], r |-> g.r]
     ELSE [ok |-> FALSE, state |-> [symbol |-> 0, nb |-> 0, new |-> 0, base |-> 0, extra |-> 0], r |-> r]

UpdateState(t, state, r) ==
  LET g == GetBitsUnchecked(r, state.nb)
  IN [state |-> t.decode[state.new + g.v + 1], r |-> g.r]
=============================================================================
