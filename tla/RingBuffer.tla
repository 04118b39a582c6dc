----------------------------- MODULE RingBuffer -----------------------------
(***************************************************************************)
(* The decoder's output ring, src/zstd/src/decoding/ringbuffer.rs.         *)
(*                                                                         *)
(* buf is the allocation of `cap` cells, head and tail the read and write  *)
(* cursors; one cell always stays free so that head = tail means empty.    *)
(* A cell holds a byte of the output, or Junk: an allocation's zero fill,  *)
(* or what a copy kernel stored past the bytes it was asked for.  mark is  *)
(* the (tail, cap) pair a block's executor keeps for its rollback          *)
(* (DecodeBuffer::checkpoint), with the length it stands for.              *)
(***************************************************************************)
EXTENDS Integers, Sequences

CONSTANTS Byte,        \* the values of an output byte
          Junk,        \* a cell that holds no output byte
          MaxWrite,    \* the most one write asks room for: the block maximum
          Overshoot,   \* how far a copy kernel may store past its request
          Limits,      \* the growth limits a frame may set
          MaxShift,    \* the largest power of two a usize holds
          MaxCap,      \* bound: the largest capacity a run explores
          MaxUsize     \* "no limit" (usize::MAX)

ASSUME RingAssumption ==
  /\ Junk \notin Byte
  /\ MaxWrite \in Nat \ {0}
  /\ Overshoot \in Nat
  /\ MaxShift \in Nat
  /\ MaxCap \in Nat
  /\ MaxUsize \in Nat
  /\ MaxCap + MaxWrite < MaxUsize
  \* A frame's limit is its window plus a block, so it covers any one write.
  /\ Limits \subseteq MaxWrite .. MaxUsize

VARIABLES buf, cap, head, tail, max_capacity, growth_limit, mark

vars == <<buf, cap, head, tail, max_capacity, growth_limit, mark>>

Cell == Byte \cup {Junk}

NoMark == [tail |-> 0, cap |-> MaxUsize, len |-> 0]

Min2(a, b) == IF a <= b THEN a ELSE b

-----------------------------------------------------------------------------
(* Index arithmetic.                                                       *)

wrap(x, c) == IF x >= c THEN x - c ELSE x

\* data_slice_lengths: the two runs of live bytes, [head, ..) and [0, ..).
data_slice_lengths(h, t, c) ==
  IF t >= h THEN <<t - h, 0>> ELSE <<c - h, t>>

len(h, t, c) == data_slice_lengths(h, t, c)[1] + data_slice_lengths(h, t, c)[2]

\* free_slice_lengths: the free cells before head, and those from tail on.
free_slice_lengths(h, t, c) ==
  IF t < h THEN <<0, h - t>> ELSE <<h, c - t>>

free(h, t, c) ==
  LET x == free_slice_lengths(h, t, c)[1] + free_slice_lengths(h, t, c)[2]
  IN  IF x = 0 THEN 0 ELSE x - 1

Length == len(head, tail, cap)
Free   == free(head, tail, cap)

\* The i-th live byte (RingBuffer::get).
At(i) == buf[wrap(head + i, cap)]

-----------------------------------------------------------------------------
(* Growth: reserve, try_reserve and reserve_amortized.                     *)

PowersOfTwo == {p \in 1 .. MaxUsize : \E k \in 0 .. MaxShift : p = 2^k}

\* next_power_of_two, as a set that is empty when it would overflow.
next_power_of_two(n) ==
  {p \in PowersOfTwo : n <= p /\ \A q \in PowersOfTwo : n <= q => p <= q}

\* The capacity reserve_amortized(shortfall) reallocates to.
reserve_amortized(shortfall, limit) ==
  LET needed == cap + shortfall
  IN  {1 + (IF needed - 1 <= limit THEN Min2(doubled, limit) ELSE doubled) :
         doubled \in next_power_of_two(needed)}

\* The two tests that let reserve(n) return without growing.
HasRoom(n) ==
  \/ head <= tail /\ n < cap - tail
  \/ Free >= n

\* The capacities reserve(n) may leave, none if the run's bound is passed.
ReservedCaps(n, limit) ==
  IF HasRoom(n) THEN {cap} ELSE reserve_amortized(n - Free, limit) \cap (1 .. MaxCap)

\* What a reallocation leaves: the live bytes at the front of zeroed cells.
headIn(c) == IF c = cap THEN head ELSE 0
tailIn(c) == IF c = cap THEN tail ELSE Length

\* Mutant of bufIn: the reallocation copies the second live run before the first.
bufIn_swapped(c) ==
  LET s2 == data_slice_lengths(head, tail, cap)[2]
  IN  IF c = cap THEN buf
      ELSE [i \in 0 .. c - 1 |->
              IF i < s2 THEN buf[i]
              ELSE IF i < Length THEN At(i - s2) ELSE Junk]

bufIn(c)  == IF c = cap THEN buf
             ELSE [i \in 0 .. c - 1 |-> IF i < Length THEN At(i) ELSE Junk]

-----------------------------------------------------------------------------
(* Writing n cells at tail t of a ring b with head h and capacity c: what  *)
(* fits up to the end of the first free run, the rest from cell 0.         *)

inF1(h, t, c, n) == Min2(n, free_slice_lengths(h, t, c)[2])

Put(b, h, t, c, n, src) ==
  LET n1 == inF1(h, t, c, n)
  IN  [i \in 0 .. c - 1 |->
         IF i >= t /\ i < t + n1 THEN src[i - t]
         ELSE IF i < n - n1      THEN src[n1 + i]
         ELSE b[i]]

\* A kernel's stores past a copy's last cell lo, never past hi.
Spill(b, c, lo, hi) ==
  [i \in 0 .. c - 1 |->
     IF i >= lo /\ i < hi /\ i < lo + Overshoot THEN Junk ELSE b[i]]

-----------------------------------------------------------------------------
Init ==
  /\ buf = [i \in 0 .. -1 |-> Junk]
  /\ cap = 0
  /\ head = 0
  /\ tail = 0
  /\ max_capacity = MaxUsize
  /\ growth_limit \in Limits
  /\ mark = NoMark

\* extend(data); push_back is the one-byte case.
Extend(data) ==
  /\ Len(data) \in 1 .. MaxWrite
  /\ UNCHANGED <<max_capacity, growth_limit, mark>>
  /\ \E c \in ReservedCaps(Len(data), growth_limit) :
       /\ cap' = c
       /\ head' = headIn(c)
       /\ tail' = wrap(tailIn(c) + Len(data), c)
       /\ buf' = Put(bufIn(c), headIn(c), tailIn(c), c, Len(data),
                     [k \in 0 .. Len(data) - 1 |-> data[k + 1]])

\* extend_and_fill(b, n).
ExtendAndFill(b, n) ==
  /\ n \in 1 .. MaxWrite
  /\ UNCHANGED <<max_capacity, growth_limit, mark>>
  /\ \E c \in ReservedCaps(n, growth_limit) :
       /\ cap' = c
       /\ head' = headIn(c)
       /\ tail' = wrap(tailIn(c) + n, c)
       /\ buf' = Put(bufIn(c), headIn(c), tailIn(c), c, n, [k \in 0 .. n - 1 |-> b])

\* extend_from_reader when the reader ends after `got` < n bytes: cells of
\* the free runs were zeroed and partly filled, the tail did not move.
ExtendFromReaderFails(n, got) ==
  /\ n \in 1 .. MaxWrite
  /\ got \in 0 .. n - 1
  /\ UNCHANGED <<max_capacity, growth_limit, mark>>
  /\ \E c \in ReservedCaps(n, growth_limit) :
       LET h == headIn(c)
           t == tailIn(c)
           n1 == inF1(h, t, c, n)
           touched == IF got < n1 THEN n1 ELSE n
       IN  /\ cap' = c
           /\ head' = h
           /\ tail' = t
           /\ buf' = Put(bufIn(c), h, t, c, touched,
                         [k \in 0 .. touched - 1 |-> Junk])

\* reserve(n): room for n more bytes.
Reserve(n) ==
  /\ n \in 1 .. MaxWrite
  /\ UNCHANGED <<max_capacity, growth_limit, mark>>
  /\ \E c \in ReservedCaps(n, growth_limit) :
       /\ cap' = c
       /\ head' = headIn(c)
       /\ tail' = tailIn(c)
       /\ buf' = bufIn(c)

\* try_reserve(n): refused (and without effect) past the ceiling.
TryReserve(n) ==
  /\ Length + n <= max_capacity
  /\ Reserve(n)

\* DecoderScratchKind::reserve_buffer: room for `target` live bytes in all,
\* reserved under a limit of exactly that, then the frame's own limit.
ReserveBuffer(target, limit) ==
  /\ target <= limit
  /\ limit \in Limits
  /\ growth_limit' = limit
  /\ UNCHANGED <<max_capacity, mark>>
  /\ \E c \in ReservedCaps(IF target > Length THEN target - Length ELSE 0, target) :
       /\ cap' = c
       /\ head' = headIn(c)
       /\ tail' = tailIn(c)
       /\ buf' = bufIn(c)

\* extend_from_within_unchecked(start, n), its contract as the guard.  The
\* source and the destination wrap in different places, so the three shapes of
\* the ring copy in different pieces.
srcCell(start, k) ==
  IF head < tail THEN head + start + k
  ELSE IF head + start >= cap THEN wrap(head + start, cap) + k
  ELSE IF k < cap - head - start THEN head + start + k
  ELSE k - (cap - head - start)

ExtendFromWithin(start, n) ==
  /\ start + n <= Length
  /\ n \in 1 .. Free
  /\ tail' = wrap(tail + n, cap)
  /\ UNCHANGED <<cap, head, max_capacity, growth_limit, mark>>
  /\ LET put == Put(buf, head, tail, cap, n,
                    [k \in 0 .. n - 1 |-> buf[srcCell(start, k)]])
         n1  == inF1(head, tail, cap, n)
     IN  buf' = IF head < tail
                THEN IF n1 = n
                     THEN Spill(put, cap, tail + n, cap)
                     ELSE Spill(put, cap, n - n1, head)
                ELSE Spill(put, cap, tail + n, head)

\* extend_from_within_unchecked_branchless: the match split over the two live
\* runs (m1, m2), each of them over the two free runs (f1, f2).
MatchSplit(start, n) ==
  LET s1    == data_slice_lengths(head, tail, cap)[1]
      m1    == Min2(s1, start + n) - Min2(s1, start)
      f1    == free_slice_lengths(head, tail, cap)[2]
      m1_f1 == Min2(m1, f1)
      m2_f1 == Min2(f1 - m1_f1, n - m1)
  IN  [m1_in_f1 |-> m1_f1, m2_in_f1 |-> m2_f1,
       m1_in_f2 |-> m1 - m1_f1, m2_in_f2 |-> n - m1 - m2_f1]

\* copy_with_nobranch_check: the k-th byte stored comes from m1 while that
\* lasts; into f1 go m1_in_f1 then m2_in_f1, into f2 m1_in_f2 then m2_in_f2.
BranchlessSource(start, n, k) ==
  LET m  == MatchSplit(start, n)
      s1 == data_slice_lengths(head, tail, cap)[1]
      \* start.saturating_sub(s1_len)
      start2 == IF start > s1 THEN start - s1 ELSE 0
      from1(j) == head + Min2(s1, start) + j
      from2(j) == start2 + j
  IN  IF k < m.m1_in_f1 THEN from1(k)
      ELSE IF k < m.m1_in_f1 + m.m2_in_f1 THEN from2(k - m.m1_in_f1)
      ELSE IF k < m.m1_in_f1 + m.m2_in_f1 + m.m1_in_f2 THEN from1(k - m.m2_in_f1)
      ELSE from2(k - m.m1_in_f1 - m.m1_in_f2)

ExtendFromWithinBranchless(start, n) ==
  /\ start + n <= Length
  /\ n \in 1 .. Free
  /\ tail' = wrap(tail + n, cap)
  /\ UNCHANGED <<cap, head, max_capacity, growth_limit, mark>>
  /\ buf' = Put(buf, head, tail, cap, n,
                [k \in 0 .. n - 1 |-> buf[BranchlessSource(start, n, k)]])

\* inline_exec_dict_ok: a sequence of ll + ml bytes and its overshoot stay
\* short of the end of the free run, and within the block's ceiling.
inline_exec_dict_ok(ll, ml) ==
  /\ IF head <= tail THEN tail + ll + ml + Overshoot < cap
                     ELSE tail + ll + ml + Overshoot < head
  /\ Length + ll + ml <= max_capacity

\* inline_exec_ok: and the match source is one run of cells.
inline_exec_ok(ll, ml, offset) ==
  /\ inline_exec_dict_ok(ll, ml)
  /\ head <= tail \/ offset <= tail + ll

\* The overlapping copies: a match longer than its offset repeats the `offset`
\* bytes before it.
matchPhase(k, offset) == k % offset

\* exec_sequence_inline: the k-th byte stored is a literal, or the byte `offset`
\* back, which may itself be a literal just stored.
InlineByte(lits, offset, k) ==
  LET ll == Len(lits)
      p  == tail + ll - offset + matchPhase(k - ll, offset)
  IN  IF k < ll THEN lits[k + 1]
      ELSE IF p < tail THEN buf[p]
      ELSE lits[p - tail + 1]

ExecSequenceInline(lits, offset, ml) ==
  LET n == Len(lits) + ml
  IN  /\ ml >= 1
      /\ tail' = wrap(tail + n, cap)
      /\ UNCHANGED <<cap, head, max_capacity, growth_limit, mark>>
      /\ offset \in 1 .. Length + Len(lits)
      /\ inline_exec_ok(Len(lits), ml, offset)
      /\ buf' = Spill(Put(buf, head, tail, cap, n,
                          [k \in 0 .. n - 1 |-> InlineByte(lits, offset, k)]),
                      cap, tail + n, cap)

\* drop_first_n(n).  No rollback point outlives a drain.
DropFirstN(n) ==
  /\ n \in 1 .. Length
  /\ head' = wrap(head + n, cap)
  /\ mark' = NoMark
  /\ UNCHANGED <<buf, cap, tail, max_capacity, growth_limit>>

\* DecodeBuffer::reset: a new frame clears the ring and sets its limits.
Reset(limit) ==
  /\ head' = 0
  /\ tail' = 0
  /\ max_capacity' = MaxUsize
  /\ growth_limit' = limit
  /\ mark' = NoMark
  /\ UNCHANGED <<buf, cap>>

\* set_block_output_ceiling, then checkpoint: a block's sequences begin.
ArmBlock ==
  /\ max_capacity' = Length + MaxWrite
  /\ mark' = [tail |-> tail, cap |-> cap, len |-> Length]
  /\ UNCHANGED <<buf, cap, head, tail, growth_limit>>

\* try_restore_checkpoint: refused (and without effect) after a reallocation.
RestoreCheckpoint ==
  /\ mark # NoMark
  /\ mark.cap = cap
  /\ tail' = mark.tail
  /\ mark' = NoMark
  /\ UNCHANGED <<buf, cap, head, max_capacity, growth_limit>>

Data == UNION {[1 .. n -> Byte] : n \in 0 .. MaxWrite}

Next ==
  \/ \E data \in Data : Extend(data)
  \/ \E b \in Byte, n \in 1 .. MaxWrite : ExtendAndFill(b, n)
  \/ \E n \in 1 .. MaxWrite, got \in 0 .. MaxWrite : ExtendFromReaderFails(n, got)
  \/ \E n \in 1 .. MaxWrite : Reserve(n)
  \/ \E n \in 1 .. MaxWrite : TryReserve(n)
  \/ \E limit \in Limits : \E target \in 0 .. limit : ReserveBuffer(target, limit)
  \/ \E start \in 0 .. Length, n \in 1 .. Free : ExtendFromWithin(start, n)
  \/ \E start \in 0 .. Length, n \in 1 .. Free : ExtendFromWithinBranchless(start, n)
  \/ \E lits \in Data, offset \in 1 .. Length + MaxWrite, ml \in 1 .. MaxWrite :
       ExecSequenceInline(lits, offset, ml)
  \/ \E n \in 1 .. Length : DropFirstN(n)
  \/ \E limit \in Limits : Reset(limit)
  \/ ArmBlock
  \/ RestoreCheckpoint

Spec == Init /\ [][Next]_vars

-----------------------------------------------------------------------------
(* Properties.                                                             *)

\* Every variable has its type, the cursors lie inside the allocation (both 0
\* while there is none), and the allocation has exactly `cap` cells.
TypeOK ==
  /\ cap \in Nat
  /\ buf \in [0 .. cap - 1 -> Cell]
  /\ head \in Nat /\ tail \in Nat
  /\ IF cap = 0 THEN head = 0 /\ tail = 0 ELSE head < cap /\ tail < cap
  /\ max_capacity \in Nat
  /\ growth_limit \in Limits
  /\ mark \in [tail : Nat, cap : Nat, len : Nat]

\* No live cell is one nobody wrote output to: neither the zero fill of a new
\* allocation, nor the stores a copy kernel makes past its request, nor what a
\* failed read left behind ever becomes part of the output.
LiveBytesWritten == \A i \in 0 .. Length - 1 : At(i) \in Byte

\* A rollback point whose allocation still stands denotes a prefix of the live
\* bytes, of the length at the checkpoint (set_tail's contract), and equal
\* capacities do mean that it still stands.
MarkDenotesPrefix ==
  mark # NoMark =>
    /\ mark.cap <= cap
    /\ mark.cap = cap => /\ mark.len <= Length
                         /\ mark.tail = wrap(head + mark.len, cap)

\* A step of the ring that leaves the live bytes alone and appends n more.
Appends(n, bytes) ==
  LET old == Length
  IN  /\ Length' = old + n
      /\ \A i \in 0 .. old - 1 : buf'[wrap(head' + i, cap')] = At(i)
      /\ \A k \in 0 .. n - 1 : buf'[wrap(head' + old + k, cap')] = bytes[k]

\* extend, extend_and_fill and both extend_from_within_unchecked append exactly
\* the bytes asked for, across the wrap and across a reallocation, and disturb no
\* live byte; a failed extend_from_reader appends nothing.
WriteAppends ==
  /\ \A data \in Data :
       Extend(data) => Appends(Len(data), [k \in 0 .. Len(data) - 1 |-> data[k + 1]])
  /\ \A b \in Byte, n \in 1 .. MaxWrite :
       ExtendAndFill(b, n) => Appends(n, [k \in 0 .. n - 1 |-> b])
  /\ \A n \in 1 .. MaxWrite, got \in 0 .. MaxWrite :
       ExtendFromReaderFails(n, got) => Appends(0, << >>)
  /\ \A start \in 0 .. Length, n \in 1 .. Free :
       ExtendFromWithin(start, n) \/ ExtendFromWithinBranchless(start, n)
         => Appends(n, [k \in 0 .. n - 1 |-> At(start + k)])
WritesAppendExactly == [][WriteAppends]_vars

\* exec_sequence_inline has LZ77's meaning: the literals, then match bytes each
\* equal to the byte `offset` before it, those the match itself wrote included.
InlineAppends ==
  \A lits \in Data, offset \in 1 .. Length + MaxWrite, ml \in 1 .. MaxWrite :
    ExecSequenceInline(lits, offset, ml) =>
      Appends(Len(lits) + ml,
              [k \in 0 .. Len(lits) + ml - 1 |->
                 IF k < Len(lits) THEN lits[k + 1]
                 ELSE buf'[wrap(head' + (Length + (k - offset)), cap')]])
InlineSequenceIsLZ77 == [][InlineAppends]_vars

\* reserve and try_reserve leave room for what was asked: the first allocation
\* and growth stopped at the limit included.  reserve_buffer leaves room for
\* its target without doubling past it.  None of them touches a live byte.
ReserveMakesRoom ==
  /\ \A n \in 1 .. MaxWrite : Reserve(n) => Free' >= n /\ Appends(0, << >>)
  /\ \A limit \in Limits : \A target \in 0 .. limit :
       ReserveBuffer(target, limit) =>
         /\ Length' + Free' >= target
         /\ cap' # cap => cap' = target + 1
         /\ Appends(0, << >>)
ReserveSuffices == [][ReserveMakesRoom]_vars

\* Growth never doubles past the frame's limit while the need fits under it.
GrowthWithinLimit ==
  \A n \in 1 .. MaxWrite :
    Reserve(n) /\ cap' # cap /\ Length + n <= growth_limit => cap' <= growth_limit + 1
GrowthStopsAtLimit == [][GrowthWithinLimit]_vars

\* A rollback that is not refused restores exactly the bytes of the checkpoint.
RollbackToCheckpoint ==
  RestoreCheckpoint =>
    /\ Length' = mark.len
    /\ \A i \in 0 .. mark.len - 1 : At(i)' = At(i)
RollbackRestores == [][RollbackToCheckpoint]_vars
=============================================================================
