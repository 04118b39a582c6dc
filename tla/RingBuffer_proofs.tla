-------------------------- MODULE RingBuffer_proofs --------------------------
(***************************************************************************)
(* Proofs about RingBuffer, for every value of its constants, and that it  *)
(* implements the byte queue.                                              *)
(***************************************************************************)
EXTENDS RingRefinement, SequenceTheorems, TLAPS

-----------------------------------------------------------------------------
(* Index arithmetic.                                                       *)

\* Live and free cells, and the sentinel, make up the allocation.
LEMMA LenFree ==
  ASSUME NEW c \in Nat, c > 0, NEW h \in 0 .. c - 1, NEW t \in 0 .. c - 1
  PROVE  /\ len(h, t, c) \in 0 .. c - 1
         /\ free(h, t, c) = c - 1 - len(h, t, c)
         /\ t = wrap(h + len(h, t, c), c)
BY DEF len, free, data_slice_lengths, free_slice_lengths, wrap

\* A ring without an allocation is empty and has no room.
LEMMA EmptyRing == len(0, 0, 0) = 0 /\ free(0, 0, 0) = 0
BY DEF len, free, data_slice_lengths, free_slice_lengths

\* Moving the tail over free cells lengthens the ring by as many.
LEMMA TailMoves ==
  ASSUME NEW c \in Nat, c > 0, NEW h \in 0 .. c - 1, NEW t \in 0 .. c - 1,
         NEW n \in 0 .. free(h, t, c)
  PROVE  /\ wrap(t + n, c) \in 0 .. c - 1
         /\ len(h, wrap(t + n, c), c) = len(h, t, c) + n
BY DEF len, free, data_slice_lengths, free_slice_lengths, wrap

\* Put fills exactly the n cells after the tail and leaves the live ones alone.
LEMMA PutAppends ==
  ASSUME NEW c \in Nat, c > 0, NEW h \in 0 .. c - 1, NEW t \in 0 .. c - 1,
         NEW b \in [0 .. c - 1 -> Cell],
         NEW n \in 0 .. free(h, t, c),
         NEW src \in [0 .. n - 1 -> Cell]
  PROVE  LET p == Put(b, h, t, c, n, src) IN
         /\ p \in [0 .. c - 1 -> Cell]
         /\ \A i \in 0 .. len(h, t, c) - 1 : p[wrap(h + i, c)] = b[wrap(h + i, c)]
         /\ \A k \in 0 .. n - 1 : p[wrap(h + len(h, t, c) + k, c)] = src[k]
<1> DEFINE n1 == inF1(h, t, c, n)
           p == Put(b, h, t, c, n, src)
<1>1. /\ n1 \in 0 .. n
      /\ t + n1 <= c
      /\ n - n1 <= h
      /\ t < h => n1 = n /\ t + n < h
      /\ n1 < n => t + n1 = c
  BY DEF inF1, Min2, free, free_slice_lengths
<1>2. /\ p \in [0 .. c - 1 -> Cell]
      /\ \A i \in 0 .. c - 1 : p[i] = IF i >= t /\ i < t + n1 THEN src[i - t]
                                      ELSE IF i < n - n1 THEN src[n1 + i] ELSE b[i]
  <2>1. ASSUME NEW i \in 0 .. c - 1
        PROVE  (IF i >= t /\ i < t + n1 THEN src[i - t]
                ELSE IF i < n - n1 THEN src[n1 + i] ELSE b[i]) \in Cell
    BY <1>1
  <2> QED BY <2>1, Zenon DEF Put
<1>3. ASSUME NEW i \in 0 .. len(h, t, c) - 1
      PROVE  p[wrap(h + i, c)] = b[wrap(h + i, c)]
  <2>1. /\ wrap(h + i, c) \in 0 .. c - 1
        /\ ~ (wrap(h + i, c) >= t /\ wrap(h + i, c) < t + n1)
        /\ ~ (wrap(h + i, c) < n - n1)
    BY <1>1 DEF wrap, len, data_slice_lengths
  <2> HIDE DEF p, n1
  <2> QED BY <1>2, <2>1, Zenon
<1>4. ASSUME NEW k \in 0 .. n - 1
      PROVE  p[wrap(h + len(h, t, c) + k, c)] = src[k]
  <2>1. wrap(h + len(h, t, c) + k, c) = IF k < n1 THEN t + k ELSE k - n1
    BY <1>1 DEF wrap, len, data_slice_lengths
  <2>2. CASE k < n1
    <3>1. t + k \in 0 .. c - 1 /\ t + k >= t /\ t + k < t + n1 /\ (t + k) - t = k
      BY <1>1, <2>2
    <3> HIDE DEF p, n1
    <3> QED BY <1>2, <2>1, <2>2, <3>1, Zenon
  <2>3. CASE ~ (k < n1)
    <3>1. /\ k - n1 \in 0 .. c - 1
          /\ ~ (k - n1 >= t /\ k - n1 < t + n1)
          /\ k - n1 < n - n1
          /\ n1 + (k - n1) = k
      BY <1>1, <2>3 DEF free, free_slice_lengths
    <3> HIDE DEF p, n1
    <3> QED BY <1>2, <2>1, <2>3, <3>1, Zenon
  <2> QED BY <2>2, <2>3, Zenon
<1> QED BY <1>2, <1>3, <1>4, Zenon

\* A kernel's extra stores stay inside the run they were given.
LEMMA SpillKeeps ==
  ASSUME NEW c \in Nat, NEW b \in [0 .. c - 1 -> Cell], NEW lo \in Nat, NEW hi \in Nat
  PROVE  /\ Spill(b, c, lo, hi) \in [0 .. c - 1 -> Cell]
         /\ \A i \in 0 .. c - 1 :
              (i < lo \/ i >= hi \/ i >= lo + Overshoot) => Spill(b, c, lo, hi)[i] = b[i]
<1>1. Overshoot \in Nat BY RingAssumption, Zenon
<1>2. Junk \in Cell BY Zenon DEF Cell
<1> QED BY <1>1, <1>2 DEF Spill

-----------------------------------------------------------------------------
(* Growth.                                                                 *)

\* What the type invariant says of the ring's indices.
LEMMA RingFacts ==
  ASSUME TypeOK
  PROVE  /\ cap \in Nat /\ head \in Nat /\ tail \in Nat
         /\ Length \in Nat /\ Free \in Nat
         /\ cap = 0 => head = 0 /\ tail = 0 /\ Length = 0 /\ Free = 0
         /\ cap > 0 => /\ head \in 0 .. cap - 1 /\ tail \in 0 .. cap - 1
                       /\ Length \in 0 .. cap - 1 /\ Free = cap - 1 - Length
                       /\ tail = wrap(head + Length, cap)
<1>1. CASE cap = 0
  BY <1>1, EmptyRing DEF TypeOK, Length, Free
<1>2. CASE cap # 0
  <2>1. cap \in Nat /\ cap > 0 /\ head \in 0 .. cap - 1 /\ tail \in 0 .. cap - 1
    BY <1>2 DEF TypeOK
  <2>2. /\ len(head, tail, cap) \in 0 .. cap - 1
        /\ free(head, tail, cap) = cap - 1 - len(head, tail, cap)
        /\ tail = wrap(head + len(head, tail, cap), cap)
    BY <2>1, LenFree, Zenon
  <2> QED BY <2>1, <2>2 DEF Length, Free
<1> QED BY <1>1, <1>2, Zenon

\* The fast path of reserve admits nothing the slow one would refuse.
LEMMA RoomIsFree ==
  ASSUME TypeOK, NEW n \in Nat
  PROVE  HasRoom(n) <=> Free >= n
BY DEF TypeOK, HasRoom, Free, free, free_slice_lengths

\* reserve_amortized always grows, always far enough, and past the limit only
\* when the need itself is past it.
LEMMA GrowthSuffices ==
  ASSUME TypeOK, NEW n \in Nat, NEW limit \in Nat, Free < n, n <= limit \/ cap > 0,
         NEW c \in reserve_amortized(n - Free, limit)
  PROVE  /\ c \in Nat
         /\ c > cap
         /\ Length + n <= c - 1
         /\ Length + n <= limit => c <= limit + 1
<1>1. MaxUsize \in Nat BY RingAssumption, Zenon
<1>2. PICK doubled \in next_power_of_two(cap + (n - Free)) :
        c = 1 + (IF (cap + (n - Free)) - 1 <= limit THEN Min2(doubled, limit) ELSE doubled)
  BY Zenon DEF reserve_amortized
<1>3. doubled \in Nat /\ cap + (n - Free) <= doubled
  BY <1>1, <1>2 DEF next_power_of_two, PowersOfTwo
<1>4. /\ cap \in Nat /\ Length \in Nat /\ Free \in Nat
      /\ cap = 0 => Length = 0 /\ Free = 0
      /\ cap > 0 => Free = cap - 1 - Length
  BY RingFacts, Zenon
<1> QED BY <1>2, <1>3, <1>4 DEF Min2

\* reserve(n) leaves the live bytes as they were, with room for n more.
LEMMA Relocated ==
  ASSUME TypeOK, NEW n \in Nat, n > 0, NEW limit \in Nat, n <= limit \/ cap > 0,
         NEW c \in ReservedCaps(n, limit)
  PROVE  /\ c \in Nat /\ c > 0 /\ (c = cap \/ c > cap)
         /\ headIn(c) \in 0 .. c - 1 /\ tailIn(c) \in 0 .. c - 1
         /\ bufIn(c) \in [0 .. c - 1 -> Cell]
         /\ n <= free(headIn(c), tailIn(c), c)
         /\ len(headIn(c), tailIn(c), c) = Length
         /\ \A i \in 0 .. Length - 1 : bufIn(c)[wrap(headIn(c) + i, c)] = At(i)
         /\ c = cap => headIn(c) = head
<1>1. CASE HasRoom(n)
  <2>1. c = cap /\ Free >= n BY <1>1, RoomIsFree, Zenon DEF ReservedCaps
  <2>2. cap > 0 /\ head \in 0 .. cap - 1 /\ tail \in 0 .. cap - 1 BY <2>1, RingFacts
  <2> QED BY <2>1, <2>2, Zenon DEF headIn, tailIn, bufIn, TypeOK, Free, Length, At
<1>2. CASE ~ HasRoom(n)
  <2>1. Free < n BY <1>2, RoomIsFree, RingFacts
  <2>2. c \in reserve_amortized(n - Free, limit) BY <1>2, Zenon DEF ReservedCaps
  <2>3. c \in Nat /\ c > cap /\ Length + n <= c - 1 BY <2>1, <2>2, GrowthSuffices, Zenon
  <2>4. /\ headIn(c) = 0 /\ tailIn(c) = Length
        /\ bufIn(c) = [i \in 0 .. c - 1 |-> IF i < Length THEN At(i) ELSE Junk]
    BY <2>3, RingFacts DEF headIn, tailIn, bufIn
  <2>5. cap \in Nat /\ Length \in 0 .. c - 1 BY <2>3, RingFacts
  <2>6. /\ len(0, Length, c) = Length
        /\ free(0, Length, c) = c - 1 - Length
    BY <2>3, <2>5 DEF len, free, data_slice_lengths, free_slice_lengths
  <2>7. \A i \in 0 .. Length - 1 : At(i) \in Cell
    <3> TAKE i \in 0 .. Length - 1
    <3>1. cap > 0 /\ head \in 0 .. cap - 1 /\ Length \in 0 .. cap - 1 BY RingFacts
    <3>2. wrap(head + i, cap) \in 0 .. cap - 1 BY <2>5, <3>1 DEF wrap
    <3> QED BY <3>2, Zenon DEF At, TypeOK
  <2>8. bufIn(c) \in [0 .. c - 1 -> Cell] BY <2>4, <2>5, <2>7 DEF Cell
  <2>9. ASSUME NEW i \in 0 .. Length - 1
        PROVE  bufIn(c)[wrap(headIn(c) + i, c)] = At(i)
    BY <2>3, <2>4, <2>5 DEF wrap
  <2> QED BY <2>3, <2>4, <2>5, <2>6, <2>8, <2>9
<1> QED BY <1>1, <1>2, Zenon

\* A write after its reserve: the shape extend, extend_and_fill and
\* extend_from_reader share.
LEMMA ReservedWriteAppends ==
  ASSUME TypeOK, NEW n \in Nat, n > 0, n <= growth_limit,
         NEW c \in ReservedCaps(n, growth_limit),
         NEW src \in [0 .. n - 1 -> Cell],
         cap' = c, head' = headIn(c), tail' = wrap(tailIn(c) + n, c),
         buf' = Put(bufIn(c), headIn(c), tailIn(c), c, n, src)
  PROVE  /\ cap' \in Nat /\ cap' > 0 /\ (cap' = cap \/ cap' > cap)
         /\ head' \in 0 .. cap' - 1 /\ tail' \in 0 .. cap' - 1
         /\ buf' \in [0 .. cap' - 1 -> Cell]
         /\ cap' = cap => head' = head
         /\ Appends(n, src)
<1> DEFINE h == headIn(c)
           t == tailIn(c)
           b == bufIn(c)
<1>1. growth_limit \in Nat BY RingAssumption DEF TypeOK
<1>2. /\ c \in Nat /\ c > 0 /\ (c = cap \/ c > cap)
      /\ h \in 0 .. c - 1 /\ t \in 0 .. c - 1 /\ b \in [0 .. c - 1 -> Cell]
      /\ n <= free(h, t, c) /\ len(h, t, c) = Length
      /\ \A i \in 0 .. Length - 1 : b[wrap(h + i, c)] = At(i)
      /\ c = cap => h = head
  BY <1>1, Relocated, Zenon
<1>3. Length \in Nat BY RingFacts, Zenon
<1> HIDE DEF h, t, b
<1>4. n \in 0 .. free(h, t, c) BY <1>2, LenFree
<1>5. wrap(t + n, c) \in 0 .. c - 1 /\ len(h, wrap(t + n, c), c) = Length + n
  BY <1>2, <1>4, TailMoves, Zenon
<1>6. /\ Put(b, h, t, c, n, src) \in [0 .. c - 1 -> Cell]
      /\ \A i \in 0 .. Length - 1 : Put(b, h, t, c, n, src)[wrap(h + i, c)] = b[wrap(h + i, c)]
      /\ \A k \in 0 .. n - 1 : Put(b, h, t, c, n, src)[wrap(h + Length + k, c)] = src[k]
  BY <1>2, <1>4, PutAppends
<1>7. cap' = c /\ head' = h /\ tail' = wrap(t + n, c) /\ buf' = Put(b, h, t, c, n, src)
  BY Zenon DEF h, t, b
<1>8. Appends(n, src)
  BY <1>2, <1>5, <1>6, <1>7, Zenon DEF Appends, Length
<1> QED BY <1>2, <1>5, <1>6, <1>7, <1>8, Zenon

\* Appending output bytes keeps the live region written and a rollback point
\* valid.
LEMMA AppendKeepsInv ==
  ASSUME TypeOK, TypeOK', LiveBytesWritten, MarkDenotesPrefix,
         NEW n \in Nat, NEW src, \A k \in 0 .. n - 1 : src[k] \in Byte,
         Appends(n, src), mark' = mark, cap' = cap \/ cap' > cap,
         cap' = cap => head' = head
  PROVE  LiveBytesWritten' /\ MarkDenotesPrefix'
<1>1. Length \in Nat /\ Length' = Length + n /\ cap \in Nat /\ head' \in Nat
  BY RingFacts, Zenon DEF Appends, TypeOK
<1>2. LiveBytesWritten'
  <2> SUFFICES ASSUME NEW i \in 0 .. Length + n - 1
               PROVE  buf'[wrap(head' + i, cap')] \in Byte
    BY <1>1 DEF LiveBytesWritten, At
  <2>1. CASE i < Length
    BY <1>1, <2>1 DEF Appends, LiveBytesWritten
  <2>2. CASE i >= Length
    <3>1. i - Length \in 0 .. n - 1 /\ head' + i = head' + Length + (i - Length)
      BY <1>1, <2>2
    <3> QED BY <3>1, Zenon DEF Appends
  <2> QED BY <1>1, <2>1, <2>2
<1>3. MarkDenotesPrefix'
  <2>1. CASE mark = NoMark BY <2>1, Zenon DEF MarkDenotesPrefix, NoMark
  <2>2. CASE mark # NoMark
    BY <1>1, <2>2, SMTT(30) DEF MarkDenotesPrefix, NoMark, TypeOK
  <2> QED BY <2>1, <2>2, Zenon
<1> QED BY <1>2, <1>3, Zenon

-----------------------------------------------------------------------------
(* The inductive invariant, action by action.                              *)

Inv == TypeOK /\ LiveBytesWritten /\ MarkDenotesPrefix

\* A byte string handed to extend.
LEMMA DataFacts ==
  ASSUME NEW data \in Data
  PROVE  /\ Len(data) \in 0 .. MaxWrite
         /\ \A k \in 1 .. Len(data) : data[k] \in Byte
<1>1. PICK n \in 0 .. MaxWrite : data \in [1 .. n -> Byte] BY Zenon DEF Data
<1>2. n \in Nat BY RingAssumption
<1> QED BY <1>1, <1>2

\* A frame's growth limit covers any one write.
LEMMA LimitFacts ==
  ASSUME TypeOK
  PROVE  growth_limit \in Nat /\ MaxWrite \in Nat /\ MaxWrite <= growth_limit
BY RingAssumption DEF TypeOK

\* An index below one bound is below a larger one.
LEMMA Below ==
  ASSUME NEW c \in Nat, NEW i \in 0 .. c - 1
  PROVE  i \in Nat /\ i < c /\ c # 0
OBVIOUS

\* The type invariant after a step that leaves an allocated ring in shape.
LEMMA TypeAfter ==
  ASSUME TypeOK, cap' \in Nat, cap' > 0, head' \in 0 .. cap' - 1, tail' \in 0 .. cap' - 1,
         buf' \in [0 .. cap' - 1 -> Cell],
         max_capacity' \in Nat, growth_limit' \in Limits, mark' = mark
  PROVE  TypeOK'
<1>1. head' \in Nat /\ tail' \in Nat /\ head' < cap' /\ tail' < cap' /\ cap' # 0
  BY Below, Zenon
<1>2. mark' \in [tail : Nat, cap : Nat, len : Nat] BY Zenon DEF TypeOK
<1> QED BY <1>1, <1>2, Zenon DEF TypeOK

\* extend appends its data.
LEMMA ExtendAppends ==
  ASSUME TypeOK, NEW data \in Data, Extend(data)
  PROVE  /\ TypeOK'
         /\ Appends(Len(data), [k \in 0 .. Len(data) - 1 |-> data[k + 1]])
         /\ cap' = cap \/ cap' > cap
         /\ cap' = cap => head' = head
<1> DEFINE n == Len(data)
           src == [k \in 0 .. n - 1 |-> data[k + 1]]
<1>1. n \in Nat /\ n > 0 /\ n <= growth_limit BY DataFacts, LimitFacts DEF Extend
<1>2. src \in [0 .. n - 1 -> Cell] BY <1>1, DataFacts DEF Cell
<1>3. PICK c \in ReservedCaps(n, growth_limit) :
        /\ cap' = c /\ head' = headIn(c) /\ tail' = wrap(tailIn(c) + n, c)
        /\ buf' = Put(bufIn(c), headIn(c), tailIn(c), c, n, src)
  BY Zenon DEF Extend
<1> HIDE DEF n, src
<1>4. /\ cap' \in Nat /\ cap' > 0 /\ (cap' = cap \/ cap' > cap)
      /\ head' \in 0 .. cap' - 1 /\ tail' \in 0 .. cap' - 1
      /\ buf' \in [0 .. cap' - 1 -> Cell]
      /\ cap' = cap => head' = head
      /\ Appends(n, src)
  BY <1>1, <1>2, <1>3, ReservedWriteAppends, Zenon
<1>5. max_capacity' \in Nat /\ growth_limit' \in Limits /\ mark' = mark
  BY Zenon DEF Extend, TypeOK
<1>6. TypeOK' BY <1>4, <1>5, TypeAfter, Zenon
<1> QED BY <1>4, <1>6, Zenon DEF n, src

\* extend_and_fill appends its fill.
LEMMA FillAppends ==
  ASSUME TypeOK, NEW b \in Byte, NEW n \in 1 .. MaxWrite, ExtendAndFill(b, n)
  PROVE  /\ TypeOK'
         /\ Appends(n, [k \in 0 .. n - 1 |-> b])
         /\ cap' = cap \/ cap' > cap
         /\ cap' = cap => head' = head
<1> DEFINE src == [k \in 0 .. n - 1 |-> b]
<1>1. n \in Nat /\ n > 0 /\ n <= growth_limit BY LimitFacts
<1>2. src \in [0 .. n - 1 -> Cell] BY <1>1, Zenon DEF Cell
<1>3. PICK c \in ReservedCaps(n, growth_limit) :
        /\ cap' = c /\ head' = headIn(c) /\ tail' = wrap(tailIn(c) + n, c)
        /\ buf' = Put(bufIn(c), headIn(c), tailIn(c), c, n, src)
  BY Zenon DEF ExtendAndFill
<1> HIDE DEF src
<1>4. /\ cap' \in Nat /\ cap' > 0 /\ (cap' = cap \/ cap' > cap)
      /\ head' \in 0 .. cap' - 1 /\ tail' \in 0 .. cap' - 1
      /\ buf' \in [0 .. cap' - 1 -> Cell]
      /\ cap' = cap => head' = head
      /\ Appends(n, src)
  BY <1>1, <1>2, <1>3, ReservedWriteAppends, Zenon
<1>5. max_capacity' \in Nat /\ growth_limit' \in Limits /\ mark' = mark
  BY Zenon DEF ExtendAndFill, TypeOK
<1>6. TypeOK' BY <1>4, <1>5, TypeAfter, Zenon
<1> QED BY <1>4, <1>6, Zenon DEF src

\* What reserve's reallocation alone does: no live byte is added or lost.
LEMMA RelocationAppendsNothing ==
  ASSUME TypeOK, NEW n \in Nat, n > 0, NEW limit \in Nat, n <= limit \/ cap > 0,
         NEW c \in ReservedCaps(n, limit),
         cap' = c, head' = headIn(c), tail' = tailIn(c), buf' = bufIn(c)
  PROVE  /\ cap' \in Nat /\ cap' > 0 /\ (cap' = cap \/ cap' > cap)
         /\ head' \in 0 .. cap' - 1 /\ tail' \in 0 .. cap' - 1
         /\ buf' \in [0 .. cap' - 1 -> Cell]
         /\ cap' = cap => head' = head
         /\ Appends(0, << >>)
         /\ Free' >= n
<1>1. /\ c \in Nat /\ c > 0 /\ (c = cap \/ c > cap)
      /\ headIn(c) \in 0 .. c - 1 /\ tailIn(c) \in 0 .. c - 1
      /\ bufIn(c) \in [0 .. c - 1 -> Cell]
      /\ n <= free(headIn(c), tailIn(c), c)
      /\ len(headIn(c), tailIn(c), c) = Length
      /\ \A i \in 0 .. Length - 1 : bufIn(c)[wrap(headIn(c) + i, c)] = At(i)
      /\ c = cap => headIn(c) = head
  BY Relocated, Zenon
<1>2. Length \in Nat BY RingFacts, Zenon
<1>3. Free' >= n BY <1>1, LenFree, Zenon DEF Free
<1>4. Appends(0, << >>) BY <1>1, <1>2 DEF Appends, Length
<1> QED BY <1>1, <1>3, <1>4, Zenon

\* reserve makes room for what was asked and appends nothing.
LEMMA ReserveAppendsNothing ==
  ASSUME TypeOK, NEW n \in 1 .. MaxWrite, Reserve(n)
  PROVE  /\ TypeOK'
         /\ Appends(0, << >>)
         /\ cap' = cap \/ cap' > cap
         /\ cap' = cap => head' = head
         /\ Free' >= n
<1>1. n \in Nat /\ n > 0 /\ growth_limit \in Nat /\ n <= growth_limit BY LimitFacts
<1>2. PICK c \in ReservedCaps(n, growth_limit) :
        cap' = c /\ head' = headIn(c) /\ tail' = tailIn(c) /\ buf' = bufIn(c)
  BY Zenon DEF Reserve
<1>3. /\ cap' \in Nat /\ cap' > 0 /\ (cap' = cap \/ cap' > cap)
      /\ head' \in 0 .. cap' - 1 /\ tail' \in 0 .. cap' - 1
      /\ buf' \in [0 .. cap' - 1 -> Cell]
      /\ cap' = cap => head' = head
      /\ Appends(0, << >>)
      /\ Free' >= n
  BY <1>1, <1>2, RelocationAppendsNothing, Zenon
<1>4. max_capacity' \in Nat /\ growth_limit' \in Limits /\ mark' = mark
  BY Zenon DEF Reserve, TypeOK
<1>5. TypeOK' BY <1>3, <1>4, TypeAfter, Zenon
<1> QED BY <1>3, <1>5, Zenon

\* reserve_buffer makes room for its target, and when it grows it grows to
\* exactly that.
LEMMA ReserveBufferReachesTarget ==
  ASSUME TypeOK, NEW limit \in Limits, NEW target \in 0 .. limit, ReserveBuffer(target, limit)
  PROVE  /\ TypeOK'
         /\ Appends(0, << >>)
         /\ cap' = cap \/ cap' > cap
         /\ cap' = cap => head' = head
         /\ Length' + Free' >= target
         /\ cap' # cap => cap' = target + 1
<1> DEFINE n == IF target > Length THEN target - Length ELSE 0
<1>1. limit \in Nat /\ target \in Nat BY RingAssumption
<1>2. Length \in Nat /\ n \in Nat BY <1>1, RingFacts
<1>3. growth_limit' \in Limits /\ max_capacity' \in Nat /\ mark' = mark
  BY Zenon DEF ReserveBuffer, TypeOK
<1>4. PICK c \in ReservedCaps(n, target) :
        cap' = c /\ head' = headIn(c) /\ tail' = tailIn(c) /\ buf' = bufIn(c)
  BY Zenon DEF ReserveBuffer
<1>5. CASE target <= Length
  <2>1. n = 0 /\ HasRoom(n) BY <1>1, <1>2, <1>5, RoomIsFree, RingFacts
  <2>2. UNCHANGED <<buf, cap, head, tail>>
    BY <1>4, <2>1, Zenon DEF ReservedCaps, headIn, tailIn, bufIn
  <2>3. Length' = Length /\ Free' = Free BY <2>2, Zenon DEF Length, Free
  <2>4. TypeOK' BY <1>3, <2>2, Zenon DEF TypeOK
  <2>5. Appends(0, << >>) BY <2>2, <2>3, <1>2 DEF Appends, At
  <2> QED BY <1>1, <1>2, <1>5, <2>2, <2>3, <2>4, <2>5, RingFacts
<1>6. CASE target > Length
  <2>1. n = target - Length /\ n > 0 /\ n <= target BY <1>1, <1>2, <1>6
  <2> HIDE DEF n
  <2>2. /\ cap' \in Nat /\ cap' > 0 /\ (cap' = cap \/ cap' > cap)
        /\ head' \in 0 .. cap' - 1 /\ tail' \in 0 .. cap' - 1
        /\ buf' \in [0 .. cap' - 1 -> Cell]
        /\ cap' = cap => head' = head
        /\ Appends(0, << >>)
        /\ Free' >= n
    BY <1>1, <1>2, <1>4, <2>1, RelocationAppendsNothing, Zenon
  <2>3. TypeOK' BY <1>3, <2>2, TypeAfter, Zenon
  <2>4. Length' = Length + 0 BY <2>2, Zenon DEF Appends
  <2>5. Free' \in Nat
    <3>1. free(head', tail', cap') = cap' - 1 - len(head', tail', cap')
      BY <2>2, LenFree, Zenon
    <3>2. len(head', tail', cap') \in 0 .. cap' - 1 BY <2>2, LenFree, Zenon
    <3> QED BY <2>2, <3>1, <3>2 DEF Free
  <2>6. ASSUME cap' # cap PROVE cap' = target + 1
    <3>1. ~ HasRoom(n) BY <1>4, <2>6, Zenon DEF ReservedCaps
    <3>2. Free < n BY <1>2, <3>1, RoomIsFree, RingFacts
    <3>3. c \in reserve_amortized(n - Free, target) BY <1>4, <3>1, Zenon DEF ReservedCaps
    <3>4. /\ c \in Nat /\ Length + n <= c - 1
          /\ Length + n <= target => c <= target + 1
      BY <1>1, <1>2, <2>1, <3>2, <3>3, GrowthSuffices, Zenon
    <3> QED BY <1>1, <1>2, <1>4, <2>1, <3>4
  <2>7. Free' >= n BY <2>2, Zenon
  <2>8. Length' + Free' >= target
    <3>1. Length' = Length BY <1>2, <2>4
    <3>2. n \in Nat /\ Length + n = target BY <1>1, <1>2, <2>1 DEF n
    <3>3. \A x, y, z \in Nat : x >= y => z + x >= z + y OBVIOUS
    <3> QED BY <1>2, <2>5, <2>7, <3>1, <3>2, <3>3, Zenon
  <2> QED BY <2>2, <2>3, <2>6, <2>8, Zenon
<1> QED BY <1>1, <1>2, <1>5, <1>6

\* A failed read touches free cells only.
LEMMA FailedReadAppendsNothing ==
  ASSUME TypeOK, NEW n \in 1 .. MaxWrite, NEW got, ExtendFromReaderFails(n, got)
  PROVE  /\ TypeOK'
         /\ Appends(0, << >>)
         /\ cap' = cap \/ cap' > cap
         /\ cap' = cap => head' = head
<1>1. n \in Nat /\ n > 0 /\ growth_limit \in Nat /\ n <= growth_limit BY LimitFacts
<1>2. PICK c \in ReservedCaps(n, growth_limit) :
        LET m == inF1(headIn(c), tailIn(c), c, n)
            touched == IF got < m THEN m ELSE n
        IN  /\ cap' = c /\ head' = headIn(c) /\ tail' = tailIn(c)
            /\ buf' = Put(bufIn(c), headIn(c), tailIn(c), c, touched,
                          [k \in 0 .. touched - 1 |-> Junk])
  BY Zenon DEF ExtendFromReaderFails
<1> DEFINE h == headIn(c)
           t == tailIn(c)
           b == bufIn(c)
           m == inF1(h, t, c, n)
           touched == IF got < m THEN m ELSE n
           src == [k \in 0 .. touched - 1 |-> Junk]
<1>3. /\ c \in Nat /\ c > 0 /\ (c = cap \/ c > cap)
      /\ h \in 0 .. c - 1 /\ t \in 0 .. c - 1 /\ b \in [0 .. c - 1 -> Cell]
      /\ n <= free(h, t, c) /\ len(h, t, c) = Length
      /\ \A i \in 0 .. Length - 1 : b[wrap(h + i, c)] = At(i)
      /\ c = cap => h = head
  BY <1>1, Relocated, Zenon
<1>4. Length \in Nat BY RingFacts, Zenon
<1>5. cap' = c /\ head' = h /\ tail' = t /\ buf' = Put(b, h, t, c, touched, src)
  BY <1>2, Zenon
<1> HIDE DEF h, t, b
<1>6. touched \in 0 .. free(h, t, c)
  <2>1. m \in 0 .. n BY <1>1, <1>3 DEF inF1, Min2, free_slice_lengths
  <2>2. free(h, t, c) \in Nat
    <3>1. free(h, t, c) = c - 1 - len(h, t, c) /\ len(h, t, c) \in 0 .. c - 1
      BY <1>3, LenFree, Zenon
    <3> QED BY <1>3, <3>1
  <2> HIDE DEF m
  <2> QED BY <1>1, <1>3, <2>1, <2>2
<1>7. src \in [0 .. touched - 1 -> Cell] BY Zenon DEF Cell
<1> HIDE DEF touched, src
<1>8. /\ Put(b, h, t, c, touched, src) \in [0 .. c - 1 -> Cell]
      /\ \A i \in 0 .. Length - 1 :
           Put(b, h, t, c, touched, src)[wrap(h + i, c)] = b[wrap(h + i, c)]
  BY <1>3, <1>6, <1>7, PutAppends, Zenon
<1>9. Appends(0, << >>) BY <1>3, <1>4, <1>5, <1>8 DEF Appends, Length
<1>10. max_capacity' \in Nat /\ growth_limit' \in Limits /\ mark' = mark
  BY Zenon DEF ExtendFromReaderFails, TypeOK
<1>11. TypeOK' BY <1>3, <1>5, <1>8, <1>10, TypeAfter, Zenon
<1> QED BY <1>3, <1>5, <1>9, <1>11, Zenon

\* A write into free cells of the standing allocation, followed by stores that
\* miss every cell then live.
LEMMA InPlaceAppends ==
  ASSUME TypeOK, NEW n \in 1 .. Free, NEW src \in [0 .. n - 1 -> Cell],
         NEW lo \in Nat, NEW hi \in Nat,
         \A i \in 0 .. Length + n - 1 :
            \/ wrap(head + i, cap) < lo
            \/ wrap(head + i, cap) >= hi
            \/ wrap(head + i, cap) >= lo + Overshoot,
         tail' = wrap(tail + n, cap),
         UNCHANGED <<cap, head, max_capacity, growth_limit, mark>>,
         buf' = Spill(Put(buf, head, tail, cap, n, src), cap, lo, hi)
  PROVE  TypeOK' /\ Appends(n, src)
<1> DEFINE p == Put(buf, head, tail, cap, n, src)
<1>1. /\ Length \in Nat /\ Free \in Nat /\ cap \in Nat /\ cap > 0
      /\ head \in 0 .. cap - 1 /\ tail \in 0 .. cap - 1 /\ Free = cap - 1 - Length
  BY RingFacts
<1>2. n \in Nat /\ n \in 0 .. free(head, tail, cap) BY <1>1 DEF Free
<1>3. buf \in [0 .. cap - 1 -> Cell] BY Zenon DEF TypeOK
<1>4. tail' \in 0 .. cap - 1 /\ len(head, tail', cap) = len(head, tail, cap) + n
  BY <1>1, <1>2, TailMoves, Zenon
<1>5. Length' = Length + n BY <1>4, Zenon DEF Length
<1> HIDE DEF p
<1>6. /\ p \in [0 .. cap - 1 -> Cell]
      /\ \A i \in 0 .. Length - 1 : p[wrap(head + i, cap)] = buf[wrap(head + i, cap)]
      /\ \A k \in 0 .. n - 1 : p[wrap(head + Length + k, cap)] = src[k]
  BY <1>1, <1>2, <1>3, PutAppends, ZenonT(40) DEF Length, p
<1>7. /\ buf' \in [0 .. cap - 1 -> Cell]
      /\ \A i \in 0 .. cap - 1 : (i < lo \/ i >= hi \/ i >= lo + Overshoot) => buf'[i] = p[i]
  <2>1. buf' = Spill(p, cap, lo, hi) BY Zenon DEF p
  <2>2. /\ Spill(p, cap, lo, hi) \in [0 .. cap - 1 -> Cell]
        /\ \A i \in 0 .. cap - 1 :
             (i < lo \/ i >= hi \/ i >= lo + Overshoot) => Spill(p, cap, lo, hi)[i] = p[i]
    <3>1. cap \in Nat /\ p \in [0 .. cap - 1 -> Cell] /\ lo \in Nat /\ hi \in Nat
      BY <1>1, <1>6, Zenon
    <3> QED BY ONLY <3>1, SpillKeeps
  <2> QED BY <2>1, <2>2, Zenon
<1>8. \A i \in 0 .. Length + n - 1 : wrap(head + i, cap) \in 0 .. cap - 1
  BY <1>1, <1>2 DEF wrap
<1>9. \A i \in 0 .. Length + n - 1 : buf'[wrap(head + i, cap)] = p[wrap(head + i, cap)]
  BY <1>7, <1>8, Zenon
<1>10. ASSUME NEW i \in 0 .. Length - 1
       PROVE  buf'[wrap(head + i, cap)] = At(i)
  <2>1. i \in 0 .. Length + n - 1 BY <1>1, <1>2
  <2> QED BY <1>6, <1>9, <2>1, Zenon DEF At
<1>11. ASSUME NEW k \in 0 .. n - 1
       PROVE  buf'[wrap(head + Length + k, cap)] = src[k]
  <2>1. Length + k \in 0 .. Length + n - 1 /\ head + (Length + k) = head + Length + k
    BY <1>1, <1>2
  <2>2. buf'[wrap(head + (Length + k), cap)] = p[wrap(head + (Length + k), cap)]
    BY <1>9, <2>1, Zenon
  <2> QED BY <1>6, <2>1, <2>2, Zenon
<1>12. Appends(n, src) BY <1>5, <1>10, <1>11, Zenon DEF Appends
<1>13. TypeOK'
  <2>1. max_capacity' \in Nat /\ growth_limit' \in Limits /\ mark' = mark BY Zenon DEF TypeOK
  <2>2. /\ cap' \in Nat /\ cap' > 0 /\ head' \in 0 .. cap' - 1 /\ tail' \in 0 .. cap' - 1
        /\ buf' \in [0 .. cap' - 1 -> Cell]
    BY <1>1, <1>4, <1>7, Zenon
  <2> QED BY <2>1, <2>2, TypeAfter, Zenon
<1> QED BY <1>12, <1>13, Zenon

\* Every live byte is some cell's content.
LEMMA AtInCell ==
  ASSUME TypeOK, NEW i \in 0 .. Length - 1
  PROVE  At(i) \in Cell
<1>1. cap \in Nat /\ cap > 0 /\ head \in 0 .. cap - 1 /\ Length \in 0 .. cap - 1
  BY RingFacts
<1>2. wrap(head + i, cap) \in 0 .. cap - 1 BY <1>1 DEF wrap
<1> QED BY <1>2, Zenon DEF At, TypeOK

\* The three shapes of extend_from_within_unchecked read the same bytes.
LEMMA SourceCells ==
  ASSUME TypeOK, NEW start \in Nat, NEW n \in 1 .. Free, start + n <= Length,
         NEW k \in 0 .. n - 1
  PROVE  /\ srcCell(start, k) = wrap(head + (start + k), cap)
         /\ BranchlessSource(start, n, k) = wrap(head + (start + k), cap)
<1>1. /\ cap \in Nat /\ cap > 0 /\ head \in 0 .. cap - 1 /\ tail \in 0 .. cap - 1
      /\ Free = cap - 1 - Length /\ Length \in 0 .. cap - 1
  BY RingFacts
<1>2. /\ n \in Nat
      /\ Length = IF tail >= head THEN tail - head ELSE (cap - head) + tail
  BY <1>1 DEF Length, len, data_slice_lengths
<1>3. srcCell(start, k) = wrap(head + (start + k), cap)
  BY <1>1, <1>2 DEF srcCell, wrap
<1>4. CASE tail >= head
  <2> DEFINE f == Min2(n, cap - tail)
  <2> HIDE DEF f
  <2>1. f \in 0 .. n BY <1>1, <1>2 DEF Min2, f
  <2>3. data_slice_lengths(head, tail, cap)[1] = Length
    BY <1>2, <1>4, Zenon DEF data_slice_lengths
  <2>2. MatchSplit(start, n) = [m1_in_f1 |-> f, m2_in_f1 |-> 0, m1_in_f2 |-> n - f, m2_in_f2 |-> 0]
    <3>1. free_slice_lengths(head, tail, cap)[2] = cap - tail
      BY <1>1, <1>4 DEF free_slice_lengths
    <3>2. Min2(Length, start + n) - Min2(Length, start) = n BY <1>1, <1>2 DEF Min2
    <3>3. Min2((cap - tail) - f, n - n) = 0 /\ n - n - 0 = 0
      BY <1>1, <1>2, <2>1 DEF Min2, f
    <3> QED BY <2>3, <3>1, <3>2, <3>3 DEF MatchSplit, f
  <2>4. Min2(Length, start) = start BY <1>1, <1>2 DEF Min2
  <2>5. BranchlessSource(start, n, k) =
          IF k < f THEN head + start + k
          ELSE IF k < f + 0 THEN 0 + (k - f)
          ELSE IF k < f + 0 + (n - f) THEN head + start + (k - 0)
          ELSE 0 + (k - f - (n - f))
    BY <1>1, <1>2, <2>2, <2>3, <2>4 DEF BranchlessSource
  <2>6. BranchlessSource(start, n, k) = head + start + k BY <1>1, <1>2, <2>1, <2>5
  <2> QED BY <1>1, <1>2, <1>3, <1>4, <2>6 DEF wrap
<1>5. CASE tail < head
  <2> DEFINE s1 == cap - head
             m1 == Min2(s1, start + n) - Min2(s1, start)
             start2 == IF start > s1 THEN start - s1 ELSE 0
  <2>1. m1 \in 0 .. n /\ n < head - tail BY <1>1, <1>2, <1>5 DEF Min2
  <2>2. data_slice_lengths(head, tail, cap)[1] = s1
    BY <1>5, <1>1 DEF data_slice_lengths
  <2>3. free_slice_lengths(head, tail, cap)[2] = head - tail
    BY <1>5, <1>1, Zenon DEF free_slice_lengths
  <2>4. Min2(m1, head - tail) = m1 /\ Min2((head - tail) - m1, n - m1) = n - m1
    <3> HIDE DEF m1
    <3> QED BY <1>1, <1>2, <2>1 DEF Min2
  <2>5. MatchSplit(start, n) =
          [m1_in_f1 |-> m1, m2_in_f1 |-> n - m1, m1_in_f2 |-> m1 - m1,
           m2_in_f2 |-> n - m1 - (n - m1)]
    BY <2>2, <2>3, <2>4, Zenon DEF MatchSplit
  <2>6. ASSUME k < m1 PROVE BranchlessSource(start, n, k) = head + Min2(s1, start) + k
    <3> HIDE DEF m1
    <3> QED BY <2>2, <2>5, <2>6 DEF BranchlessSource
  <2>7. ASSUME ~ (k < m1) PROVE BranchlessSource(start, n, k) = start2 + (k - m1)
    <3>1. k < m1 + (n - m1) BY <1>1, <1>2, <2>1
    <3> HIDE DEF m1
    <3> QED BY <2>2, <2>5, <2>7, <3>1 DEF BranchlessSource
  <2>8. CASE k < m1
    <3>1. Min2(s1, start) = start /\ head + start + k < cap BY <1>1, <1>2, <2>8 DEF Min2
    <3> QED BY <1>1, <1>2, <1>3, <2>6, <2>8, <3>1 DEF wrap
  <2>9. CASE ~ (k < m1)
    <3>1. start2 + (k - m1) = head + (start + k) - cap /\ head + (start + k) >= cap
      BY <1>1, <1>2, <2>9 DEF Min2
    <3> QED BY <1>1, <1>2, <1>3, <2>7, <2>9, <3>1 DEF wrap
  <2> QED BY <2>8, <2>9, Zenon
<1> QED BY <1>1, <1>3, <1>4, <1>5

\* extend_from_within_unchecked appends the bytes it names.
LEMMA WithinAppends ==
  ASSUME TypeOK, NEW start \in Nat, NEW n \in 1 .. Free, ExtendFromWithin(start, n)
  PROVE  /\ TypeOK'
         /\ Appends(n, [k \in 0 .. n - 1 |-> At(start + k)])
         /\ cap' = cap /\ head' = head /\ mark' = mark
<1> DEFINE src == [k \in 0 .. n - 1 |-> buf[srcCell(start, k)]]
           n1 == inF1(head, tail, cap, n)
           lo == IF head < tail /\ n1 # n THEN n - n1 ELSE tail + n
           hi == IF head < tail /\ n1 = n THEN cap ELSE head
<1>1. /\ cap \in Nat /\ cap > 0 /\ head \in 0 .. cap - 1 /\ tail \in 0 .. cap - 1
      /\ Free = cap - 1 - Length /\ Length \in 0 .. cap - 1
  BY RingFacts
<1>2. /\ n \in Nat /\ start + n <= Length
      /\ Length = IF tail >= head THEN tail - head ELSE (cap - head) + tail
  BY <1>1 DEF ExtendFromWithin, Length, len, data_slice_lengths
<1>3. src = [k \in 0 .. n - 1 |-> At(start + k)]
  <2>1. ASSUME NEW k \in 0 .. n - 1 PROVE buf[srcCell(start, k)] = At(start + k)
    BY <1>2, SourceCells, Zenon DEF At
  <2> QED BY <2>1, Zenon
<1>4. src \in [0 .. n - 1 -> Cell]
  <2>1. ASSUME NEW k \in 0 .. n - 1 PROVE At(start + k) \in Cell
    <3>1. start + k \in 0 .. Length - 1 BY <1>1, <1>2
    <3> QED BY <3>1, AtInCell, Zenon
  <2> QED BY <1>3, <2>1, Zenon
<1>5. /\ n1 \in 0 .. n /\ (tail < head => n1 = n) /\ (n1 # n => tail + n1 = cap)
      /\ tail + n1 <= cap /\ head # tail
  BY <1>1, <1>2 DEF inF1, Min2, free_slice_lengths
<1>6. UNCHANGED <<cap, head, max_capacity, growth_limit, mark>> /\ tail' = wrap(tail + n, cap)
  BY Zenon DEF ExtendFromWithin
<1>7. buf' = Spill(Put(buf, head, tail, cap, n, src), cap, lo, hi)
  BY <1>5, Zenon DEF ExtendFromWithin
<1>8. lo \in Nat /\ hi \in Nat BY <1>1, <1>2, <1>5
<1>9. ASSUME NEW i \in 0 .. Length + n - 1
      PROVE  wrap(head + i, cap) < lo \/ wrap(head + i, cap) >= hi
  BY <1>1, <1>2, <1>5 DEF wrap
<1> HIDE DEF src, lo, hi
<1>10. TypeOK' /\ Appends(n, src)
  BY <1>4, <1>6, <1>7, <1>8, <1>9, InPlaceAppends, Zenon
<1> QED BY <1>3, <1>6, <1>10, Zenon

\* and so does its branchless twin.
LEMMA BranchlessAppends ==
  ASSUME TypeOK, NEW start \in Nat, NEW n \in 1 .. Free, ExtendFromWithinBranchless(start, n)
  PROVE  /\ TypeOK'
         /\ Appends(n, [k \in 0 .. n - 1 |-> At(start + k)])
         /\ cap' = cap /\ head' = head /\ mark' = mark
<1> DEFINE src == [k \in 0 .. n - 1 |-> buf[BranchlessSource(start, n, k)]]
<1>1. /\ cap \in Nat /\ cap > 0 /\ head \in 0 .. cap - 1 /\ tail \in 0 .. cap - 1
      /\ Free = cap - 1 - Length /\ Length \in 0 .. cap - 1
  BY RingFacts
<1>2. n \in Nat /\ start + n <= Length BY <1>1 DEF ExtendFromWithinBranchless
<1>3. src = [k \in 0 .. n - 1 |-> At(start + k)]
  <2>1. ASSUME NEW k \in 0 .. n - 1 PROVE buf[BranchlessSource(start, n, k)] = At(start + k)
    BY <1>2, SourceCells, Zenon DEF At
  <2> QED BY <2>1, Zenon
<1>4. src \in [0 .. n - 1 -> Cell]
  <2>1. ASSUME NEW k \in 0 .. n - 1 PROVE At(start + k) \in Cell
    <3>1. start + k \in 0 .. Length - 1 BY <1>1, <1>2
    <3> QED BY <3>1, AtInCell, Zenon
  <2> QED BY <1>3, <2>1, Zenon
<1>5. UNCHANGED <<cap, head, max_capacity, growth_limit, mark>> /\ tail' = wrap(tail + n, cap)
  BY Zenon DEF ExtendFromWithinBranchless
<1>6. buf' = Put(buf, head, tail, cap, n, src) BY Zenon DEF ExtendFromWithinBranchless
<1> HIDE DEF src
<1>7. buf \in [0 .. cap - 1 -> Cell] /\ n \in 0 .. free(head, tail, cap)
  BY <1>1, <1>2 DEF TypeOK, Free
<1>8. /\ buf' \in [0 .. cap - 1 -> Cell]
      /\ \A i \in 0 .. Length - 1 : buf'[wrap(head + i, cap)] = At(i)
      /\ \A k \in 0 .. n - 1 : buf'[wrap(head + Length + k, cap)] = src[k]
  BY <1>1, <1>4, <1>6, <1>7, PutAppends, ZenonT(40) DEF Length, At
<1>9. tail' \in 0 .. cap - 1 /\ Length' = Length + n
  BY <1>1, <1>5, <1>7, TailMoves, Zenon DEF Length
<1>10. Appends(n, src) BY <1>5, <1>8, <1>9, Zenon DEF Appends
<1>11. TypeOK'
  <2>1. max_capacity' \in Nat /\ growth_limit' \in Limits /\ mark' = mark BY <1>5, Zenon DEF TypeOK
  <2>2. /\ cap' \in Nat /\ cap' > 0 /\ head' \in 0 .. cap' - 1 /\ tail' \in 0 .. cap' - 1
        /\ buf' \in [0 .. cap' - 1 -> Cell]
    BY <1>1, <1>5, <1>8, <1>9, Zenon
  <2> QED BY <2>1, <2>2, TypeAfter, Zenon
<1> QED BY <1>3, <1>5, <1>10, <1>11, Zenon

\* The bytes an overlapping match repeats.
LEMMA PhaseFacts ==
  ASSUME NEW offset \in Nat, offset > 0, NEW k \in Nat
  PROVE  /\ matchPhase(k, offset) \in 0 .. offset - 1
         /\ k < offset => matchPhase(k, offset) = k
         /\ k >= offset => matchPhase(k, offset) = matchPhase(k - offset, offset)
<1>1. matchPhase(k, offset) \in 0 .. offset - 1 BY DEF matchPhase
<1>2. k < offset => matchPhase(k, offset) = k BY DEF matchPhase
<1>3. ASSUME k >= offset PROVE k % offset = (k - offset) % offset
  <2> DEFINE q  == k \div offset
             q1 == (k - offset) \div offset
             r  == k % offset
             r1 == (k - offset) % offset
             d  == (q - 1) - q1
  <2>1. k = offset * q + r /\ q \in Int /\ r \in 0 .. offset - 1 OBVIOUS
  <2>2. k - offset \in Nat BY <1>3
  <2>3. k - offset = offset * q1 + r1 /\ q1 \in Int /\ r1 \in 0 .. offset - 1 BY <2>2
  <2> HIDE DEF q, q1, r, r1
  <2>4. d \in Int /\ offset * d = r1 - r BY <2>1, <2>3
  <2> HIDE DEF d
  <2>5. d >= 1 => offset * d >= offset BY <2>4
  <2>6. d <= -1 => offset * d <= -offset BY <2>4
  <2>7. d = 0 BY <2>1, <2>3, <2>4, <2>5, <2>6
  <2>8. r1 = r BY <2>1, <2>3, <2>4, <2>7
  <2> QED BY <2>8, Zenon DEF r, r1
<1> QED BY <1>1, <1>2, <1>3, Zenon DEF matchPhase

\* Where the bytes of an inline sequence come from.  A match byte is `offset`
\* back: in the live bytes, or among the bytes the sequence stored before it.
LEMMA InlineSources ==
  ASSUME TypeOK, NEW lits \in Data, NEW offset \in 1 .. Length + Len(lits), NEW ml \in Nat,
         inline_exec_ok(Len(lits), ml, offset), NEW k \in Nat, k >= Len(lits)
  PROVE  /\ k - offset < 0 =>
              /\ Length + (k - offset) \in 0 .. Length - 1
              /\ InlineByte(lits, offset, k) = At(Length + (k - offset))
         /\ k - offset >= 0 => InlineByte(lits, offset, k) = InlineByte(lits, offset, k - offset)
<1> DEFINE ll == Len(lits)
           phase == matchPhase(k - ll, offset)
           p == tail + ll - offset + phase
<1>1. /\ cap \in Nat /\ head \in Nat /\ tail \in Nat /\ Length \in Nat
      /\ cap > 0 => /\ head \in 0 .. cap - 1 /\ tail \in 0 .. cap - 1
                    /\ Length \in 0 .. cap - 1
  BY RingFacts, Zenon
<1>2. ll \in Nat /\ offset \in Nat /\ offset > 0 /\ k - ll \in Nat /\ offset <= Length + ll
  BY <1>1, DataFacts, RingAssumption
<1>3. /\ Length = IF tail >= head THEN tail - head ELSE (cap - head) + tail
      /\ head <= tail \/ offset <= tail + ll
      /\ cap > 0
  <2>1. /\ Overshoot \in Nat
        /\ head <= tail => tail + ll + ml + Overshoot < cap
        /\ head <= tail \/ offset <= tail + ll
    BY RingAssumption, Zenon DEF inline_exec_ok, inline_exec_dict_ok
  <2> QED BY <1>1, <1>2, <2>1, RingFacts DEF Length, len, data_slice_lengths
<1>4. /\ phase \in 0 .. offset - 1
      /\ k - ll < offset => phase = k - ll
      /\ k - ll >= offset => phase = matchPhase((k - ll) - offset, offset)
  BY <1>2, PhaseFacts, Zenon
<1> HIDE DEF ll, phase
<1>5. InlineByte(lits, offset, k) = IF p < tail THEN buf[p] ELSE lits[p - tail + 1]
  <2>1. ~ (k < ll) BY DEF ll
  <2> QED BY <2>1, Zenon DEF InlineByte, ll, phase
<1>6. ASSUME k - offset < 0
      PROVE  /\ Length + (k - offset) \in 0 .. Length - 1
             /\ InlineByte(lits, offset, k) = At(Length + (k - offset))
  <2>1. p = tail + (k - offset) /\ p < tail BY <1>1, <1>2, <1>4, <1>6 DEF phase, ll
  <2>2. Length + (k - offset) \in 0 .. Length - 1 BY <1>1, <1>2, <1>6
  <2>3. wrap(head + (Length + (k - offset)), cap) = p
    BY <1>1, <1>2, <1>3, <2>1, <2>2 DEF wrap
  <2> QED BY <1>5, <2>1, <2>2, <2>3, Zenon DEF At
<1>7. ASSUME k - offset >= 0
      PROVE  InlineByte(lits, offset, k) = InlineByte(lits, offset, k - offset)
  <2>1. CASE k - offset < ll
    <3>1. p = tail + (k - offset) /\ ~ (p < tail) BY <1>1, <1>2, <1>4, <1>7, <2>1 DEF phase, ll
    <3>2. InlineByte(lits, offset, k - offset) = lits[(k - offset) + 1]
      BY <2>1, Zenon DEF InlineByte, ll
    <3>3. p - tail + 1 = (k - offset) + 1 BY <1>1, <1>2, <3>1
    <3> QED BY <1>5, <3>1, <3>2, <3>3, Zenon
  <2>2. CASE k - offset >= ll
    <3>1. phase = matchPhase((k - offset) - ll, offset)
      <4>1. k - ll >= offset /\ (k - ll) - offset = (k - offset) - ll BY <1>1, <1>2, <2>2
      <4> QED BY <1>4, <4>1, Zenon
    <3>2. ~ (k - offset < ll) BY <1>2, <2>2
    <3>3. InlineByte(lits, offset, k - offset) = IF p < tail THEN buf[p] ELSE lits[p - tail + 1]
      BY <3>1, <3>2, Zenon DEF InlineByte, ll
    <3> QED BY <1>5, <3>3
  <2> QED BY <1>2, <2>1, <2>2
<1> QED BY <1>2, <1>6, <1>7, Zenon

\* Each of them is an output byte.
LEMMA InlineInByte ==
  ASSUME TypeOK, LiveBytesWritten, NEW lits \in Data,
         NEW offset \in 1 .. Length + Len(lits), NEW ml \in Nat,
         inline_exec_ok(Len(lits), ml, offset), NEW k \in Nat
  PROVE  InlineByte(lits, offset, k) \in Byte
<1> DEFINE ll == Len(lits)
           phase == matchPhase(k - ll, offset)
           p == tail + ll - offset + phase
<1>1. /\ cap \in Nat /\ head \in Nat /\ tail \in Nat /\ Length \in Nat
      /\ cap > 0 => /\ head \in 0 .. cap - 1 /\ tail \in 0 .. cap - 1
                    /\ Length \in 0 .. cap - 1
  BY RingFacts, Zenon
<1>2. /\ ll \in Nat /\ offset \in Nat /\ offset > 0 /\ offset <= Length + ll
      /\ \A j \in 1 .. ll : lits[j] \in Byte
  BY <1>1, DataFacts, RingAssumption
<1>3. CASE k < ll
  <2>1. k + 1 \in 1 .. ll BY <1>2, <1>3
  <2> QED BY <1>2, <1>3, <2>1, Zenon DEF InlineByte
<1>4. CASE k >= ll
  <2>1. /\ Overshoot \in Nat
        /\ head <= tail => tail + ll + ml + Overshoot < cap
        /\ head <= tail \/ offset <= tail + ll
    BY RingAssumption, Zenon DEF inline_exec_ok, inline_exec_dict_ok
  <2>2. /\ cap > 0
        /\ Length = IF tail >= head THEN tail - head ELSE (cap - head) + tail
    BY <1>1, <1>2, <2>1, RingFacts DEF Length, len, data_slice_lengths
  <2>3. phase \in 0 .. offset - 1
    <3>1. k - ll \in Nat BY <1>2, <1>4
    <3> QED BY <1>2, <3>1, PhaseFacts, Zenon
  <2> HIDE DEF ll, phase
  <2>4. InlineByte(lits, offset, k) = IF p < tail THEN buf[p] ELSE lits[p - tail + 1]
    <3>1. ~ (k < ll) BY <1>2, <1>4 DEF ll
    <3> QED BY <3>1, Zenon DEF InlineByte, ll, phase
  <2>5. CASE p < tail
    <3> DEFINE i == IF head <= tail THEN p - head ELSE (cap - head) + p
    <3>1. i \in 0 .. Length - 1 /\ wrap(head + i, cap) = p
      BY <1>1, <1>2, <2>1, <2>2, <2>3, <2>5 DEF wrap
    <3> HIDE DEF i
    <3> QED BY <2>4, <2>5, <3>1, Zenon DEF LiveBytesWritten, At
  <2>6. CASE ~ (p < tail)
    <3>1. p - tail + 1 \in 1 .. ll BY <1>1, <1>2, <2>3, <2>6
    <3> QED BY <1>2, <2>4, <2>6, <3>1, Zenon
  <2> QED BY <2>5, <2>6, Zenon
<1> QED BY <1>2, <1>3, <1>4

\* exec_sequence_inline appends those bytes, and its overshoot misses every live
\* cell.
LEMMA InlineStepAppends ==
  ASSUME TypeOK, LiveBytesWritten, NEW lits \in Data, NEW offset, NEW ml \in Nat,
         ExecSequenceInline(lits, offset, ml)
  PROVE  /\ TypeOK'
         /\ Appends(Len(lits) + ml,
                    [k \in 0 .. Len(lits) + ml - 1 |-> InlineByte(lits, offset, k)])
         /\ cap' = cap /\ head' = head /\ mark' = mark
<1> DEFINE ll == Len(lits)
           n == ll + ml
           src == [k \in 0 .. n - 1 |-> InlineByte(lits, offset, k)]
<1>1. /\ cap \in Nat /\ head \in Nat /\ tail \in Nat /\ Length \in Nat
      /\ cap > 0 => /\ head \in 0 .. cap - 1 /\ tail \in 0 .. cap - 1
                    /\ Length \in 0 .. cap - 1 /\ Free = cap - 1 - Length
  BY RingFacts, Zenon
<1>2. ll \in Nat /\ n \in Nat /\ n >= 1 /\ Overshoot \in Nat
  BY DataFacts, RingAssumption DEF ExecSequenceInline
<1>3. /\ offset \in 1 .. Length + ll
      /\ inline_exec_ok(ll, ml, offset)
      /\ UNCHANGED <<cap, head, max_capacity, growth_limit, mark>>
      /\ tail' = wrap(tail + n, cap)
      /\ buf' = Spill(Put(buf, head, tail, cap, n, src), cap, tail + n, cap)
  BY Zenon DEF ExecSequenceInline
<1>4. src \in [0 .. n - 1 -> Cell]
  <2>1. ASSUME NEW k \in 0 .. n - 1 PROVE InlineByte(lits, offset, k) \in Cell
    <3>1. k \in Nat BY <1>2
    <3> QED BY <1>3, <3>1, InlineInByte, Zenon DEF Cell
  <2> QED BY <2>1, Zenon
<1>5. IF head <= tail THEN tail + n + Overshoot < cap ELSE tail + n + Overshoot < head
  <2>1. IF head <= tail THEN tail + ll + ml + Overshoot < cap
                        ELSE tail + ll + ml + Overshoot < head
    BY <1>3, Zenon DEF inline_exec_ok, inline_exec_dict_ok
  <2>2. tail + ll + ml = tail + n BY <1>1, <1>2
  <2> QED BY <2>1, <2>2, Zenon
<1> HIDE DEF ll, n, src
<1>6. cap > 0 BY <1>1, <1>2, <1>5 DEF TypeOK
<1>7. /\ Length = IF tail >= head THEN tail - head ELSE (cap - head) + tail
      /\ n \in 1 .. Free
  <2>1. Length = IF tail >= head THEN tail - head ELSE (cap - head) + tail
    BY <1>1, <1>6 DEF Length, len, data_slice_lengths
  <2>2. n <= cap - 1 - Length BY <1>1, <1>2, <1>5, <1>6, <2>1 DEF n
  <2> QED BY <1>1, <1>2, <1>6, <2>1, <2>2 DEF n
<1>8. ASSUME NEW i \in 0 .. Length + n - 1
      PROVE  \/ wrap(head + i, cap) < tail + n
             \/ wrap(head + i, cap) >= (tail + n) + Overshoot
  BY <1>1, <1>2, <1>5, <1>6, <1>7 DEF wrap, n
<1>9. tail + n \in Nat BY <1>1, <1>2 DEF n
<1>10. TypeOK' /\ Appends(n, src)
  BY <1>1, <1>3, <1>4, <1>7, <1>8, <1>9, InPlaceAppends, Zenon DEF n, src
<1> QED BY <1>3, <1>10 DEF n, src, ll

\* drop_first_n removes the oldest n bytes and no other.
LEMMA DropKeepsRest ==
  ASSUME TypeOK, NEW n \in 1 .. Length, DropFirstN(n)
  PROVE  /\ TypeOK'
         /\ Length' = Length - n
         /\ \A i \in 0 .. Length' - 1 : At(i)' = At(n + i)
<1>1. /\ cap \in Nat /\ cap > 0 /\ head \in 0 .. cap - 1 /\ tail \in 0 .. cap - 1
      /\ Length \in 0 .. cap - 1 /\ n \in Nat /\ n <= Length
  BY RingFacts
<1>2. /\ head' = wrap(head + n, cap) /\ UNCHANGED <<buf, cap, tail, max_capacity, growth_limit>>
      /\ mark' = NoMark
  BY Zenon DEF DropFirstN
<1>3. Length = IF tail >= head THEN tail - head ELSE (cap - head) + tail
  BY <1>1 DEF Length, len, data_slice_lengths
<1>4. head' \in 0 .. cap - 1 BY <1>1, <1>2 DEF wrap
<1>5. Length' = IF tail >= head' THEN tail - head' ELSE (cap - head') + tail
  BY <1>1, <1>2, <1>4 DEF Length, len, data_slice_lengths
<1>6. Length' = Length - n BY <1>1, <1>2, <1>3, <1>5 DEF wrap
<1>7. ASSUME NEW i \in 0 .. (Length - n) - 1
      PROVE  buf[wrap(head' + i, cap)] = buf[wrap(head + (n + i), cap)]
  BY <1>1, <1>2 DEF wrap
<1>8. NoMark \in [tail : Nat, cap : Nat, len : Nat] BY RingAssumption, Zenon DEF NoMark
<1>9. TypeOK'
  <2>1. head' \in Nat /\ head' < cap BY <1>1, <1>4
  <2> QED BY <1>1, <1>2, <1>8, <2>1 DEF TypeOK
<1> QED BY <1>2, <1>6, <1>7, <1>9, Zenon DEF At

\* A rollback leaves exactly the bytes of its checkpoint.
LEMMA RestoreLeavesPrefix ==
  ASSUME Inv, RestoreCheckpoint
  PROVE  /\ TypeOK'
         /\ mark.len \in 0 .. Length
         /\ Length' = mark.len
         /\ \A i \in 0 .. mark.len - 1 : At(i)' = At(i)
<1>1. /\ mark # NoMark /\ mark.cap = cap /\ tail' = mark.tail /\ mark' = NoMark
      /\ UNCHANGED <<buf, cap, head, max_capacity, growth_limit>>
  BY Zenon DEF RestoreCheckpoint
<1>2. mark.len \in Nat /\ mark.tail \in Nat BY Zenon DEF Inv, TypeOK
<1>3. mark.len <= Length /\ mark.tail = wrap(head + mark.len, cap)
  BY <1>1, Zenon DEF Inv, MarkDenotesPrefix
<1>4. /\ cap \in Nat /\ head \in Nat /\ tail \in Nat /\ Length \in Nat
      /\ cap = 0 => head = 0 /\ tail = 0 /\ Length = 0
      /\ cap > 0 => head \in 0 .. cap - 1 /\ tail \in 0 .. cap - 1 /\ Length \in 0 .. cap - 1
  BY RingFacts, Zenon DEF Inv
<1>5. NoMark \in [tail : Nat, cap : Nat, len : Nat] BY RingAssumption, Zenon DEF NoMark
<1>6. IF cap = 0 THEN tail' = 0 ELSE tail' \in 0 .. cap - 1
  BY <1>1, <1>2, <1>3, <1>4 DEF wrap
<1>7. Length' = mark.len
  <2>1. Length' = len(head, wrap(head + mark.len, cap), cap) BY <1>1, <1>3, Zenon DEF Length
  <2>2. len(head, wrap(head + mark.len, cap), cap) = mark.len
    BY <1>2, <1>3, <1>4 DEF wrap, len, data_slice_lengths
  <2> QED BY <2>1, <2>2, Zenon
<1>8. TypeOK'
  <2>1. /\ cap' \in Nat /\ head' \in Nat /\ tail' \in Nat
        /\ IF cap' = 0 THEN head' = 0 /\ tail' = 0 ELSE head' < cap' /\ tail' < cap'
    BY <1>1, <1>2, <1>4, <1>6
  <2>2. /\ buf' \in [0 .. cap' - 1 -> Cell] /\ max_capacity' \in Nat /\ growth_limit' \in Limits
        /\ mark' \in [tail : Nat, cap : Nat, len : Nat]
    BY <1>1, <1>5, Zenon DEF Inv, TypeOK
  <2> QED BY <2>1, <2>2, Zenon DEF TypeOK
<1> QED BY <1>1, <1>2, <1>3, <1>4, <1>7, <1>8 DEF At

-----------------------------------------------------------------------------
(* Theorems.                                                               *)

\* RingBuffer::new establishes the invariant.
LEMMA InitInv == Init => Inv
<1> SUFFICES ASSUME Init PROVE Inv BY Zenon
<1>1. NoMark \in [tail : Nat, cap : Nat, len : Nat] /\ MaxUsize \in Nat
  BY RingAssumption, Zenon DEF NoMark
<1>2. buf \in [0 .. cap - 1 -> Cell] BY DEF Init, Cell
<1>3. TypeOK BY <1>1, <1>2, Zenon DEF Init, TypeOK
<1>4. Length = 0 BY EmptyRing, Zenon DEF Init, Length
<1>5. LiveBytesWritten BY <1>4 DEF LiveBytesWritten
<1>6. MarkDenotesPrefix BY Zenon DEF Init, MarkDenotesPrefix
<1> QED BY <1>3, <1>5, <1>6, Zenon DEF Inv

\* Every operation of the ring keeps it.
LEMMA NextInv == Inv /\ [Next]_vars => Inv'
<1> SUFFICES ASSUME Inv, [Next]_vars PROVE Inv' BY Zenon
<1> USE DEF Inv
<1>1. ASSUME NEW data \in Data, Extend(data) PROVE Inv'
  <2>1. mark' = mark BY <1>1, Zenon DEF Extend
  <2>2. Len(data) \in Nat /\ \A k \in 0 .. Len(data) - 1 : data[k + 1] \in Byte
    BY DataFacts, RingAssumption
  <2> QED BY <1>1, <2>1, <2>2, ExtendAppends, AppendKeepsInv, Zenon
<1>2. ASSUME NEW b \in Byte, NEW n \in 1 .. MaxWrite, ExtendAndFill(b, n) PROVE Inv'
  <2>1. mark' = mark BY <1>2, Zenon DEF ExtendAndFill
  <2>2. n \in Nat BY RingAssumption
  <2> QED BY <1>2, <2>1, <2>2, FillAppends, AppendKeepsInv, Zenon
<1>3. ASSUME NEW n \in 1 .. MaxWrite, NEW got, ExtendFromReaderFails(n, got) PROVE Inv'
  <2>1. mark' = mark BY <1>3, Zenon DEF ExtendFromReaderFails
  <2> QED BY <1>3, <2>1, FailedReadAppendsNothing, AppendKeepsInv
<1>4. ASSUME NEW n \in 1 .. MaxWrite, Reserve(n) PROVE Inv'
  <2>1. mark' = mark BY <1>4, Zenon DEF Reserve
  <2> QED BY <1>4, <2>1, ReserveAppendsNothing, AppendKeepsInv
<1>5. ASSUME NEW n \in 1 .. MaxWrite, TryReserve(n) PROVE Inv'
  BY <1>4, <1>5, Zenon DEF TryReserve
<1>6. ASSUME NEW limit \in Limits, NEW target \in 0 .. limit, ReserveBuffer(target, limit)
      PROVE  Inv'
  <2>1. mark' = mark BY <1>6, Zenon DEF ReserveBuffer
  <2> QED BY <1>6, <2>1, ReserveBufferReachesTarget, AppendKeepsInv
<1>7. ASSUME NEW start \in 0 .. Length, NEW n \in 1 .. Free,
             ExtendFromWithin(start, n) \/ ExtendFromWithinBranchless(start, n)
      PROVE  Inv'
  <2>1. start \in Nat /\ n \in Nat /\ Length \in Nat /\ start + n <= Length
    BY <1>7, RingFacts DEF ExtendFromWithin, ExtendFromWithinBranchless
  <2>2. /\ TypeOK' /\ Appends(n, [k \in 0 .. n - 1 |-> At(start + k)])
        /\ cap' = cap /\ head' = head /\ mark' = mark
    BY <1>7, <2>1, WithinAppends, BranchlessAppends, Zenon
  <2>3. \A k \in 0 .. n - 1 : At(start + k) \in Byte BY <2>1 DEF LiveBytesWritten
  <2> QED BY <2>1, <2>2, <2>3, AppendKeepsInv, Zenon
<1>8. ASSUME NEW lits \in Data, NEW offset, NEW ml \in 1 .. MaxWrite,
             ExecSequenceInline(lits, offset, ml)
      PROVE  Inv'
  <2>1. ml \in Nat /\ Len(lits) \in Nat BY DataFacts, RingAssumption
  <2>2. /\ TypeOK' /\ cap' = cap /\ head' = head /\ mark' = mark
        /\ Appends(Len(lits) + ml,
                   [k \in 0 .. Len(lits) + ml - 1 |-> InlineByte(lits, offset, k)])
    BY <1>8, <2>1, InlineStepAppends, Zenon
  <2>3. \A k \in 0 .. Len(lits) + ml - 1 : InlineByte(lits, offset, k) \in Byte
    <3>1. offset \in 1 .. Length + Len(lits) /\ inline_exec_ok(Len(lits), ml, offset)
      BY <1>8, Zenon DEF ExecSequenceInline
    <3> TAKE k \in 0 .. Len(lits) + ml - 1
    <3>2. k \in Nat BY <2>1
    <3> QED BY <2>1, <3>1, <3>2, InlineInByte, Zenon
  <2>4. Len(lits) + ml \in Nat BY <2>1
  <2> DEFINE n == Len(lits) + ml
             src == [k \in 0 .. n - 1 |-> InlineByte(lits, offset, k)]
  <2>5. n \in Nat /\ Appends(n, src) /\ \A k \in 0 .. n - 1 : src[k] \in Byte
    BY <2>2, <2>3, <2>4
  <2> HIDE DEF n, src
  <2>6. LiveBytesWritten' /\ MarkDenotesPrefix' BY <2>2, <2>5, AppendKeepsInv, Zenon
  <2> QED BY <2>2, <2>6, Zenon
<1>9. ASSUME NEW n \in 1 .. Length, DropFirstN(n) PROVE Inv'
  <2>1. /\ TypeOK' /\ Length' = Length - n
        /\ \A i \in 0 .. Length' - 1 : At(i)' = At(n + i)
    BY <1>9, DropKeepsRest, Zenon
  <2>2. Length \in Nat /\ n \in Nat BY RingFacts
  <2>3. LiveBytesWritten' BY <2>1, <2>2 DEF LiveBytesWritten
  <2>4. MarkDenotesPrefix' BY <1>9, Zenon DEF DropFirstN, MarkDenotesPrefix, NoMark
  <2> QED BY <2>1, <2>3, <2>4, Zenon
<1>10. ASSUME NEW limit \in Limits, Reset(limit) PROVE Inv'
  <2>1. NoMark \in [tail : Nat, cap : Nat, len : Nat] /\ MaxUsize \in Nat
    BY RingAssumption, Zenon DEF NoMark
  <2>2. TypeOK' BY <1>10, <2>1 DEF Reset, TypeOK
  <2>3. Length' = 0 BY <1>10 DEF Reset, TypeOK, Length, len, data_slice_lengths
  <2>4. LiveBytesWritten' BY <2>3 DEF LiveBytesWritten
  <2>5. MarkDenotesPrefix' BY <1>10, Zenon DEF Reset, MarkDenotesPrefix, NoMark
  <2> QED BY <2>2, <2>4, <2>5, Zenon
<1>11. CASE ArmBlock
  <2>1. /\ UNCHANGED <<buf, cap, head, tail, growth_limit>>
        /\ max_capacity' = Length + MaxWrite
        /\ mark' = [tail |-> tail, cap |-> cap, len |-> Length]
    BY <1>11, Zenon DEF ArmBlock
  <2>2. /\ Length \in Nat /\ MaxWrite \in Nat /\ cap \in Nat /\ tail \in Nat
        /\ tail = wrap(head + Length, cap)
    BY RingFacts, RingAssumption DEF wrap
  <2>3. Length' = Length BY <2>1, Zenon DEF Length
  <2>4. TypeOK' BY <2>1, <2>2 DEF TypeOK
  <2>5. LiveBytesWritten' BY <2>1, <2>3, Zenon DEF LiveBytesWritten, At
  <2>6. MarkDenotesPrefix' BY <2>1, <2>2, <2>3 DEF MarkDenotesPrefix
  <2> QED BY <2>4, <2>5, <2>6, Zenon
<1>12. CASE RestoreCheckpoint
  <2>1. /\ TypeOK' /\ mark.len \in 0 .. Length /\ Length' = mark.len
        /\ \A i \in 0 .. mark.len - 1 : At(i)' = At(i)
    BY <1>12, RestoreLeavesPrefix, Zenon
  <2>2. Length \in Nat BY RingFacts, Zenon
  <2>3. LiveBytesWritten' BY <2>1, <2>2 DEF LiveBytesWritten
  <2>4. MarkDenotesPrefix' BY <1>12, Zenon DEF RestoreCheckpoint, MarkDenotesPrefix, NoMark
  <2> QED BY <2>1, <2>3, <2>4, Zenon
<1>13. CASE UNCHANGED vars
  BY <1>13, Zenon DEF vars, TypeOK, LiveBytesWritten, MarkDenotesPrefix, Length, At, NoMark
<1> QED
  BY <1>1, <1>2, <1>3, <1>4, <1>5, <1>6, <1>7, <1>8, <1>9, <1>10, <1>11, <1>12, <1>13, Zenon
  DEF Next

\* The cursors never leave the allocation, no cell outside the written output is
\* ever live, and a rollback point denotes a prefix of the output: for every
\* block maximum, overshoot and growth limit.
THEOREM RingInvariant == Spec => [](TypeOK /\ LiveBytesWritten /\ MarkDenotesPrefix)
<1>1. Init => Inv BY InitInv, Zenon
<1>2. Inv /\ [Next]_vars => Inv' BY NextInv, Zenon
<1> QED BY <1>1, <1>2, PTL DEF Spec, Inv

\* Every write of the ring's bytes appends exactly what it was given.
THEOREM WritesTheorem == Spec => WritesAppendExactly
<1>1. Inv /\ [Next]_vars => [WriteAppends]_vars
  <2> SUFFICES ASSUME Inv PROVE WriteAppends BY Zenon
  <2>1. TypeOK /\ Length \in Nat BY RingFacts, Zenon DEF Inv
  <2> QED BY <2>1, ExtendAppends, FillAppends, FailedReadAppendsNothing, WithinAppends,
             BranchlessAppends DEF WriteAppends
<1> QED BY <1>1, RingInvariant, PTL DEF Spec, Inv, WritesAppendExactly

\* The inline executor computes LZ77's self-referential copy.
THEOREM InlineTheorem == Spec => InlineSequenceIsLZ77
<1>1. Inv /\ [Next]_vars => [InlineAppends]_vars
  <2> SUFFICES ASSUME Inv, NEW lits \in Data, NEW offset \in 1 .. Length + MaxWrite,
                      NEW ml \in 1 .. MaxWrite, ExecSequenceInline(lits, offset, ml)
               PROVE  Appends(Len(lits) + ml,
                        [k \in 0 .. Len(lits) + ml - 1 |->
                           IF k < Len(lits) THEN lits[k + 1]
                           ELSE buf'[wrap(head' + (Length + (k - offset)), cap')]])
    BY Zenon DEF InlineAppends
  <2> DEFINE n == Len(lits) + ml
             src == [k \in 0 .. n - 1 |-> InlineByte(lits, offset, k)]
             at(i) == buf'[wrap(head' + i, cap')]
             lz == [k \in 0 .. n - 1 |-> IF k < Len(lits) THEN lits[k + 1]
                                          ELSE at(Length + (k - offset))]
  <2>1. TypeOK /\ LiveBytesWritten /\ Length \in Nat BY RingFacts, Zenon DEF Inv
  <2>2. ml \in Nat /\ Len(lits) \in Nat /\ n \in Nat BY DataFacts, RingAssumption
  <2>3. /\ offset \in 1 .. Length + Len(lits) /\ offset \in Nat
        /\ inline_exec_ok(Len(lits), ml, offset)
    BY <2>1, <2>2 DEF ExecSequenceInline
  <2>4. Appends(n, src) BY <2>1, <2>2, InlineStepAppends
  <2>5. /\ Length' = Length + n
        /\ \A i \in 0 .. Length - 1 : at(i) = At(i)
        /\ \A k \in 0 .. n - 1 : buf'[wrap(head' + Length + k, cap')] = src[k]
    BY <2>4, Zenon DEF Appends
  <2>6. head' \in Nat /\ cap' \in Nat BY <2>1, Zenon DEF ExecSequenceInline, TypeOK
  <2>7. ASSUME NEW k \in 0 .. n - 1 PROVE at(Length + k) = InlineByte(lits, offset, k)
    <3>1. head' + (Length + k) = head' + Length + k BY <2>1, <2>2, <2>6
    <3> QED BY <2>5, <3>1, Zenon
  <2> HIDE DEF n, at
  <2>8. ASSUME NEW k \in 0 .. n - 1 PROVE src[k] = lz[k]
    <3>1. k \in Nat /\ n \in Nat BY <2>2 DEF n
    <3>2. CASE k < Len(lits) BY <3>2, Zenon DEF InlineByte
    <3>3. CASE k >= Len(lits)
      <4>1. lz[k] = at(Length + (k - offset)) BY <2>2, <3>1, <3>3
      <4>2. CASE k - offset < 0
        <5>1. /\ Length + (k - offset) \in 0 .. Length - 1
              /\ InlineByte(lits, offset, k) = At(Length + (k - offset))
          BY <2>1, <2>2, <2>3, <3>1, <3>3, <4>2, InlineSources, Zenon
        <5> QED BY <2>5, <4>1, <5>1, Zenon DEF at
      <4>3. CASE k - offset >= 0
        <5>1. InlineByte(lits, offset, k) = InlineByte(lits, offset, k - offset)
          BY <2>1, <2>2, <2>3, <3>1, <3>3, <4>3, InlineSources, Zenon
        <5>2. k - offset \in 0 .. n - 1 BY <2>3, <3>1, <4>3
        <5> QED BY <2>7, <4>1, <5>1, <5>2, Zenon
      <4> QED BY <2>3, <3>1, <4>2, <4>3
    <3> QED BY <2>2, <3>1, <3>2, <3>3
  <2>9. Appends(n, lz) BY <2>4, <2>8, Zenon DEF Appends
  <2> QED BY <2>9 DEF n, at
<1> QED BY <1>1, RingInvariant, PTL DEF Spec, Inv, InlineSequenceIsLZ77

\* reserve leaves the room it promises, the first allocation and the growth that
\* stops at the limit included.
THEOREM ReserveTheorem == Spec => ReserveSuffices
<1>1. Inv /\ [Next]_vars => [ReserveMakesRoom]_vars
  <2> SUFFICES ASSUME Inv PROVE ReserveMakesRoom BY Zenon
  <2> QED BY ReserveAppendsNothing, ReserveBufferReachesTarget, Zenon DEF Inv, ReserveMakesRoom
<1> QED BY <1>1, RingInvariant, PTL DEF Spec, Inv, ReserveSuffices

\* Growth stops at the frame's limit while the need fits under it.
THEOREM GrowthTheorem == Spec => GrowthStopsAtLimit
<1>1. Inv /\ [Next]_vars => [GrowthWithinLimit]_vars
  <2> SUFFICES ASSUME Inv, NEW n \in 1 .. MaxWrite, Reserve(n), cap' # cap,
                      Length + n <= growth_limit
               PROVE  cap' <= growth_limit + 1
    BY Zenon DEF GrowthWithinLimit
  <2>1. TypeOK BY Zenon DEF Inv
  <2>2. growth_limit \in Nat /\ n \in Nat /\ n <= growth_limit BY <2>1, LimitFacts
  <2>3. ~ HasRoom(n) /\ cap' \in reserve_amortized(n - Free, growth_limit)
    BY Zenon DEF Reserve, ReservedCaps
  <2>4. Free < n BY <2>1, <2>2, <2>3, RoomIsFree, RingFacts
  <2> QED BY <2>1, <2>2, <2>3, <2>4, GrowthSuffices, Zenon
<1> QED BY <1>1, RingInvariant, PTL DEF Spec, Inv, GrowthStopsAtLimit

\* A rollback restores exactly the bytes of its checkpoint.
THEOREM RollbackTheorem == Spec => RollbackRestores
<1>1. Inv /\ [Next]_vars => [RollbackToCheckpoint]_vars
  BY RestoreLeavesPrefix, Zenon DEF RollbackToCheckpoint
<1> QED BY <1>1, RingInvariant, PTL DEF Spec, Inv, RollbackRestores

-----------------------------------------------------------------------------
(* The live bytes as a sequence.                                           *)

\* A function on 1 .. n is a sequence of length n.
LEMMA FunctionIsSeq ==
  ASSUME NEW n \in Nat, NEW f \in [1 .. n -> Byte]
  PROVE  f \in Seq(Byte) /\ Len(f) = n
OBVIOUS

\* A sequence that agrees with s, then with d, is their concatenation.
LEMMA ConcatPointwise ==
  ASSUME NEW s \in Seq(Byte), NEW d \in Seq(Byte), NEW r \in Seq(Byte),
         Len(r) = Len(s) + Len(d),
         \A i \in 1 .. Len(s) : r[i] = s[i],
         \A k \in 1 .. Len(d) : r[Len(s) + k] = d[k]
  PROVE  r = s \o d
<1>1. /\ s \o d \in Seq(Byte) /\ Len(s \o d) = Len(s) + Len(d)
      /\ \A i \in 1 .. Len(s) + Len(d) : (s \o d)[i] =
                     IF i <= Len(s) THEN s[i] ELSE d[i - Len(s)]
  BY ConcatProperties, Zenon
<1>2. Len(s) \in Nat /\ Len(d) \in Nat BY LenProperties, Zenon
<1>3. ASSUME NEW i \in 1 .. Len(r) PROVE r[i] = (s \o d)[i]
  <2>1. CASE i <= Len(s) BY <1>1, <1>2, <2>1
  <2>2. CASE ~ (i <= Len(s))
    <3>1. i - Len(s) \in 1 .. Len(d) /\ Len(s) + (i - Len(s)) = i BY <1>2, <2>2
    <3> QED BY <1>1, <1>2, <2>2, <3>1, Zenon
  <2> QED BY <2>1, <2>2, Zenon
<1> QED BY <1>1, <1>3, SeqEqual, Zenon

\* The ring's live bytes are a sequence of bytes.
LEMMA LiveIsSeq ==
  ASSUME Inv
  PROVE  /\ Length \in Nat
         /\ live \in Seq(Byte) /\ Len(live) = Length
         /\ \A i \in 1 .. Length : live[i] = At(i - 1) /\ At(i - 1) \in Byte
<1>1. Length \in Nat BY RingFacts, Zenon DEF Inv
<1>2. \A i \in 1 .. Length : At(i - 1) \in Byte BY <1>1 DEF Inv, LiveBytesWritten
<1>3. live \in [1 .. Length -> Byte] /\ \A i \in 1 .. Length : live[i] = At(i - 1)
  BY <1>1, <1>2, Zenon DEF live
<1> HIDE DEF live
<1>4. live \in Seq(Byte) /\ Len(live) = Length BY <1>1, <1>3, FunctionIsSeq, Zenon
<1> QED BY <1>1, <1>2, <1>3, <1>4, Zenon

\* And so they are after a step.
LEMMA LiveIsSeqAfter ==
  ASSUME Inv', Length' \in Nat
  PROVE  /\ live' \in Seq(Byte) /\ Len(live') = Length'
         /\ \A i \in 1 .. Length' : live'[i] = buf'[wrap(head' + (i - 1), cap')]
<1>1. \A i \in 0 .. Length' - 1 : buf'[wrap(head' + i, cap')] \in Byte
  BY Zenon DEF Inv, LiveBytesWritten, At
<1>2. ASSUME NEW i \in 1 .. Length' PROVE buf'[wrap(head' + (i - 1), cap')] \in Byte
  <2>1. \A n \in Nat : \A j \in 1 .. n : j - 1 \in 0 .. n - 1 OBVIOUS
  <2>2. i - 1 \in 0 .. Length' - 1 BY <2>1, Zenon
  <2> QED BY <1>1, <2>2, Zenon
<1>3. /\ live' \in [1 .. Length' -> Byte]
      /\ \A i \in 1 .. Length' : live'[i] = buf'[wrap(head' + (i - 1), cap')]
  BY <1>2, Zenon DEF live, At
<1>4. live' \in Seq(Byte) /\ Len(live') = Length' BY <1>3, FunctionIsSeq, Zenon
<1> QED BY <1>3, <1>4, Zenon

\* A step that appends n bytes to the ring appends the same to the queue.
LEMMA AppendsIsConcat ==
  ASSUME Inv, Inv', NEW n \in Nat, NEW src, Appends(n, src),
         NEW d \in Seq(Byte), Len(d) = n, \A k \in 1 .. n : d[k] = src[k - 1]
  PROVE  live' = live \o d
<1>1. /\ Length \in Nat /\ live \in Seq(Byte) /\ Len(live) = Length
      /\ \A i \in 1 .. Length : live[i] = At(i - 1)
  BY LiveIsSeq, Zenon
<1>2. /\ Length' = Length + n
      /\ \A i \in 0 .. Length - 1 : buf'[wrap(head' + i, cap')] = At(i)
      /\ \A k \in 0 .. n - 1 : buf'[wrap(head' + Length + k, cap')] = src[k]
  BY Zenon DEF Appends
<1>3. /\ live' \in Seq(Byte) /\ Len(live') = Length'
      /\ \A i \in 1 .. Length' : live'[i] = buf'[wrap(head' + (i - 1), cap')]
  BY <1>1, <1>2, LiveIsSeqAfter
<1>4. ASSUME NEW i \in 1 .. Length PROVE live'[i] = live[i]
  <2>1. i \in 1 .. Length' /\ i - 1 \in 0 .. Length - 1
    BY <1>1, <1>2
  <2>2. live'[i] = buf'[wrap(head' + (i - 1), cap')]
    BY <1>3, <2>1, Zenon
  <2>3. buf'[wrap(head' + (i - 1), cap')] = At(i - 1)
    BY <1>2, <2>1, Zenon
  <2> QED BY <1>1, <2>2, <2>3, Zenon
<1>5. ASSUME NEW k \in 1 .. n PROVE live'[Length + k] = d[k]
  <2>1. /\ k - 1 \in 0 .. n - 1 /\ Length + k \in 1 .. Length'
        /\ head' \in Nat
    BY <1>1, <1>2 DEF Inv, TypeOK
  <2>2. head' + ((Length + k) - 1) = head' + Length + (k - 1) BY <1>1, <2>1
  <2> QED BY <1>2, <1>3, <2>1, <2>2, Zenon
<1>6. /\ Len(live') = Len(live) + Len(d)
      /\ \A i \in 1 .. Len(live) : live'[i] = live[i]
      /\ \A k \in 1 .. Len(d) : live'[Len(live) + k] = d[k]
  BY <1>1, <1>2, <1>3, <1>4, <1>5, Zenon
<1>7. live \in Seq(Byte) /\ live' \in Seq(Byte) BY <1>1, <1>3, Zenon
<1> QED BY ONLY <1>6, <1>7, d \in Seq(Byte), ConcatPointwise, Zenon

-----------------------------------------------------------------------------
(* The checkpoint.                                                         *)

\* While the mark stays, a step keeps the checkpoint or, by reallocating, loses
\* it for good.
LEMMA CheckpointKeptOrLost ==
  ASSUME Inv, mark' = mark, cap' = cap \/ cap' > cap, cap' \in Nat
  PROVE  /\ checkpoint' = checkpoint \/ checkpoint' = -1
         /\ cap' = cap => checkpoint' = checkpoint
<1>1. mark # NoMark => mark.cap <= cap /\ mark.cap \in Nat /\ cap \in Nat
  BY Zenon DEF Inv, MarkDenotesPrefix, TypeOK
<1>2. NoMark' = NoMark BY Zenon DEF NoMark
<1> QED BY <1>1, <1>2 DEF checkpoint

-----------------------------------------------------------------------------
(* The steps.                                                              *)

\* A byte string handed to the ring is a sequence the queue may be given.
LEMMA DataIsSeq ==
  ASSUME NEW data \in Data
  PROVE  data \in Seq(Byte) /\ data \in Queue!ByteStrings /\ Len(data) \in Nat
<1>1. data \in Queue!ByteStrings BY Zenon DEF Data, Queue!ByteStrings
<1>2. PICK n \in 0 .. MaxWrite : data \in [1 .. n -> Byte] BY Zenon DEF Data
<1>3. n \in Nat BY RingAssumption
<1> QED BY <1>1, <1>2, <1>3, FunctionIsSeq, Zenon

\* A step that leaves the live bytes alone is one of the queue's reallocations.
LEMMA NothingAppended ==
  ASSUME Inv, Inv', Appends(0, << >>), mark' = mark, cap' = cap \/ cap' > cap
  PROVE  Queue!Next
<1>1. /\ Length \in Nat /\ live \in Seq(Byte) /\ Len(live) = Length
      /\ \A i \in 1 .. Length : live[i] = At(i - 1)
  BY LiveIsSeq, Zenon
<1>2. /\ Length' = Length
      /\ \A i \in 0 .. Length - 1 : buf'[wrap(head' + i, cap')] = At(i)
  BY <1>1 DEF Appends
<1>3. live' = live
  <2>1. /\ live' \in Seq(Byte) /\ Len(live') = Length
        /\ \A i \in 1 .. Length : live'[i] = buf'[wrap(head' + (i - 1), cap')]
    BY <1>1, <1>2, LiveIsSeqAfter, Zenon
  <2>2. \A i \in 1 .. Length : live'[i] = live[i] BY <1>1, <1>2, <2>1
  <2> QED BY <1>1, <2>1, <2>2, SeqEqual, Zenon
<1>4. cap' \in Nat BY Zenon DEF Inv, TypeOK
<1>5. checkpoint' = checkpoint \/ checkpoint' = -1 BY <1>4, CheckpointKeptOrLost, Zenon
<1> QED BY <1>3, <1>5, Zenon DEF Queue!Next, Queue!Reallocate, Queue!MayLoseCheckpoint, Queue!NotSaved

\* A step that appends a byte string is one of the queue's writes.
LEMMA WriteRefines ==
  ASSUME Inv, Inv', NEW n \in Nat, NEW src, Appends(n, src),
         NEW d \in Data, Len(d) = n, \A k \in 1 .. n : d[k] = src[k - 1],
         mark' = mark, cap' = cap \/ cap' > cap
  PROVE  Queue!Next
<1>1. d \in Seq(Byte) /\ d \in Queue!ByteStrings BY DataIsSeq, Zenon
<1>2. live' = live \o d BY <1>1, AppendsIsConcat, Zenon
<1>3. cap' \in Nat BY Zenon DEF Inv, TypeOK
<1>4. checkpoint' = checkpoint \/ checkpoint' = -1 BY <1>3, CheckpointKeptOrLost, Zenon
<1>5. Queue!Write(d) BY <1>2, <1>4, Zenon DEF Queue!Write, Queue!MayLoseCheckpoint, Queue!NotSaved
<1> QED BY <1>1, <1>5, Zenon DEF Queue!Next

\* A copy of live bytes is one of the queue's repeats.
LEMMA RepeatRefines ==
  ASSUME Inv, Inv', NEW start \in Nat, NEW n \in Nat, n > 0, start + n <= Length,
         Appends(n, [k \in 0 .. n - 1 |-> At(start + k)]),
         mark' = mark, cap' = cap
  PROVE  Queue!Next
<1> DEFINE d == [k \in 1 .. n |-> live[start + k]]
           src == [k \in 0 .. n - 1 |-> At(start + k)]
<1>1. /\ Length \in Nat /\ live \in Seq(Byte) /\ Len(live) = Length
      /\ \A i \in 1 .. Length : live[i] = At(i - 1) /\ At(i - 1) \in Byte
  BY LiveIsSeq, Zenon
<1>2. ASSUME NEW k \in 1 .. n
      PROVE  live[start + k] = At(start + (k - 1)) /\ live[start + k] \in Byte
  <2>1. start + k \in 1 .. Length /\ (start + k) - 1 = start + (k - 1)
    BY <1>1
  <2> QED BY <1>1, <2>1, Zenon
<1>3. d \in [1 .. n -> Byte] BY <1>2, Zenon
<1>4. d \in Seq(Byte) /\ Len(d) = n BY <1>3, FunctionIsSeq, Zenon
<1>5. \A k \in 1 .. n : d[k] = src[k - 1] BY <1>2
<1>6. Appends(n, src) BY Zenon
<1>7. live' = live \o d
  <2> HIDE DEF d, src
  <2> QED BY <1>4, <1>5, <1>6, AppendsIsConcat, Zenon
<1>8. checkpoint' = checkpoint BY CheckpointKeptOrLost, Zenon DEF Inv, TypeOK
<1>9. Queue!Repeat(start, n) BY <1>1, <1>7, <1>8, Zenon DEF Queue!Repeat
<1>10. start \in 0 .. Len(live) /\ n \in 1 .. Len(live) BY <1>1
<1> QED BY <1>9, <1>10, Zenon DEF Queue!Next

\* What the inline executor stores is the literals, then the match read from the
\* live bytes followed by the literals.
LEMMA InlineByteIsMatch ==
  ASSUME Inv, NEW lits \in Data, NEW offset \in 1 .. Length + Len(lits), NEW ml \in Nat,
         inline_exec_ok(Len(lits), ml, offset), NEW j \in Nat, NEW ph, ph = j % offset
  PROVE  LET i == (Length + Len(lits)) - offset + ph
         IN  /\ ph \in 0 .. offset - 1
             /\ InlineByte(lits, offset, Len(lits) + j) =
                  IF i < Length THEN At(i) ELSE lits[i - Length + 1]
<1> DEFINE ll == Len(lits)
           i == (Length + ll) - offset + ph
<1>1. ll \in Nat /\ Length \in Nat /\ offset \in Nat /\ offset > 0 /\ tail \in Nat
  BY DataIsSeq, LiveIsSeq DEF Inv, TypeOK
<1>2. matchPhase(j, offset) = ph BY Zenon DEF matchPhase
<1>3. ph \in 0 .. offset - 1 BY <1>1, <1>2, PhaseFacts, Zenon
<1>4. matchPhase(ph, offset) = ph
  <2>1. ph \in Nat /\ ph < offset BY <1>1, <1>3
  <2> QED BY <1>1, <2>1, PhaseFacts, Zenon
<1>5. InlineByte(lits, offset, ll + j) = InlineByte(lits, offset, ll + ph)
  <2>1. (ll + j) - ll = j /\ (ll + ph) - ll = ph /\ ~ (ll + j < ll) /\ ~ (ll + ph < ll)
    BY <1>1, <1>3
  <2> HIDE DEF ll
  <2> QED BY <1>2, <1>4, <2>1, Zenon DEF InlineByte, ll
<1>6. CASE ll + ph - offset < 0
  <2>1. ll + ph \in Nat /\ ll + ph >= ll BY <1>1, <1>3
  <2>2. InlineByte(lits, offset, ll + ph) = At(Length + ((ll + ph) - offset))
    BY <1>6, <2>1, InlineSources DEF Inv
  <2>3. Length + ((ll + ph) - offset) = i /\ i < Length BY <1>1, <1>3, <1>6
  <2> QED BY <1>3, <1>5, <2>2, <2>3, Zenon
<1>7. CASE ll + ph - offset >= 0
  <2> DEFINE p == tail + ll - offset + ph
  <2>1. ~ (p < tail) /\ p - tail + 1 = i - Length + 1 /\ ~ (i < Length) /\ ~ (ll + ph < ll)
    BY <1>1, <1>3, <1>7
  <2>2. (ll + ph) - ll = ph BY <1>1, <1>3
  <2>3. InlineByte(lits, offset, ll + ph) = lits[p - tail + 1]
    <3> QED BY <1>4, <2>1, <2>2, Zenon DEF InlineByte
  <2> QED BY <1>3, <1>5, <2>1, <2>3, Zenon
<1> QED BY <1>1, <1>3, <1>6, <1>7

\* The match the queue computes for an executed sequence is a byte string.
LEMMA MatchBytes ==
  ASSUME NEW h \in Seq(Byte), NEW n \in Nat, Len(h) = n, NEW offset \in 1 .. n, NEW ml \in Nat
  PROVE  /\ Queue!LZ77Match(h, offset, ml) \in Seq(Byte)
         /\ Len(Queue!LZ77Match(h, offset, ml)) = ml
         /\ \A k \in 1 .. ml : Queue!LZ77Match(h, offset, ml)[k] =
                                 h[n - offset + 1 + ((k - 1) % offset)]
<1> DEFINE m == Queue!LZ77Match(h, offset, ml)
<1>2. ASSUME NEW k \in 1 .. ml PROVE h[n - offset + 1 + ((k - 1) % offset)] \in Byte
  <2>1. k - 1 \in Nat /\ offset \in Nat /\ offset > 0 OBVIOUS
  <2>2. (k - 1) % offset \in 0 .. offset - 1 BY <2>1
  <2>3. \A r \in 0 .. offset - 1 : n - offset + 1 + r \in 1 .. Len(h) OBVIOUS
  <2> QED BY <2>2, <2>3, ElementOfSeq, Zenon
<1>3. m \in [1 .. ml -> Byte] BY <1>2, Zenon DEF Queue!LZ77Match
<1>4. \A k \in 1 .. ml : m[k] = h[n - offset + 1 + ((k - 1) % offset)]
  BY Zenon DEF Queue!LZ77Match
<1> HIDE DEF m
<1>5. m \in Seq(Byte) /\ Len(m) = ml BY <1>3, FunctionIsSeq, Zenon
<1> QED BY <1>4, <1>5, Zenon DEF m

\* An inline sequence is one of the queue's.
LEMMA ExecuteRefines ==
  ASSUME Inv, Inv', NEW lits \in Data, NEW offset, NEW ml \in 1 .. MaxWrite,
         ExecSequenceInline(lits, offset, ml)
  PROVE  Queue!Next
<1> DEFINE ll == Len(lits)
           n == ll + ml
           src == [k \in 0 .. n - 1 |-> InlineByte(lits, offset, k)]
           h == live \o lits
           m == Queue!LZ77Match(h, offset, ml)
           d == lits \o m
           whole == Length + ll
<1>1. /\ Length \in Nat /\ live \in Seq(Byte) /\ Len(live) = Length
      /\ \A i \in 1 .. Length : live[i] = At(i - 1)
  BY LiveIsSeq, Zenon
<1>2. /\ lits \in Seq(Byte) /\ lits \in Queue!ByteStrings /\ ll \in Nat /\ ll <= MaxWrite
      /\ ml \in Nat /\ MaxWrite \in Nat
  BY DataIsSeq, DataFacts, RingAssumption
<1>3. offset \in 1 .. Length + ll /\ inline_exec_ok(ll, ml, offset)
  BY Zenon DEF ExecSequenceInline
<1>4. Appends(n, src) /\ cap' = cap /\ mark' = mark
  BY <1>2, InlineStepAppends DEF Inv
<1>5. /\ h \in Seq(Byte) /\ Len(h) = Length + ll
      /\ \A i \in 1 .. Length + ll : h[i] = IF i <= Length THEN live[i] ELSE lits[i - Length]
  BY <1>1, <1>2, ConcatProperties, Zenon
<1> HIDE DEF h
<1>6. /\ m \in Seq(Byte) /\ Len(m) = ml
      /\ \A k \in 1 .. ml : m[k] = h[whole - offset + 1 + ((k - 1) % offset)]
  <2>1. /\ whole \in Nat /\ Len(h) = whole /\ offset \in 1 .. whole
        /\ h \in Seq(Byte) /\ ml \in Nat
    BY <1>1, <1>2, <1>3, <1>5
  <2> HIDE DEF whole, m
  <2>2. /\ Queue!LZ77Match(h, offset, ml) \in Seq(Byte)
        /\ Len(Queue!LZ77Match(h, offset, ml)) = ml
        /\ \A k \in 1 .. ml : Queue!LZ77Match(h, offset, ml)[k] =
                                h[whole - offset + 1 + ((k - 1) % offset)]
    BY <2>1, MatchBytes, ZenonT(40)
  <2> QED BY <2>2, Zenon DEF m
<1> HIDE DEF m, whole
<1>7. /\ d \in Seq(Byte) /\ Len(d) = n
      /\ \A k \in 1 .. n : d[k] = IF k <= ll THEN lits[k] ELSE m[k - ll]
  BY <1>2, <1>6, ConcatProperties, Zenon
<1> HIDE DEF d
<1>8. ASSUME NEW j \in 0 .. ml - 1 PROVE m[j + 1] = InlineByte(lits, offset, ll + j)
  <2> DEFINE r == j % offset
             i == whole - offset + r
  <2>1. j \in Nat /\ j + 1 \in 1 .. ml /\ (j + 1) - 1 = j BY <1>2
  <2>2. /\ r \in 0 .. offset - 1
        /\ InlineByte(lits, offset, ll + j) = IF i < Length THEN At(i) ELSE lits[i - Length + 1]
    <3>1. r = j % offset BY Zenon
    <3> HIDE DEF r
    <3>2. /\ r \in 0 .. offset - 1
          /\ InlineByte(lits, offset, ll + j) =
               IF (Length + ll) - offset + r < Length THEN At((Length + ll) - offset + r)
               ELSE lits[((Length + ll) - offset + r) - Length + 1]
      BY <1>2, <1>3, <2>1, <3>1, InlineByteIsMatch, ZenonT(40)
    <3> QED BY <3>2, Zenon DEF whole
  <2>3. m[j + 1] = h[whole - offset + 1 + r] BY <1>6, <2>1, Zenon
  <2> HIDE DEF r
  <2>4. whole = Length + ll /\ whole \in Nat BY <1>1, <1>2 DEF whole
  <2>5. i \in Nat /\ i + 1 \in 1 .. Length + ll /\ m[j + 1] = h[i + 1]
    <3>1. whole - offset + 1 + r = i + 1 /\ i \in Nat /\ i + 1 \in 1 .. whole
      BY <1>3, <2>2, <2>4
    <3> QED BY <2>3, <2>4, <3>1, Zenon
  <2> HIDE DEF i
  <2>6. h[i + 1] = IF i + 1 <= Length THEN live[i + 1] ELSE lits[(i + 1) - Length]
    BY <1>5, <2>5, Zenon
  <2>7. CASE i < Length
    <3>1. i + 1 \in 1 .. Length /\ (i + 1) - 1 = i BY <1>1, <2>5, <2>7
    <3> QED BY <1>1, <2>2, <2>5, <2>6, <2>7, <3>1
  <2>8. CASE ~ (i < Length)
    <3>1. ~ (i + 1 <= Length) /\ (i + 1) - Length = i - Length + 1 BY <1>1, <2>5, <2>8
    <3> QED BY <2>2, <2>5, <2>6, <2>8, <3>1, Zenon
  <2> QED BY <2>7, <2>8, Zenon
<1>9. ASSUME NEW k \in 1 .. n PROVE d[k] = src[k - 1]
  <2>1. k - 1 \in 0 .. n - 1 BY <1>2
  <2>2. src[k - 1] = InlineByte(lits, offset, k - 1) BY <2>1, Zenon
  <2>3. CASE k <= ll
    <3>1. k - 1 < ll /\ (k - 1) + 1 = k BY <1>2, <2>3
    <3>2. InlineByte(lits, offset, k - 1) = lits[k] BY <3>1, Zenon DEF InlineByte
    <3> QED BY <1>7, <2>2, <2>3, <3>2, Zenon
  <2>4. CASE ~ (k <= ll)
    <3>1. /\ (k - ll) - 1 \in 0 .. ml - 1 /\ ((k - ll) - 1) + 1 = k - ll
          /\ ll + ((k - ll) - 1) = k - 1
      BY <1>2, <2>4
    <3>2. m[k - ll] = InlineByte(lits, offset, k - 1) BY <1>8, <3>1, Zenon
    <3> QED BY <1>7, <2>2, <2>4, <3>2, Zenon
  <2> QED BY <2>3, <2>4, Zenon
<1>10. n \in Nat BY <1>2
<1>11. live' = live \o d
  <2> HIDE DEF n, src
  <2> QED BY <1>4, <1>7, <1>9, <1>10, AppendsIsConcat
<1>12. checkpoint' = checkpoint BY <1>4, CheckpointKeptOrLost, Zenon DEF Inv, TypeOK
<1>13. offset \in 1 .. Len(live) + MaxWrite /\ offset <= Len(live) + ll BY <1>1, <1>2, <1>3
<1>14. Queue!Execute(lits, offset, ml)
  BY <1>11, <1>12, <1>13, Zenon DEF Queue!Execute, d, m, h
<1> QED BY <1>2, <1>13, <1>14, Zenon DEF Queue!Next

\* Live bytes that are f's are the sequence f.
LEMMA LiveAfterIs ==
  ASSUME Inv', NEW n \in Nat, Length' = n, NEW f \in [1 .. n -> Byte],
         \A i \in 0 .. n - 1 : At(i)' = f[i + 1]
  PROVE  live' = f
<1>1. /\ live' \in Seq(Byte) /\ Len(live') = n
      /\ \A i \in 1 .. n : live'[i] = buf'[wrap(head' + (i - 1), cap')]
  BY LiveIsSeqAfter, Zenon
<1>2. f \in Seq(Byte) /\ Len(f) = n BY FunctionIsSeq, Zenon
<1>3. ASSUME NEW i \in 1 .. n PROVE live'[i] = f[i]
  <2>1. i - 1 \in 0 .. n - 1 /\ (i - 1) + 1 = i OBVIOUS
  <2>2. At(i - 1)' = f[i] BY <2>1, Zenon
  <2> QED BY <1>1, <2>2, Zenon DEF At
<1> QED BY <1>1, <1>2, <1>3, SeqEqual, Zenon

\* Dropping live bytes drops them from the queue.
LEMMA DropRefines ==
  ASSUME Inv, Inv', NEW n \in 1 .. Length, DropFirstN(n)
  PROVE  Queue!Next
<1>1. /\ Length \in Nat /\ Len(live) = Length
      /\ \A i \in 1 .. Length : live[i] = At(i - 1) /\ At(i - 1) \in Byte
  BY LiveIsSeq, Zenon
<1>2. Length' = Length - n /\ \A i \in 0 .. Length' - 1 : At(i)' = At(n + i)
  BY DropKeepsRest, Zenon DEF Inv
<1> DEFINE k == Length - n
           f == [i \in 1 .. k |-> live[n + i]]
<1>3. k \in Nat /\ n \in Nat BY <1>1
<1>4. ASSUME NEW i \in 0 .. k - 1
      PROVE  live[n + (i + 1)] = At(n + i) /\ At(n + i) \in Byte
  <2>1. n + (i + 1) \in 1 .. Length /\ (n + (i + 1)) - 1 = n + i BY <1>1, <1>3
  <2> QED BY <1>1, <2>1, Zenon
<1>5. ASSUME NEW j \in 1 .. k PROVE live[n + j] \in Byte
  <2>1. j - 1 \in 0 .. k - 1 /\ (j - 1) + 1 = j BY <1>3
  <2> QED BY <1>4, <2>1, Zenon
<1>6. f \in [1 .. k -> Byte] BY <1>5, Zenon
<1>7. \A i \in 0 .. k - 1 : At(i)' = f[i + 1] BY <1>2, <1>3, <1>4
<1>8. live' = f
  <2> HIDE DEF f, k
  <2>1. Length' = k BY <1>2, Zenon DEF k
  <2> QED BY <1>3, <1>6, <1>7, <2>1, LiveAfterIs, Zenon
<1>9. checkpoint' = -1 BY Zenon DEF DropFirstN, checkpoint, NoMark
<1>10. Queue!Drop(n) BY <1>1, <1>8, <1>9, Zenon DEF Queue!Drop, Queue!NotSaved
<1> QED BY <1>1, <1>10, Zenon DEF Queue!Next

\* A rollback cuts the queue back to its checkpoint.
LEMMA RollbackRefines ==
  ASSUME Inv, Inv', RestoreCheckpoint
  PROVE  Queue!Next
<1>1. /\ Length \in Nat /\ Len(live) = Length
      /\ \A i \in 1 .. Length : live[i] = At(i - 1) /\ At(i - 1) \in Byte
  BY LiveIsSeq, Zenon
<1>2. /\ mark.len \in 0 .. Length /\ Length' = mark.len
      /\ \A i \in 0 .. mark.len - 1 : At(i)' = At(i)
  BY RestoreLeavesPrefix, Zenon
<1>3. checkpoint = mark.len BY Zenon DEF RestoreCheckpoint, checkpoint
<1> DEFINE f == [i \in 1 .. checkpoint |-> live[i]]
<1>4. checkpoint \in Nat /\ checkpoint <= Length BY <1>1, <1>2, <1>3
<1>5. ASSUME NEW i \in 0 .. checkpoint - 1 PROVE live[i + 1] = At(i) /\ At(i) \in Byte
  <2>1. i + 1 \in 1 .. Length /\ (i + 1) - 1 = i BY <1>1, <1>4
  <2> QED BY <1>1, <2>1, Zenon
<1>6. ASSUME NEW j \in 1 .. checkpoint PROVE live[j] \in Byte
  BY <1>1, <1>4
<1>7. f \in [1 .. checkpoint -> Byte] BY <1>6, Zenon
<1>8. \A i \in 0 .. checkpoint - 1 : At(i)' = f[i + 1] BY <1>2, <1>3, <1>4, <1>5
<1>9. live' = f
  <2> DEFINE k == checkpoint
  <2> HIDE DEF f
  <2>1. k \in Nat /\ Length' = k BY <1>2, <1>3, <1>4, Zenon
  <2> QED BY <1>7, <1>8, <2>1, LiveAfterIs, Zenon
<1>10. checkpoint' = -1 BY Zenon DEF RestoreCheckpoint, checkpoint, NoMark
<1>11. checkpoint # -1 BY <1>4
<1>12. Queue!Rollback BY <1>9, <1>10, <1>11, Zenon DEF Queue!Rollback, Queue!NotSaved
<1> QED BY <1>12, Zenon DEF Queue!Next

\* No capacity is the one that stands for "no rollback point".
CapBounded == cap <= MaxCap

\* Growth keeps to the bound on capacities.
LEMMA StepCapBounded == Inv /\ CapBounded /\ [Next]_vars => CapBounded'
<1> SUFFICES ASSUME Inv, CapBounded, [Next]_vars PROVE CapBounded' BY Zenon
<1>1. cap \in Nat /\ MaxCap \in Nat BY RingAssumption, Zenon DEF Inv, TypeOK
<1>2. \A n, limit : \A c \in ReservedCaps(n, limit) : c <= MaxCap
  BY <1>1 DEF ReservedCaps, CapBounded
<1>3. CASE cap' = cap BY <1>3, Zenon DEF CapBounded
<1>4. CASE \E n, limit : \E c \in ReservedCaps(n, limit) : cap' = c BY <1>2, <1>4, Zenon DEF CapBounded
<1>5. cap' = cap \/ \E n, limit : \E c \in ReservedCaps(n, limit) : cap' = c
  <2>1. ASSUME NEW data \in Data, Extend(data)
        PROVE  \E n, limit : \E c \in ReservedCaps(n, limit) : cap' = c
    BY <2>1, Zenon DEF Extend
  <2>2. ASSUME NEW b \in Byte, NEW n \in 1 .. MaxWrite, ExtendAndFill(b, n)
        PROVE  \E m, limit : \E c \in ReservedCaps(m, limit) : cap' = c
    BY <2>2, Zenon DEF ExtendAndFill
  <2>3. ASSUME NEW n \in 1 .. MaxWrite, NEW got, ExtendFromReaderFails(n, got)
        PROVE  \E m, limit : \E c \in ReservedCaps(m, limit) : cap' = c
    BY <2>3, Zenon DEF ExtendFromReaderFails
  <2>4. ASSUME NEW n \in 1 .. MaxWrite, Reserve(n) \/ TryReserve(n)
        PROVE  \E m, limit : \E c \in ReservedCaps(m, limit) : cap' = c
    BY <2>4, Zenon DEF Reserve, TryReserve
  <2>5. ASSUME NEW limit \in Limits, NEW target \in 0 .. limit, ReserveBuffer(target, limit)
        PROVE  \E m, l : \E c \in ReservedCaps(m, l) : cap' = c
    BY <2>5, Zenon DEF ReserveBuffer
  <2>6. ASSUME NEW start, NEW n,
               ExtendFromWithin(start, n) \/ ExtendFromWithinBranchless(start, n)
        PROVE  cap' = cap
    BY <2>6, Zenon DEF ExtendFromWithin, ExtendFromWithinBranchless
  <2>7. ASSUME NEW lits, NEW offset, NEW ml, ExecSequenceInline(lits, offset, ml)
        PROVE  cap' = cap
    BY <2>7, Zenon DEF ExecSequenceInline
  <2>8. ASSUME NEW n, DropFirstN(n) PROVE cap' = cap BY <2>8, Zenon DEF DropFirstN
  <2>9. ASSUME NEW limit, Reset(limit) PROVE cap' = cap BY <2>9, Zenon DEF Reset
  <2>10. CASE ArmBlock \/ RestoreCheckpoint \/ UNCHANGED vars
    BY <2>10, Zenon DEF ArmBlock, RestoreCheckpoint, vars
  <2> QED BY <2>1, <2>2, <2>3, <2>4, <2>5, <2>6, <2>7, <2>8, <2>9, <2>10, Zenon DEF Next
<1> QED BY <1>3, <1>4, <1>5, Zenon

\* Every step of the ring is a step of the queue.
LEMMA StepRefines ==
  ASSUME Inv, Inv', CapBounded, [Next]_vars
  PROVE  [Queue!Next]_<<live, checkpoint>>
<1>1. ASSUME NEW data \in Data, Extend(data) PROVE Queue!Next
  <2> DEFINE src == [k \in 0 .. Len(data) - 1 |-> data[k + 1]]
  <2>1. mark' = mark BY <1>1, Zenon DEF Extend
  <2>2. Len(data) \in Nat BY DataIsSeq, Zenon
  <2>3. Appends(Len(data), src) /\ (cap' = cap \/ cap' > cap) BY <1>1, ExtendAppends, Zenon DEF Inv
  <2>4. ASSUME NEW k \in 1 .. Len(data) PROVE data[k] = src[k - 1]
    <3>1. k - 1 \in 0 .. Len(data) - 1 /\ (k - 1) + 1 = k BY <2>2
    <3> QED BY <3>1, Zenon
  <2> HIDE DEF src
  <2> QED BY <2>1, <2>2, <2>3, <2>4, WriteRefines, Zenon
<1>2. ASSUME NEW b \in Byte, NEW n \in 1 .. MaxWrite, ExtendAndFill(b, n) PROVE Queue!Next
  <2> DEFINE src == [k \in 0 .. n - 1 |-> b]
             d == [k \in 1 .. n |-> b]
  <2>1. mark' = mark BY <1>2, Zenon DEF ExtendAndFill
  <2>2. n \in Nat /\ n \in 0 .. MaxWrite BY RingAssumption
  <2>3. Appends(n, src) /\ (cap' = cap \/ cap' > cap) BY <1>2, FillAppends, Zenon DEF Inv
  <2>4. d \in [1 .. n -> Byte] BY Zenon
  <2>5. \A k \in 1 .. n : d[k] = src[k - 1] BY <2>2
  <2> HIDE DEF d, src
  <2>6. d \in Data BY <2>2, <2>4, Zenon DEF Data
  <2>7. Len(d) = n BY <2>2, <2>4, FunctionIsSeq, Zenon
  <2> QED BY <2>1, <2>2, <2>3, <2>5, <2>6, <2>7, WriteRefines, Zenon
<1>3. ASSUME NEW n \in 1 .. MaxWrite, NEW got, ExtendFromReaderFails(n, got) PROVE Queue!Next
  <2>1. mark' = mark BY <1>3, Zenon DEF ExtendFromReaderFails
  <2> QED BY <1>3, <2>1, FailedReadAppendsNothing, NothingAppended, Zenon DEF Inv
<1>4. ASSUME NEW n \in 1 .. MaxWrite, Reserve(n) PROVE Queue!Next
  <2>1. mark' = mark BY <1>4, Zenon DEF Reserve
  <2> QED BY <1>4, <2>1, ReserveAppendsNothing, NothingAppended, Zenon DEF Inv
<1>5. ASSUME NEW n \in 1 .. MaxWrite, TryReserve(n) PROVE Queue!Next
  BY <1>4, <1>5, Zenon DEF TryReserve
<1>6. ASSUME NEW limit \in Limits, NEW target \in 0 .. limit, ReserveBuffer(target, limit)
      PROVE  Queue!Next
  <2>1. mark' = mark BY <1>6, Zenon DEF ReserveBuffer
  <2> QED BY <1>6, <2>1, ReserveBufferReachesTarget, NothingAppended, Zenon DEF Inv
<1>7. ASSUME NEW start \in 0 .. Length, NEW n \in 1 .. Free,
             ExtendFromWithin(start, n) \/ ExtendFromWithinBranchless(start, n)
      PROVE  Queue!Next
  <2>1. start \in Nat /\ n \in Nat /\ n > 0 /\ start + n <= Length
    BY <1>7, RingFacts DEF ExtendFromWithin, ExtendFromWithinBranchless, Inv
  <2>2. /\ Appends(n, [k \in 0 .. n - 1 |-> At(start + k)])
        /\ cap' = cap /\ mark' = mark
    BY <1>7, <2>1, WithinAppends, BranchlessAppends, Zenon DEF Inv
  <2> QED BY <2>1, <2>2, RepeatRefines, Zenon
<1>8. ASSUME NEW lits \in Data, NEW offset, NEW ml \in 1 .. MaxWrite,
             ExecSequenceInline(lits, offset, ml)
      PROVE  Queue!Next
  BY <1>8, ExecuteRefines, Zenon
<1>9. ASSUME NEW n \in 1 .. Length, DropFirstN(n) PROVE Queue!Next
  BY <1>9, DropRefines, Zenon
<1>10. ASSUME NEW limit \in Limits, Reset(limit) PROVE Queue!Next
  <2>1. Length' = 0 BY <1>10 DEF Reset, Inv, TypeOK, Length, len, data_slice_lengths
  <2>2. live' = << >> BY <2>1, LiveIsSeqAfter, EmptySeq, Zenon
  <2>3. checkpoint' = -1 BY <1>10, Zenon DEF Reset, checkpoint, NoMark
  <2> QED BY <2>2, <2>3, Zenon DEF Queue!Next, Queue!Clear, Queue!NotSaved
<1>11. CASE ArmBlock
  <2>1. /\ UNCHANGED <<buf, cap, head, tail>>
        /\ mark' = [tail |-> tail, cap |-> cap, len |-> Length]
    BY <1>11, Zenon DEF ArmBlock
  <2>2. live' = live BY <2>1, Zenon DEF live, Length, At
  <2>3. Length \in Nat /\ Len(live) = Length BY LiveIsSeq, Zenon
  <2>4. mark' # NoMark
    <3>1. cap \in Nat /\ cap < MaxUsize
      BY RingAssumption DEF Inv, TypeOK, CapBounded
    <3>2. mark'.cap = cap /\ NoMark.cap = MaxUsize BY <2>1, Zenon DEF NoMark
    <3> QED BY <3>1, <3>2
  <2>5. checkpoint' = Len(live) BY <2>1, <2>3, <2>4, Zenon DEF checkpoint
  <2> QED BY <2>2, <2>5, Zenon DEF Queue!Next, Queue!Save
<1>12. CASE RestoreCheckpoint
  BY <1>12, RollbackRefines, Zenon
<1>13. CASE UNCHANGED vars
  BY <1>13, Zenon DEF vars, live, checkpoint, Length, At, NoMark
<1> QED
  BY <1>1, <1>2, <1>3, <1>4, <1>5, <1>6, <1>7, <1>8, <1>9, <1>10, <1>11, <1>12, <1>13, SMTT(30)
  DEF Next

\* The ring implements the byte queue: for every block maximum, overshoot and
\* growth limit, whatever the wrap and the reallocations, its operations are those
\* of a plain queue with LZ77 matches and a checkpoint.
THEOREM RingImplementsByteQueue == Spec => ImplementsByteQueue
<1>1. Init => Queue!Init
  <2> SUFFICES ASSUME Init PROVE Queue!Init BY Zenon
  <2>1. Length = 0 BY EmptyRing, Zenon DEF Init, Length
  <2>2. Inv BY InitInv, Zenon
  <2>3. live = << >> BY <2>1, <2>2, LiveIsSeq, EmptySeq, Zenon
  <2>4. checkpoint = -1 BY Zenon DEF Init, checkpoint
  <2> QED BY <2>3, <2>4, Zenon DEF Queue!Init, Queue!NotSaved
<1>2. Inv /\ Inv' /\ CapBounded /\ [Next]_vars => [Queue!Next]_<<live, checkpoint>>
  BY StepRefines, Zenon
<1>3. Init => Inv BY InitInv, Zenon
<1>4. Inv /\ [Next]_vars => Inv' BY NextInv, Zenon
<1>5. Init => CapBounded BY RingAssumption DEF Init, CapBounded
<1>6. Inv /\ CapBounded /\ [Next]_vars => CapBounded' BY StepCapBounded, Zenon
<1> QED BY <1>1, <1>2, <1>3, <1>4, <1>5, <1>6, PTL DEF Spec, ImplementsByteQueue, Queue!Spec
=============================================================================
