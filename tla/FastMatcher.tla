---------------------------- MODULE FastMatcher -----------------------------
(***************************************************************************)
(* The Fast matcher: the kernel that scans a block, and the matcher that   *)
(* keeps its history and table from frame to frame.                        *)
(***************************************************************************)
EXTENDS LZ77

(***************************************************************************)
(* The Fast matcher's table and its three block kernels                    *)
(* (encoding/simple/fast_kernel).  A kernel takes the bytes up to the end  *)
(* of the block, scans the block with two cursors and returns the table,   *)
(* the repeat offsets and the sequences it emitted.                        *)
(***************************************************************************)

CONSTANTS
    FastMls,          \* bytes hashed (mls, 4..=8)
    FastStepIncr,     \* K_STEP_INCR: misses after which the step grows
    FastStepIncrDict, \* K_STEP_INCR_DICT
    MinDictMatch      \* MIN_DICT_MATCH_LEN

EmptySlot == [pos |-> 0, tag |-> 0]

(***************************************************************************)
(* A table holds positions, 0 meaning none.  A tagged one also keeps some  *)
(* bits of the hash.  A biased one stores position + bias: what is not     *)
(* above the bias was stored before the last advance_epoch and reads as 0. *)
(***************************************************************************)
FastTable(slots, tagged) ==
    [slot |-> [i \in 0 .. slots - 1 |-> EmptySlot], bias |-> 0, tagged |-> tagged]

FastSlots(t) == Cardinality(DOMAIN t.slot)

FastHash(d, p) == HashBytes(d, p, FastMls)

FastIndex(t, h) == h % FastSlots(t)

FastTag(t, h) == IF t.tagged THEN (h \div FastSlots(t)) % 2 ELSE 0

\* get: the position, 0 when the tag differs or the entry is of an old epoch
FastGet(t, h) ==
    LET s == t.slot[FastIndex(t, h)]
    IN IF s.tag # FastTag(t, h) THEN 0 ELSE SatSub(s.pos, t.bias)

FastPut(t, h, p) ==
    [t EXCEPT !.slot[FastIndex(t, h)] = [pos |-> p + t.bias, tag |-> FastTag(t, h)]]

\* The positions of `order` in turn, each stored as itself + base under the hash of
\* its n bytes: the last one of a slot stays.
FastPutAll(t, d, order, base, n) ==
    LET put == {[k |-> k, h |-> HashBytes(d, order[k], n)] : k \in DOMAIN order}
        Slot(i) == LET here == {x \in put : FastIndex(t, x.h) = i}
                       last == CHOOSE x \in here : \A y \in here : y.k <= x.k
                   IN IF here = {} THEN t.slot[i]
                      ELSE [pos |-> order[last.k] + base + t.bias, tag |-> FastTag(t, last.h)]
    IN [t EXCEPT !.slot = [i \in DOMAIN t.slot |-> Slot(i)]]

\* put: position p under the hash of the bytes at p
FastIndexAt(t, d, p) == FastPut(t, FastHash(d, p), p)

\* slot_is_empty looks at the stored word, so a tag alone makes a slot taken
FastSlotEmpty(t, h) ==
    LET s == t.slot[FastIndex(t, h)] IN s.pos <= t.bias /\ s.tag = 0

FastClear(t) == FastTable(FastSlots(t), t.tagged)

\* reduce_indices: the history lost its first n bytes, and the bias goes
FastReduce(t, n) ==
    [t EXCEPT !.slot = [i \in DOMAIN t.slot |->
                          IF t.slot[i].pos < t.bias + n THEN EmptySlot
                          ELSE [t.slot[i] EXCEPT !.pos = @ - (t.bias + n)]],
              !.bias = 0]

\* advance_epoch: everything stored up to `span` becomes unreadable
FastAdvance(t, span, ceiling) ==
    IF t.bias + span <= ceiling THEN [t EXCEPT !.bias = @ + span] ELSE FastClear(t)

\* match_found: the candidate is in the window and its first bytes agree
FastFound(d, p, idx, low) == idx >= low /\ SameBytes(d, p, idx, MinMatch)

(***************************************************************************)
(* The scan's state between two matches: the table, both repeat offsets,   *)
(* where the pending literals begin, the cursor and what was emitted.      *)
(***************************************************************************)
FastScan(t, start, reps) ==
    [tab |-> t, anchor |-> start, ip |-> start, r1 |-> reps[1], r2 |-> reps[2],
     seqs |-> <<>>]

FastEmit(k, from, off, len) ==
    [k EXCEPT !.seqs = Append(@, Triple(from - k.anchor, off, len)),
              !.anchor = from + len, !.ip = from + len]

\* The repeat-2 loop run straight after a match: a zero-literal match at r2.
RECURSIVE FastRepeatTwo(_, _, _)
FastRepeatTwo(d, k, low) ==
    IF /\ k.r2 > 0
       /\ k.ip + HashReadSize <= Len(d)
       /\ k.ip >= k.r2 + low
       /\ SameBytes(d, k.ip, k.ip - k.r2, MinMatch)
    THEN LET len == CountForward(d, k.ip, k.ip - k.r2, Len(d))
             emitted == FastEmit([k EXCEPT !.tab = FastIndexAt(@, d, k.ip)],
                                 k.ip, k.r2, len)
         IN FastRepeatTwo(d, [emitted EXCEPT !.r1 = k.r2, !.r2 = k.r1], low)
    ELSE k

\* After a match found from cursor `cur`: two fills, then the repeat-2 loop.
FastAfterMatch(d, k, cur, low) ==
    IF k.ip + HashReadSize > Len(d) THEN k
    ELSE LET fwd == IF cur + 2 + HashReadSize <= Len(d)
                    THEN FastIndexAt(k.tab, d, cur + 2) ELSE k.tab
             back == IF k.ip >= 2 THEN FastIndexAt(fwd, d, k.ip - 2) ELSE fwd
         IN FastRepeatTwo(d, [k EXCEPT !.tab = back], low)

\* A candidate of the table at (p, q): extended backwards, counted, emitted,
\* and its offset becomes the first repeat offset.
FastExplicit(d, k, p, q, low) ==
    LET b == CountBack(d, p, q, k.anchor, low)
        len == b + CountForward(d, p, q, Len(d))
    IN [FastEmit(k, p - b, p - q, len) EXCEPT !.r1 = p - q, !.r2 = k.r1]

(***************************************************************************)
(* compress_block_fast's inner loop: probe ip and ip + 1 and the repeat    *)
(* offset at ip2; `b` has the bounds.  Returns the scan state after the    *)
(* match, marked `done` when the cursors ran out.                          *)
(***************************************************************************)
\* The repeat offset two steps on, extended back by one byte at most.
FastRepeatHit(d, k, ip2, b) ==
    LET q == ip2 - k.r1
        one == IF ip2 > k.anchor /\ q > b.low /\ At(d, ip2 - 1) = At(d, q - 1) THEN 1 ELSE 0
    IN FastAfterMatch(d, FastEmit(k, ip2 - one, k.r1, one + CountForward(d, ip2, q, Len(d))), k.ip, 0)

\* The candidate of the second cursor; a small step also indexes ip2.
FastSecondHit(d, k, q, ip2, step, b) ==
    LET filled == IF step <= 4 THEN [k EXCEPT !.tab = FastIndexAt(@, d, ip2)] ELSE k
    IN FastAfterMatch(d, FastExplicit(d, filled, k.ip + 1, q, b.low), k.ip + 1, 0)

RECURSIVE FastProbe(_, _, _, _, _, _)
FastProbe(d, k, ip2, step, next, b) ==
    LET ip == k.ip
        old == FastGet(k.tab, FastHash(d, ip))
        k1 == [k EXCEPT !.tab = FastIndexAt(@, d, ip)]
        old1 == FastGet(k1.tab, FastHash(d, ip + 1))
        k2 == [k1 EXCEPT !.tab = FastIndexAt(@, d, ip + 1)]
        step1 == IF ip2 + step >= next THEN step + 1 ELSE step
        next1 == IF ip2 + step >= next THEN next + FastStepIncr ELSE next
        Found(scan) == [k |-> scan, more |-> TRUE]
    IN IF k.r1 > 0 /\ SameBytes(d, ip2, ip2 - k.r1, MinMatch)
       THEN Found(FastRepeatHit(d, k2, ip2, b))
       ELSE IF FastFound(d, ip, old, b.prefix)
       THEN Found(FastAfterMatch(d, FastExplicit(d, k2, ip, old, b.low), ip, 0))
       ELSE IF FastFound(d, ip + 1, old1, b.prefix)
       THEN Found(FastSecondHit(d, k2, old1, ip2, step, b))
       ELSE IF ip2 + step + 1 + HashReadSize > Len(d)
       THEN [k |-> k2, more |-> FALSE]
       ELSE FastProbe(d, [k2 EXCEPT !.ip = ip2], ip2 + step, step1, next1, b)

RECURSIVE FastRestart(_, _, _, _)
FastRestart(d, k, step, b) ==
    IF k.ip + HashReadSize >= Len(d) \/ k.ip + step + 1 + HashReadSize > Len(d) THEN k
    ELSE LET r == FastProbe(d, k, k.ip + step, step, k.ip + FastStepIncr, b)
         IN IF r.more THEN FastRestart(d, r.k, step, b) ELSE r.k

(***************************************************************************)
(* compress_block_fast.  A repeat offset that reaches below the window is  *)
(* set aside for the block and comes back only if nothing replaced it.     *)
(***************************************************************************)
CompressBlockFast(d, start, b, t, reps, step) ==
    IF Len(d) < start + HashReadSize
    THEN [tab |-> t, reps |-> reps, seqs |-> <<>>]
    ELSE LET ip0 == Larger(start, 1)
             maxRep == SatSub(ip0, b.low)
             kept(r) == IF r > maxRep THEN 0 ELSE r
             saved(r) == IF r > maxRep THEN r ELSE 0
             k0 == [FastScan(t, start, <<kept(reps[1]), kept(reps[2])>>) EXCEPT !.ip = ip0]
             k == FastRestart(d, k0, step, b)
             saved2 == IF saved(reps[1]) # 0 /\ k.r1 # 0 THEN saved(reps[1]) ELSE saved(reps[2])
         IN [tab |-> k.tab, seqs |-> k.seqs,
             reps |-> << IF k.r1 # 0 THEN k.r1 ELSE saved(reps[1]),
                         IF k.r2 # 0 THEN k.r2 ELSE saved2 >>]

(***************************************************************************)
(* The dictionary kernels.  The dictionary is the first `dictEnd` bytes of *)
(* d, followed by the input; its own tagged table is probed when the main  *)
(* one has nothing in the window.  `floor` is what a main-table match may  *)
(* not be extended below: the window for the owned kernel, the first byte  *)
(* of the input as well for the borrowed one, whose two parts are separate *)
(* buffers.                                                                *)
(***************************************************************************)
DictLookup(t, d, p) == FastGet(t, FastHash(d, p))

RECURSIVE FastDictProbe(_, _, _, _, _, _, _)
FastDictProbe(d, k, ip1, step, next, b, x) ==
    LET ip == k.ip
        idx == FastGet(k.tab, FastHash(d, ip))
        dpos == DictLookup(x.tab, d, ip)
        k1 == [k EXCEPT !.tab = FastIndexAt(@, d, ip)]
        q == ip + 1 - k.r1
        viaDict == FastExplicit(d, k1, ip, dpos, b.low)
        step1 == IF ip1 >= next THEN step + 1 ELSE step
        next1 == IF ip1 >= next THEN next + FastStepIncrDict ELSE next
    IN IF k.r1 > 0 /\ ip + 1 >= k.r1 + b.low /\ SameBytes(d, ip + 1, q, MinMatch)
       THEN [k |-> FastAfterMatch(d, FastEmit(k1, ip + 1, k.r1, CountForward(d, ip + 1, q, Len(d))),
                                  ip, b.low),
             more |-> TRUE]
       ELSE IF /\ idx < b.prefix /\ dpos >= 1 /\ dpos < x.dictEnd /\ dpos >= b.low
               /\ SameBytes(d, ip, dpos, MinMatch)
               /\ viaDict.seqs[Len(viaDict.seqs)].ml >= MinDictMatch
       THEN [k |-> FastAfterMatch(d, viaDict, ip, b.low), more |-> TRUE]
       ELSE IF FastFound(d, ip, idx, b.prefix)
       THEN [k |-> FastAfterMatch(d, FastExplicit(d, k1, ip, idx, Larger(b.low, x.floor)),
                                  ip, b.low),
             more |-> TRUE]
       ELSE IF ip1 + step1 + HashReadSize > Len(d)
       THEN [k |-> [k1 EXCEPT !.ip = ip1], more |-> FALSE]
       ELSE FastDictProbe(d, [k1 EXCEPT !.ip = ip1], ip1 + step1, step1, next1, b, x)

RECURSIVE FastDictRestart(_, _, _, _, _)
FastDictRestart(d, k, step, b, x) ==
    IF k.ip + step + HashReadSize > Len(d) THEN k
    ELSE LET r == FastDictProbe(d, k, k.ip + step, step, k.ip + FastStepIncrDict, b, x)
         IN IF r.more THEN FastDictRestart(d, r.k, step, b, x) ELSE r.k

\* compress_block_fast_dict: one step less, and position 0 is never indexed
CompressBlockFastDict(d, start, b, t, x, reps, step) ==
    IF Len(d) < start + HashReadSize
    THEN [tab |-> t, reps |-> reps, seqs |-> <<>>]
    ELSE LET k0 == [FastScan(t, start, reps) EXCEPT !.ip = Larger(start, 1)]
             k == FastDictRestart(d, k0, step - 1, b, x)
         IN [tab |-> k.tab, reps |-> <<k.r1, k.r2>>, seqs |-> k.seqs]

(***************************************************************************)
(* compress_block_fast_dict_borrowed: the same scan over dictionary and    *)
(* input as one run of virtual positions, dictEnd + i for input byte i.    *)
(***************************************************************************)
CompressBlockFastDictBorrowed(dict, inp, start, b, t, dtab, reps, step) ==
    CompressBlockFastDict(dict \o inp, Len(dict) + start, b, t,
                          [tab |-> dtab, dictEnd |-> Len(dict), floor |-> Len(dict)],
                          reps, step)

(***************************************************************************)
(* FastKernelMatcher (encoding/simple/fast_matcher.rs): the history it     *)
(* keeps, the table over it, the table of an attached dictionary and the   *)
(* window of an input scanned in place.  Each operator is one method: it   *)
(* takes the matcher and returns it, with the block's sequences where the  *)
(* method emits any.                                                       *)
(***************************************************************************)

CONSTANTS
    EpochCeiling,   \* u32::MAX - POSITION_CEILING: the largest bias
    RawSkipStep,    \* RAW_SKIP_INDEX_STEP
    SkipSeam,       \* SEAM: positions indexed densely at both ends of a skip
    LongMatchTail,  \* LONG_MATCH_INDEXED_TAIL
    PrimedCeiling   \* MAX_PRIMED_WINDOW_SIZE

\* FILL_STEP of the dictionary fills and of a skipped long match
FillStep == 3

NoFastDict == [attached |-> FALSE, tab |-> FastTable(1, TRUE), region |-> 0,
               primed |-> FALSE, next |-> 0]

NotStaged == -1

FastNew(p) ==
    [hist |-> <<>>, unc |-> 0, prefix |-> 1, rep |-> <<1, 4>>,
     tab |-> FastTable(p.slots, FALSE), maxWin |-> p.win, adv |-> p.win, step |-> p.step,
     staged |-> NotStaged, lastStart |-> 0, inPlace |-> FALSE, buf |-> <<>>,
     dict |-> NoFastDict, high |-> 0, resident |-> FALSE, dslots |-> 0,
     loadedEnd |-> 0, fillNext |-> 0, floor |-> 0]

FastCommitted(m) == Len(m.hist) - m.unc

(***************************************************************************)
(* reset.  The table of the same shape is left alone when a snapshot will  *)
(* overwrite it, moved to the next epoch when the same primed dictionary   *)
(* is attached again (then the dictionary's bytes stay at the front of the *)
(* history), and cleared otherwise.  A new table takes the dictionary's    *)
(* with it.  carry is "Clear", "AdvanceEpoch", or the slot format of the   *)
(* snapshot: "RestoreTagged", "RestoreBare".                               *)
(***************************************************************************)
FastReset(m, p, carry) ==
    LET h == Prefix(m.hist, FastCommitted(m))
        tagged == p.pays /\ carry # "AdvanceEpoch"
        kept == ~p.moved /\ FastSlots(m.tab) = p.slots /\ m.tab.tagged = tagged
        overwritten == carry = IF tagged THEN "RestoreTagged" ELSE "RestoreBare"
        epoch == kept /\ carry = "AdvanceEpoch" /\ m.dict.primed
        region == IF epoch /\ Len(h) >= m.dict.region THEN m.dict.region ELSE 0
    IN [m EXCEPT
          !.hist = Prefix(h, region), !.unc = 0, !.staged = NotStaged,
          !.tab = IF ~kept THEN FastTable(p.slots, tagged)
                  ELSE IF overwritten THEN @
                  ELSE IF epoch THEN FastAdvance(@, m.high, EpochCeiling)
                  ELSE FastClear(@),
          !.dict = IF kept THEN @ ELSE NoFastDict,
          !.high = 0, !.loadedEnd = 0, !.fillNext = 0, !.resident = region > 0,
          !.prefix = 1, !.rep = <<1, 4>>, !.adv = p.win, !.step = p.step,
          !.maxWin = p.win + Smaller(region, PrimedCeiling - p.win),
          !.lastStart = region, !.inPlace = FALSE, !.buf = <<>>]

\* fill_uncommitted
FastFill(m, bytes) == [m EXCEPT !.hist = @ \o bytes, !.unc = @ + Len(bytes)]


FastDrain(m, n) ==
    [m EXCEPT !.hist = SubSeq(@, n + 1, Len(@)), !.prefix = 1, !.dict = NoFastDict,
              !.loadedEnd = 0, !.tab = FastReduce(@, n),
              !.lastStart = SatSub(@, n)]

\* commit_block: the history holds two windows; past that it drops to one.
FastCommit(m, len) ==
    LET cap == 2 * m.maxWin
        retain == Smaller(cap - len, m.maxWin)
        drop == IF FastCommitted(m) > cap - len THEN SatSub(FastCommitted(m), retain) ELSE 0
        d == IF drop > 0 THEN FastDrain(m, drop) ELSE m
    IN [d EXCEPT !.unc = @ - len, !.lastStart = FastCommitted(d), !.staged = len]

FastTake(m) == [m EXCEPT !.staged = NotStaged, !.high = Larger(@, FastCommitted(m))]

FastUncommit(m) == [m EXCEPT !.unc = @ + m.staged, !.staged = NotStaged]

(***************************************************************************)
(* start_matching.  The window floor is one window below the end of the    *)
(* block, or the first byte while the dictionary is still in reach.        *)
(***************************************************************************)
\* Mutant: a dictionary stays in reach however far the input has come.
FastFloorForever(end, adv, dictEnd) ==
    IF dictEnd # 0 THEN 0 ELSE SatSub(end, adv)

FastFloor(end, adv, dictEnd) ==
    IF dictEnd # 0 /\ end <= adv + dictEnd THEN 0 ELSE SatSub(end, adv)

FastBounds(m, low) == [low |-> low, prefix |-> Larger(low, m.prefix)]

FastStart(m) ==
    LET t == FastTake(m)
        d == Prefix(m.hist, FastCommitted(m))
        start == Len(d) - m.staged
        dictEnd == IF m.loadedEnd # 0 THEN m.loadedEnd
                   ELSE IF m.dict.attached THEN m.dict.region ELSE 0
        b == FastBounds(m, FastFloor(Len(d), m.adv, dictEnd))
        x == [tab |-> m.dict.tab, dictEnd |-> m.dict.region, floor |-> 0]
        r == IF m.dict.attached
             THEN CompressBlockFastDict(d, start, b, m.tab, x, m.rep, m.step)
             ELSE CompressBlockFast(d, start, b, m.tab, m.rep, m.step)
    IN [m |-> [t EXCEPT !.tab = r.tab, !.rep = r.reps], seqs |-> r.seqs]

\* The positions a stepped fill indexes, in order: the head and the tail of
\* the range densely, then every step-th position.
FillOrder(from, last, step) ==
    LET run(a, n, s) == [i \in 1 .. n |-> a + (i - 1) * s]
        dense(a, z) == run(a, z - a + 1, 1)
    IN IF step = 1 THEN dense(from, last)
       ELSE dense(from, Smaller(last, from + SkipSeam))
            \o dense(Larger(SatSub(last, SkipSeam), from), last)
            \o run(from, (last - from) \div step + 1, step)

\* prime_hash_table_stepped over d, whose positions are stored shifted by `base`
FastFillAll(t, d, order, base) == FastPutAll(t, d, order, base, FastMls)

\* prime_hash_table_for_range[_borrowed]: from a little before the range on
FastPrimeRange(t, d, start, step, base) ==
    LET from == SatSub(start, HashReadSize - 1)
    IN IF from + HashReadSize > Len(d) THEN t
       ELSE FastFillAll(t, d, FillOrder(from, Len(d) - HashReadSize, step), base)

\* skip_matching_with_hint: hint is "none", "incompressible" or "searchable"
FastSkipStep(hint) == IF hint = "incompressible" THEN RawSkipStep ELSE 1

FastSkip(m, hint) ==
    LET d == Prefix(m.hist, FastCommitted(m))
    IN [FastTake(m) EXCEPT
          !.tab = IF hint = "none" THEN @
                  ELSE FastPrimeRange(@, d, Len(d) - m.staged, FastSkipStep(hint), 0)]

\* skip_long_match: only the end of a long match is indexed
FastSkipLong(m) ==
    LET d == Prefix(m.hist, FastCommitted(m))
    IN [FastTake(m) EXCEPT
          !.tab = FastPrimeRange(@, d, Len(d) - Smaller(m.staged, LongMatchTail), FillStep, 0)]

FastNoteLong(m, off) == [m EXCEPT !.rep = <<off, @[1]>>]

(***************************************************************************)
(* The input scanned in place: positions count from its first byte, or     *)
(* from the dictionary's when one is attached.                             *)
(***************************************************************************)
FastBorrow(m, buf) == [m EXCEPT !.inPlace = TRUE, !.buf = buf, !.prefix = 1]

FastUnborrow(m) == [m EXCEPT !.inPlace = FALSE, !.buf = <<>>, !.prefix = 1]

\* start_matching_borrowed
FastStartBorrowed(m, start, end) ==
    LET low == SatSub(end, m.adv)
        r == CompressBlockFast(Prefix(m.buf, end), start, FastBounds(m, low), m.tab, m.rep, m.step)
    IN [m |-> [m EXCEPT !.tab = r.tab, !.rep = r.reps, !.high = Larger(@, end)],
        seqs |-> r.seqs]

\* start_matching_borrowed_dict
FastStartBorrowedDict(m, start, end) ==
    LET dict == Prefix(m.hist, m.dict.region)
        virtual == m.dict.region + end
        b == FastBounds(m, FastFloor(virtual, m.adv, m.dict.region))
        r == CompressBlockFastDictBorrowed(dict, Prefix(m.buf, end), start, b, m.tab,
                                           m.dict.tab, m.rep, m.step)
    IN [m |-> [m EXCEPT !.tab = r.tab, !.rep = r.reps, !.high = Larger(@, virtual)],
        seqs |-> r.seqs]

\* skip_matching_borrowed: indexes, without raising the high-water mark
FastSkipBorrowed(m, start, end, hint) ==
    [m EXCEPT !.tab = IF hint = "none" THEN @
                      ELSE FastPrimeRange(@, Prefix(m.buf, end), start, FastSkipStep(hint),
                                          m.dict.region)]

FastSkipLongBorrowed(m, start, end) ==
    [m EXCEPT !.high = Larger(@, end),
              !.tab = FastPrimeRange(@, Prefix(m.buf, end),
                                     end - Smaller(end - start, LongMatchTail),
                                     FillStep, m.dict.region)]

(***************************************************************************)
(* Dictionary fills: every FillStep-th position is stored, the ones        *)
(* between only into an empty slot; the stride goes on from slice to slice.*)
(***************************************************************************)
RECURSIVE FastDictFill(_, _, _)
FastDictFill(t, d, s) ==
    LET last == Len(d) - HashReadSize
        gap(u, p) == IF FastSlotEmpty(u, FastHash(d, p)) THEN FastIndexAt(u, d, p) ELSE u
    IN IF s + FillStep >= last + 2 THEN [tab |-> t, next |-> s]
       ELSE FastDictFill(gap(gap(FastIndexAt(t, d, s), s + 1), s + 2), d, s + FillStep)

\* skip_matching_for_dict_copy: the dictionary becomes a prefix of the window
FastPrimeCopy(m) ==
    LET t == FastTake([m EXCEPT !.dict = NoFastDict])
        d == Prefix(m.hist, FastCommitted(m))
        from == Larger(m.fillNext, m.floor)
        r == FastDictFill(m.tab, d, from)
    IN IF Len(d) < HashReadSize + from
       THEN [t EXCEPT !.loadedEnd = Len(d)]
       ELSE [t EXCEPT !.tab = r.tab, !.fillNext = r.next, !.loadedEnd = Len(d)]

(***************************************************************************)
(* skip_matching_for_dict_prime: into the dictionary's own table, unless   *)
(* that is already built.  A table of another width is rebuilt.            *)
(***************************************************************************)
FastPrimeAttach(m) ==
    LET t == FastTake(m)
        d == Prefix(m.hist, FastCommitted(m))
        slots == IF m.dslots # 0 THEN m.dslots ELSE FastSlots(m.tab)
        other == m.dict.attached /\ FastSlots(m.dict.tab) # slots
        base == IF other THEN NoFastDict ELSE m.dict
        old == IF base.attached THEN base.tab ELSE FastTable(slots, TRUE)
        r == FastDictFill(old, d, Larger(base.next, m.floor))
    IN IF m.dict.primed \/ Len(d) < HashReadSize + Larger(m.dict.next, m.floor)
       THEN [t EXCEPT !.dict.region = Len(d)]
       ELSE [t EXCEPT !.dict = [base EXCEPT !.attached = TRUE, !.tab = r.tab,
                                            !.next = r.next, !.region = Len(d)]]

FastMarkPrimed(m) == [m EXCEPT !.dict.primed = @ \/ m.dict.attached]

FastInvalidate(m) == [m EXCEPT !.dict = NoFastDict]

\* set_dict_table_hash_log (0: none): a table of another width is stale
FastSetDictSlots(m, slots) ==
    [m EXCEPT !.dslots = slots,
              !.dict = IF m.dict.attached /\ FastSlots(m.dict.tab) # slots
                       THEN NoFastDict ELSE @]

\* retire_history: only a primed dictionary's bytes stay
FastRetire(m) ==
    LET h == Prefix(m.hist, FastCommitted(m))
        kept == IF m.dict.primed /\ Len(h) >= m.dict.region THEN m.dict.region ELSE 0
    IN [m EXCEPT !.hist = Prefix(h, kept), !.unc = 0]

\* trim_to_window
FastTrim(m) ==
    IF FastCommitted(m) > m.maxWin THEN FastDrain(m, FastCommitted(m) - m.maxWin) ELSE m

(***************************************************************************)
(* No entry a kernel would accept names a byte that is not behind it: of   *)
(* the main table none lies at or past the committed end (for an input     *)
(* scanned in place, none inside the dictionary either), and none of the   *)
(* dictionary's lies past the dictionary.                                  *)
(***************************************************************************)
FastTablePast(m, done) ==
    LET live == {SatSub(m.tab.slot[i].pos, m.tab.bias) : i \in DOMAIN m.tab.slot} \ {0}
        end == IF m.inPlace THEN m.dict.region + done ELSE FastCommitted(m)
    IN /\ \A p \in live : p < end /\ (m.inPlace => p >= m.dict.region)
       /\ \A i \in DOMAIN m.dict.tab.slot : m.dict.tab.slot[i].pos <= m.dict.region
=============================================================================
