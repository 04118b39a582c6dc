---------------------------- MODULE DfastMatcher ----------------------------
(***************************************************************************)
(* The Dfast matcher: its two tables, and the scan and frame handling over *)
(* them.                                                                   *)
(***************************************************************************)
EXTENDS FastMatcher

(***************************************************************************)
(* DfastMatchGenerator (encoding/dfast/mod.rs), the state and everything   *)
(* but the search: two tables (long and short keys) of positions relative  *)
(* to position_base, over a history whose absolute positions go on from    *)
(* frame to frame, so that what an earlier frame stored lies below the     *)
(* floor.  An input scanned in place is numbered from 0.                   *)
(***************************************************************************)

CONSTANTS
    DfShortKey,       \* DFAST_SHORT_HASH_LOOKAHEAD: bytes of the short key (5)
    DfMinMatch,       \* DFAST_MIN_MATCH_LEN (5)
    DfSkipStep,       \* DFAST_INCOMPRESSIBLE_SKIP_STEP
    DfTaggedMaxRel,   \* DFAST_TAGGED_MAX_REL: last position a tagged slot holds
    DfTaggedRebase,   \* DFAST_TAGGED_REBASE
    DfBareMaxRel,     \* u32::MAX - DFAST_REBASE_GUARD_BAND
    DfBareRebase,     \* DFAST_REBASE_GUARD_BAND
    FloorCeiling,     \* REBASE_RESET_FLOOR_CEILING
    DfLongTail,       \* LONG_MATCH_INDEXED_TAIL
    DfPrimedCeiling   \* MAX_PRIMED_WINDOW_SIZE

DenseTail == DfMinMatch + 3

NotRetired == [is |-> FALSE]

DfNew(p) ==
    [maxWin |-> p.win, blocks |-> <<>>, winSize |-> 0, unc |-> 0, hist |-> <<>>,
     hstart |-> 0, abs |-> 0, rep |-> <<1, 4, 8>>, floor |-> 0, held |-> FALSE,
     long |-> FastTable(1, FALSE), short |-> FastTable(1, FALSE), fresh |-> FALSE,
     tagged |-> FALSE, base |-> 0, lslots |-> p.slots, sslots |-> p.slots,
     dict |-> Detached, keep |-> NothingKept, dslots |-> 0, inPlace |-> FALSE,
     buf |-> <<>>, blk |-> <<>>, resident |-> FALSE, earlier |-> FALSE,
     retired |-> NotRetired]

DfPark(m) == [m EXCEPT !.keep = ParkKeep(m.dict, @), !.dict = Detached]

DfEmpty(m) ==
    [m EXCEPT !.long = FastTable(m.lslots, m.tagged), !.short = FastTable(m.sslots, m.tagged),
              !.held = TRUE]

\* set_hash_bits: tables of another size go, and with them the attached ones
DfSetSlots(m, n) ==
    IF n = m.lslots THEN m ELSE DfPark([m EXCEPT !.lslots = n, !.sslots = n, !.held = FALSE])

\* set_dict_table_bits, 0 for none
DfSetDictSlots(m, n) ==
    LET sized == [m EXCEPT !.dslots = n]
    IN IF n = 0 THEN [sized EXCEPT !.dict = Detached, !.keep = NothingKept]
       ELSE IF IsAttached(m.dict) /\ FastSlots(m.dict.tab.long) # n THEN DfPark(sized)
       ELSE sized

(***************************************************************************)
(* retire_history and retire: the committed history ends at the next       *)
(* frame's floor; a fully built dictionary at its front stays.             *)
(***************************************************************************)
DfRetire(m) ==
    LET h == Prefix(m.hist, Len(m.hist) - m.unc)
        next == m.abs + Len(h) - m.hstart
        r == m.dict.region
        kept == IF /\ m.dict.primed /\ m.hstart = 0 /\ next <= FloorCeiling
                   /\ r > 0 /\ Len(h) >= r THEN r ELSE 0
    IN IF m.retired.is THEN m
       ELSE [m EXCEPT !.hist = Prefix(h, kept), !.unc = 0,
                      !.retired = [is |-> TRUE, next |-> next, kept |-> kept]]

\* bind_tables: `kept` tells whether the workspace still holds the old tables
DfBind(m, moved, tagged) ==
    LET kept == m.held /\ ~moved
        continued == kept /\ m.tagged = tagged
        t == [m EXCEPT !.tagged = tagged, !.fresh = ~continued,
                       !.base = IF ~continued /\ tagged THEN m.retired.next ELSE @]
    IN IF continued THEN t ELSE DfEmpty(t)

(***************************************************************************)
(* reset: the next frame starts at the floor, which is past everything the *)
(* earlier frames committed; above the ceiling all is emptied instead.     *)
(***************************************************************************)
DfReset(m) ==
    LET r == DfRetire(m)
        region == r.retired.kept
        cleared == region = 0 /\ r.retired.next > FloorCeiling
        base == [r EXCEPT !.rep = <<1, 4, 8>>, !.retired = NotRetired, !.hstart = 0,
                          !.winSize = region, !.resident = region > 0,
                          !.blocks = IF region > 0 THEN <<region>> ELSE <<>>,
                          !.maxWin = @ + Smaller(region, DfPrimedCeiling - m.maxWin),
                          !.abs = IF cleared THEN 0 ELSE r.retired.next,
                          !.base = IF cleared THEN 0 ELSE @,
                          !.earlier = m.held /\ ~m.fresh /\ ~cleared, !.fresh = FALSE,
                          !.inPlace = FALSE, !.buf = <<>>, !.blk = <<>>]
    IN IF cleared /\ m.held THEN DfEmpty(base) ELSE base

DfFill(m, bytes) == [m EXCEPT !.hist = @ \o bytes, !.unc = @ + Len(bytes)]

\* Whole blocks leave the front of the window until it is no larger than `room`.
RECURSIVE DfEvict(_, _)
DfEvict(m, room) ==
    IF m.winSize <= room THEN m
    ELSE LET n == Head(m.blocks)
         IN DfEvict([m EXCEPT !.blocks = Tail(@), !.winSize = @ - n, !.hstart = @ + n,
                              !.abs = @ + n], room)

DfDropFront(m) == [m EXCEPT !.hist = SubSeq(@, m.hstart + 1, Len(@)), !.hstart = 0]

\* commit_block with compact_history
DfCommit(m, len) ==
    LET e == IF m.winSize + len > m.maxWin THEN DfEvict(DfPark(m), m.maxWin - len) ELSE m
        compact == e.hstart > 0 /\ (\/ e.hstart >= m.maxWin \div 4
                                    \/ e.hstart * 2 >= Len(e.hist) - e.unc)
        c == IF compact THEN DfDropFront(e) ELSE e
    IN [c EXCEPT !.winSize = @ + len, !.blocks = Append(@, len), !.unc = @ - len]

DfTrim(m) ==
    LET p == IF m.winSize > m.maxWin \/ m.hstart # 0 THEN DfPark(m) ELSE m
    IN DfDropFront(DfEvict(p, m.maxWin))

DfUncommit(m) ==
    LET n == m.blocks[Len(m.blocks)]
    IN [m EXCEPT !.blocks = SubSeq(@, 1, Len(@) - 1), !.winSize = @ - n, !.unc = @ + n]

(***************************************************************************)
(* scan_source: the bytes a scan sees and what position 0 of them and the  *)
(* slots count from.                                                       *)
(***************************************************************************)
DfView(m) ==
    IF m.inPlace /\ m.blk # <<>> THEN [d |-> Prefix(m.buf, m.blk[2]), abs |-> 0, base |-> 0]
    ELSE [d |-> SubSeq(m.hist, m.hstart + 1, Len(m.hist) - m.unc), abs |-> m.abs, base |-> m.base]

\* The stored word for index p of the view, and back.
DfWord(v, p) == p + v.abs - v.base + 1

DfIndexOf(v, w) == w - 1 + v.base - v.abs

DfReduce(m, n) ==
    LET cut(t) == [t EXCEPT !.slot = [i \in DOMAIN t.slot |->
                       IF t.slot[i].pos <= n THEN EmptySlot
                       ELSE [t.slot[i] EXCEPT !.pos = @ - n]]]
    IN [m EXCEPT !.long = cut(@), !.short = cut(@), !.base = @ + n]

\* ensure_room_for the absolute position p
RECURSIVE DfRoom(_, _)
DfRoom(m, p) ==
    IF p - m.base <= (IF m.tagged THEN DfTaggedMaxRel ELSE DfBareMaxRel) THEN m
    ELSE DfRoom(DfReduce(m, IF m.tagged THEN DfTaggedRebase ELSE DfBareRebase), p)

DfRoomFor(m, p) == IF m.inPlace /\ m.blk # <<>> THEN m ELSE DfRoom(m, DfView(m).abs + p)

LongHash(d, p) == HashBytes(d, p, HashReadSize)

ShortHash(d, p) == HashBytes(d, p, DfShortKey)

DfPutLong(m, p) ==
    LET v == DfView(m)
    IN IF p + HashReadSize > Len(v.d) THEN m
       ELSE [m EXCEPT !.long = FastPut(@, LongHash(v.d, p), DfWord(v, p))]

DfPutShort(m, p) ==
    LET v == DfView(m)
    IN IF p + DfShortKey > Len(v.d) THEN m
       ELSE [m EXCEPT !.short = FastPut(@, ShortHash(v.d, p), DfWord(v, p))]

\* insert_position
DfInsert(m, p) == DfPutLong(DfPutShort(DfRoomFor(m, p), p), p)

\* insert_complementary: after a match found from p and ending at `end`
DfComplement(m, p, end) ==
    LET r == DfRoomFor(m, Larger(p + 2, end - 1))
    IN DfPutShort(DfPutShort(DfPutLong(DfPutLong(r, p + 2), end - 2), p + 2), end - 1)

\* insert_range over [from, to): the long table only when every position is taken
DfInsertRange(m, from, to, step) ==
    LET v == DfView(m)
        Order(n) == LET last == Smaller(to - 1, Len(v.d) - n)
                    IN [i \in 1 .. (last + step - from) \div step |-> from + (i - 1) * step]
        Fill(t, n) == FastPutAll(t, v.d, Order(n), DfWord(v, 0), n)
    IN [m EXCEPT !.short = Fill(@, DfShortKey), !.long = IF step = 1 THEN Fill(@, HashReadSize) ELSE @]

DfRange(m, from, to, step) ==
    IF from >= to THEN m ELSE DfInsertRange(DfRoomFor(m, to - 1), from, to, step)

DfEnsure(m) == IF m.held THEN m ELSE DfEmpty(m)

\* The last committed block, or the staged one, as indices of the view.
DfBlock(m) ==
    IF m.inPlace /\ m.blk # <<>> THEN m.blk
    ELSE <<m.winSize - m.blocks[Len(m.blocks)], m.winSize>>

\* Indexing without a search: the seam before the block, then the block.
DfIndexBlock(m, sparse) ==
    LET b == DfBlock(m)
        seam == DfRange(DfEnsure(m), SatSub(b[1], DenseTail), b[1], 1)
    IN IF ~sparse THEN DfRange(seam, b[1], b[2], 1)
       ELSE DfRange(DfRange(seam, b[1], b[2], DfSkipStep),
                    Larger(SatSub(b[2], DenseTail), b[1]), b[2], 1)

\* skip_matching and skip_matching_borrowed; hints as in FastSkip
DfSkip(m, hint) == DfIndexBlock(m, hint = "incompressible")

DfSkipBorrowed(m, start, end, hint) ==
    LET s == [m EXCEPT !.blk = <<start, end>>]
    IN IF hint = "none" THEN s ELSE DfIndexBlock(s, hint = "incompressible")

\* skip_matching_dense: a copied dictionary, from its index floor on
DfPrimeCopy(m) ==
    LET e == DfEnsure(m)
        b == DfBlock(m)
        from == Larger(b[1], Smaller(m.floor, b[2]))
    IN DfRange(DfRange(e, Larger(SatSub(from, DenseTail), m.floor), from, 1), from, b[2], 1)

(***************************************************************************)
(* skip_matching_for_dict_attach: the dictionary goes to tables of its own *)
(* (prime_dict_tables_for_range), and the live ones hold bare slots.       *)
(***************************************************************************)
DfFillDict(t, d, p, end) ==
    LET Order(n) == [i \in 1 .. Smaller(end, Len(d) - n + 1) - p |-> p + i - 1]
    IN [t EXCEPT !.short = FastPutAll(@, d, Order(DfShortKey), 1, DfShortKey),
                 !.long = FastPutAll(@, d, Order(HashReadSize), 1, HashReadSize)]

DfPrimeAttach(m) ==
    LET bare == DfEnsure(m)
        e == IF bare.tagged THEN DfEmpty([bare EXCEPT !.tagged = FALSE]) ELSE bare
        b == DfBlock(m)
        d == DfView(m).d
        slots == IF m.dslots # 0 THEN m.dslots ELSE m.lslots
        other == IsAttached(m.dict) /\ FastSlots(m.dict.tab.long) # slots
        p == [(IF other THEN DfPark(e) ELSE e) EXCEPT !.dict.region = b[2]]
        floor == Smaller(m.floor, b[2])
        from == Larger(SatSub(Larger(b[1], floor), DenseTail), floor)
        tab == IF IsAttached(p.dict) THEN p.dict.tab
               ELSE [attached |-> TRUE, long |-> FastTable(slots, TRUE),
                     short |-> FastTable(slots, TRUE), floor |-> m.floor]
    IN IF m.dict.primed THEN [e EXCEPT !.dict.region = b[2]]
       ELSE IF from >= Smaller(SatSub(Len(d), DfShortKey - 1), b[2]) THEN p
       ELSE [p EXCEPT !.dict.tab = DfFillDict(tab, d, from, b[2])]

DfMarkPrimed(m) == [m EXCEPT !.dict = MarkPrimed(@)]

\* revive_dict_cache: tables parked for the same dictionary and widths
DfRevive(m, len) ==
    LET slots == IF m.dslots # 0 THEN m.dslots ELSE m.lslots
        accepted == m.keep.parked => /\ FastSlots(m.keep.dict.tab.long) = slots
                                     /\ m.keep.dict.tab.floor = m.floor
                                     /\ m.keep.dict.region = len
    IN [m EXCEPT !.dict = ReviveDict(@, m.keep, accepted), !.keep = NothingKept]

\* invalidate_dict_cache: the dictionary changed
DfForget(m) == [m EXCEPT !.dict = Detached, !.keep = NothingKept]

\* restore_snapshot: all of the snapshot but its dictionary tables
DfRestore(m, snap) == [snap EXCEPT !.dict = m.dict, !.keep = m.keep]

\* forget_earlier_frames, asked for before an input is scanned in place
DfForgetEarlier(m) ==
    IF m.earlier THEN [DfEmpty(m) EXCEPT !.base = 0, !.earlier = FALSE] ELSE m

DfBorrow(m, buf) == [DfForgetEarlier(m) EXCEPT !.inPlace = TRUE, !.buf = buf, !.blk = <<>>]

DfUnborrow(m) == [m EXCEPT !.inPlace = FALSE, !.buf = <<>>, !.blk = <<>>]

DfSkipLong(m) ==
    LET e == DfEnsure(m)
        b == DfBlock(m)
    IN DfRange(e, b[2] - Smaller(b[2] - b[1], DfLongTail), b[2], 1)

(***************************************************************************)
(* The two search loops of DfastMatchGenerator.  All positions are indices *)
(* into the bytes the scan sees (DfView); `blk` is the block being         *)
(* searched, the last of them.  The loops thread one record: the matcher,  *)
(* the cursor, where the pending literals begin and the sequences.         *)
(***************************************************************************)

CONSTANTS
    DfStepInterval,  \* DFAST_SKIP_STEP_GROWTH_INTERVAL: misses before the step grows
    DfFillStepMax    \* the step below which the second cursor is stored too (4)

\* extend_backwards_shared
DfCandidate(d, p, q, len, lit) ==
    LET b == CountBack(d, p, q, lit, 0) IN [start |-> p - b, off |-> p - q, len |-> len + b]

DfMatch(d, p, q, lit) == DfCandidate(d, p, q, CountForward(d, p, q, Len(d)), lit)

\* A stored word names a position of the window before p with `n` equal bytes.
DfHit(m, w, p, n) ==
    LET v == DfView(m)
        q == DfIndexOf(v, w)
        low == IF m.inPlace THEN SatSub(p, m.maxWin) ELSE 0
    IN w # 0 /\ q >= low /\ q < p /\ SameBytes(v.d, p, q, n)

DfAt(m, w) == DfIndexOf(DfView(m), w)

DfLongAt(m, p) == FastGet(m.long, LongHash(DfView(m).d, p))

DfShortAt(m, p) == FastGet(m.short, ShortHash(DfView(m).d, p))

\* The first repeat offset gives a match at p.
DfRepHit(m, p) ==
    LET rep == m.rep[1]
    IN /\ rep # 0 /\ rep <= p /\ (m.inPlace => rep <= m.maxWin)
       /\ SameBytes(DfView(m).d, p, p - rep, MinMatch)

\* emit_candidate: the fills around the match, the sequence, the history
DfEmit(k, c, scan) ==
    LET ll == c.start - k.lit
        end == c.start + c.len
        m == DfComplement(k.m, scan, end)
    IN [k EXCEPT !.m = [m EXCEPT !.rep = NoteOffset(@, c.off, ll)], !.pos = end, !.lit = end,
                 !.seqs = Append(@, Triple(ll, c.off, c.len))]

\* extend_with_repcode_after_match: matches at the second offset, no literals
RECURSIVE DfRepeatTwo(_)
DfRepeatTwo(k) ==
    LET d == DfView(k.m).d
        rep == k.m.rep[2]
        len == CountForward(d, k.pos, k.pos - rep, Len(d))
        m == DfInsert(k.m, k.pos)
    IN IF /\ k.pos + MinMatch <= Len(d) /\ rep # 0 /\ rep <= k.pos
          /\ SameBytes(d, k.pos, k.pos - rep, MinMatch)
       THEN DfRepeatTwo([k EXCEPT !.m = [m EXCEPT !.rep = NoteOffset(@, rep, 0)],
                                  !.pos = @ + len, !.lit = k.pos + len,
                                  !.seqs = Append(@, Triple(0, rep, len))])
       ELSE k

DfCommitMatch(k, c, scan) == DfRepeatTwo(DfEmit(k, c, scan))

(***************************************************************************)
(* One long and one short candidate at p, the long one first; None when    *)
(* neither gives a match (probe_tail_ip0_only).                            *)
(***************************************************************************)
NoCandidate == [len |-> 0]

DfProbeTail(k, p) ==
    LET m == k.m
        d == DfView(m).d
        long == DfLongAt(m, p)
        short == DfShortAt(m, p)
        c == DfMatch(d, p, DfAt(m, short), k.lit)
    IN IF DfHit(m, long, p, HashReadSize) THEN DfMatch(d, p, DfAt(m, long), k.lit)
       ELSE IF DfHit(m, short, p, MinMatch) /\ c.len >= DfMinMatch THEN c
       ELSE NoCandidate

(***************************************************************************)
(* The fast loop's inner scan: the repeat offset at ip1, a long match at   *)
(* ip0, a short one at ip0 (or a longer one found through the long table   *)
(* at ip1), else on.  idxl0 was read before ip0 was stored.  Returns the   *)
(* record with `found` telling whether a match was committed.              *)
(***************************************************************************)
DfTakeRepeat(k, ip0, ip1) ==
    DfCommitMatch(k, DfMatch(DfView(k.m).d, ip1, ip1 - k.m.rep[1], k.lit), ip0)

\* The second cursor is stored too while the step is small.
DfTake(k, c, ip0, ip1, step) ==
    DfCommitMatch([k EXCEPT !.m = IF step < DfFillStepMax THEN DfPutLong(@, ip1) ELSE @], c, ip0)

\* The short match at ip0, or the longer one the word idxl1 gives one byte on
DfShortChoice(k, ip0, ip1, idxs0, idxl1) ==
    LET m == k.m
        d == DfView(m).d
        short == DfMatch(d, ip0, DfAt(m, idxs0), k.lit)
    IN IF ~DfHit(m, idxs0, ip0, MinMatch) THEN NoCandidate
       ELSE IF /\ DfHit(m, idxl1, ip1, HashReadSize)
               /\ CountForward(d, ip1, DfAt(m, idxl1), Len(d)) > short.len
       THEN DfMatch(d, ip1, DfAt(m, idxl1), k.lit)
       ELSE IF short.len >= DfMinMatch THEN short ELSE NoCandidate

RECURSIVE DfScan(_, _, _, _, _, _)
DfScan(k, ip0, ip1, idxl0, step, next) ==
    LET d == DfView(k.m).d
        k1 == [k EXCEPT !.m = DfPutShort(DfPutLong(@, ip0), ip0)]
        idxl1 == DfLongAt(k1.m, ip1)
        short == DfShortChoice(k1, ip0, ip1, DfShortAt(k.m, ip0), idxl1)
        step1 == IF ip1 >= next THEN step + 1 ELSE step
        next1 == IF ip1 >= next THEN next + DfStepInterval ELSE next
    IN IF DfRepHit(k1.m, ip1) THEN [k |-> DfTakeRepeat(k1, ip0, ip1), found |-> TRUE]
       ELSE IF DfHit(k1.m, idxl0, ip0, HashReadSize)
       THEN [k |-> DfTake(k1, DfMatch(d, ip0, DfAt(k1.m, idxl0), k.lit), ip0, ip1, step),
             found |-> TRUE]
       ELSE IF short # NoCandidate
       THEN [k |-> DfTake(k1, short, ip0, ip1, step), found |-> TRUE]
       ELSE IF ip1 + step1 + HashReadSize > Len(d)
       THEN [k |-> [k1 EXCEPT !.pos = ip1], found |-> FALSE]
       ELSE DfScan(k1, ip1, ip1 + step1, idxl1, step1, next1)

RECURSIVE DfFastLoop(_)
DfFastLoop(k) ==
    LET n == Len(DfView(k.m).d)
        tail == DfProbeTail(k, k.pos)
        r == DfScan(k, k.pos, k.pos + 1, DfLongAt(k.m, k.pos), 1, k.pos + DfStepInterval)
    IN IF k.pos + HashReadSize > n THEN k
       ELSE IF k.pos + 1 + HashReadSize > n
       THEN IF tail = NoCandidate THEN k ELSE DfFastLoop(DfCommitMatch(k, tail, k.pos))
       ELSE IF r.found THEN DfFastLoop(r.k) ELSE r.k

(***************************************************************************)
(* The loop over an attached dictionary: a candidate the live tables do    *)
(* not have is looked up in the dictionary's.  A miss moves on by a step   *)
(* that grows with the pending literals.                                   *)
(***************************************************************************)
DfDictLong(m, p) == FastGet(m.dict.tab.long, LongHash(DfView(m).d, p))

DfDictShort(m, p) == FastGet(m.dict.tab.short, ShortHash(DfView(m).d, p))

DfDictHit(m, w, p, n) ==
    w # 0 /\ w - 1 < m.dict.region /\ SameBytes(DfView(m).d, p, w - 1, n)

\* A long match at p from the live table, else from the dictionary's; -1: none
DfLongSource(m, word, p) ==
    LET w == DfDictLong(m, p)
    IN IF DfHit(m, word, p, HashReadSize) THEN DfAt(m, word)
       ELSE IF DfDictHit(m, w, p, HashReadSize) THEN w - 1 ELSE -1

\* The dictionary is asked for a short match only when the live word is out of range.
DfShortSource(m, word, p) ==
    LET v == DfView(m)
        q == DfIndexOf(v, word)
        w == DfDictShort(m, p)
    IN IF word # 0 /\ q >= 0 /\ q < p
       THEN IF SameBytes(v.d, p, q, MinMatch) THEN q ELSE -1
       ELSE IF DfDictHit(m, w, p, MinMatch) THEN w - 1 ELSE -1

\* The short match at ip, or the longer long one one byte on
DfDictShortChoice(k, ip, short, ahead) ==
    LET m == k.m
        d == DfView(m).d
        c == DfMatch(d, ip, short, k.lit)
        long1 == IF ahead THEN DfLongSource(m, DfLongAt(m, ip + 1), ip + 1) ELSE -1
    IN IF short < 0 THEN NoCandidate
       ELSE IF long1 >= 0 /\ CountForward(d, ip + 1, long1, Len(d)) > c.len
       THEN DfMatch(d, ip + 1, long1, k.lit)
       ELSE IF c.len >= DfMinMatch THEN c ELSE NoCandidate

RECURSIVE DfDictScan(_, _)
DfDictScan(k, ip) ==
    LET d == DfView(k.m).d
        k1 == [k EXCEPT !.m = DfPutShort(DfPutLong(@, ip), ip)]
        long == DfLongSource(k1.m, DfLongAt(k.m, ip), ip)
        short == DfShortSource(k1.m, DfShortAt(k.m, ip), ip)
        ahead == ip + 1 + HashReadSize <= Len(d)
        c == DfDictShortChoice(k1, ip, short, ahead)
        k2 == [k1 EXCEPT !.m = IF short >= 0 /\ ahead THEN DfPutLong(@, ip + 1) ELSE @]
        on == ip + (ip - k.lit) \div DfStepInterval + 1
    IN IF DfRepHit(k1.m, ip + 1) THEN [k |-> DfTakeRepeat(k1, ip, ip + 1), found |-> TRUE]
       ELSE IF long >= 0
       THEN [k |-> DfCommitMatch(k1, DfMatch(d, ip, long, k.lit), ip), found |-> TRUE]
       ELSE IF c # NoCandidate THEN [k |-> DfCommitMatch(k2, c, ip), found |-> TRUE]
       ELSE IF on + HashReadSize > Len(d)
       THEN [k |-> [k2 EXCEPT !.pos = on], found |-> FALSE]
       ELSE DfDictScan(k2, on)

RECURSIVE DfDictLoop(_)
DfDictLoop(k) ==
    IF k.pos + HashReadSize > Len(DfView(k.m).d) THEN k
    ELSE LET r == DfDictScan(k, k.pos)
         IN IF r.found THEN DfDictLoop(r.k) ELSE r.k

\* seed_remaining_hashable_starts
DfSeed(k, blk) ==
    LET from == Smaller(Smaller(k.pos, blk[2]), blk[1] + SatSub(blk[2] - blk[1], DenseTail))
    IN [k EXCEPT !.m = DfRange(@, from, SatSub(blk[2], DfShortKey - 1), 1)]

(***************************************************************************)
(* start_matching and start_matching_borrowed: index the seam before the   *)
(* block, then run the loop from its second byte.                          *)
(***************************************************************************)
DfSearch(m) ==
    LET b == DfBlock(m)
        e == DfEnsure(m)
        seam == DfRange(e, SatSub(b[1], DenseTail), b[1], 1)
        k0 == [m |-> DfRoomFor(seam, b[2] - 1), pos |-> b[1] + 1, lit |-> b[1], seqs |-> <<>>]
        k == DfSeed(IF IsAttached(m.dict) THEN DfDictLoop(k0) ELSE DfFastLoop(k0), b)
    IN [m |-> k.m, seqs |-> k.seqs]

DfStart(m) == DfSearch(m)

DfStartBorrowed(m, start, end) == DfSearch([m EXCEPT !.blk = <<start, end>>])

DfNoteLong(m, off, ll) == [m EXCEPT !.rep = NoteOffset(@, off, ll)]

(***************************************************************************)
(* The first byte of the window has a slot word of its own: position_base  *)
(* never passes it (min_slot would wrap), and no stored word outgrows its  *)
(* slot.                                                                   *)
(***************************************************************************)
DfWordsFit(m) ==
    LET words(t) == {t.slot[i].pos : i \in DOMAIN t.slot}
        max == IF m.tagged THEN DfTaggedMaxRel ELSE DfBareMaxRel
    IN /\ ~m.inPlace => m.base <= m.abs
       /\ m.held => \A w \in words(m.long) \cup words(m.short) : w <= max + 1
=============================================================================
