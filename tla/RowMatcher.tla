----------------------------- MODULE RowMatcher -----------------------------
(***************************************************************************)
(* The Row matcher: its tables, its three finders (rows, chain, tree), the *)
(* indexes of a dictionary, and the lazy scan over them.                   *)
(***************************************************************************)
EXTENDS LZ77

(***************************************************************************)
(* RowMatchGenerator (encoding/row/mod.rs), the state and everything but   *)
(* the search.  It serves the greedy and lazy levels with one of three     *)
(* finders over one allocation: rows of tagged slots, hash chains, or a    *)
(* binary tree whose newest nodes are still unsorted.  Positions are       *)
(* absolute and go on from frame to frame, an input scanned in place       *)
(* included, so that earlier frames lie below low_limit.                   *)
(***************************************************************************)

CONSTANTS
    RowTagValues,     \* 1 << ROW_TAG_BITS
    RowSkipStep,      \* INCOMPRESSIBLE_SKIP_STEP
    RowMinMatch,      \* ROW_MIN_MATCH_LEN
    RowMaxPos,        \* u32::MAX - 1 - BT_IDX_BASE: positions end below it
    RowFloorCeiling,  \* REBASE_RESET_FLOOR_CEILING
    RowPrimedCeiling, \* MAX_PRIMED_WINDOW_SIZE
    RowLongTail       \* LONG_MATCH_INDEXED_TAIL

NoPos == -1           \* ROW_EMPTY_SLOT

TreeBase == 2         \* BT_IDX_BASE: a tree names position p by p + 2

Unsorted == 1         \* BT_UNSORTED_MARK

NoPlan == [is |-> FALSE]

RowNew(p) ==
    [maxWin |-> p.win, blocks |-> <<>>, winSize |-> 0, unc |-> 0, hist |-> <<>>, hstart |-> 0,
     abs |-> 0, rep |-> <<1, 4, 8>>, lreps |-> <<>>, floor |-> 0, loaded |-> 0, low |-> 0,
     prefix |-> 0, ntu |-> 0, swin |-> 0, salt |-> 1, cfg |-> p.row, slots |-> p.slots,
     tab |-> [layout |-> "None", len |-> 0], fresh |-> FALSE, plan |-> NoPlan,
     dict |-> Detached, keep |-> NothingKept, inPlace |-> FALSE, buf |-> <<>>, blk |-> <<>>,
     extent |-> 0, resident |-> FALSE, retired |-> [is |-> FALSE]]

RowPark(m) == [m EXCEPT !.keep = ParkKeep(m.dict, @), !.dict = Detached]

\* set_dict_plan
RowSetPlan(m, plan) ==
    LET p == IF ~plan.is THEN [m EXCEPT !.dict = Detached, !.keep = NothingKept]
             ELSE IF m.plan # plan THEN RowPark(m) ELSE m
    IN [p EXCEPT !.plan = plan]

(***************************************************************************)
(* An empty allocation for the finder: table_layout, mark_tables_laid_out. *)
(***************************************************************************)
RowCount(cfg, slots) == slots \div cfg.rowLen

TableLen(cfg, slots) ==
    IF cfg.finder = "Rows" THEN slots + (RowCount(cfg, slots) + slots + 3) \div 4
    ELSE slots + cfg.chainLen

LinksTable(finder, slots, n) ==
    LET empty == IF finder = "Tree" THEN 0 ELSE NoPos
    IN [layout |-> finder, len |-> slots + n, hash |-> [i \in 0 .. slots - 1 |-> empty],
        chain |-> [i \in 0 .. n - 1 |-> empty]]

RowsTable(cfg, slots) ==
    LET rows == 0 .. RowCount(cfg, slots) - 1
    IN [layout |-> "Rows", len |-> TableLen(cfg, slots), head |-> [r \in rows |-> 0],
        slot |-> [r \in rows |-> [i \in 0 .. cfg.rowLen - 1 |-> [tag |-> 0, pos |-> NoPos]]]]

EmptyTable(cfg, slots) ==
    IF cfg.finder = "Rows" THEN RowsTable(cfg, slots)
    ELSE LinksTable(cfg.finder, slots, cfg.chainLen)

NoTable == [layout |-> "None", len |-> 0]

\* configure, with set_hash_bits: another number of rows drops the tables
RowConfigure(m, f, salt) ==
    LET other == RowCount(f.row, f.slots) # RowCount(m.cfg, m.slots)
    IN [m EXCEPT !.cfg = f.row, !.slots = f.slots, !.swin = m.maxWin, !.salt = salt,
                 !.tab = IF other THEN NoTable ELSE @]

(***************************************************************************)
(* retire_history and retire: the frame's positions end at the next one's  *)
(* floor; a dictionary whose tables are complete stays at the front.       *)
(***************************************************************************)
RowRetire(m) ==
    LET h == Prefix(m.hist, Len(m.hist) - m.unc)
        next == m.abs + Larger(Len(h) - m.hstart, m.extent)
        r == m.dict.region
        kept == IF /\ m.dict.primed /\ m.hstart = 0 /\ next <= RowFloorCeiling
                   /\ r > 0 /\ Len(h) >= r THEN r ELSE 0
    IN IF m.retired.is THEN m
       ELSE [m EXCEPT !.hist = Prefix(h, kept), !.unc = 0, !.extent = 0,
                      !.retired = [is |-> TRUE, next |-> next, kept |-> kept]]

\* bind_tables: a region of the same length keeps what it holds, whatever its layout
RowBind(m, moved) ==
    LET kept == ~moved /\ m.tab.len = TableLen(m.cfg, m.slots)
    IN [m EXCEPT !.fresh = ~kept, !.tab = IF kept THEN @ ELSE EmptyTable(m.cfg, m.slots)]

\* The table refilled with the finder's empty word (rows also lose heads and tags).
RowWipe(m) ==
    LET t == m.tab
        empty == IF m.cfg.finder = "Tree" /\ t.layout # "Rows" THEN 0 ELSE NoPos
    IN CASE t.layout = "None" -> t
         [] t.layout = "Rows" ->
              [t EXCEPT !.head = [r \in DOMAIN @ |-> 0],
                        !.slot = [r \in DOMAIN @ |-> [i \in DOMAIN @[r] |->
                                     [tag |-> 0, pos |-> NoPos]]]]
         [] OTHER -> [t EXCEPT !.hash = [i \in DOMAIN t.hash |-> empty],
                               !.chain = [i \in DOMAIN t.chain |-> empty]]


RowReset(m) ==
    LET r == RowRetire(m)
        allocated == r.tab.layout # "None" /\ ~r.fresh
        region == IF allocated THEN r.retired.kept ELSE 0
        next == r.retired.next
        abs == IF allocated /\ next <= RowFloorCeiling THEN next ELSE 0
        attach == r.plan.is /\ r.plan.attach
        end == abs + region
    IN [r EXCEPT
          !.retired = [is |-> FALSE], !.rep = <<1, 4, 8>>, !.lreps = <<>>, !.fresh = FALSE,
          !.winSize = region, !.hist = IF region > 0 THEN @ ELSE <<>>, !.hstart = 0,
          !.resident = region > 0, !.inPlace = FALSE, !.buf = <<>>, !.blk = <<>>, !.abs = abs,
          !.tab = IF allocated /\ next > RowFloorCeiling THEN RowWipe(r) ELSE @,
          !.blocks = IF region > 0 THEN <<region>> ELSE <<>>, !.ntu = end,
          !.loaded = IF region > 0 THEN end ELSE 0, !.prefix = end,
          !.low = IF attach THEN end ELSE abs,
          !.maxWin = @ + Smaller(region, RowPrimedCeiling - m.maxWin)]

RowFill(m, bytes) == [m EXCEPT !.hist = @ \o bytes, !.unc = @ + Len(bytes)]

(***************************************************************************)
(* rebase_positions: positions from 0 again before they outgrow a slot.    *)
(***************************************************************************)
RowRebase(m) ==
    LET n == m.abs
        abs(p) == IF p = NoPos \/ p < n THEN NoPos ELSE p - n
        node(w) == IF w < TreeBase THEN w ELSE IF w - TreeBase < n THEN 0 ELSE w - n
        word(w) == IF m.tab.layout = "Tree" THEN node(w) ELSE abs(w)
        tab == CASE m.tab.layout = "None" -> m.tab
                 [] m.tab.layout = "Rows" ->
                      [m.tab EXCEPT !.slot = [r \in DOMAIN @ |-> [i \in DOMAIN @[r] |->
                          [@[r][i] EXCEPT !.pos = abs(@)]]]]
                 [] OTHER -> [m.tab EXCEPT !.hash = [i \in DOMAIN @ |-> word(@[i])],
                                           !.chain = [i \in DOMAIN @ |-> word(@[i])]]
    IN IF n = 0 THEN m
       ELSE [m EXCEPT !.tab = tab, !.ntu = SatSub(@, n), !.low = SatSub(@, n),
                      !.prefix = SatSub(@, n), !.abs = 0,
                      !.loaded = IF @ = 0 THEN 0 ELSE SatSub(@, n)]

RECURSIVE RowEvict(_)
RowEvict(m) ==
    IF m.winSize <= m.maxWin THEN m
    ELSE LET n == Head(m.blocks)
         IN RowEvict([m EXCEPT !.blocks = Tail(@), !.winSize = @ - n, !.hstart = @ + n,
                               !.abs = @ + n])

\* What is evicted is also below the limits of the search.
RowRaiseLimits(m) ==
    LET low == Larger(m.low, m.abs)
    IN [m EXCEPT !.low = low, !.prefix = Larger(@, low)]

\* commit_block with compact_history
RowCommit(m, len) ==
    LET r == IF m.abs + m.winSize + len >= RowMaxPos THEN RowRebase(m) ELSE m
        e == RowEvict(r)
        p == RowRaiseLimits(IF e.hstart # r.hstart THEN RowPark(e) ELSE e)
        compact == p.hstart > 0 /\ (\/ p.hstart >= p.maxWin \div 4
                                    \/ p.hstart * 2 >= Len(p.hist) - p.unc)
        c == IF compact THEN [p EXCEPT !.hist = SubSeq(@, p.hstart + 1, Len(@)), !.hstart = 0]
             ELSE p
    IN IF len = 0 THEN m
       ELSE [c EXCEPT !.winSize = @ + len, !.blocks = Append(@, len), !.unc = @ - len]

RowTrim(m) ==
    RowRaiseLimits(RowEvict(IF m.winSize > m.maxWin THEN RowPark(m) ELSE m))

RowUncommit(m) ==
    LET n == m.blocks[Len(m.blocks)]
    IN [m EXCEPT !.blocks = SubSeq(@, 1, Len(@) - 1), !.winSize = @ - n, !.unc = @ + n]

\* set_offset_hist
RowSetReps(m, reps) == [m EXCEPT !.rep = reps, !.lreps = <<>>]

(***************************************************************************)
(* Scanning in place goes on in the same positions (borrowed_extent).      *)
(***************************************************************************)
RowBorrow(m, buf) ==
    LET r == IF m.abs + Len(buf) >= RowMaxPos THEN RowRebase(m) ELSE m
    IN [r EXCEPT !.inPlace = TRUE, !.buf = buf, !.blk = <<>>, !.extent = 0, !.loaded = 0]

RowUnborrow(m) == [m EXCEPT !.inPlace = FALSE, !.buf = <<>>, !.blk = <<>>]

RowStage(m, start, end) ==
    [m EXCEPT !.blk = <<start, end>>, !.extent = Larger(@, end)]

\* live_history, and the block within it as absolute positions
RowData(m) ==
    IF m.blk # <<>> THEN Prefix(m.buf, m.blk[2])
    ELSE SubSeq(m.hist, m.hstart + 1, Len(m.hist) - m.unc)

RowBlock(m) ==
    IF m.blk # <<>> THEN <<m.abs + m.blk[1], m.abs + m.blk[2]>>
    ELSE <<m.abs + m.winSize - m.blocks[Len(m.blocks)], m.abs + m.winSize>>

(***************************************************************************)
(* scan_ctx_with: what the search of one block goes by.                    *)
(***************************************************************************)
RowScan(m) ==
    [d |-> RowData(m), from |-> m.abs, swin |-> m.swin, low |-> m.low, prefix |-> m.prefix,
     dictFrame |-> m.loaded # 0, attached |-> m.loaded # 0 /\ m.plan.is /\ m.plan.attach]

WindowLow(s, p) == IF s.dictFrame THEN s.low ELSE Larger(s.low, SatSub(p, s.swin))

\* key_hash_raw: near the end of the data only MinMatch bytes are left to hash
KeyHash(d, i, mls) == HashBytes(d, i, IF i + HashReadSize > Len(d) THEN MinMatch ELSE mls)

RowKey(d, i, mls, salt, rows) ==
    LET h == KeyHash(d, i, mls) + salt
    IN [row |-> (h \div RowTagValues) % rows, tag |-> h % RowTagValues]

NoKey == [row |-> NoPos]

\* row_hash_at for an absolute position
RowKeyAt(m, s, p) ==
    IF p - s.from + MinMatch > Len(s.d) THEN NoKey
    ELSE RowKey(s.d, p - s.from, m.cfg.mls, m.salt, RowCount(m.cfg, m.slots))

\* insert_at: the head moves back one slot, over slot 0
RowsPut(t, key, p) ==
    LET n == Cardinality(DOMAIN t.slot[key.row])
        back == (t.head[key.row] + n - 1) % n
        next == IF back = 0 THEN n - 1 ELSE back
    IN [t EXCEPT !.head[key.row] = next, !.slot[key.row][next] = [tag |-> key.tag, pos |-> p]]

RowInsert(m, s, p) ==
    LET key == RowKeyAt(m, s, p)
    IN IF key = NoKey THEN m ELSE [m EXCEPT !.tab = RowsPut(@, key, p)]

RECURSIVE RowInsertRange(_, _, _, _, _)
RowInsertRange(m, s, p, end, step) ==
    LET key == RowKeyAt(m, s, p)
    IN IF p >= end \/ key = NoKey THEN m
       ELSE RowInsertRange([m EXCEPT !.tab = RowsPut(@, key, p)], s, p + step, end, step)

\* The positions before the end that a stepped pass over the block left out.
RECURSIVE RowInsertTail(_, _, _, _)
RowInsertTail(m, s, p, b) ==
    IF p >= b[2] THEN m
    ELSE RowInsertTail(IF (p - b[1]) % RowSkipStep = 0 THEN m ELSE RowInsert(m, s, p), s, p + 1, b)

\* hc_hash_at
LinkHash(m, s, p) == KeyHash(s.d, p - s.from, m.cfg.mls) % m.slots

ChainPut(t, h, p) ==
    [t EXCEPT !.chain[p % Cardinality(DOMAIN t.chain)] = t.hash[h], !.hash[h] = p]

RECURSIVE ChainInsertRange(_, _, _, _, _)
ChainInsertRange(m, s, p, end, step) ==
    IF p >= end \/ m.slots = 0 THEN m
    ELSE ChainInsertRange([m EXCEPT !.tab = ChainPut(@, LinkHash(m, s, p), p)],
                          s, p + step, end, step)

\* ensure_tables: laid out for another finder, or not at all
RowEnsure(m) ==
    IF m.tab.layout = m.cfg.finder /\ m.tab.len = TableLen(m.cfg, m.slots) THEN m
    ELSE [m EXCEPT !.tab = EmptyTable(m.cfg, m.slots)]

(***************************************************************************)
(* skip_matching_with_hint: a block that is not searched.  A tree gets     *)
(* nothing, chains what is within the window, rows the seam before the     *)
(* block as well.  The hints are those of FastSkip.                        *)
(***************************************************************************)
RowSkip(m0, hint) ==
    LET m == RowEnsure(m0)
        s == RowScan(m)
        b == RowBlock(m)
        step == IF hint = "incompressible" THEN RowSkipStep ELSE 1
        from == Larger(Larger(b[1], SatSub(b[2], m.swin)), m.low)
        seam == RowInsertRange(m, s, Larger(SatSub(b[1], MinMatch - 1), m.abs), b[1], 1)
        stepped == RowInsertRange(seam, s, b[1], b[2], step)
        tail == Larger(SatSub(b[2], RowMinMatch + RowSkipStep), b[1])
        indexed == CASE m.cfg.finder = "Tree" -> m
                     [] m.cfg.finder = "Chain" ->
                          IF hint = "none" THEN m
                          ELSE ChainInsertRange(m, s, from, b[2] - MinMatch + 1, step)
                     [] m.cfg.finder = "Rows" ->
                          CASE hint = "none" -> seam
                            [] hint = "searchable" -> stepped
                            [] hint = "incompressible" -> RowInsertTail(stepped, s, tail, b)
    IN [indexed EXCEPT !.ntu = SatSub(b[2], MinMatch - 1)]

\* skip_long_match: only its last positions will be indexed, by the next search
RowSkipLong(m) ==
    LET b == RowBlock(m)
    IN [RowSkip(m, "none") EXCEPT !.ntu = b[2] - Smaller(b[2] - b[1], RowLongTail)]

RowNoteLong(m, off, ll) ==
    LET newest == IF m.lreps = <<>> THEN m.rep[1] ELSE m.lreps[1]
    IN [m EXCEPT !.lreps = <<off, newest>>, !.rep = NoteOffset(@, off, ll)]

(***************************************************************************)
(* The three finders of RowMatchGenerator, in the frame's own tables and   *)
(* in those of an attached dictionary, and the indexing of a dictionary.   *)
(* A finder returns a length and an offset for an absolute position p; s   *)
(* is the block's RowScan.                                                 *)
(***************************************************************************)

CONSTANT SortCompareCap   \* DUBT_SORT_COMPARE_CAP

NoFind == [ml |-> MinMatch - 1, off |-> 0]

(***************************************************************************)
(* The best of the candidates in the order given: longest first found; one *)
(* that reaches the end of the data ends the search.  The longer the match *)
(* so far, the further on a candidate in the prefix is compared first.     *)
(***************************************************************************)
RECURSIVE BestOf(_, _, _, _)
BestOf(s, p, cands, best) ==
    IF cands = <<>> THEN best
    ELSE LET c == Head(cands)
             ip == p - s.from
             q == c - s.from
             skip == IF c >= s.prefix THEN best.ml - (MinMatch - 1) ELSE 0
             ml == CountForward(s.d, ip, q, Len(s.d))
             better == SameBytes(s.d, ip + skip, q + skip, MinMatch) /\ ml > best.ml
         IN IF better /\ ml = Len(s.d) - ip THEN [ml |-> ml, off |-> p - c]
            ELSE BestOf(s, p, Tail(cands), IF better THEN [ml |-> ml, off |-> p - c] ELSE best)

AtEnd(s, p, best) == best.ml >= Len(s.d) - (p - s.from)

-----------------------------------------------------------------------------
\* row_tag_mask: the slots of the row that carry the tag
TagMatches(t, key) ==
    {i \in DOMAIN t.slot[key.row] : t.slot[key.row][i].tag = key.tag}

(***************************************************************************)
(* Rows: up to n slots of the row with the tag, newest first; slot 0 is    *)
(* not used, and an empty slot or one below the window ends the walk.      *)
(***************************************************************************)
RECURSIVE RowWalk(_, _, _, _, _, _)
RowWalk(t, key, i, n, low, p) ==
    LET len == Cardinality(DOMAIN t.slot[key.row])
        slot == (t.head[key.row] + i) % len
        e == t.slot[key.row][slot]
    IN IF i = len \/ n = 0 THEN <<>>
       ELSE IF slot = 0 \/ slot \notin TagMatches(t, key) THEN RowWalk(t, key, i + 1, n, low, p)
       ELSE IF e.pos = NoPos \/ e.pos < low THEN <<>>
       ELSE IF e.pos >= p THEN RowWalk(t, key, i + 1, n, low, p)
       ELSE <<e.pos>> \o RowWalk(t, key, i + 1, n - 1, low, p)

\* The frame searches an attached dictionary, indexed for the same finder.
Dictionary(m, s, finder) == s.attached /\ IsAttached(m.dict) /\ m.dict.tab.t.layout = finder

DictHash(m, s, p) ==
    KeyHash(s.d, p - s.from, m.cfg.mls) % Cardinality(DOMAIN m.dict.tab.t.hash)

\* Positions of the dictionary's tables are indices into the history.
FromDict(s, cands) == [i \in DOMAIN cands |-> cands[i] + s.from]

RowFind(m, s, p, key) ==
    LET budget == Smaller(m.cfg.depth, m.cfg.rowLen)
        cands == RowWalk(m.tab, key, 0, budget, WindowLow(s, p), p)
        best == BestOf(s, p, cands, NoFind)
        left == budget - Len(cands)
        t == m.dict.tab.t
        dkey == RowKey(s.d, p - s.from, m.cfg.mls, 0, Cardinality(DOMAIN t.head))
    IN IF AtEnd(s, p, best) \/ left = 0 \/ ~Dictionary(m, s, "Rows") THEN best
       ELSE BestOf(s, p, FromDict(s, RowWalk(t, dkey, 0, left, 0, Len(s.d))), best)

-----------------------------------------------------------------------------
(***************************************************************************)
(* Hash chains: up to n links from hash value h on, none below `low`; the  *)
(* links of positions at or before `oldest` have been overwritten.         *)
(***************************************************************************)
RECURSIVE ChainWalk(_, _, _, _, _)
ChainWalk(t, c, n, low, oldest) ==
    IF c = NoPos \/ c < low \/ n = 0 THEN <<>>
    ELSE IF c <= oldest THEN <<c>>
    ELSE <<c>> \o ChainWalk(t, t.chain[c % Cardinality(DOMAIN t.chain)], n - 1, low, oldest)

\* hc_find_best_match: index up to p (only one position while skipping), then search
ChainFind(m0, s, p, ntu, skipping) ==
    LET upto == IF skipping THEN Smaller(ntu + 1, p) ELSE p
        m == ChainInsertRange(m0, s, ntu, upto, 1)
        oldest == SatSub(p, Cardinality(DOMAIN m.tab.chain))
        cands == ChainWalk(m.tab, m.tab.hash[LinkHash(m, s, p)], m.cfg.depth,
                           WindowLow(s, p), oldest)
        cut == cands # <<>> /\ cands[Len(cands)] <= oldest
        left == m.cfg.depth - Len(cands) + (IF cut THEN 1 ELSE 0)
        best == BestOf(s, p, cands, NoFind)
        t == m.dict.tab.t
        dh == DictHash(m, s, p)
        doldest == SatSub(m.dict.region, Cardinality(DOMAIN t.chain))
        found == IF AtEnd(s, p, best) \/ left = 0 \/ ~Dictionary(m, s, "Chain") THEN best
                 ELSE BestOf(s, p, FromDict(s, ChainWalk(t, t.hash[dh], left, 0, doldest)), best)
    IN [m |-> m, find |-> found]

-----------------------------------------------------------------------------
(***************************************************************************)
(* Trees: the two children of node w are at chain[2 * (w % nodes)] (the    *)
(* strings smaller than w's) and the next (the larger).  A descent hangs   *)
(* the nodes it meets under the two open links of the new node, `sm` and   *)
(* `lg`; NoLink when nothing may hang there any more.  w holds what does   *)
(* not change: the bytes, ip the index of the new node's string, base what *)
(* a node is off from its index, `low` the last node not to visit, btLow   *)
(* the last one whose children are not overwritten, cap a bound on how far *)
(* strings are compared.  `seen` lists the nodes met with their lengths.   *)
(***************************************************************************)
NoLink == -1

Nodes(ch) == Cardinality(DOMAIN ch) \div 2

CompareEnd(rem, cap, seed) ==
    LET end == Smaller(rem, cap) IN IF seed < end THEN end ELSE Smaller(seed + 1, rem)

RECURSIVE Descend(_, _)
Descend(w, k) ==
    IF k.nb = 0 \/ k.at <= w.low THEN k
    ELSE LET next == 2 * (k.at % Nodes(k.ch))
             q == k.at - w.base
             seed == Smaller(k.cs, k.cl)
             end == CompareEnd(Len(w.d) - w.ip, w.cap, seed)
             ml == seed + CountForward(w.d, w.ip + seed, q + seed, w.ip + end)
             met == [k EXCEPT !.seen = Append(@, [node |-> k.at, ml |-> ml])]
             stop == k.at <= w.btLow
         IN IF ml = end THEN [met EXCEPT !.whole = TRUE]
            ELSE IF At(w.d, q + ml) < At(w.d, w.ip + ml)
            THEN LET ch == [k.ch EXCEPT ![k.sm] = k.at]
                     r == [met EXCEPT !.ch = ch, !.cs = ml,
                                      !.sm = IF stop THEN NoLink ELSE next + 1]
                 IN IF stop THEN r
                    ELSE Descend(w, [r EXCEPT !.at = ch[next + 1], !.nb = @ - 1])
            ELSE LET ch == [k.ch EXCEPT ![k.lg] = k.at]
                     r == [met EXCEPT !.ch = ch, !.cl = ml,
                                      !.lg = IF stop THEN NoLink ELSE next]
                 IN IF stop THEN r
                    ELSE Descend(w, [r EXCEPT !.at = ch[next], !.nb = @ - 1])

\* The new node `curr` over `ch`, the descent starting at node `at`.
Hang(w, ch, curr, at, nb) ==
    LET sm == 2 * (curr % Nodes(ch))
        k == Descend(w, [ch |-> ch, sm |-> sm, lg |-> sm + 1, cs |-> 0, cl |-> 0, at |-> at,
                         nb |-> nb, seen |-> <<>>, whole |-> FALSE])
        closed == [i \in DOMAIN ch |-> IF i \in {k.sm, k.lg} THEN 0 ELSE k.ch[i]]
    IN [k EXCEPT !.ch = closed]

\* dubt_update: positions joined to their hash's list, still unsorted
RECURSIVE TreeQueue(_, _, _, _)
TreeQueue(m, s, p, end) ==
    IF p >= end THEN m
    ELSE LET h == LinkHash(m, s, p)
             node == 2 * ((p + TreeBase) % Nodes(m.tab.chain))
         IN TreeQueue([m EXCEPT !.tab.chain[node] = m.tab.hash[h],
                                !.tab.chain[node + 1] = Unsorted,
                                !.tab.hash[h] = p + TreeBase], s, p + 1, end)

\* The unsorted nodes from `at` on, linked back to front by their marks.
RECURSIVE TreeUnsorted(_, _, _, _, _)
TreeUnsorted(ch, at, prev, nb, limit) ==
    LET node == 2 * (at % Nodes(ch))
    IN IF at > limit /\ ch[node + 1] = Unsorted /\ nb > 1
       THEN TreeUnsorted([ch EXCEPT ![node + 1] = prev], ch[node], at, nb - 1, limit)
       ELSE [ch |-> IF at > limit /\ ch[node + 1] = Unsorted
                    THEN [ch EXCEPT ![node] = 0, ![node + 1] = 0] ELSE ch,
             last |-> prev, nb |-> nb]

\* dubt_insert1 on each of them, oldest first
RECURSIVE TreeSort(_, _, _, _, _)
TreeSort(s, ch, at, nb, limit) ==
    LET node == 2 * (at % Nodes(ch))
        abs == at - TreeBase
        w == [d |-> s.d, ip |-> abs - s.from, base |-> s.from + TreeBase, cap |-> SortCompareCap,
              low |-> Larger(s.low, SatSub(abs, s.swin)) + TreeBase, btLow |-> limit]
    IN IF at = 0 THEN ch
       ELSE TreeSort(s, Hang(w, ch, at, ch[node], nb).ch, ch[node + 1], nb + 1, limit)

(***************************************************************************)
(* A length is worth the extra bits of its offset; nothing found so far    *)
(* counts as an offset of 999_999_999.                                     *)
(***************************************************************************)
OffsetBits(best, more) == IF best.ml = 0 THEN 29 ELSE HighBit(best.off + 3 + more)

RECURSIVE TreeBest(_, _, _)
TreeBest(curr, seen, best) ==
    IF seen = <<>> THEN best
    ELSE LET e == Head(seen)
             off == curr - e.node
             end == IF e.ml > best.end - e.node THEN e.node + e.ml ELSE best.end
             worth == 4 * (e.ml - best.ml) > HighBit(off + 1) - OffsetBits(best, 0)
         IN TreeBest(curr, Tail(seen),
                     IF e.ml <= best.ml THEN best
                     ELSE IF worth THEN [ml |-> e.ml, off |-> off, end |-> end]
                     ELSE [best EXCEPT !.end = end])

\* The dictionary's tree is only read.
RECURSIVE DictDescend(_, _, _, _, _, _, _, _)
DictDescend(s, dict, p, at, nb, cs, cl, best) ==
    LET chain == dict.tab.t.chain
        btLow == TreeBase + SatSub(dict.region, Nodes(chain) - 1)
        ip == p - s.from
        q == at - TreeBase
        n == Len(s.d) - ip
        seed == Smaller(cs, cl)
        ml == seed + CountForward(s.d, ip + seed, q + seed, Len(s.d))
        off == p - (s.from + q)
        worth == 4 * (ml - best.ml) > HighBit(off + 1) - OffsetBits(best, 1)
        b == IF ml > best.ml /\ worth THEN [best EXCEPT !.ml = ml, !.off = off] ELSE best
        next == 2 * (at % Nodes(chain))
        smaller == At(s.d, q + ml) < At(s.d, ip + ml)
    IN IF nb = 0 \/ at <= TreeBase THEN best
       ELSE IF ml = n \/ at <= btLow THEN b
       ELSE IF smaller THEN DictDescend(s, dict, p, chain[next + 1], nb - 1, ml, cl, b)
       ELSE DictDescend(s, dict, p, chain[next], nb - 1, cs, ml, b)

(***************************************************************************)
(* dubt_find_best_match: queue the positions before p, sort those of its   *)
(* hash, then hang p itself into the tree and take the best string met.    *)
(* A position inside a long match already found is not searched.           *)
(***************************************************************************)
TreeFind(m0, s, p, ntu) ==
    LET m == TreeQueue(m0, s, ntu, p)
        h == LinkHash(m, s, p)
        nodes == Nodes(m.tab.chain)
        curr == p + TreeBase
        low == WindowLow(s, p) + TreeBase
        btLow == SatSub(curr, nodes - 1)
        limit == Larger(btLow, low)
        q == TreeUnsorted(m.tab.chain, m.tab.hash[h], 0, m.cfg.depth, limit)
        sorted == TreeSort(s, q.ch, q.last, q.nb, limit)
        w == [d |-> s.d, ip |-> p - s.from, base |-> s.from + TreeBase, cap |-> Len(s.d),
              low |-> low, btLow |-> btLow]
        hung == Hang(w, sorted, curr, m.tab.hash[h], m.cfg.depth)
        best == TreeBest(curr, hung.seen,
                         [ml |-> 0, off |-> 0, end |-> curr + HashReadSize + 1])
        left == IF hung.whole THEN 0 ELSE hung.nb
        found == IF left > 0 /\ Dictionary(m, s, "Tree")
                 THEN DictDescend(s, m.dict, p, m.dict.tab.t.hash[DictHash(m, s, p)], left, 0, 0,
                                  best)
                 ELSE best
    IN IF p < ntu THEN [m |-> m0, find |-> [ml |-> 0, off |-> 0], ntu |-> ntu]
       ELSE [m |-> [m EXCEPT !.tab.hash[h] = curr, !.tab.chain = hung.ch],
             find |-> [ml |-> found.ml, off |-> found.off],
             ntu |-> best.end - HashReadSize - TreeBase]

(***************************************************************************)
(* A dictionary in RowMatchGenerator.  Under an attach plan it gets tables *)
(* of its own, whose positions are indices into the history; under a copy  *)
(* plan it is indexed in the frame's tables.  A tree is built only once    *)
(* the whole dictionary is there, and fully sorted.                        *)
(***************************************************************************)

CONSTANTS
    RowGap,      \* 384: the gap of unindexed positions beyond which some are left out
    LazyGapMax   \* 192: how much of it a search starts from

\* RowDictShape::of
DictShape(plan, finder) ==
    LET c == plan.cdict
    IN [finder |-> IF finder = "Tree" THEN "Tree" ELSE IF c.useRow THEN "Rows" ELSE "Chain",
        slots |-> c.slots, chainLen |-> c.chainLen, rowLen |-> c.rowLen, mls |-> c.mls,
        nb |-> IF finder = "Tree" THEN c.depth ELSE 0]

DictTab(m, shape, t) == [attached |-> TRUE, shape |-> shape, floor |-> m.floor, t |-> t]

\* Tables of another shape are set aside before these bytes are indexed.
RowFitDict(m, shape, n) ==
    LET other == IsAttached(m.dict) /\ m.dict.tab.shape # shape
    IN [(IF other THEN RowPark(m) ELSE m) EXCEPT !.dict.region = n]

(***************************************************************************)
(* insert_bt1_sorted: one string of the content into a tree, and how many  *)
(* positions on the next one is.  update_dict_tree: all of them.           *)
(***************************************************************************)
RECURSIVE Longest(_, _, _)
Longest(seen, len, end) ==
    IF seen = <<>> THEN [len |-> len, end |-> end]
    ELSE LET e == Head(seen)
         IN IF e.ml <= len THEN Longest(Tail(seen), len, end)
            ELSE Longest(Tail(seen), e.ml, Larger(end, e.node + e.ml))

RECURSIVE TreeBuild(_, _, _, _, _, _)
TreeBuild(t, d, i, base, mls, nb) ==
    LET h == KeyHash(d, i, mls) % Cardinality(DOMAIN t.hash)
        curr == i + base
        w == [d |-> d, ip |-> i, base |-> base, cap |-> Len(d), low |-> base - 1,
              btLow |-> SatSub(curr, Nodes(t.chain) - 1)]
        hung == Hang(w, t.chain, curr, t.hash[h], nb)
        best == Longest(hung.seen, HashReadSize, curr + HashReadSize + 1)
        forward == Larger(Smaller(LazyGapMax, SatSub(best.len, RowGap)),
                          best.end - (curr + HashReadSize))
    IN IF i >= Len(d) - HashReadSize THEN t
       ELSE TreeBuild([t EXCEPT !.hash[h] = curr, !.chain = hung.ch],
                      d, i + Larger(forward, 1), base, mls, nb)

\* prime_dict_tree, build_live_dict_tree
RowPrimeTree(m0) ==
    LET shape == DictShape(m0.plan, "Tree")
        d == RowData(m0)
        m == RowFitDict(m0, shape, Len(d))
        empty == LinksTable("Tree", shape.slots, shape.chainLen)
    IN IF m.dict.primed THEN m
       ELSE [m EXCEPT !.dict.tab = DictTab(m, shape,
                          TreeBuild(empty, d, m.floor, TreeBase, shape.mls, shape.nb))]

RowBuildLiveTree(m0) ==
    LET m == RowEnsure(m0)
    IN [m EXCEPT !.tab = TreeBuild(@, RowData(m), m.floor, m.abs + TreeBase, m.cfg.mls,
                                   m.cfg.depth)]

(***************************************************************************)
(* prime_dict_tables: what of the bytes so far is not indexed yet.         *)
(***************************************************************************)
RECURSIVE DictIndex(_, _, _, _, _)
DictIndex(t, d, i, end, mls) ==
    IF i >= end THEN t
    ELSE DictIndex(IF t.layout = "Rows"
                   THEN RowsPut(t, RowKey(d, i, mls, 0, Cardinality(DOMAIN t.head)), i)
                   ELSE ChainPut(t, KeyHash(d, i, mls) % Cardinality(DOMAIN t.hash), i),
                   d, i + 1, end, mls)

RowPrimeTables(m0, end) ==
    LET shape == DictShape(m0.plan, m0.cfg.finder)
        d == RowData(m0)
        m == RowFitDict(m0, shape, Len(d))
        from == Larger(m.dict.next, m.floor)
        tab == IF IsAttached(m.dict) THEN m.dict.tab
               ELSE DictTab(m, shape, EmptyTable(shape, shape.slots))
    IN IF m.dict.primed \/ from >= end THEN m
       ELSE [m EXCEPT !.dict.next = end,
                      !.dict.tab = [tab EXCEPT !.t = DictIndex(@, d, from, end, shape.mls)]]

(***************************************************************************)
(* prime_dictionary_current_block: one committed piece of the dictionary.  *)
(* The search limits follow its end; without a plan it is skipped like a   *)
(* block of the frame.                                                     *)
(***************************************************************************)
RowPrimePiece(m0) ==
    LET m == RowEnsure(m0)
        n == Len(RowData(m))
        end == SatSub(n, HashReadSize)
        limits == [m EXCEPT !.loaded = m.abs + n, !.prefix = m.abs + n,
                            !.low = IF m.plan.attach THEN m.abs + n ELSE m.abs]
        sized == [limits EXCEPT !.dict.region = n]
        from == Larger(SatSub(m.ntu, m.abs), m.floor)
        s == RowScan(sized)
        copied == IF m.cfg.finder = "Chain"
                  THEN ChainInsertRange(sized, s, m.abs + from, m.abs + end, 1)
                  ELSE RowInsertRange(sized, s, m.abs + from, m.abs + end, 1)
    IN IF ~m.plan.is THEN RowSkip(m, "searchable")
       ELSE IF m.cfg.finder = "Tree" THEN sized
       ELSE IF m.plan.attach THEN RowPrimeTables(limits, end)
       ELSE [copied EXCEPT !.ntu = m.abs + Larger(end, from)]

\* mark_dict_primed: the dictionary is complete
RowMarkPrimed(m) ==
    LET built == IF ~m.plan.is \/ m.cfg.finder # "Tree" THEN m
                 ELSE IF m.plan.attach THEN RowPrimeTree(m) ELSE RowBuildLiveTree(m)
        moved == IF m.plan.is /\ ~m.plan.attach
                 THEN [built EXCEPT !.ntu = m.abs + Len(RowData(m))] ELSE built
    IN [moved EXCEPT !.dict = MarkPrimed(@)]

\* revive_dict_cache: tables parked by an earlier frame of this dictionary
RowRevive(m, len) ==
    LET accepted == m.keep.parked =>
                      /\ m.keep.dict.tab.shape = DictShape(m.plan, m.cfg.finder)
                      /\ m.keep.dict.tab.floor = m.floor
                      /\ m.keep.dict.region = len
    IN IF ~m.plan.is THEN m
       ELSE IF ~m.plan.attach THEN m
       ELSE [m EXCEPT !.dict = ReviveDict(@, m.keep, accepted), !.keep = NothingKept]

\* invalidate_dict_cache
RowForget(m) == [m EXCEPT !.dict = Detached, !.keep = NothingKept]

\* restore_snapshot
RowRestore(m, snap) == [snap EXCEPT !.keep = m.keep]

(***************************************************************************)
(* The greedy and lazy parse of RowMatchGenerator (lazy_parse_body).  k is *)
(* the parse: the matcher, where the next search starts, what the literals *)
(* start at, the first position not indexed yet, whether it skips through  *)
(* data without matches, the row keys computed ahead, the two repeat       *)
(* offsets, and the sequences so far.                                      *)
(***************************************************************************)

CONSTANTS
    RowHashCache,    \* ROW_HASH_CACHE_SIZE
    RowGapStart,     \* ROW_UPDATE_MAX_START: of a large gap, the first positions ...
    RowGapEnd,       \* ROW_UPDATE_MAX_END: ... and the last are indexed
    LazyStrength,    \* 1 << LAZY_SEARCH_STRENGTH
    LazySkipping     \* LAZY_SKIPPING_STEP

\* row_cache_fill: the keys of the RowHashCache positions from `from` on
CacheFill(m, s, from) ==
    [i \in 0 .. RowHashCache - 1 |->
        RowKeyAt(m, s, from + ((i - from) % RowHashCache))]

\* row_cache_next, row_cache_insert_range
CacheNext(k, s, p) ==
    [k EXCEPT !.cache[p % RowHashCache] = RowKeyAt(k.m, s, p + RowHashCache)]

CachedPut(k, key, p) == IF key = NoKey THEN k ELSE [k EXCEPT !.m.tab = RowsPut(@, key, p)]

RECURSIVE CacheInsertRange(_, _, _, _)
CacheInsertRange(k, s, p, end) ==
    IF p >= end THEN k
    ELSE CacheInsertRange(CachedPut(CacheNext(k, s, p), k.cache[p % RowHashCache], p),
                          s, p + 1, end)

\* A large gap is indexed at its two ends only.
RowUpdate(k, s, p) ==
    IF p - k.ntu <= RowGap THEN CacheInsertRange(k, s, k.ntu, p)
    ELSE LET started == CacheInsertRange(k, s, k.ntu, k.ntu + RowGapStart)
         IN CacheInsertRange([started EXCEPT !.cache = CacheFill(k.m, s, p - RowGapEnd)],
                             s, p - RowGapEnd, p)

(***************************************************************************)
(* lazy_search_at: search at p, and index it.                              *)
(***************************************************************************)
RowSearch(k, s, p) ==
    LET u == IF k.skip THEN k ELSE RowUpdate(k, s, p)
        key == IF k.skip THEN RowKeyAt(k.m, s, p) ELSE u.cache[p % RowHashCache]
        n == IF k.skip THEN u ELSE CacheNext(u, s, p)
    IN [k |-> [CachedPut(n, key, p) EXCEPT !.ntu = p + 1],
        find |-> IF key = NoKey THEN NoFind ELSE RowFind(n.m, s, p, key)]

LazySearch(k, s, p) ==
    CASE k.m.cfg.finder = "Rows" -> RowSearch(k, s, p)
      [] k.m.cfg.finder = "Chain" ->
           LET r == ChainFind(k.m, s, p, k.ntu, k.skip)
           IN [k |-> [k EXCEPT !.m = r.m, !.ntu = p], find |-> r.find]
      [] k.m.cfg.finder = "Tree" ->
           LET r == TreeFind(k.m, s, p, k.ntu)
           IN [k |-> [k EXCEPT !.m = r.m, !.ntu = r.ntu], find |-> r.find]

(***************************************************************************)
(* A repeat offset may be tried: with a dictionary it must not point       *)
(* before what is there, nor a match straddle the end of the dictionary.   *)
(***************************************************************************)
RepOk(s, p, off) ==
    LET floor == IF s.attached THEN s.from ELSE WindowLow(s, p)
    IN IF ~s.dictFrame THEN off # 0
       ELSE /\ off # 0 /\ off <= p
            /\ p - off >= floor
            /\ ~(p - off < s.prefix /\ p - off + MinMatch - 1 >= s.prefix)

RepLen(s, p, off) ==
    LET ip == p - s.from
    IN IF RepOk(s, p, off) /\ SameBytes(s.d, ip, ip - off, MinMatch)
       THEN CountForward(s.d, ip, ip - off, Len(s.d)) ELSE 0

OffsetCost(off) == IF off = 0 THEN 0 ELSE HighBit(off + 3)

(***************************************************************************)
(* The match found at one position against the one of the next: `best` has *)
(* ml, off (0 for the repeat offset) and start.  A longer match must pay   *)
(* for its offset and for the literal.                                     *)
(***************************************************************************)
Improve(k, s, p, best, repWeight, margin) ==
    LET rep == RepLen(s, p, k.o1)
        b == IF rep >= MinMatch /\ repWeight * rep > repWeight * best.ml - OffsetCost(best.off) + 1
             THEN [ml |-> rep, off |-> 0, start |-> p] ELSE best
        r == LazySearch(k, s, p)
        better == /\ r.find.ml >= MinMatch
                  /\ 4 * r.find.ml - OffsetCost(r.find.off) > 4 * b.ml - OffsetCost(b.off) + margin
    IN [k |-> r.k, better |-> better,
        best |-> IF better THEN [ml |-> r.find.ml, off |-> r.find.off, start |-> p] ELSE b]

RECURSIVE Deepen(_, _, _, _, _)
Deepen(k, s, ip, best, ilimit) ==
    LET one == Improve(k, s, ip + 1, best, 3, 4)
        two == Improve(one.k, s, ip + 2, one.best, 4, 7)
    IN IF ip >= ilimit THEN [k |-> k, best |-> best]
       ELSE IF one.better THEN Deepen(one.k, s, ip + 1, one.best, ilimit)
       ELSE IF k.m.cfg.lazy < 2 \/ ip + 1 >= ilimit THEN one
       ELSE IF two.better THEN Deepen(two.k, s, ip + 2, two.best, ilimit)
       ELSE two

LazyEmit(k, ll, off, ml) ==
    [k EXCEPT !.seqs = Append(@, Triple(ll, off, ml)), !.m.rep = NoteOffset(@, off, ll)]

\* The other repeat offset right after a match.
RECURSIVE LazyRepeatTwo(_, _, _)
LazyRepeatTwo(k, s, ilimit) ==
    LET rep == IF k.ip <= ilimit THEN RepLen(s, k.ip, k.o2) ELSE 0
    IN IF rep = 0 THEN k
       ELSE LazyRepeatTwo([LazyEmit(k, 0, k.o2, rep) EXCEPT
                             !.o1 = k.o2, !.o2 = k.o1, !.ip = @ + rep, !.anchor = k.ip + rep],
                          s, ilimit)

\* A match is extended backwards, reported, and the parse goes on after it.
LazyTake(k, s, best, ilimit) ==
    LET q == best.start - best.off
        floor == IF q >= s.prefix THEN s.prefix ELSE s.from
        back == IF best.off = 0 THEN 0
                ELSE CountBack(s.d, best.start - s.from, q - s.from, k.anchor - s.from,
                               floor - s.from)
        start == best.start - back
        reps == IF best.off = 0 THEN k ELSE [k EXCEPT !.o2 = k.o1, !.o1 = best.off]
        end == best.start + best.ml
        e == LazyEmit(reps, start - k.anchor, reps.o1, best.ml + back)
        warm == IF e.skip /\ e.m.cfg.finder = "Rows"
                THEN [e EXCEPT !.cache = CacheFill(e.m, s, e.ntu)] ELSE e
    IN LazyRepeatTwo([warm EXCEPT !.anchor = end, !.ip = end, !.skip = FALSE], s, ilimit)

LazyMiss(k, s) ==
    LET gap == (k.ip - k.anchor) \div LazyStrength
        step == IF s.dictFrame /\ ~s.attached THEN gap ELSE gap + 1
    IN [k EXCEPT !.ip = @ + gap + 1, !.skip = step > LazySkipping]

RECURSIVE LazyLoop(_, _, _)
LazyLoop(k, s, ilimit) ==
    LET rep == RepLen(s, k.ip + 1, k.o1)
        first == [ml |-> rep, off |-> 0, start |-> k.ip + 1]
        r == LazySearch(k, s, k.ip)
        best == IF r.find.ml > rep
                THEN [ml |-> r.find.ml, off |-> r.find.off, start |-> k.ip] ELSE first
        d == IF k.m.cfg.lazy = 0 THEN [k |-> r.k, best |-> best]
             ELSE Deepen(r.k, s, k.ip, best, ilimit)
    IN IF k.ip >= ilimit THEN k
       ELSE IF rep >= MinMatch /\ k.m.cfg.lazy = 0
       THEN LazyLoop(LazyTake(k, s, first, ilimit), s, ilimit)
       ELSE IF best.ml < MinMatch THEN LazyLoop(LazyMiss(r.k, s), s, ilimit)
       ELSE LazyLoop(LazyTake(d.k, s, d.best, ilimit), s, ilimit)

\* enter_block: the dictionary, then old positions, leave the search's reach
RowEnterBlock(m, b) ==
    LET dropped == IF m.loaded # 0 /\ b[2] > m.loaded + m.swin THEN [m EXCEPT !.loaded = 0] ELSE m
        low == Larger(m.low, b[1] - m.swin)
    IN IF b[1] <= m.swin + dropped.loaded THEN dropped
       ELSE [dropped EXCEPT !.low = low, !.prefix = Larger(@, low), !.loaded = 0]

(***************************************************************************)
(* start_matching on the current block: what is carried into the parse and *)
(* out of it.  A repeat offset that reaches too far is put aside, and      *)
(* comes back at the end unless the parse found others.                    *)
(***************************************************************************)
RowStart(m0) ==
    LET b == RowBlock(m0)
        m == RowEnterBlock(RowEnsure(m0), b)
        s == RowScan(m)
        ilimit == SatSub(b[2], HashReadSize + (IF m.cfg.finder = "Rows" THEN RowHashCache ELSE 0))
        first == IF s.dictFrame /\ ~s.attached THEN s.prefix ELSE s.from
        ip == b[1] + (IF b[1] = first THEN 1 ELSE 0)
        old == Larger(m.ntu, s.low)
        ntu == IF b[1] > old + RowGap THEN b[1] - Smaller(b[1] - old - RowGap, LazyGapMax) ELSE old
        reps == IF m.lreps = <<>> THEN <<m.rep[1], m.rep[2]>> ELSE m.lreps
        most == ip - Larger(s.prefix, SatSub(ip, s.swin))
        saved(o) == IF ~s.dictFrame /\ o > most THEN o ELSE 0
        used(o) == IF saved(o) = 0 THEN o ELSE 0
        e == LazyLoop([m |-> m, ip |-> ip, anchor |-> b[1], ntu |-> ntu, skip |-> FALSE,
                       cache |-> IF m.cfg.finder = "Rows" THEN CacheFill(m, s, ntu) ELSE <<>>,
                       o1 |-> used(reps[1]), o2 |-> used(reps[2]), seqs |-> <<>>], s, ilimit)
        s1 == saved(reps[1])
        s2 == IF s1 # 0 /\ e.o1 # 0 THEN s1 ELSE saved(reps[2])
    IN [m |-> [e.m EXCEPT !.ntu = e.ntu,
                          !.lreps = <<IF e.o1 # 0 THEN e.o1 ELSE s1,
                                      IF e.o2 # 0 THEN e.o2 ELSE s2>>],
        seqs |-> e.seqs]

RowStartBorrowed(m, start, end) == RowStart(RowStage(m, start, end))

RowSkipBorrowed(m, start, end, hint) == RowSkip(RowStage(m, start, end), hint)

\* No slot, link or node names a position that is not behind the frame.
RowTablePast(m) ==
    LET end == m.abs + Larger(m.winSize, m.extent)
        base == IF m.tab.layout = "Tree" THEN TreeBase ELSE 0
    IN CASE m.tab.layout = "None" -> TRUE
         [] m.tab.layout = "Rows" -> \A r \in DOMAIN m.tab.slot :
                \A i \in DOMAIN m.tab.slot[r] : m.tab.slot[r][i].pos < end
         [] OTHER -> /\ \A i \in DOMAIN m.tab.hash : m.tab.hash[i] < end + base
                     /\ \A i \in DOMAIN m.tab.chain : m.tab.chain[i] < end + base
=============================================================================
