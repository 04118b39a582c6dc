--------------------------- MODULE OptimalParser ----------------------------
(***************************************************************************)
(* The optimal parser: the match table it searches, what a choice costs,   *)
(* which matches it is offered, and the cheapest path through a block.     *)
(***************************************************************************)
EXTENDS LZ77, Functions, TLC

(***************************************************************************)
(* The optimal parsers' storage (encoding/match_table/storage.rs): the     *)
(* history, a hash table over a binary tree of positions, a table of three *)
(* byte keys, and the tree of an attached dictionary.  A table entry holds *)
(* pos - base + shift + 1, 0 meaning none: the entries of earlier frames   *)
(* stay and lie below the window.                                          *)
(***************************************************************************)

CONSTANTS
    HcMaxRel,        \* u32::MAX - 2: the largest pos - base + shift stored
    HcFloorCeiling,  \* REBASE_RESET_FLOOR_CEILING
    HcPrimedCeiling, \* MAX_PRIMED_WINDOW_SIZE
    HcSkipStep,      \* INCOMPRESSIBLE_SKIP_STEP
    HcMinMatch,      \* HC_MIN_MATCH_LEN
    LongGap,         \* 384: positions after which a long match is indexed sparsely
    LongTail,        \* 192: how much of it is
    DmsDepth         \* DMS_BUILD_DEPTH

NoHcTables == [len |-> 0]

HcEmpty(cfg) ==
    LET Zero(n) == [i \in 0 .. n - 1 |-> 0]
    IN [len |-> cfg.hash + cfg.chain + cfg.h3, hash |-> Zero(cfg.hash),
        chain |-> Zero(cfg.chain), h3 |-> Zero(cfg.h3)]

\* MatchTable::new and configure's first shape
HcTableNew(f) ==
    [maxWin |-> f.win, chunks |-> <<>>, winSize |-> 0, unc |-> 0, hist |-> <<>>, hstart |-> 0,
     abs |-> 0, base |-> 0, shift |-> 0, rep |-> <<1, 4, 8>>, cfg |-> f.hc, tab |-> NoHcTables,
     ntu3 |-> 0, skip |-> 0, floor |-> 0, limit |-> -1, primed |-> FALSE, active |-> FALSE,
     resident |-> FALSE, dict |-> Detached, retired |-> [is |-> FALSE]]

\* HcMatchGenerator::configure: another size drops the tables, another size or key
\* width the dictionary's tree
HcConfigure(m, cfg) ==
    LET resize == <<m.cfg.hash, m.cfg.chain, m.cfg.h3>> # <<cfg.hash, cfg.chain, cfg.h3>>
    IN [m EXCEPT !.cfg = cfg, !.tab = IF resize THEN NoHcTables ELSE @,
                 !.dict = IF resize \/ m.cfg.mls # cfg.mls THEN Detached ELSE @]

\* bind_tables and ensure_tables
HcBind(m, moved) ==
    [m EXCEPT !.tab = IF ~moved /\ @.len = HcEmpty(m.cfg).len THEN @ ELSE HcEmpty(m.cfg)]

HcEnsure(m) == IF m.tab.len = 0 THEN HcBind(m, FALSE) ELSE m

HcClearTables(m) == [m EXCEPT !.tab = IF @.len = 0 THEN @ ELSE HcEmpty(m.cfg)]

Live(m) == SubSeq(m.hist, m.hstart + 1, Len(m.hist) - m.unc)

\* retire_history: the dictionary stays if its bytes are still at the front
HcRetire(m) ==
    LET h == Prefix(m.hist, Len(m.hist) - m.unc)
        r == m.limit - m.abs
        kept == IF /\ m.active /\ m.dict.primed /\ m.hstart = 0 /\ m.limit >= 0
                   /\ r > 0 /\ r <= Len(h) THEN r ELSE 0
    IN IF m.retired.is THEN m
       ELSE [m EXCEPT !.hist = Prefix(h, kept), !.unc = 0,
                      !.retired = [is |-> TRUE, next |-> m.abs + Len(h) - m.hstart, kept |-> kept]]

\* begin_rebase, and reset's rewind to the origin
HcOrigin(m, tab) == [m EXCEPT !.abs = 0, !.base = 0, !.shift = 0, !.ntu3 = 0, !.tab = tab]

(***************************************************************************)
(* reset: positions go on from the last frame's end, which leaves its      *)
(* entries below the window.  After a dictionary frame whose bytes do not  *)
(* stay they start at 0 over uncleared tables, which the loading of the    *)
(* dictionary then clears or replaces.                                     *)
(***************************************************************************)
HcTableReset(m) ==
    LET r == HcRetire(m)
        next == r.retired.next
        region == r.retired.kept
        fits == next <= HcFloorCeiling
        wiped == HcClearTables(r).tab
        clean == [r EXCEPT !.retired = [is |-> FALSE], !.winSize = 0, !.rep = <<1, 4, 8>>,
                           !.skip = 0, !.primed = FALSE, !.resident = region > 0,
                           !.chunks = IF region > 0 THEN <<region>> ELSE <<>>]
        moved == IF ~fits THEN HcOrigin(clean, wiped) ELSE [clean EXCEPT !.abs = next]
        end == moved.abs + region
        kept == [moved EXCEPT !.winSize = region, !.skip = end, !.ntu3 = end, !.limit = end,
                              !.maxWin = @ + Smaller(region, HcPrimedCeiling - @)]
        gone == [(IF r.active THEN HcOrigin(clean, r.tab) ELSE [moved EXCEPT !.ntu3 = moved.abs])
                   EXCEPT !.hist = <<>>, !.hstart = 0, !.limit = -1]
    IN IF region > 0 THEN kept ELSE gone

HcFill(m, bytes) == [m EXCEPT !.hist = @ \o bytes, !.unc = @ + Len(bytes)]

RECURSIVE HcEvict(_, _)
HcEvict(m, len) ==
    IF m.winSize + len <= m.maxWin THEN m
    ELSE LET n == Head(m.chunks)
         IN HcEvict([m EXCEPT !.chunks = Tail(@), !.winSize = @ - n, !.hstart = @ + n,
                              !.abs = @ + n], len)

\* commit_block with compact_history
HcCommit(m, len) ==
    LET e == HcEvict(m, len)
        compact == e.hstart > 0 /\ (\/ e.hstart >= e.maxWin \div 4
                                    \/ e.hstart * 2 >= Len(e.hist) - e.unc)
        c == IF compact THEN [e EXCEPT !.hist = SubSeq(@, e.hstart + 1, Len(@)), !.hstart = 0]
             ELSE e
    IN IF len = 0 THEN m
       ELSE [c EXCEPT !.ntu3 = Larger(@, c.abs), !.winSize = @ + len,
                      !.chunks = Append(@, len), !.unc = @ - len]

HcTrim(m) == HcEvict(m, 0)

HcUncommit(m) ==
    LET n == m.chunks[Len(m.chunks)]
    IN [m EXCEPT !.chunks = SubSeq(@, 1, Len(@) - 1), !.winSize = @ - n, !.unc = @ + n]

\* current_block_range
HcBlock(m) ==
    LET n == IF m.chunks = <<>> THEN 0 ELSE m.chunks[Len(m.chunks)]
    IN <<m.abs + m.winSize - n, m.abs + m.winSize>>

\* can_skip_rebase_check, needs_rebase
Representable(m, p) == p - m.base + m.shift <= HcMaxRel

NeedsRebase(m, p) == p < m.base \/ ~Representable(m, p)

StoredAs(m, p) == p - m.base + m.shift + 1

-----------------------------------------------------------------------------
(***************************************************************************)
(* The walk down a tree, shared by insertion, search and the dictionary's  *)
(* tree.  The position at index ip of d looks for its place from entry     *)
(* k.at on; k.sm and k.lg are the cells the next smaller and larger entry  *)
(* hang in, -1 once closed.  Entry e is index e + w.idx of d and owns the  *)
(* pair 2 * ((e + w.pair) % w.nodes); entries at or below w.stop have a    *)
(* pair that later positions may own by now and end the walk.              *)
(***************************************************************************)
RECURSIVE HcDescend(_, _)
HcDescend(w, k) ==
    IF k.nb = 0 \/ k.at < w.low \/ k.at >= w.top THEN k
    ELSE LET q == k.at + w.idx
             seed == Smaller(k.cs, k.cl)
             ml == seed + CountForward(w.d, w.ip + seed, q + seed, w.ip + w.tail)
             met == [k EXCEPT !.nb = @ - 1, !.seen = Append(@, [at |-> k.at, ml |-> ml])]
             pair == 2 * ((k.at + w.pair) % w.nodes)
             stop == k.at <= w.stop
         IN IF ml >= w.tail \/ ml > w.enough THEN met
            ELSE IF At(w.d, q + ml) < At(w.d, w.ip + ml)
            THEN LET hung == [met EXCEPT !.ch[k.sm] = k.at, !.cs = ml]
                 IN IF stop THEN [hung EXCEPT !.sm = -1]
                    ELSE HcDescend(w, [hung EXCEPT !.sm = pair + 1, !.at = k.ch[pair + 1]])
            ELSE LET hung == [met EXCEPT !.ch[k.lg] = k.at, !.cl = ml]
                 IN IF stop THEN [hung EXCEPT !.lg = -1]
                    ELSE HcDescend(w, [hung EXCEPT !.lg = pair, !.at = k.ch[pair]])

\* The cells still open get no child.
CloseTree(k) ==
    [i \in DOMAIN k.ch |-> IF i \in {k.sm, k.lg} THEN 0 ELSE k.ch[i]]

\* hash_position_at
HcHash(d, i, mls, n) == HashBytes(d, i, mls) % n

\* window_low_abs_for_target
HcWindowLow(m, target) == Larger(m.abs, target - m.maxWin)

\* A walk in the frame's own tree for position p, and where it starts.
TreeWalk(m, p, end, target, top, enough) ==
    [d |-> Live(m), ip |-> p - m.abs, tail |-> end - p, idx |-> m.base - 1 - m.shift - m.abs,
     pair |-> m.base - 1, nodes |-> m.cfg.chain \div 2, low |-> StoredAs(m, HcWindowLow(m, target)),
     top |-> top, stop |-> StoredAs(m, SatSub(p, m.cfg.chain \div 2 - 1)), enough |-> enough]

TreeStart(m, w, p, depth, hash) ==
    LET own == 2 * ((p + m.shift) % w.nodes)
    IN [ch |-> m.tab.chain, sm |-> own, lg |-> own + 1, cs |-> 0, cl |-> 0,
        at |-> m.tab.hash[hash], nb |-> depth, seen |-> <<>>]

HcHung(m, k, hash, p) ==
    [m EXCEPT !.tab.hash[hash] = StoredAs(m, p), !.tab.chain = CloseTree(k)]

(***************************************************************************)
(* bt_insert_range: positions p, ... below stop, matches up to `end` and   *)
(* the window as of `target`; what a long match covers is passed over.     *)
(* Returns the table and the position after the last one.                  *)
(***************************************************************************)
SeenBest(m, seen, p) ==
    LET long == {i \in DOMAIN seen : seen[i].ml > HashReadSize
                                     /\ \A j \in 1 .. i - 1 : seen[j].ml < seen[i].ml}
        best == IF long = {} THEN HashReadSize
                ELSE seen[CHOOSE i \in long : \A j \in long : j <= i].ml
        ends == {seen[i].at - 1 - m.shift + m.base + seen[i].ml : i \in long}
                \cup {p + HashReadSize + 1}
    IN <<best, CHOOSE e \in ends : \A x \in ends : x <= e>>

RECURSIVE BtInsertRange(_, _, _, _, _)
BtInsertRange(m, p, stop, end, target) ==
    IF p >= stop THEN [m |-> m, pos |-> p]
    ELSE IF p - m.abs + HashReadSize > Len(Live(m)) THEN BtInsertRange(m, p + 1, stop, end, target)
    ELSE LET w == TreeWalk(m, p, end, target, StoredAs(m, p), Len(Live(m)))
             hash == HcHash(w.d, w.ip, m.cfg.mls, m.cfg.hash)
             k == HcDescend(w, TreeStart(m, w, p, m.cfg.depth, hash))
             best == SeenBest(m, k.seen, p)
             speed == IF best[1] > LongGap THEN Smaller(best[1] - LongGap, LongTail) ELSE 0
         IN BtInsertRange(HcHung(m, k, hash, p),
                          p + Larger(Larger(speed, best[2] - (p + HashReadSize)), 1),
                          stop, end, target)

(***************************************************************************)
(* The table of three byte keys: one position, and all up to p.  A         *)
(* position needs one byte more than its key.                              *)
(***************************************************************************)
Hash3Put(m, p) ==
    LET i == p - m.abs
    IN IF m.cfg.h3 = 0 \/ i + MinMatch + 1 > Len(Live(m)) THEN m
       ELSE [m EXCEPT !.tab.h3[HcHash(Live(m), i, MinMatch, m.cfg.h3)] = StoredAs(m, p)]

RECURSIVE Hash3Until(_, _, _)
Hash3Until(m, c, p) ==
    IF c >= p \/ m.cfg.h3 = 0 THEN [m EXCEPT !.ntu3 = p] ELSE Hash3Until(Hash3Put(m, c), c + 1, p)

\* update_hash3_until
UpdateHash3(m, p) ==
    LET from == Larger(m.ntu3, m.abs)
    IN IF from >= p THEN [m EXCEPT !.ntu3 = from] ELSE Hash3Until(m, from, p)

\* rebase_positions_cold: entries are written anew from the history's start
Rebase(m, p) ==
    LET begun == HcClearTables([m EXCEPT !.base = m.abs, !.shift = 0])
        filled == BtInsertRange(begun, m.abs, p, m.abs + Len(Live(m)), p).m
        from == [filled EXCEPT !.ntu3 = m.abs]
    IN IF m.cfg.h3 = 0 THEN from ELSE UpdateHash3(from, p)

MaybeRebase(m, p) == IF NeedsRebase(m, p) THEN Rebase(m, p) ELSE m

\* arm_block_positions: every position of the block will fit
ArmBlock(m, end) ==
    IF end <= m.base \/ Representable(m, end - 1) THEN m
    ELSE Rebase(m, Larger(m.skip, m.abs))

\* bt_update_tree_until
RECURSIVE InsertRebasing(_, _, _, _)
InsertRebasing(m, u, p, end) ==
    IF u >= p THEN m
    ELSE LET b == IF Representable(m, p) THEN m ELSE MaybeRebase(m, u)
             r == BtInsertRange(b, u, u + 1, end, p)
         IN InsertRebasing(r.m, r.pos, p, end)

UpdateTree(m, p, end) ==
    LET from == Larger(m.skip, m.abs)
        r == IF from >= p THEN m
             ELSE IF Representable(m, p) THEN BtInsertRange(m, from, p, end, p).m
             ELSE InsertRebasing(m, from, p, end)
    IN [r EXCEPT !.skip = p]

\* backfill_boundary_positions: the positions the last block could not hash
Backfill(m, start, end) ==
    IF Larger(SatSub(start, MinMatch), m.abs) < start THEN UpdateTree(m, start, end) ELSE m

\* apply_limited_update_after_long_match
LimitUpdate(m, start) ==
    LET gap == SatSub(start, m.skip)
    IN IF gap > LongGap THEN [m EXCEPT !.skip = start - Smaller(gap - LongGap, LongTail)] ELSE m

(***************************************************************************)
(* skip_matching: a block that is not searched is indexed, all of it or,   *)
(* when it is judged incompressible, every few positions and its end.      *)
(***************************************************************************)
RECURSIVE InsertEach(_, _, _)
InsertEach(m, ps, end) ==
    IF m.tab.len = 0 \/ ps = <<>> THEN m
    ELSE LET p == Head(ps)
         IN InsertEach(Hash3Put(BtInsertRange(MaybeRebase(m, p), p, p + 1, end, end).m, p),
                       Tail(ps), end)

Sparse(m, start, end) ==
    LET OnStep(p) == (p - start) % HcSkipStep = 0
        Ps(from) == [i \in 1 .. SatSub(end, from) |-> from + i - 1]
        dense == Larger(Larger(SatSub(end, HcMinMatch + HcSkipStep), m.abs), start)
        each == SelectSeq(Ps(start), OnStep) \o SelectSeq(Ps(dense), LAMBDA p : ~OnStep(p))
        r == InsertEach(m, each, end)
    IN [r EXCEPT !.skip = Larger(@, end), !.ntu3 = Larger(@, end)]

HcSkip(m, hint) ==
    LET e == HcEnsure(m)
        end == HcBlock(e)[2]
        start == Larger(HcBlock(e)[1], Smaller(e.abs + e.floor, end))
        b == Backfill(e, start, end)
    IN IF hint = "incompressible" THEN Sparse(b, start, end) ELSE UpdateTree(b, end, end)

\* skip_long_match and note_long_match
HcSkipLong(m) ==
    LET l == LimitUpdate(HcEnsure(m), HcBlock(m)[2])
    IN [l EXCEPT !.ntu3 = Larger(@, l.skip)]

HcNoteLong(m, off, ll) == [m EXCEPT !.rep = NoteOffset(@, off, ll)]

-----------------------------------------------------------------------------
(***************************************************************************)
(* The dictionary: its bytes are committed like a block and indexed into   *)
(* the frame's tree, or stay out of it and get a tree of their own.        *)
(***************************************************************************)
HcSetFloor(m, floor) ==
    LET to == m.abs + floor
    IN IF floor = 0 THEN [m EXCEPT !.floor = 0]
       ELSE [m EXCEPT !.floor = floor, !.skip = Larger(@, to), !.ntu3 = Larger(@, to)]

\* skip_matching_dict_bt
HcPassDict(m) ==
    LET end == m.abs + m.winSize
    IN [HcEnsure(m) EXCEPT !.skip = Larger(@, end), !.ntu3 = Larger(@, end)]

\* The bytes a key of mls bytes is read from.
KeyRead(mls) == IF mls > MinMatch + 1 THEN HashReadSize ELSE MinMatch + 1

RECURSIVE DmsBuild(_, _, _, _)
DmsBuild(d, t, p, mls) ==
    IF p + KeyRead(mls) > Len(d) THEN t
    ELSE LET n == Cardinality(DOMAIN t.hash)
             hash == HcHash(d, p, mls, n)
             w == [d |-> d, ip |-> p, tail |-> Len(d) - p, idx |-> -1, pair |-> -1,
                   nodes |-> Len(d), low |-> 1, top |-> p + 1, stop |-> 0, enough |-> Len(d)]
             k == HcDescend(w, [ch |-> t.chain, sm |-> 2 * p, lg |-> 2 * p + 1, cs |-> 0, cl |-> 0,
                                at |-> t.hash[hash], nb |-> DmsDepth, seen |-> <<>>])
         IN DmsBuild(d, [t EXCEPT !.hash[hash] = p + 1, !.chain = CloseTree(k)], p + 1, mls)

RECURSIVE PowerAbove(_, _)
PowerAbove(n, p) == IF p >= n THEN p ELSE PowerAbove(n, 2 * p)

\* prime_dms_bt: a tree already there for the same bytes, key and size is kept
HcPrimeDms(m, len) ==
    LET region == Smaller(len, Len(Live(m)))
        size == Smaller(PowerAbove(region, 1), m.cfg.hash)
        empty == [attached |-> TRUE, mls |-> m.cfg.mls, hash |-> [i \in 0 .. size - 1 |-> 0],
                  chain |-> [i \in 0 .. 2 * region - 1 |-> 0]]
        same == /\ m.dict.primed /\ m.dict.region = region /\ m.dict.tab.mls = m.cfg.mls
                /\ Cardinality(DOMAIN m.dict.tab.hash) = size
    IN IF region < KeyRead(m.cfg.mls) THEN [m EXCEPT !.dict = Detached]
       ELSE IF same THEN m
       ELSE [m EXCEPT !.dict = [tab |-> DmsBuild(Prefix(Live(m), region), empty, m.floor, m.cfg.mls),
                                region |-> region, primed |-> TRUE, next |-> 0]]

\* set_dictionary_limit_from_primed_bytes, then the dictionary's tree or none
HcDictPrimed(m, len, attach) ==
    LET l == [m EXCEPT !.limit = IF len = 0 THEN -1 ELSE m.abs + len, !.active = len # 0]
    IN IF attach THEN HcPrimeDms(l, len) ELSE [l EXCEPT !.dict = Detached]

HcForgetDict(m) == [m EXCEPT !.dict = Detached, !.active = FALSE]

\* The entries of the tables name bytes of the history or before it.
HcTablePast(m) ==
    LET end == StoredAs(m, m.abs + m.winSize)
        Past(t) == \A i \in DOMAIN t : t[i] < end
    IN m.tab.len = 0 \/ (Past(m.tab.hash) /\ Past(m.tab.chain) /\ Past(m.tab.h3))

(***************************************************************************)
(* The optimal parser: what a choice costs, which matches it is offered,   *)
(* and the cheapest path through a block.                                  *)
(***************************************************************************)

(***************************************************************************)
(* What the optimal parser thinks a literal or a sequence costs            *)
(* (encoding/cost_model/mod.rs), in 256ths of a bit: the frequencies of    *)
(* literals, literal lengths, match lengths and offset codes it has seen   *)
(* in the frame, each table with its sum and the price of that sum.        *)
(* Prices that are remembered between uses are the same prices and are     *)
(* computed anew here; literals are always compressed.                     *)
(***************************************************************************)

CONSTANTS
    MaxLit, MaxLL, MaxML, MaxOff,  \* the largest literal and the largest codes
    PredefThreshold,               \* HC_PREDEF_THRESHOLD: a source this short has no statistics
    LitSample,                     \* downscale of the literals first counted (>> 8)
    LitTarget, CodeTarget,         \* log_target of scale_stats: literals, codes
    LitScale, CodeScale            \* scale_log of a dictionary's tables: literals, codes

BitCost == 256

FormatMinMatch == MinMatch   \* HC_FORMAT_MINMATCH

SumOf(freq) == FoldFunction(LAMBDA a, b : a + b, 0, freq)

FreqTable(freq) == [freq |-> freq, sum |-> SumOf(freq), base |-> 0]

Zeros(n) == [i \in 0 .. n |-> 0]

\* HcOptState::new
NoStats ==
    [lit |-> FreqTable(Zeros(MaxLit)), ll |-> FreqTable(Zeros(MaxLL)),
     ml |-> FreqTable(Zeros(MaxML)), of |-> FreqTable(Zeros(MaxOff)),
     predefined |-> FALSE, seed |-> <<>>]

\* bit_weight, or with the fraction of a bit
Weight(stat, accurate) ==
    LET hb == HighBit(stat + 1)
    IN hb * BitCost + (IF accurate THEN ((stat + 1) * BitCost) \div 2^hb ELSE 0)

\* downscale_stats
Downscale(freq, shift, base1) ==
    [i \in DOMAIN freq |-> (IF base1 \/ freq[i] > 0 THEN 1 ELSE 0) + freq[i] \div 2^shift]

\* scale_stats
ScaleStats(t, target) ==
    LET factor == SumOf(t.freq) \div 2^target
    IN FreqTable(IF factor <= 1 THEN t.freq ELSE Downscale(t.freq, HighBit(factor), TRUE))

\* set_base_prices
SetBasePrices(st, accurate) ==
    LET Based(t) == [t EXCEPT !.base = Weight(t.sum, accurate)]
    IN [st EXCEPT !.lit = Based(@), !.ll = Based(@), !.ml = Based(@), !.of = Based(@)]

\* apply_seeded_table: a code of b bits in the dictionary's table is expected
\* twice as often as one of b + 1
SeededTable(bits, scale) ==
    FreqTable([i \in DOMAIN bits |->
                 IF bits[i] = 0 \/ bits[i] >= scale THEN 1 ELSE 2^(scale - bits[i])])

BaseLL == FreqTable([i \in 0 .. MaxLL |-> CASE i = 0 -> 4 [] i = 1 -> 2 [] OTHER -> 1])

BaseML == FreqTable([i \in 0 .. MaxML |-> 1])

BaseOff ==
    FreqTable([i \in 0 .. MaxOff |-> IF i < 12 THEN <<6, 2, 1, 1, 2, 3, 4, 4, 4, 3, 2, 1>>[i + 1]
                                     ELSE 1])

\* The literals of the block itself, sampled.
CountLiterals(src) ==
    LET freq == [b \in 0 .. MaxLit |-> Cardinality({i \in DOMAIN src : src[i] = b})]
        t == FreqTable(Downscale(freq, LitSample, FALSE))
    IN IF t.sum > 0 THEN t ELSE FreqTable([t.freq EXCEPT ![0] = 1])

(***************************************************************************)
(* rescale_freqs, at the start of every block: the first block of a frame  *)
(* starts from the dictionary's tables (each where the dictionary has one) *)
(* or from fixed ones, a later block from what was counted, scaled down.   *)
(***************************************************************************)
RescaleFreqs(st, src, accurate) ==
    LET s == st.seed
        From(name, scale, fixed) ==
            IF s # <<>> /\ s[name] # <<>> THEN SeededTable(s[name], scale) ELSE fixed
        first == [lit |-> From("lit", LitScale, CountLiterals(src)),
                  ll |-> From("ll", CodeScale, BaseLL),
                  ml |-> From("ml", CodeScale, BaseML),
                  of |-> From("of", CodeScale, BaseOff),
                  predefined |-> s = <<>> /\ Len(src) <= PredefThreshold,
                  seed |-> <<>>]
        later == [st EXCEPT !.lit = ScaleStats(@, LitTarget), !.ll = ScaleStats(@, CodeTarget),
                            !.ml = ScaleStats(@, CodeTarget), !.of = ScaleStats(@, CodeTarget),
                            !.predefined = FALSE]
    IN SetBasePrices(IF st.ll.sum = 0 THEN first ELSE later, accurate)

\* lit_code_and_bits; the bands above single lengths are bands of 2, 4, 8, ... lengths
LLCode(ll) ==
    CASE ll < 16 -> <<ll, 0>>
      [] ll \in 16 .. 23 -> <<16 + (ll - 16) \div 2, 1>>
      [] ll \in 24 .. 31 -> <<20 + (ll - 24) \div 4, 2>>
      [] ll \in 32 .. 47 -> <<22 + (ll - 32) \div 8, 3>>
      [] ll \in 48 .. 63 -> <<24, 4>>
      [] OTHER -> <<HighBit(ll) + 19, HighBit(ll)>>

\* ml_code_and_bits
MLCode(ml) ==
    LET b == Larger(ml, FormatMinMatch) - FormatMinMatch
    IN CASE b < 32 -> <<b, 0>>
         [] b \in 32 .. 39 -> <<32 + (b - 32) \div 2, 1>>
         [] b \in 40 .. 47 -> <<36 + (b - 40) \div 4, 2>>
         [] b \in 48 .. 63 -> <<38 + (b - 48) \div 8, 3>>
         [] b \in 64 .. 95 -> <<40 + (b - 64) \div 16, 4>>
         [] b \in 96 .. 127 -> <<42, 5>>
         [] OTHER -> <<HighBit(b) + 36, HighBit(b)>>

Counted(t, code, n) == [t EXCEPT !.freq[code] = @ + n, !.sum = @ + n]

RECURSIVE CountAll(_, _)
CountAll(t, lits) == IF lits = <<>> THEN t ELSE CountAll(Counted(t, Head(lits), 2), Tail(lits))

\* update_stats
UpdateStats(st, lits, offBase, ml) ==
    [st EXCEPT !.lit = CountAll(@, lits),
               !.ll = Counted(@, LLCode(Len(lits))[1], 1),
               !.of = Counted(@, Smaller(HighBit(Larger(offBase, 1)), MaxOff), 1),
               !.ml = Counted(@, MLCode(ml)[1], 1)]

LiteralPrice(st, byte, accurate) ==
    IF st.predefined THEN 6 * BitCost
    ELSE st.lit.base - Smaller(Weight(st.lit.freq[byte], accurate), st.lit.base - BitCost)

LitLengthPrice(st, ll, accurate) ==
    IF st.predefined THEN Weight(ll, accurate)
    ELSE LLCode(ll)[2] * BitCost + st.ll.base - Weight(st.ll.freq[LLCode(ll)[1]], accurate)

\* offset_price_for
OffsetPrice(st, offBase, accurate, favorSmall) ==
    LET code == HighBit(Larger(offBase, 1))
    IN IF st.predefined THEN (16 + code) * BitCost
       ELSE code * BitCost + (st.of.base - Weight(st.of.freq[code], accurate))
            + (IF favorSmall /\ code >= 20 THEN (code - 19) * 2 * BitCost ELSE 0)

MatchLengthPrice(st, ml, accurate) ==
    IF st.predefined THEN Weight(ml - FormatMinMatch, accurate)
    ELSE MLCode(ml)[2] * BitCost + (st.ml.base - Weight(st.ml.freq[MLCode(ml)[1]], accurate))

\* match_price_from_parts
MatchPrice(st, offPrice, ml, accurate) ==
    offPrice + MatchLengthPrice(st, ml, accurate)
    + (IF st.predefined THEN 0 ELSE BitCost \div 5)

(***************************************************************************)
(* What the optimal parsers' search finds at one position                  *)
(* (bt_insert_and_collect_matches, encoding/hc/generator.rs): a ladder of  *)
(* ever longer candidates from the repeat offsets, the three byte table,   *)
(* the frame's tree (into which the position is inserted on the way) and   *)
(* the dictionary's tree; and the long-distance matches of the block,      *)
(* walked alongside (encoding/bt/mod.rs).                                  *)
(***************************************************************************)

CONSTANTS
    OptNum,        \* HC_OPT_NUM: positions one segment of the parse may span
    Hc3MaxOffset   \* HC3_MAX_OFFSET: how far the three byte table is believed

Candidate(off, ml) == [off |-> off, ml |-> ml]

BestOfLadder(cands) == IF cands = <<>> THEN 0 ELSE cands[Len(cands)].ml

\* A candidate joins the ladder if it is longer than the last.
Climb(cands, off, ml) ==
    IF ml >= MinMatch /\ ml > BestOfLadder(cands) THEN Append(cands, Candidate(off, ml)) ELSE cands

-----------------------------------------------------------------------------
\* rep_probe_slot for the three offsets in turn; a first literal shifts them
RepOffsets(reps, ll0) ==
    IF ll0 THEN <<reps[2], reps[3], reps[1] - 1>> ELSE reps

RepMatch(d, i, tail, rep) ==
    IF rep \in 1 .. i /\ SameBytes(d, i, i - rep, MinMatch)
    THEN CountForward(d, i, i - rep, i + Smaller(tail, Len(d) - i)) ELSE 0

RepLadder(d, i, tail, offs) ==
    LET Ml(k) == RepMatch(d, i, tail, offs[k])
    IN Climb(Climb(Climb(<<>>, offs[1], Ml(1)), offs[2], Ml(2)), offs[3], Ml(3))

\* The three byte table is brought up to p, then asked once.
Hash3Match(m, d, i, tail) ==
    LET entry == m.tab.h3[HcHash(d, i, MinMatch, m.cfg.h3)]
        off == StoredAs(m, i + m.abs) - entry
    IN IF /\ entry > m.shift /\ off \in 1 .. Smaller(i, Hc3MaxOffset - 1)
          /\ SameBytes(d, i, i - off, MinMatch)
       THEN Candidate(off, CountForward(d, i, i - off, i + tail)) ELSE Candidate(0, 0)

\* The entries a walk met, as candidates of a position whose own entry is `own`.
RECURSIVE ClimbSeen(_, _, _)
ClimbSeen(cands, seen, own) ==
    IF seen = <<>> THEN cands
    ELSE ClimbSeen(Climb(cands, own - Head(seen).at, Head(seen).ml), Tail(seen), own)

\* The dictionary's tree is only read: what its walk hangs is dropped.
DictWalk(m, d, i, tail, depth, best) ==
    LET t == m.dict.tab
        n == Cardinality(DOMAIN t.chain)
        w == [d |-> d, ip |-> i, tail |-> tail, idx |-> -1, pair |-> -1, nodes |-> n \div 2,
              low |-> 1, top |-> Smaller(m.dict.region, i) + 1, stop |-> 0,
              enough |-> Larger(OptNum, best)]
        scratch == [x \in 0 .. n + 1 |-> IF x < n THEN t.chain[x] ELSE 0]
    IN HcDescend(w, [ch |-> scratch, sm |-> n, lg |-> n + 1, cs |-> 0, cl |-> 0,
                     at |-> t.hash[HcHash(d, i, t.mls, Cardinality(DOMAIN t.hash))],
                     nb |-> depth, seen |-> <<>>]).seen

(***************************************************************************)
(* The search at position p of a block that ends at `end`, on a table      *)
(* whose positions up to p are inserted first.  Returns the table and the  *)
(* ladder.  A candidate that is long enough ends it early.                 *)
(***************************************************************************)
TreeLadder(m, p, end, cands) ==
    LET d == Live(m)
        i == p - m.abs
        hash == HcHash(d, i, m.cfg.mls, m.cfg.hash)
        own == StoredAs(m, p)
        w == TreeWalk(m, p, end, p, own, OptNum)
        k == HcDescend(w, TreeStart(m, w, p, m.cfg.depth, hash))
        live == ClimbSeen(cands, k.seen, own)
        all == IF k.nb > 0 /\ m.dict.primed
               THEN ClimbSeen(live, DictWalk(m, d, i, end - p, k.nb, BestOfLadder(live)), i + 1)
               ELSE live
        ends == {p + HashReadSize + 1}
                \cup {p - all[j].off + all[j].ml : j \in Len(cands) + 1 .. Len(all)}
        last == CHOOSE e \in ends : \A x \in ends : x <= e
    IN [m |-> [HcHung(m, k, hash, p) EXCEPT !.skip = last - HashReadSize], cands |-> all]

SearchAt(m, p, end, enough, reps, ll0) ==
    LET d == Live(m)
        i == p - m.abs
        tail == end - p
        offs == RepOffsets(reps, ll0)
        LongEnough(ml) == ml > enough \/ ml >= tail
        byRep == RepLadder(d, i, tail, offs)
        stop == \E k \in 1 .. 3 : LET ml == RepMatch(d, i, tail, offs[k])
                                  IN ml >= MinMatch /\ LongEnough(ml)
        by3 == Hash3Until(m, Larger(m.ntu3, m.abs), p)
        c3 == Hash3Match(by3, d, i, tail)
    IN IF stop THEN [m |-> m, cands |-> byRep]
       ELSE IF m.cfg.h3 = 0 \/ byRep # <<>> THEN TreeLadder(m, p, end, byRep)
       ELSE IF c3.ml >= MinMatch /\ LongEnough(c3.ml)
       THEN [m |-> [by3 EXCEPT !.skip = p + 1], cands |-> <<c3>>]
       ELSE TreeLadder(by3, p, end, Climb(<<>>, c3.off, c3.ml))

\* collect_optimal_candidates: nothing is found where a long match was passed over
Collect(m, p, end, enough, reps, ll0) ==
    LET ready == [BtInsertRange(m, m.skip, p, end, p).m EXCEPT !.skip = p]
    IN IF p < m.skip THEN [m |-> m, cands |-> <<>>]
       ELSE IF p - m.abs + HashReadSize > Len(Live(m)) THEN [m |-> ready, cands |-> <<>>]
       ELSE SearchAt(ready, p, end, enough, reps, ll0)

-----------------------------------------------------------------------------
(***************************************************************************)
(* The long-distance matches of a block, seqs: [lit, off, len] each.  A    *)
(* cursor is at byte `in` of sequence `pos`; the match on offer covers     *)
(* [start, end) of the segment, and lies beyond it when there is none.     *)
(***************************************************************************)
Beyond == 10^6   \* usize::MAX

RECURSIVE LdmSkip(_, _, _)
LdmSkip(l, seqs, n) ==
    IF n = 0 \/ l.pos > Len(seqs) THEN [l EXCEPT !.in = 0]
    ELSE LET size == seqs[l.pos].lit + seqs[l.pos].len
         IN IF n >= size THEN LdmSkip([l EXCEPT !.pos = @ + 1, !.in = 0], seqs, n - size)
            ELSE [l EXCEPT !.in = n]

\* ldm_skip_raw_seq_store_bytes
LdmAdvance(l, seqs, n) == LdmSkip(l, seqs, l.in + n)

\* ldm_get_next_match_and_update_seq_store
LdmNext(l, seqs, p, left) ==
    IF l.pos > Len(seqs) THEN [l EXCEPT !.start = Beyond, !.end = Beyond]
    ELSE LET s == seqs[l.pos]
             lits == SatSub(s.lit, l.in)
             len == IF lits = 0 THEN SatSub(s.len, SatSub(l.in, s.lit)) ELSE s.len
             offered == [l EXCEPT !.start = p + lits, !.end = Smaller(p + lits + len, p + left),
                                  !.off = s.off]
         IN IF lits >= left
            THEN LdmAdvance([l EXCEPT !.start = Beyond, !.end = Beyond], seqs, left)
            ELSE LdmAdvance(offered, seqs, Smaller(lits + len, left))

LdmStart(seqs, cursor, left) ==
    LET none == [pos |-> 1, in |-> 0, start |-> 0, end |-> 0, off |-> 0]
    IN LdmNext(IF cursor > 0 THEN LdmAdvance(none, seqs, cursor) ELSE none, seqs, 0, left)

\* ldm_process_match_candidate: the cursor, and the candidate at p
LdmAt(l, seqs, p, left) ==
    LET moved == IF p > l.end THEN LdmAdvance(l, seqs, p - l.end) ELSE l
        next == IF p >= l.end THEN LdmNext(moved, seqs, p, left) ELSE l
        ml == next.end - p
    IN IF l.pos > Len(seqs) THEN [l |-> l, off |-> 0, ml |-> 0]
       ELSE IF p \in next.start .. next.end - 1 /\ ml >= MinMatch
       THEN [l |-> next, off |-> next.off, ml |-> ml]
       ELSE [l |-> next, off |-> 0, ml |-> 0]

(***************************************************************************)
(* The parse of the highest levels (encoding/hc/optimal.rs): a block is    *)
(* parsed segment by segment, each a cheapest path over the positions from *)
(* its start, whose sequences then count in the prices of the next one.    *)
(* The cells of the path are kept from segment to segment and not cleared: *)
(* a cell not written for this segment holds anything, here a free match.  *)
(***************************************************************************)

HcNew(f) == HcTableNew(f) @@ [stats |-> NoStats, ldm |-> <<>>]


\* HcMatchGenerator::reset
HcReset(m) == [HcTableReset(m) EXCEPT !.stats = NoStats, !.ldm = <<>>]

-----------------------------------------------------------------------------
Unreached == 10^6   \* u32::MAX as a price

AnyNode == [off |-> 1, mlen |-> 1, litlen |-> 0, reps |-> <<1, 4, 8>>]

\* The strategies' constants: BtOpt, BtUltra and BtUltra2
Accurate(cfg) == cfg.strat # "BtOpt"

Thorough(cfg) == cfg.strat # "BtOpt"   \* OPT_LEVEL 2

OffCode(off, ll, reps) ==
    LET three == IF ll > 0 THEN reps ELSE <<reps[2], reps[3], reps[1] - 1>>
        hit == {k \in 1 .. 3 : three[k] = off}
    IN IF hit = {} THEN off + 3 ELSE CHOOSE k \in hit : \A j \in hit : k <= j

\* sufficient_match_len_for_pass
EnoughLen(cfg) == Smaller(Larger(cfg.target, MinMatch), OptNum - 1)

LLPrice(b, ll) == LitLengthPrice(b.stats, ll, Accurate(b.m.cfg))

LLDelta(b, ll) == LLPrice(b, ll) - LLPrice(b, ll - 1)

LitPrice(b, byte) == LiteralPrice(b.stats, byte, Accurate(b.m.cfg))

\* What a match after node v costs.
SeqCost(b, v, off, ml) ==
    LET acc == Accurate(b.m.cfg)
        offPrice == OffsetPrice(b.stats, OffCode(off, v.litlen, v.reps), acc, ~acc)
    IN LLPrice(b, 0) + MatchPrice(b.stats, offPrice, ml, acc)

(***************************************************************************)
(* The path: s has nodes, price, last (the last position reached), and n   *)
(* and limit (frontier_limit) of the segment.  The candidates of a         *)
(* position offer every length above the candidate before; at the lowest   *)
(* level the lengths are tried from the longest until one is no better.    *)
(***************************************************************************)
NextCost(b, s, pos, c, l) == s.price[pos] + SeqCost(b, s.nodes[pos], c.off, l)

Improves(b, s, pos, c, l) == pos + l > s.last \/ NextCost(b, s, pos, c, l) < s.price[pos + l]

PricedLengths(b, s, pos, c, lengths, max) ==
    {l \in lengths : IF Thorough(b.m.cfg) THEN Improves(b, s, pos, c, l)
                     ELSE \A k \in l .. max : Improves(b, s, pos, c, k)}

Offer(b, s, pos, c, above) ==
    LET max == Smaller(Smaller(c.ml, s.n - pos), s.limit - pos)
        taken == PricedLengths(b, s, pos, c, above + 1 .. max, max)
        Cleared(i) == IF i \in s.last + 1 .. pos + max THEN Unreached ELSE s.price[i]
    IN IF max <= above THEN s
       ELSE [s EXCEPT !.price = [i \in DOMAIN @ |->
                                   IF i - pos \in taken THEN NextCost(b, s, pos, c, i - pos)
                                   ELSE Cleared(i)],
                      !.nodes = [i \in DOMAIN @ |->
                                   IF i - pos \in taken
                                   THEN [@[i] EXCEPT !.off = c.off, !.mlen = i - pos, !.litlen = 0]
                                   ELSE @[i]],
                      !.last = Larger(@, pos + max)]

RECURSIVE OfferAll(_, _, _, _, _)
OfferAll(b, s, pos, cands, above) ==
    IF cands = <<>>
    THEN [s EXCEPT !.price = [i \in DOMAIN @ |-> IF i = s.last + 1 THEN Unreached ELSE @[i]]]
    ELSE LET c == Head(cands)
             max == Smaller(Smaller(c.ml, s.n - pos), s.limit - pos)
         IN OfferAll(b, Offer(b, s, pos, c, above), pos, Tail(cands), Larger(above, max))

\* The repeat offsets after the match that ends at node v of position pos.
RepsAfter(s, pos, v) ==
    LET from == s.nodes[pos - v.mlen] IN NoteOffset(from.reps, v.off, from.litlen)

(***************************************************************************)
(* One more literal than the position before, where that is no dearer; a   *)
(* match that loses to it may still win with one literal after it.         *)
(***************************************************************************)
OneMoreLiteral(b, s, pos, block) ==
    LET before == s.nodes[pos - 1]
        lits == before.litlen + 1
        cost == s.price[pos - 1] + LitPrice(b, At(block, pos - 1)) + LLDelta(b, lits)
        taken == [s EXCEPT !.nodes[pos] = [before EXCEPT !.litlen = lits], !.price[pos] = cost]
        match == s.nodes[pos]
        one == s.price[pos] + LitPrice(b, At(block, pos)) + LLPrice(b, 1) - LLPrice(b, 0)
        more == cost + LitPrice(b, At(block, pos)) + LLDelta(b, lits + 1)
        refined == [taken EXCEPT
                      !.nodes[pos + 1] = [match EXCEPT !.litlen = 1, !.reps = RepsAfter(s, pos, match)],
                      !.price = [i \in DOMAIN @ |-> IF i = pos + 1 THEN one
                                                    ELSE IF i = pos + 2 /\ pos + 1 > s.last
                                                    THEN Unreached ELSE @[i]],
                      !.last = Larger(@, pos + 1)]
    IN IF s.price[pos - 1] = Unreached \/ cost > s.price[pos] THEN s
       ELSE IF /\ Thorough(b.m.cfg) /\ s.price[pos] # Unreached /\ match.mlen > 0
               /\ match.litlen = 0 /\ pos < s.n /\ LLPrice(b, 1) < LLPrice(b, 0)
               /\ one < more /\ one < s.price[pos + 1]
       THEN refined
       ELSE taken

Settled(s, pos) ==
    LET v == s.nodes[pos]
    IN IF v.mlen > 0 /\ v.litlen = 0 THEN [s EXCEPT !.nodes[pos].reps = RepsAfter(s, pos, v)] ELSE s

\* A match long enough ends the segment at once.
Forced(pos, c, ml, v) ==
    [at |-> pos + ml, node |-> [off |-> c.off, mlen |-> ml, litlen |-> 0, reps |-> v.reps]]

NotForced == [at |-> 0]

(***************************************************************************)
(* The forward loop from position pos.  Returns the block state (the table *)
(* and the long-distance cursor move), the path and where it was forced.   *)
(***************************************************************************)
RECURSIVE Forward(_, _, _, _, _)
Forward(b, s0, pos, start, seg) ==
    LET s1 == OneMoreLiteral(b, s0, pos, seg)
        s == IF s1.price[pos] = Unreached THEN s1 ELSE Settled(s1, pos)
        v == s.nodes[pos]
        found == Collect(b.m, start + pos, start + s.n, EnoughLen(b.m.cfg), v.reps, v.litlen = 0)
        ldm == LdmAt(b.cursorLdm, b.m.ldm, pos, s.n - pos)
        cands == IF b.m.ldm = <<>> THEN found.cands ELSE Climb(found.cands, ldm.off, ldm.ml)
        next == [b EXCEPT !.m = found.m, !.cursorLdm = IF b.m.ldm = <<>> THEN @ ELSE ldm.l]
        c == cands[Len(cands)]
        longest == Smaller(c.ml, s.n - pos)
    IN IF pos > s0.last \/ pos > s0.limit THEN [b |-> b, s |-> s0, forced |-> NotForced]
       ELSE IF s.price[pos] = Unreached \/ pos + HashReadSize > s.n
       THEN Forward(b, s, pos + 1, start, seg)
       ELSE IF pos = s.last THEN [b |-> b, s |-> s, forced |-> NotForced]
       ELSE IF ~Thorough(b.m.cfg) /\ s.price[pos + 1] <= s.price[pos] + BitCost \div 2
       THEN Forward(b, s, pos + 1, start, seg)
       ELSE IF cands # <<>> /\ (\/ longest > EnoughLen(b.m.cfg)
                                \/ pos + longest >= OptNum \/ pos + longest >= s.n)
       THEN [b |-> next, s |-> s, forced |-> Forced(pos, c, longest, v)]
       ELSE Forward(next, OfferAll(b, s, pos, cands, MinMatch - 1), pos + 1, start, seg)

-----------------------------------------------------------------------------
\* The sequences from the segment's start to the match that ends at pos
\* in node v, each with the literals of the node it starts from.
RECURSIVE PathTo(_, _, _)
PathTo(s, pos, v) ==
    LET from == s.nodes[pos]
        seq == [off |-> v.off, ml |-> v.mlen, ll |-> from.litlen]
    IN IF from.mlen = 0 THEN <<seq>>
       ELSE IF pos < from.litlen + from.mlen
       THEN <<[off |-> from.off, ml |-> from.mlen, ll |-> from.litlen], seq>>
       ELSE Append(PathTo(s, pos - from.litlen - from.mlen, from), seq)

\* record_sequence_stats for each sequence
RECURSIVE RecordAll(_, _, _, _)
RecordAll(b, block, seqs, reps) ==
    IF seqs = <<>> THEN [b EXCEPT !.stats = SetBasePrices(@, Accurate(b.m.cfg))]
    ELSE LET q == Head(seqs)
             start == b.lits + q.ll
             counted == [b EXCEPT !.lits = start + q.ml,
                                  !.stats = UpdateStats(@, SubSeq(block, b.lits + 1, start),
                                                        OffCode(q.off, q.ll, reps), q.ml)]
         IN IF start + q.ml > Len(block) THEN RecordAll(b, block, Tail(seqs), reps)
            ELSE RecordAll(counted, block, Tail(seqs), NoteOffset(reps, q.off, q.ll))

Consumed(b, reps, litlen, n) ==
    [b EXCEPT !.reps = reps, !.litlen = litlen, !.cursor = @ + n]

(***************************************************************************)
(* The end of a segment: the path is followed back from its last position  *)
(* or the forced match, and its sequences join the plan.                   *)
(***************************************************************************)
Trace(r, block) ==
    LET b == r.b
        s == r.s
        forced == r.forced.at > 0
        target == IF forced THEN r.forced.at ELSE Smaller(s.last, s.limit)
        v == IF forced THEN r.forced.node ELSE s.nodes[target]
        cur == target - v.mlen
        seqs == PathTo(s, cur - v.litlen, v)
        planned == RecordAll([b EXCEPT !.plan = @ \o seqs], block, seqs, b.reps)
        endReps == IF v.litlen = 0 THEN RepsAfter(s, target, v) ELSE v.reps
    IN IF ~forced /\ s.price[target] = Unreached THEN Consumed(b, b.reps, b.litlen, s.n)
       ELSE IF v.mlen = 0 \/ cur < v.litlen THEN Consumed(b, v.reps, v.litlen, target)
       ELSE Consumed(planned, endReps, v.litlen, Smaller(target, s.n))

\* Where nothing is found the positions are literals, without a path.
RECURSIVE FirstFound(_, _, _, _)
FirstFound(b, start, end, k) ==
    LET found == Collect(b.m, start + k, end, EnoughLen(b.m.cfg), b.reps, b.litlen + k = 0)
        next == [b EXCEPT !.m = found.m]
    IN IF end - start - k <= HashReadSize THEN [b |-> b, k |-> k, cands |-> <<>>]
       ELSE IF found.cands # <<>> THEN [b |-> next, k |-> k, cands |-> found.cands]
       ELSE FirstFound(next, start, end, k + 1)

\* The path from the segment's first candidates on.
Priced(b, cands, start, block) ==
    LET n == Len(block) - b.cursor
        limit == Smaller(n, OptNum - 1)
        origin == [off |-> 0, mlen |-> 0, litlen |-> b.litlen, reps |-> b.reps]
        s0 == [nodes |-> [i \in 0 .. limit + 1 |-> IF i = 0 THEN origin ELSE b.nodes[i]],
               price |-> [i \in 0 .. limit + 1 |-> IF i = 0 THEN LLPrice(b, b.litlen)
                                                   ELSE IF i < MinMatch THEN Unreached ELSE b.price[i]],
               last |-> Smaller(MinMatch - 1, limit), n |-> n, limit |-> limit]
        c == cands[Len(cands)]
        r == IF Smaller(c.ml, n) > EnoughLen(b.m.cfg)
             THEN [b |-> b, s |-> s0, forced |-> Forced(0, c, Smaller(c.ml, n), origin)]
             ELSE Forward(b, OfferAll(b, s0, 0, cands, MinMatch - 1), 1, start,
                          SubSeq(block, b.cursor + 1, Len(block)))
        Kept(old, new) == [i \in DOMAIN old |-> IF i \in DOMAIN new THEN new[i] ELSE old[i]]
    IN Trace([r EXCEPT !.b.nodes = Kept(@, r.s.nodes), !.b.price = Kept(@, r.s.price)], block)

\* build_optimal_plan: one segment, candidates carried over from the one before
Segment(b, blockStart, block) ==
    LET start == blockStart + b.cursor
        end == blockStart + Len(block)
        far == b.m.ldm # <<>>
        first == FirstFound(b, start, end, 0)
        ldm0 == LdmStart(b.m.ldm, b.cursor, end - start)
        ldm == LdmAt(ldm0, b.m.ldm, 0, end - start)
        seed == Collect(b.m, start, end, EnoughLen(b.m.cfg), b.reps, b.litlen = 0)
        cands == Climb(seed.cands, ldm.off, ldm.ml)
        clean == [b EXCEPT !.carried = <<>>]
    IN IF far
       THEN LET r == [clean EXCEPT !.m = seed.m, !.cursorLdm = ldm.l]
            IN IF cands = <<>> THEN Consumed(r, b.reps, b.litlen + 1, 1)
               ELSE Priced(r, cands, start, block)
       ELSE IF b.carried # <<>> THEN Priced(clean, b.carried, start, block)
       ELSE IF first.k > 0
       THEN Consumed([first.b EXCEPT !.carried = first.cands], b.reps, b.litlen + first.k, first.k)
       ELSE Priced(first.b, first.cands, start, block)

RECURSIVE Segments(_, _, _)
Segments(b, blockStart, block) ==
    IF b.cursor + HashReadSize >= Len(block) THEN b
    ELSE Segments(Segment(b, blockStart, block), blockStart, block)

\* optimal_block: all of a block, from its second byte at the start of history
PlanBlock(m, start, block) ==
    LET from == IF start = m.abs THEN 1 ELSE 0
        begun == [m EXCEPT !.skip = Larger(@, m.abs)]
    IN Segments([m |-> begun, stats |-> RescaleFreqs(m.stats, block, Accurate(m.cfg)),
                 cursor |-> from, litlen |-> from, reps |-> m.rep, lits |-> 0, plan |-> <<>>,
                 carried |-> <<>>, cursorLdm |-> <<>>,
                 nodes |-> [i \in 0 .. OptNum + 1 |-> AnyNode],
                 price |-> [i \in 0 .. OptNum + 1 |-> 0]], start, block)

\* should_run_btultra2_seed_pass
WantsSeedPass(m, len) ==
    /\ m.cfg.strat = "BtUltra2" /\ m.stats.ll.sum = 0 /\ m.stats.seed = <<>> /\ ~m.primed
    /\ m.winSize = len /\ Len(m.chunks) = 1 /\ len > PredefThreshold

(***************************************************************************)
(* run_btultra2_seed_pass: the first block is parsed once for its          *)
(* statistics alone; what it left in the tables is moved out of reach.     *)
(***************************************************************************)
SeedPass(m, start, block) ==
    LET b == PlanBlock(m, start, block)
    IN [b.m EXCEPT !.stats = b.stats, !.shift = start - b.m.base + Len(block) + @,
                   !.base = b.m.abs, !.ntu3 = start, !.skip = start]

\* emit_optimal_plan: a sequence past the block's end is dropped
RECURSIVE EmitPlan(_, _, _, _, _)
EmitPlan(m, plan, at, len, out) ==
    IF plan = <<>> THEN [m |-> m, seqs |-> out]
    ELSE LET q == Head(plan)
             end == at + q.ll + q.ml
         IN IF end > len THEN EmitPlan(m, Tail(plan), at, len, out)
            ELSE EmitPlan(HcNoteLong(m, q.off, q.ll), Tail(plan), end, len,
                          Append(out, Triple(q.ll, q.off, q.ml)))

\* start_matching_optimal
HcStart(m0) ==
    LET m == HcEnsure(m0)
        start == HcBlock(m)[1]
        end == HcBlock(m)[2]
        block == SubSeq(Live(m), start - m.abs + 1, end - m.abs)
        armed == LimitUpdate(ArmBlock(m, end), start)
        filled == [Backfill(armed, start, end) EXCEPT !.ntu3 = Larger(armed.skip, armed.abs)]
        ready == IF WantsSeedPass(filled, Len(block))
                 THEN ArmBlock(SeedPass(filled, start, block), end) ELSE filled
        b == PlanBlock(ready, start, block)
    IN IF start = end THEN [m |-> m, seqs |-> <<>>]
       ELSE EmitPlan([b.m EXCEPT !.stats = b.stats], b.plan, 0, Len(block), <<>>)
=============================================================================
