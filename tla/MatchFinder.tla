---------------------------- MODULE MatchFinder -----------------------------
(***************************************************************************)
(* The MatchGeneratorDriver, and a frame compressor over it.               *)
(***************************************************************************)
EXTENDS FastMatcher, DfastMatcher, RowMatcher, OptimalParser, TLC

(***************************************************************************)
(* The MatchGeneratorDriver: the backends it keeps, what a new frame does  *)
(* with the one it holds, and what it passes on to it.                     *)
(***************************************************************************)

(***************************************************************************)
(* MatcherStorage (encoding/match_generator/mod.rs): the one backend a     *)
(* driver holds, and the calls the driver forwards to it.  A frame f has   *)
(* back, win, slots, step, pays (the table's size pays for tagged slots),  *)
(* moved (the workspace does not hold the last frame's tables), size       *)
(* ("small", "large" or "unknown" against the attach cutoff), slice (the   *)
(* input is one slice), ldm, row (the greedy and lazy levels' finder and   *)
(* its shape), hc (the optimal parsers' tables), dict (its bytes), reps    *)
(* and seed (what its entropy tables say).                                 *)
(***************************************************************************)

HasDict(f) == f.dict # <<>>

Attaches(f) == f.size # "large"

MNew(f) ==
    CASE f.back = "Fast" -> FastNew(f) [] f.back = "Dfast" -> DfNew(f) [] f.back = "Row" -> RowNew(f)
      [] f.back = "HashChain" -> HcNew(f)

\* committed_window: the bytes the backend may refer to
MWindowLen(back, m) ==
    IF back = "Fast" THEN FastCommitted(m) ELSE m.winSize

MFill(back, m, bytes) ==
    CASE back = "Fast" -> FastFill(m, bytes) [] back = "Dfast" -> DfFill(m, bytes)
      [] back = "Row" -> RowFill(m, bytes) [] back = "HashChain" -> HcFill(m, bytes)

MCommit(back, m, len) ==
    CASE back = "Fast" -> FastCommit(m, len) [] back = "Dfast" -> DfCommit(m, len)
      [] back = "Row" -> RowCommit(m, len) [] back = "HashChain" -> HcCommit(m, len)

MUncommit(back, m) ==
    CASE back = "Fast" -> FastUncommit(m) [] back = "Dfast" -> DfUncommit(m)
      [] back = "Row" -> RowUncommit(m) [] back = "HashChain" -> HcUncommit(m)

\* trim_after_budget_retire, one pass
MTrim(back, m) ==
    CASE back = "Fast" -> FastTrim(m) [] back = "Dfast" -> DfTrim(m) [] back = "Row" -> RowTrim(m)
      [] back = "HashChain" -> HcTrim(m)

MSetReps(back, m, reps) ==
    CASE back = "Fast" -> [m EXCEPT !.rep = <<reps[1], reps[2]>>]
      [] back = "Dfast" -> [m EXCEPT !.rep = reps]
      [] back = "Row" -> RowSetReps(m, reps)
      [] back = "HashChain" -> [m EXCEPT !.rep = reps, !.primed = TRUE]

\* set_dictionary_index_floor
MSetFloor(back, m, floor) ==
    IF back = "HashChain" THEN HcSetFloor(m, floor) ELSE [m EXCEPT !.floor = floor]

\* skip_matching_for_dictionary_priming: one committed piece of the dictionary
MPrimePiece(back, m, f) ==
    CASE back = "Fast" -> IF Attaches(f) THEN FastPrimeAttach(m) ELSE FastPrimeCopy(m)
      [] back = "Dfast" -> IF Attaches(f) THEN DfPrimeAttach(m) ELSE DfPrimeCopy(m)
      [] back = "Row" -> RowPrimePiece(m)
      [] back = "HashChain" -> IF Attaches(f) THEN HcPassDict(m) ELSE HcSkip(m, "searchable")

MRevive(back, m, f) ==
    CASE back = "Dfast" /\ Attaches(f) -> DfRevive(m, Len(f.dict))
      [] back = "Row" -> RowRevive(m, Len(f.dict))
      [] OTHER -> m

\* The end of prime_with_dictionary, `bytes` of the dictionary being committed.
MMarkPrimed(back, m, f, bytes) ==
    CASE back = "Fast" -> FastMarkPrimed(m) [] back = "Dfast" -> DfMarkPrimed(m)
      [] back = "Row" -> RowMarkPrimed(m)
      [] back = "HashChain" -> HcDictPrimed(m, bytes, Attaches(f))

MForgetDict(back, m) ==
    CASE back = "Fast" -> FastInvalidate(m) [] back = "Dfast" -> DfForget(m)
      [] back = "Row" -> RowForget(m) [] back = "HashChain" -> HcForgetDict(m)

\* restore_primed_dictionary: a snapshot over the live backend
MRestore(back, m, snap) ==
    CASE back = "Fast" -> [snap EXCEPT !.dslots = m.dslots] [] back = "Dfast" -> DfRestore(m, snap)
      [] back = "Row" -> RowRestore(m, snap) [] back = "HashChain" -> snap

MBorrow(back, m, buf) ==
    CASE back = "Fast" -> FastBorrow(m, buf) [] back = "Dfast" -> DfBorrow(m, buf)
      [] back = "Row" -> RowBorrow(m, buf)

MUnborrow(back, m) ==
    CASE back = "Fast" -> FastUnborrow(m) [] back = "Dfast" -> DfUnborrow(m)
      [] back = "Row" -> RowUnborrow(m)

(***************************************************************************)
(* Searching the committed block, or [start, end) of the input in place;   *)
(* each returns the backend and the sequences.                             *)
(***************************************************************************)
MStart(back, m) ==
    CASE back = "Fast" -> FastStart(m) [] back = "Dfast" -> DfStart(m) [] back = "Row" -> RowStart(m)
      [] back = "HashChain" -> HcStart(m)

MStartBorrowed(back, m, start, end) ==
    CASE back = "Fast" -> IF m.dict.attached THEN FastStartBorrowedDict(m, start, end)
                          ELSE FastStartBorrowed(m, start, end)
      [] back = "Dfast" -> DfStartBorrowed(m, start, end)
      [] back = "Row" -> RowStartBorrowed(m, start, end)

MSkip(back, m, hint) ==
    CASE back = "Fast" -> FastSkip(m, hint) [] back = "Dfast" -> DfSkip(m, hint)
      [] back = "Row" -> RowSkip(m, hint) [] back = "HashChain" -> HcSkip(m, hint)

MSkipBorrowed(back, m, start, end, hint) ==
    CASE back = "Fast" -> FastSkipBorrowed(m, start, end, hint)
      [] back = "Dfast" -> DfSkipBorrowed(m, start, end, hint)
      [] back = "Row" -> RowSkipBorrowed(m, start, end, hint)

\* skip_long_match and note_long_match
MPassLong(back, m, off, ll) ==
    CASE back = "Fast" -> FastNoteLong(FastSkipLong(m), off)
      [] back = "Dfast" -> DfNoteLong(DfSkipLong(m), off, ll)
      [] back = "Row" -> RowNoteLong(RowSkipLong(m), off, ll)
      [] back = "HashChain" -> HcNoteLong(HcSkipLong(m), off, ll)

(***************************************************************************)
(* reset_in_workspace's branch for each backend.                           *)
(***************************************************************************)
FastFrameReset(m, f, carry) ==
    FastReset(FastRetire(FastSetDictSlots(m, IF HasDict(f) THEN f.slots ELSE 0)), f, carry)

DfFrameReset(m, f) ==
    LET attach == HasDict(f) /\ Attaches(f)
        sized == DfSetDictSlots(DfSetSlots([m EXCEPT !.maxWin = f.win], f.slots),
                                IF HasDict(f) THEN f.slots ELSE 0)
        parked == IF HasDict(f) /\ ~attach THEN DfPark(sized) ELSE sized
    IN DfReset(DfBind(DfRetire(parked), f.moved, ~attach /\ f.pays))

RowFrameReset(m, f) ==
    LET plan == IF ~HasDict(f) THEN NoPlan
                ELSE [is |-> TRUE, attach |-> Attaches(f), cdict |-> f.row.cdict]
        salt == IF plan.is /\ ~Attaches(f) THEN 0 ELSE 1
        sized == RowConfigure(RowSetPlan([m EXCEPT !.maxWin = f.win], plan), f, salt)
    IN RowReset(RowBind(RowRetire(sized), f.moved))

HcFrameReset(m, f) ==
    LET sized == HcConfigure([m EXCEPT !.maxWin = f.win], f.hc)
        copies == IF HasDict(f) /\ ~Attaches(f) THEN [sized EXCEPT !.dict = Detached] ELSE sized
    IN HcReset(HcBind(HcRetire(copies), f.moved))

(***************************************************************************)
(* MatchGeneratorDriver (encoding/match_generator): the match finder a     *)
(* frame compressor drives, over one backend at a time.  A frame resets    *)
(* it, loads its dictionary (resident, restored from a snapshot, or primed *)
(* afresh) and hands it one block after another, copied into its history   *)
(* or scanned in place.                                                    *)
(***************************************************************************)

CONSTANTS
    BaseSlice,      \* base_slice_size: a dictionary is committed in such pieces
    FastPrimedTail, \* MIN_MATCH_LEN: no piece of a dictionary is shorter (Fast)
    DictReach,      \* 1 << dict_reach_log: bytes at its end a dictionary is indexed for
    LdmMinMatch     \* shortest long-distance match

NoSnapshot == [held |-> FALSE]

(***************************************************************************)
(* commit_filled: bytes evicted by the commit give back what the retained  *)
(* dictionary had widened the window by, and the history is cut to the     *)
(* narrower window until nothing more falls out.                           *)
(***************************************************************************)
RetireBudget(g, evicted) ==
    LET n == Smaller(evicted, g.budget)
    IN [g EXCEPT !.budget = @ - n, !.m.maxWin = SatSub(@, n)]

RECURSIVE TrimAfterRetire(_)
TrimAfterRetire(g) ==
    LET t == [g EXCEPT !.m = MTrim(g.back, @)]
        evicted == MWindowLen(g.back, g.m) - MWindowLen(g.back, t.m)
    IN IF evicted = 0 THEN t ELSE TrimAfterRetire(RetireBudget(t, evicted))

CommitFilled(g, len) ==
    LET c == [g EXCEPT !.m = MCommit(g.back, @, len)]
        evicted == MWindowLen(g.back, g.m) + len - MWindowLen(g.back, c.m)
    IN IF Smaller(evicted, g.budget) = 0 THEN c ELSE TrimAfterRetire(RetireBudget(c, evicted))

(***************************************************************************)
(* reset_in_workspace for a frame f.                                       *)
(***************************************************************************)
\* restores_primed_snapshot: only a frame known to be over the cutoff
RestoresSnapshot(f) == f.size = "large"

FrameKey(f, tagged) ==
    [back |-> f.back, win |-> f.win, slots |-> f.slots, step |-> f.step, row |-> f.row,
     hc |-> f.hc, attach |-> f.back = "Fast" /\ Attaches(f), tagged |-> tagged]

FastCarry(g, f) ==
    IF /\ g.snap.held /\ HasDict(f) /\ RestoresSnapshot(f)
       /\ g.snap.key = [FrameKey(f, g.snap.key.tagged) EXCEPT !.attach = FALSE]
    THEN IF g.snap.key.tagged THEN "RestoreTagged" ELSE "RestoreBare"
    ELSE IF HasDict(f) /\ Attaches(f) THEN "AdvanceEpoch" ELSE "Clear"

\* borrowed_supported and borrowed_dict_supported
ScansInPlace(f) ==
    f.slice /\ f.back # "HashChain" /\ (~HasDict(f) \/ (f.back = "Fast" /\ Attaches(f)))
            /\ (~f.ldm \/ (f.back = "Fast" /\ ~HasDict(f)))

DriverNew(f) ==
    LET m == MNew(f)
    IN [back |-> f.back, m |-> m, budget |-> 0, reported |-> f.win, snap |-> NoSnapshot,
        inPlace |-> FALSE, ldm |-> FALSE, key |-> FrameKey(f, FALSE)]

DriverReset(g, f) ==
    LET live == IF g.back = f.back THEN g ELSE [g EXCEPT !.back = f.back, !.m = MNew(f)]
        m == CASE f.back = "Fast" -> FastFrameReset(live.m, f, FastCarry(live, f))
               [] f.back = "Dfast" -> DfFrameReset(live.m, f)
               [] f.back = "Row" -> RowFrameReset(live.m, f)
               [] f.back = "HashChain" -> HcFrameReset(live.m, f)
    IN [live EXCEPT !.m = m, !.budget = 0, !.reported = f.win,
                    !.inPlace = ScansInPlace(f), !.ldm = f.ldm,
                    !.key = FrameKey(f, f.back = "Fast" /\ m.tab.tagged)]

(***************************************************************************)
(* prime_with_dictionary: the window is widened by the dictionary, which   *)
(* is committed piece by piece and indexed by the backend; no piece is     *)
(* shorter than can be hashed (min_primed_tail).                           *)
(***************************************************************************)
PrimedTail(back) == IF back = "Fast" THEN FastPrimedTail ELSE MinMatch

PieceEnd(start, len, slice, tail) ==
    LET end == Smaller(start + slice, len)
        shortened == len - tail
    IN IF end = len \/ len - end >= tail THEN end
       ELSE IF shortened - start >= tail THEN shortened ELSE len

RECURSIVE PrimePieces(_, _, _)
PrimePieces(g, f, start) ==
    IF start >= Len(f.dict) \/ Len(f.dict) < PrimedTail(g.back) THEN g
    ELSE LET end == PieceEnd(start, Len(f.dict), Smaller(BaseSlice, g.reported), PrimedTail(g.back))
             filled == [g EXCEPT !.m = MFill(g.back, @, SubSeq(f.dict, start + 1, end))]
             piece == CommitFilled(filled, end - start)
         IN PrimePieces([piece EXCEPT !.m = MPrimePiece(g.back, @, f)], f, end)

PrimeWithDictionary(g, f) ==
    LET base == g.m.maxWin
        clean == IF g.back = "HashChain" THEN HcClearTables(g.m) ELSE g.m
        floor == SatSub(Len(f.dict), DictReach)
        floored == MRevive(g.back, MSetFloor(g.back, MSetReps(g.back, clean, f.reps), floor), f)
        wide == [floored EXCEPT !.maxWin = Smaller(base + Len(f.dict), PrimedCeiling)]
        primed == PrimePieces([g EXCEPT !.m = wide], f, 0)
        bytes == IF Len(f.dict) < PrimedTail(g.back) THEN 0 ELSE Len(f.dict)
        granted == Smaller(bytes, PrimedCeiling - base)
        marked == MMarkPrimed(g.back, [primed.m EXCEPT !.maxWin = base + granted], f, bytes)
    IN [primed EXCEPT !.m = MSetFloor(g.back, marked, 0), !.budget = @ + granted]

\* reapply_resident_dictionary: what the kept bytes widened the window by
ReapplyResident(g, f) ==
    [g EXCEPT !.m = MSetReps(g.back, @, f.reps), !.budget = SatSub(g.m.maxWin, g.reported)]

Capture(g) == [g EXCEPT !.snap = [held |-> TRUE, m |-> g.m, budget |-> g.budget, key |-> g.key]]

RestorePrimed(g) ==
    [g EXCEPT !.m = MRestore(g.back, @, g.snap.m), !.budget = g.snap.budget]

\* load_frame_dictionary (frame_compressor.rs)
LoadFrameDictionary(g, f) ==
    IF ~HasDict(f) THEN g
    ELSE IF g.m.resident THEN ReapplyResident(g, f)
    ELSE IF RestoresSnapshot(f) /\ g.snap.held /\ g.snap.key = g.key THEN RestorePrimed(g)
    ELSE IF RestoresSnapshot(f) THEN Capture(PrimeWithDictionary(g, f))
    ELSE PrimeWithDictionary(g, f)

\* seed_dictionary_entropy: the optimal parsers' first prices
SeedEntropy(g, f) ==
    IF g.back = "HashChain" /\ HasDict(f) THEN [g EXCEPT !.m.stats.seed = f.seed] ELSE g

\* invalidate_primed_dictionary: another dictionary is set, or none
InvalidatePrimed(g) ==
    LET m == MForgetDict(g.back, g.m) IN [g EXCEPT !.snap = NoSnapshot, !.m = m]

(***************************************************************************)
(* Searching a block of the frame, the next len bytes after `done` of the  *)
(* input.  Each returns the driver and the sequences.                      *)
(***************************************************************************)
With(g, r) == [g |-> [g EXCEPT !.m = r.m], seqs |-> r.seqs]

StartOwned(g) == With(g, MStart(g.back, g.m))

RECURSIVE TotalCovered(_)
TotalCovered(seqs) ==
    IF seqs = <<>> THEN 0 ELSE Head(seqs).ll + Head(seqs).ml + TotalCovered(Tail(seqs))

(***************************************************************************)
(* A block with long-distance matches, [lit, off, len] each, is searched   *)
(* in pieces: the literals before a match by the backend, the match itself *)
(* indexed and noted, and at last the `left` bytes after them all.  The    *)
(* optimal parsers are given the matches instead.                          *)
(***************************************************************************)
Gap(g, len) ==
    IF len = 0 THEN [g |-> g, seqs |-> <<>>]
    ELSE StartOwned([g EXCEPT !.m = MCommit(g.back, @, len)])

RECURSIVE LongPieces(_, _, _)
LongPieces(g, longs, left) ==
    IF longs = <<>> THEN Gap(g, left)
    ELSE LET long == Head(longs)
             gap == Gap(g, long.lit)
             lits == long.lit - TotalCovered(gap.seqs)
             passed == MCommit(g.back, gap.g.m, long.len)
             rest == LongPieces([gap.g EXCEPT !.m = MPassLong(g.back, passed, long.off, lits)],
                                Tail(longs), left - long.lit - long.len)
         IN [g |-> rest.g,
             seqs |-> gap.seqs \o <<Triple(lits, long.off, long.len)>> \o rest.seqs]

StartLongDistance(g, longs, len) ==
    IF g.back = "HashChain" THEN StartOwned([g EXCEPT !.m.ldm = longs])
    ELSE IF longs = <<>> THEN StartOwned(g)
    ELSE LongPieces([g EXCEPT !.m = MUncommit(g.back, @)], longs, len)

\* Only the Fast backend searches for long matches in place.
RECURSIVE StartLongDistanceBorrowed(_, _, _, _)
StartLongDistanceBorrowed(g, longs, start, end) ==
    LET Piece(from, to) == IF from = to THEN [m |-> g.m, seqs |-> <<>>]
                           ELSE MStartBorrowed(g.back, g.m, from, to)
    IN IF longs = <<>> THEN With(g, Piece(start, end))
       ELSE LET long == Head(longs)
                mid == start + long.lit
                gap == Piece(start, mid)
                lits == long.lit - TotalCovered(gap.seqs)
                noted == FastNoteLong(FastSkipLongBorrowed(gap.m, mid, mid + long.len), long.off)
                rest == StartLongDistanceBorrowed([g EXCEPT !.m = noted], Tail(longs),
                                                  mid + long.len, end)
            IN [g |-> rest.g,
                seqs |-> gap.seqs \o <<Triple(lits, long.off, long.len)>> \o rest.seqs]

Staged(g, block) ==
    CommitFilled([g EXCEPT !.m = MFill(g.back, @, block)], Len(block))

\* start_matching
Search(g, block, done, longs) ==
    LET end == done + Len(block)
    IN IF g.inPlace THEN StartLongDistanceBorrowed(g, longs, done, end)
       ELSE StartLongDistance(Staged(g, block), longs, Len(block))

\* skip_matching_with_hint
Skip(g, block, done, hint) ==
    LET staged == Staged(g, block)
    IN IF g.inPlace
       THEN [g EXCEPT !.m = MSkipBorrowed(g.back, @, done, done + Len(block), hint)]
       ELSE [staged EXCEPT !.m = MSkip(g.back, @, hint)]

Begin(g, f) ==
    LET r == DriverReset(g, f) IN SeedEntropy(LoadFrameDictionary(r, f), f)

\* set_borrowed_window, when the frame is scanned in place
Borrow(g, bytes) ==
    LET m == MBorrow(g.back, g.m, bytes) IN IF g.inPlace THEN [g EXCEPT !.m = m] ELSE g

\* clear_borrowed_window, once the frame is done
Finish(g) ==
    LET m == MUnborrow(g.back, g.m) IN IF g.inPlace THEN [g EXCEPT !.m = m] ELSE g

(***************************************************************************)
(* The long-distance matches of the block that begins at `start` of d, as  *)
(* the producer finds them: as long as the bytes agree both ways, within   *)
(* the window.  It samples positions, so none, any one, or any two in      *)
(* order.                                                                  *)
(***************************************************************************)
LongMatches(d, from, floor) ==
    {[lit |-> x[1] - from, off |-> x[2], len |-> CountForward(d, x[1], x[1] - x[2], Len(d))] :
        x \in {y \in (from .. Len(d) - LdmMinMatch) \X (1 .. Len(d)) :
                 /\ y[2] <= y[1] - floor
                 /\ SameBytes(d, y[1], y[1] - y[2], LdmMinMatch)
                 /\ y[1] = from \/ y[1] - y[2] = floor \/ At(d, y[1] - 1) # At(d, y[1] - y[2] - 1)}}

LongLists(g, have, block, dictLen) ==
    LET d == have \o block
        floor == FastFloor(Len(d), g.reported, dictLen)
        one == LongMatches(d, Len(have), floor)
        After(a) == LongMatches(d, Len(have) + a.lit + a.len, floor)
    IN IF ~g.ldm THEN {<<>>}
       ELSE {<<>>} \cup {<<a>> : a \in one} \cup UNION {{<<a, b>> : b \in After(a)} : a \in one}

(***************************************************************************)
(* A frame compressor and its matcher; then that compressor over the       *)
(* MatchGeneratorDriver.                                                   *)
(***************************************************************************)

(***************************************************************************)
(* A frame compressor and the Matcher it drives (encoding/mod.rs), frame   *)
(* after frame with one matcher, and beside it a matcher made for the      *)
(* current frame alone.  The matcher is a parameter.                       *)
(***************************************************************************)

CONSTANTS
    NewMatcher(_),             \* a matcher for a frame
    OpenFrame(_, _),           \* reset for a frame, load its dictionary
    TakeInput(_, _),           \* be given the frame's input, when it is scanned in place
    StartMatching(_, _, _, _), \* stage the next block and search it: [g, seqs]
    SkipMatching(_, _, _, _),  \* stage the next block and index it only
    CloseFrame(_),             \* the frame is done
    ForgetDictionary(_),       \* another dictionary is set, or none
    LongParses(_, _, _, _),    \* the long-distance matches a block may come with
    Admits(_, _, _),           \* whether a matcher may be given a frame and an input
    Frames,                    \* the frames that may be begun, but for dictionary and input
    Dicts,                     \* the dictionaries that may be set: [bytes, reps, seed]; one is empty
    Blocks,                    \* the blocks an input is made of
    MaxBlocks,                 \* blocks over the whole run
    MaxInput                   \* blocks per frame

(***************************************************************************)
(* `have` is what the decoder of the current frame holds (dictionary and   *)
(* output), `input` the blocks left, `done` the length of the input before *)
(* them, `last` the last block searched; `twin` is the other matcher.      *)
(***************************************************************************)
VARIABLES g, twin, dict, frame, input, done, have, last, budget

vars == <<g, twin, dict, frame, input, done, have, last, budget>>

NoBlock == [have |-> <<>>, block |-> <<>>, seqs |-> <<>>, fresh |-> <<>>, win |-> 0, dictLen |-> 0]

NoFrame == [open |-> FALSE]

Init ==
    /\ \E f \in Frames : g = NewMatcher(f @@ [dict |-> <<>>])
    /\ twin = g
    /\ dict \in {d \in Dicts : d.bytes = <<>>}
    /\ frame = NoFrame /\ input = <<>> /\ done = 0 /\ have = <<>>
    /\ last = NoBlock /\ budget = MaxBlocks

\* set_dictionary / clear_dictionary between two frames
SetDictionary ==
    /\ ~frame.open /\ budget > 0
    /\ dict' \in Dicts \ {dict}
    /\ g' = ForgetDictionary(g)
    /\ UNCHANGED <<twin, frame, input, done, have, last, budget>>

RECURSIVE Concat(_)
Concat(blocks) == IF blocks = <<>> THEN <<>> ELSE Head(blocks) \o Concat(Tail(blocks))

IsRun(b) == \A i \in 2 .. Len(b) : b[i] = b[1]

Inputs == UNION {[1 .. n -> Blocks] : n \in 1 .. MaxInput}

\* run_one_frame: reset, dictionary, and where the input is read
BeginFrame ==
    /\ ~frame.open
    /\ \E f \in Frames :
         LET fr == f @@ [dict |-> dict.bytes, reps |-> dict.reps, seed |-> dict.seed]
             opened == OpenFrame(g, fr)
             fresh == OpenFrame(NewMatcher(fr), fr)
         IN /\ frame' = [open |-> TRUE, f |-> fr]
            /\ \E blocks \in Inputs :
                 /\ Len(blocks) <= budget /\ Admits(g, fr, blocks)
                 /\ g' = TakeInput(opened, Concat(blocks))
                 /\ twin' = TakeInput(fresh, Concat(blocks))
                 /\ input' = blocks /\ budget' = budget - Len(blocks)
    /\ have' = dict.bytes /\ done' = 0 /\ last' = NoBlock
    /\ UNCHANGED dict

Advance(block) ==
    /\ have' = have \o block /\ input' = Tail(input) /\ done' = done + Len(block)
    /\ UNCHANGED <<dict, frame, budget>>

\* compress_block_encoded[_borrowed]: a block of one byte, or one judged
\* incompressible in a frame without a dictionary, is not searched
SkipBlock ==
    /\ frame.open /\ input # <<>>
    /\ LET b == Head(input)
           hint == IF IsRun(b) THEN "searchable" ELSE "incompressible"
       IN /\ IsRun(b) \/ (frame.f.dict = <<>> /\ ~frame.f.ldm)
          /\ g' = SkipMatching(g, b, done, hint)
          /\ twin' = SkipMatching(twin, b, done, hint)
          /\ last' = NoBlock
          /\ Advance(b)

SearchBlock ==
    /\ frame.open /\ input # <<>>
    /\ LET b == Head(input)
       IN /\ ~IsRun(b)
          /\ \E longs \in LongParses(g, have, b, Len(frame.f.dict)) :
               LET r == StartMatching(g, b, done, longs)
                   t == StartMatching(twin, b, done, longs)
               IN /\ g' = r.g /\ twin' = t.g
                  /\ last' = [have |-> have, block |-> b, seqs |-> r.seqs, fresh |-> t.seqs,
                              win |-> frame.f.win, dictLen |-> Len(frame.f.dict)]
          /\ Advance(b)

\* The frame is done: an input scanned in place is let go.
EndFrame ==
    /\ frame.open /\ input = <<>>
    /\ frame' = NoFrame /\ have' = <<>> /\ done' = 0
    /\ g' = CloseFrame(g)
    /\ last' = NoBlock /\ twin' = g'
    /\ UNCHANGED <<dict, input, budget>>

Next ==
    \/ SetDictionary
    \/ BeginFrame
    \/ SkipBlock
    \/ SearchBlock
    \/ EndFrame

Spec == Init /\ [][Next]_vars


(***************************************************************************)
(* No offset reaches further back than the window the frame declares,      *)
(* except into the dictionary while the output is within one window.       *)
(***************************************************************************)
RECURSIVE InReach(_, _, _, _)
InReach(seqs, at, win, dictLen) ==
    seqs # <<>> => LET s == Head(seqs)
                       p == at + s.ll
                   IN /\ s.off <= win \/ (s.off <= p + dictLen /\ p <= win)
                      /\ InReach(Tail(seqs), p + s.ml, win, dictLen)

OffsetsInReach ==
    frame.open => InReach(last.seqs, Len(last.have) - last.dictLen, last.win, last.dictLen)


(***************************************************************************)
(* That frame compressor over the MatchGeneratorDriver.                    *)
(***************************************************************************)

CONSTANT Unusual      \* which of the frames below may be begun

(***************************************************************************)
(* Frames in which the code departs from what is stated of it: a block of  *)
(* one byte in an in-place frame with a dictionary (Fast); an attached     *)
(* dictionary that the input pushes out of the window (HashChain); an      *)
(* owned frame after an in-place one (Dfast).                              *)
(***************************************************************************)
Usual(held, f, blocks) ==
    LET run == HasDict(f) /\ ScansInPlace(f) /\ \E i \in DOMAIN blocks : IsRun(blocks[i])
        evict == /\ HasDict(f) /\ f.back = "HashChain" /\ Attaches(f)
                 /\ Len(Concat(blocks)) > f.win
        owned == f.back = "Dfast" /\ held.back = "Dfast" /\ held.inPlace /\ ~ScansInPlace(f)
    IN /\ run => "run" \in Unusual
       /\ evict => "evict" \in Unusual
       /\ owned => "owned" \in Unusual

=============================================================================
