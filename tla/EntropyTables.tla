--------------------------- MODULE EntropyTables ---------------------------
(***************************************************************************)
(* The entropy tables the two ends of a frame must agree on.  A block may  *)
(* say "the table of the block before" for its literals (Treeless) and for *)
(* each of its three sequence axes (Repeat), so the encoder's memory of    *)
(* its last tables and the decoder's must denote the same tables.          *)
(*                                                                         *)
(* The encoder builds a block's tables before it knows whether the block   *)
(* is kept: each axis builds into a `next` slot and the slot is swapped    *)
(* with `previous` only when the block is committed.  The slots hold       *)
(* reference-counted handles and a handle is overwritten in place when     *)
(* nobody else holds it; the attached dictionary's tables are handles too, *)
(* handed to every frame without a copy.  The decoder keeps one table per  *)
(* axis and a source saying whether that table, the dictionary's or the    *)
(* predefined one is current.                                              *)
(*                                                                         *)
(* A table is a value here: its contents are a member of Fse or Huffman.   *)
(***************************************************************************)
CONSTANTS
    Axis,          \* the sequence axes: literal lengths, match lengths, offsets
    Huffman,       \* Huffman tables a block may build
    Fse,           \* FSE tables a block may build
    Symbol,        \* codes an RLE axis may repeat
    Handle,        \* SharedFseTable allocations, per axis
    Dictionaries,  \* the tables of the dictionaries an encoder may attach
    None           \* Option::None

DictionaryTables == [huff : Huffman \cup {None}, fse : [Axis -> Fse \cup {None}]]

ASSUME TablesAssumption ==
    /\ Dictionaries \subseteq DictionaryTables
    /\ None \notin Huffman \cup Fse \cup Handle \cup Dictionaries

VARIABLES
    stage,            \* "idle" between frames, "open" inside one
    attached,         \* the encoder's attached dictionary, or None
    cache,            \* CachedDictionaryEntropy: each axis's handle, or None
    last_huff_table,  \* CompressState.last_huff_table
    previous,         \* FseTables.{ll,ml,of}_previous
    next,             \* FseTables.{ll,ml,of}_next: the slot the next table is built in
    heap,             \* what each allocation holds
    wire,             \* the block written and not yet decoded
    active_dict,      \* the dictionary the decoder's frame uses, or None
    huf,              \* HuffmanScratch: [source, table]
    fse,              \* FSEScratch: per axis [source, table]
    coded_with,       \* the tables the last block's bits were written with
    decoded_with      \* the tables the last block's bits were read with

encoder == <<attached, cache, last_huff_table, previous, next, heap>>
decoder == <<active_dict, huf, fse>>
vars == <<stage, encoder, wire, decoder, coded_with, decoded_with>>

-----------------------------------------------------------------------------
(* What a sequence axis is coded with, and what a block says about it.      *)

Default == [kind |-> "Default", of |-> None]
Rle(symbol) == [kind |-> "Rle", of |-> symbol]
Custom(table) == [kind |-> "Custom", of |-> table]
RepeatLast == [kind |-> "Repeat", of |-> None]
NoMode == [kind |-> "None", of |-> None]        \* the block has no sequences

RleModes == {Rle(s) : s \in Symbol}
CustomModes == {Custom(t) : t \in Fse}
Tables == {Default} \cup RleModes \cup CustomModes
Modes == {RepeatLast} \cup Tables

\* PreviousFseTable, a custom table being a handle.
PreviousTables == {Default} \cup RleModes \cup {Custom(h) : h \in Handle}

\* The literals section: raw and RLE literals carry no table.
Raw == [kind |-> "Raw", of |-> None]
Treeless == [kind |-> "Treeless", of |-> None]
Compressed(table) == [kind |-> "Compressed", of |-> table]
Literals == {Raw, Treeless} \cup {Compressed(t) : t \in Huffman}

\* A block: the compressed ones carry their literals and modes.
NoModes == [a \in Axis |-> NoMode]
Nothing == [kind |-> "Nothing", literals |-> Raw, modes |-> NoModes]
RawBlock == [kind |-> "RawBlock", literals |-> Raw, modes |-> NoModes]
BlockOf(literals, modes) == [kind |-> "Block", literals |-> literals, modes |-> modes]

-----------------------------------------------------------------------------
(* The handles of the encoder's tables.                                     *)

previous_handle(a) ==
    IF previous[a] # None /\ previous[a].kind = "Custom" THEN previous[a].of ELSE None

\* SharedFseTable::strong_count(handle) == 1, asked by the slot that holds it.
next_is_a_buffer_uncounted(a) == next[a] # None
next_is_a_buffer(a) == next[a] # None /\ next[a] # previous_handle(a) /\ next[a] # cache[a]
previous_is_unshared(a) ==
    /\ previous_handle(a) # None
    /\ previous_handle(a) # next[a]
    /\ previous_handle(a) # cache[a]

\* An allocation nobody holds.
Unheld(a, h) == h # previous_handle(a) /\ h # next[a] /\ h # cache[a]

\* The table a remembered entry denotes.
Denotes(a, p) == IF p # None /\ p.kind = "Custom" THEN Custom(heap[a][p.of]) ELSE p

\* build_into_slot: the slot's own allocation when it is unshared, else a
\* fresh one.  `slot` is the allocation axis `a` builds in.
build_into_slot(a, mode, slot) ==
    mode.kind = "Custom" => IF next_is_a_buffer(a) THEN slot = next[a] ELSE Unheld(a, slot)

Built(modes, slots) ==
    [a \in Axis |-> IF modes[a].kind = "Custom"
                    THEN [heap[a] EXCEPT ![slots[a]] = modes[a].of]
                    ELSE heap[a]]

\* choose_table_from_counts: a single code repeats the entry that already
\* repeats it, and an entry must exist to be repeated.
choose_table(a, mode) ==
    /\ mode = RepeatLast => previous[a] # None
    /\ mode \in RleModes => previous[a] # mode

\* The block's table decisions: no sequences, or one mode per axis.
Choices(modes) ==
    \/ modes = NoModes
    \/ modes \in [Axis -> Modes] /\ \A a \in Axis : choose_table(a, modes[a])

\* commit_last_used_table with park_displaced_handle: the entry and the slot
\* after the block's decision for the axis.
commit_last_used_table(a, mode, slot) ==
    CASE mode.kind = "Custom" -> [previous |-> Custom(slot), next |-> previous_handle(a)]
      [] mode.kind \in {"Default", "Rle"} ->
            [previous |-> mode,
             next |-> IF next[a] = None THEN previous_handle(a) ELSE next[a]]
      [] OTHER -> [previous |-> previous[a], next |-> next[a]]

\* What commit_block_tables leaves in last_huff_table.
commit_huff(literals) ==
    CASE literals.kind = "Compressed" -> literals.of
      [] literals.kind = "Treeless" -> last_huff_table
      [] literals.kind = "Raw" -> None

-----------------------------------------------------------------------------
Init ==
    /\ stage = "idle"
    /\ attached = None
    /\ cache = [a \in Axis |-> None]
    /\ last_huff_table = None
    /\ previous = [a \in Axis |-> None]
    /\ next = [a \in Axis |-> None]
    /\ heap = [a \in Axis |-> [h \in Handle |-> None]]
    /\ wire = Nothing
    /\ active_dict = None
    /\ huf = [source |-> "Local", table |-> None]
    /\ fse = [a \in Axis |-> [source |-> "Local", table |-> None]]
    /\ coded_with = RawBlock
    /\ decoded_with = RawBlock

\* CachedDictionaryEntropy::from_dictionary: one new allocation per table the
\* dictionary has and the encoder can hold (to_encoder_table refuses an accuracy
\* log of 0 or above 9).  The cache it replaces is dropped.
AttachDictionary ==
    /\ stage = "idle"
    /\ \E d \in Dictionaries, handles \in [Axis -> Handle \cup {None}] :
        /\ \A a \in Axis :
            handles[a] # None => /\ d.fse[a] # None
                                 /\ handles[a] # previous_handle(a)
                                 /\ handles[a] # next[a]
        /\ attached' = d
        /\ cache' = handles
        /\ heap' = [a \in Axis |-> IF handles[a] = None THEN heap[a]
                                   ELSE [heap[a] EXCEPT ![handles[a]] = d.fse[a]]]
    /\ UNCHANGED <<stage, last_huff_table, previous, next, wire, decoder,
                   coded_with, decoded_with>>

DetachDictionary ==
    /\ stage = "idle" /\ attached # None
    /\ attached' = None
    /\ cache' = [a \in Axis |-> None]
    /\ UNCHANGED <<stage, last_huff_table, previous, next, heap, wire, decoder,
                   coded_with, decoded_with>>

\* park_previous_before_frame, for one axis: a buffer the frame would drop is
\* kept for the next build.
parked(a) == ~next_is_a_buffer(a) /\ previous_is_unshared(a)

\* A frame starts.  The encoder seeds its tables from the dictionary it uses,
\* if it uses one, and forgets the last frame's; the decoder empties its own
\* tables and points at those of the dictionary the frame names.
StartFrame(uses_dictionary) ==
    /\ stage = "idle"
    /\ uses_dictionary => attached # None
    /\ next' = [a \in Axis |-> IF parked(a) THEN previous_handle(a) ELSE next[a]]
    /\ last_huff_table' = IF uses_dictionary THEN attached.huff ELSE None
    /\ previous' = [a \in Axis |-> IF uses_dictionary /\ cache[a] # None
                                   THEN Custom(cache[a]) ELSE None]
    /\ active_dict' = IF uses_dictionary THEN attached ELSE None
    /\ huf' = [source |-> IF uses_dictionary THEN "Dict" ELSE "Local", table |-> None]
    /\ fse' = [a \in Axis |-> [source |-> IF uses_dictionary THEN "Dict" ELSE "Local",
                               table |-> None]]
    /\ stage' = "open"
    /\ UNCHANGED <<attached, cache, heap, wire, coded_with, decoded_with>>

-----------------------------------------------------------------------------
(* The encoder writes a block.                                              *)

\* encode_block_parts: the literals and sequences are coded and the tables
\* they need are built, in the slots.
EncodeBlock(literals, modes, slots) ==
    /\ stage = "open" /\ wire = Nothing
    /\ literals.kind = "Treeless" => last_huff_table # None
    /\ Choices(modes)
    /\ \A a \in Axis : build_into_slot(a, modes[a], slots[a])
    /\ heap' = Built(modes, slots)

\* The tables the block's bits are written with.
CodedWith(literals, modes) ==
    BlockOf(IF literals = Treeless THEN Compressed(last_huff_table) ELSE literals,
            [a \in Axis |-> IF modes[a] = RepeatLast THEN Denotes(a, previous[a])
                            ELSE modes[a]])

\* The block shrank: it is kept and its tables are the last ones used.
KeepBlock(literals, modes, slots) ==
    /\ EncodeBlock(literals, modes, slots)
    /\ previous' = [a \in Axis |->
                        commit_last_used_table(a, modes[a], slots[a]).previous]
    /\ next' = [a \in Axis |-> commit_last_used_table(a, modes[a], slots[a]).next]
    /\ last_huff_table' = commit_huff(literals)
    /\ wire' = BlockOf(literals, modes)
    /\ coded_with' = CodedWith(literals, modes)
    /\ UNCHANGED <<stage, attached, cache, decoder, decoded_with>>

\* A block written raw whose tables are committed all the same.
DiscardBlock_committed(literals, modes, slots) ==
    /\ EncodeBlock(literals, modes, slots)
    /\ previous' = [a \in Axis |->
                        commit_last_used_table(a, modes[a], slots[a]).previous]
    /\ next' = [a \in Axis |-> commit_last_used_table(a, modes[a], slots[a]).next]
    /\ wire' = RawBlock
    /\ coded_with' = RawBlock
    /\ UNCHANGED <<stage, attached, cache, last_huff_table, decoder, decoded_with>>

\* The block did not shrink: it is written raw and its tables are discarded,
\* though what was built stays in the slots.
DiscardBlock(literals, modes, slots) ==
    /\ EncodeBlock(literals, modes, slots)
    /\ next' = [a \in Axis |-> IF modes[a].kind = "Custom" THEN slots[a] ELSE next[a]]
    /\ wire' = RawBlock
    /\ coded_with' = RawBlock
    /\ UNCHANGED <<stage, attached, cache, last_huff_table, previous, decoder,
                   decoded_with>>

\* A block stored without a search.
StoreRaw ==
    /\ stage = "open" /\ wire = Nothing
    /\ wire' = RawBlock
    /\ coded_with' = RawBlock
    /\ UNCHANGED <<stage, encoder, decoder, decoded_with>>

-----------------------------------------------------------------------------
(* The decoder reads it.                                                    *)

\* HuffmanScratch::huf_table and FSEScratch::{ll,ml,of}_table.
huf_table == IF huf.source = "Dict" THEN active_dict.huff ELSE huf.table

dict_table(a) == IF active_dict.fse[a] = None THEN None ELSE Custom(active_dict.fse[a])

fse_table(a) ==
    CASE fse[a].source = "Local" -> fse[a].table
      [] fse[a].source = "Dict" -> dict_table(a)
      [] fse[a].source = "Predefined" -> Default

\* decompress_literals_impl: a Treeless section needs a table; the frame fails
\* without one, and nothing of the block is decoded.
TreelessFails == wire.literals.kind = "Treeless" /\ huf_table = None

huf_after ==
    IF wire.literals.kind = "Compressed"
    THEN [source |-> "Local", table |-> wire.literals.of] ELSE huf

\* maybe_update_fse_tables for one axis.
maybe_update_fse_tables(a) ==
    LET mode == wire.modes[a] IN
    CASE mode.kind \in {"Custom", "Rle"} -> [source |-> "Local", table |-> mode]
      [] mode.kind = "Default" -> [fse[a] EXCEPT !.source = "Predefined"]
      [] OTHER -> fse[a]

\* The tables the block's bits are read with: those current once the block's
\* own have been built.
DecodedWith ==
    BlockOf(IF wire.literals = Treeless THEN Compressed(huf_table) ELSE wire.literals,
            [a \in Axis |-> IF wire.modes[a] = RepeatLast THEN fse_table(a)
                            ELSE wire.modes[a]])

DecodeBlock ==
    /\ wire # Nothing
    /\ IF wire.kind = "RawBlock"
       THEN decoded_with' = RawBlock /\ UNCHANGED <<huf, fse>>
       ELSE IF TreelessFails
       THEN decoded_with' = Nothing /\ UNCHANGED <<huf, fse>>
       ELSE /\ huf' = huf_after
            /\ fse' = [a \in Axis |-> maybe_update_fse_tables(a)]
            /\ decoded_with' = DecodedWith
    /\ wire' = Nothing
    /\ UNCHANGED <<stage, encoder, active_dict, coded_with>>

EndFrame ==
    /\ stage = "open" /\ wire = Nothing
    /\ stage' = "idle"
    /\ UNCHANGED <<encoder, wire, decoder, coded_with, decoded_with>>

WriteBlock ==
    \E literals \in Literals, modes \in [Axis -> Modes \cup {NoMode}],
       slots \in [Axis -> Handle] :
        \/ KeepBlock(literals, modes, slots)
        \/ DiscardBlock(literals, modes, slots)

Next ==
    \/ AttachDictionary
    \/ DetachDictionary
    \/ \E uses_dictionary \in BOOLEAN : StartFrame(uses_dictionary)
    \/ WriteBlock
    \/ StoreRaw
    \/ DecodeBlock
    \/ EndFrame

Spec == Init /\ [][Next]_vars

-----------------------------------------------------------------------------
(* Properties                                                               *)

Sources == {"Local", "Dict"}
Wired == {Default, RepeatLast, NoMode} \cup RleModes \cup CustomModes

\* Every variable keeps its type: a committed entry always names an allocation
\* (the `expect` of commit_last_used_table), and a table is read from a
\* dictionary only while the frame has one (expect_dict).
TypeOK ==
    /\ stage \in {"idle", "open"}
    /\ attached \in Dictionaries \cup {None}
    /\ cache \in [Axis -> Handle \cup {None}]
    /\ last_huff_table \in Huffman \cup {None}
    /\ previous \in [Axis -> PreviousTables \cup {None}]
    /\ next \in [Axis -> Handle \cup {None}]
    /\ heap \in [Axis -> [Handle -> Fse \cup {None}]]
    /\ wire \in {Nothing, RawBlock}
       \/ wire \in [kind : {"Block"}, literals : Literals, modes : [Axis -> Wired]]
    /\ active_dict \in Dictionaries \cup {None}
    /\ huf \in [source : Sources, table : Huffman \cup {None}]
    /\ fse \in [Axis -> [source : Sources \cup {"Predefined"},
                         table : RleModes \cup CustomModes \cup {None}]]
    /\ (huf.source = "Dict" \/ \E a \in Axis : fse[a].source = "Dict")
         => active_dict # None

\* Every block is read with the tables it was written with: the decoder never
\* meets a Treeless section without a table, and "the last table" is the same
\* table at both ends, whatever was discarded, parked or reused in between.
SameTables == wire = Nothing => decoded_with = coded_with

\* Between blocks the encoder remembers nothing the decoder does not have: each
\* remembered table is either forgotten or the decoder's current one.
RemembersOnlyShared ==
    (stage = "open" /\ wire = Nothing) =>
        /\ last_huff_table # None => last_huff_table = huf_table
        /\ \A a \in Axis : previous[a] # None => Denotes(a, previous[a]) = fse_table(a)

\* The attached dictionary's tables are never overwritten: building in a slot
\* and parking a displaced handle never reach an allocation the cache holds.
DictionaryTablesIntact ==
    /\ attached = None => \A a \in Axis : cache[a] = None
    /\ attached # None =>
         \A a \in Axis : cache[a] # None =>
             attached.fse[a] # None /\ heap[a][cache[a]] = attached.fse[a]

\* A block written raw leaves the tables the next block may repeat as the block
\* before left them (discard_block_tables, "the next block reads the ones this
\* one started from").
RawBlocksLeaveTables ==
    [][wire' = RawBlock =>
         /\ last_huff_table' = last_huff_table
         /\ \A a \in Axis : Denotes(a, previous[a])' = Denotes(a, previous[a])]_vars
=============================================================================
