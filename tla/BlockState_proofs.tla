------------------------- MODULE BlockState_proofs -------------------------
(***************************************************************************)
(* Proofs about what a block leaves to the next one: the entropy tables    *)
(* (EntropyTables) and the repeat offsets (RepeatOffsets), each kept at    *)
(* both ends of a frame.                                                   *)
(*                                                                         *)
(* Both ends use the same tables, for every set of axes, tables, handles   *)
(* and dictionaries.  The inductive invariant says what the two ends will  *)
(* agree on once the block on the wire has been decoded (Agree, InFlight); *)
(* RemembersOnlyShared is its reading when nothing is on the wire.         *)
(*                                                                         *)
(* Both ends keep the same repeat-offset history, for every set of         *)
(* offsets, every dictionary and blocks of any length.  The conversions    *)
(* are inverse to each other (three lemmas without state); the inductive   *)
(* invariant chains them through a block, each coded sequence carrying the *)
(* history the encoder had after it.                                       *)
(***************************************************************************)
EXTENDS EntropyTables, RepeatOffsets, TLAPS

\* The decoder's current tables once the block on the wire is decoded.
HufAfter == IF wire.literals.kind = "Compressed" THEN wire.literals.of ELSE huf_table
TableAfter(a) ==
    IF wire.modes[a].kind \in {"Custom", "Rle", "Default"} THEN wire.modes[a]
    ELSE fse_table(a)

Agree ==
    stage = "open" =>
        /\ last_huff_table # None => last_huff_table = HufAfter
        /\ \A a \in Axis : previous[a] # None => Denotes(a, previous[a]) = TableAfter(a)

InFlight ==
    /\ wire # Nothing => stage = "open"
    /\ wire = RawBlock => coded_with = RawBlock
    /\ wire.kind = "Block" => coded_with = DecodedWith /\ ~TreelessFails

IInv == TypeOK /\ DictionaryTablesIntact /\ SameTables /\ Agree /\ InFlight

-----------------------------------------------------------------------------
(* The block and table values.                                              *)

\* The three kinds of block are told apart by their kind.
LEMMA BlockKinds ==
    /\ Nothing # RawBlock
    /\ Nothing.kind = "Nothing" /\ RawBlock.kind = "RawBlock"
    /\ Nothing.literals = Raw /\ RawBlock.literals = Raw
    /\ \A a \in Axis : Nothing.modes[a] = NoMode /\ RawBlock.modes[a] = NoMode
    /\ \A l, m : /\ BlockOf(l, m).kind = "Block"
                 /\ BlockOf(l, m).literals = l /\ BlockOf(l, m).modes = m
                 /\ BlockOf(l, m) # Nothing /\ BlockOf(l, m) # RawBlock
  <1>1. Nothing.kind = "Nothing" /\ RawBlock.kind = "RawBlock" BY Zenon DEF Nothing, RawBlock
  <1>2. Nothing.literals = Raw /\ RawBlock.literals = Raw BY Zenon DEF Nothing, RawBlock
  <1>3. \A a \in Axis : Nothing.modes[a] = NoMode /\ RawBlock.modes[a] = NoMode
    BY Zenon DEF Nothing, RawBlock, NoModes
  <1>4. \A l, m : BlockOf(l, m).kind = "Block" /\ BlockOf(l, m).literals = l
                  /\ BlockOf(l, m).modes = m
    BY Zenon DEF BlockOf
  <1> QED BY <1>1, <1>2, <1>3, <1>4

\* Every mode a block may carry, by its kind.
LEMMA ModeKinds ==
    \A m \in Modes \cup {NoMode} :
        /\ m \in Wired
        /\ m.kind \in {"Custom", "Rle", "Default", "Repeat", "None"}
        /\ m.kind = "Custom" => m.of \in Fse /\ m = Custom(m.of)
        /\ m.kind \in {"Custom", "Rle"} => m \in RleModes \cup CustomModes
        /\ m.kind = "Rle" => m \in RleModes
        /\ m.kind = "Default" => m = Default
        /\ m.kind = "Repeat" <=> m = RepeatLast
        /\ m.kind = "None" <=> m = NoMode
  BY DEF Modes, Wired, Tables, RleModes, CustomModes, Default, Rle, Custom, RepeatLast, NoMode

\* A remembered entry that is a custom table names an allocation.
LEMMA PreviousHandles ==
    ASSUME TypeOK, NEW a \in Axis
    PROVE  /\ previous_handle(a) \in Handle \cup {None}
           /\ previous[a] # None /\ previous[a].kind = "Custom"
                => previous[a].of \in Handle /\ previous_handle(a) = previous[a].of
  <1>1. previous[a] \in PreviousTables \cup {None} BY Zenon DEF TypeOK
  <1>2. ASSUME previous[a] # None, previous[a].kind = "Custom"
        PROVE previous[a].of \in Handle
    BY <1>1, <1>2 DEF PreviousTables, RleModes, Default, Rle, Custom
  <1> QED BY <1>2, Zenon DEF previous_handle

\* Building writes into no allocation that a remembered entry or the
\* dictionary's cache holds (Arc::get_mut succeeds only on an unshared handle).
LEMMA BuildsElsewhere ==
    ASSUME TypeOK, NEW modes \in [Axis -> Modes \cup {NoMode}],
           NEW slots \in [Axis -> Handle],
           \A a \in Axis : build_into_slot(a, modes[a], slots[a])
    PROVE  \A a \in Axis :
             /\ Built(modes, slots)[a] \in [Handle -> Fse \cup {None}]
             /\ modes[a].kind # "Custom" => Built(modes, slots)[a] = heap[a]
             /\ modes[a].kind = "Custom" => Built(modes, slots)[a][slots[a]] = modes[a].of
             /\ \A h \in Handle : (h = previous_handle(a) \/ h = cache[a])
                                    => Built(modes, slots)[a][h] = heap[a][h]
  <1> TAKE a \in Axis
  <1>0. heap[a] \in [Handle -> Fse \cup {None}] BY Zenon DEF TypeOK
  <1>1. CASE modes[a].kind # "Custom"
    BY <1>0, <1>1, Zenon DEF Built
  <1>2. CASE modes[a].kind = "Custom"
    <2>1. slots[a] # previous_handle(a) /\ slots[a] # cache[a]
      BY <1>2, Zenon DEF build_into_slot, next_is_a_buffer, Unheld
    <2>2. Built(modes, slots)[a] = [heap[a] EXCEPT ![slots[a]] = modes[a].of]
      BY <1>2, Zenon DEF Built
    <2>3. modes[a].of \in Fse /\ slots[a] \in Handle BY <1>2, ModeKinds, Zenon
    <2> QED BY <1>0, <1>2, <2>1, <2>2, <2>3, Zenon
  <1> QED BY <1>1, <1>2, Zenon

-----------------------------------------------------------------------------
(* The initial state.                                                       *)

\* A new encoder and a new decoder remember nothing.
LEMMA InitInvariant == Init => IInv
  <1> SUFFICES ASSUME Init PROVE IInv BY Zenon
  <1>1. TypeOK BY Zenon DEF Init, TypeOK, Sources
  <1>2. DictionaryTablesIntact BY Zenon DEF Init, DictionaryTablesIntact
  <1>3. SameTables BY Zenon DEF Init, SameTables
  <1>4. Agree BY Zenon DEF Init, Agree
  <1>5. InFlight BY BlockKinds, Zenon DEF Init, InFlight
  <1> QED BY <1>1, <1>2, <1>3, <1>4, <1>5, Zenon DEF IInv

-----------------------------------------------------------------------------
(* Between blocks: dictionaries, the start and the end of a frame.          *)

\* Attaching a dictionary allocates its tables away from the remembered ones.
LEMMA AttachStep == ASSUME IInv, AttachDictionary PROVE IInv'
  <1> USE DEF IInv
  <1>1. PICK d \in Dictionaries, handles \in [Axis -> Handle \cup {None}] :
            /\ \A a \in Axis :
                 handles[a] # None => /\ d.fse[a] # None
                                      /\ handles[a] # previous_handle(a)
                                      /\ handles[a] # next[a]
            /\ attached' = d /\ cache' = handles
            /\ heap' = [a \in Axis |-> IF handles[a] = None THEN heap[a]
                                       ELSE [heap[a] EXCEPT ![handles[a]] = d.fse[a]]]
    BY Zenon DEF AttachDictionary
  <1>2. UNCHANGED <<stage, last_huff_table, previous, next, wire, active_dict, huf, fse,
                    coded_with, decoded_with>> /\ stage = "idle"
    BY Zenon DEF AttachDictionary, decoder
  <1>3. d \in DictionaryTables /\ d # None BY TablesAssumption, Zenon
  <1>4. \A a \in Axis : d.fse[a] \in Fse \cup {None} BY <1>3, Zenon DEF DictionaryTables
  <1>5. heap' \in [Axis -> [Handle -> Fse \cup {None}]]
    BY <1>1, <1>4, Zenon DEF TypeOK
  <1>6. TypeOK'
    BY <1>1, <1>2, <1>5, Zenon DEF TypeOK
  <1>7. \A a \in Axis : heap[a] \in [Handle -> Fse \cup {None}] BY Zenon DEF TypeOK
  <1>8. DictionaryTablesIntact'
    BY <1>1, <1>3, <1>4, <1>7, TablesAssumption DEF DictionaryTablesIntact
  <1>9. SameTables' /\ Agree' /\ InFlight'
    BY <1>2, BlockKinds, Zenon DEF SameTables, Agree, InFlight, DecodedWith, TreelessFails, huf_table,
                fse_table, dict_table
  <1> QED BY <1>6, <1>8, <1>9, Zenon

\* Detaching a dictionary drops the cache's handles.
LEMMA DetachStep == ASSUME IInv, DetachDictionary PROVE IInv'
  <1> USE DEF IInv
  <1>1. UNCHANGED <<stage, last_huff_table, previous, next, heap, wire, active_dict, huf, fse,
                    coded_with, decoded_with>> /\ stage = "idle"
    BY Zenon DEF DetachDictionary, decoder
  <1>2. attached' = None /\ cache' = [a \in Axis |-> None] BY Zenon DEF DetachDictionary
  <1>3. TypeOK' BY <1>1, <1>2, Zenon DEF TypeOK
  <1>4. DictionaryTablesIntact' BY <1>2, Zenon DEF DictionaryTablesIntact
  <1>5. SameTables' /\ Agree' /\ InFlight'
    BY <1>1, BlockKinds, Zenon DEF SameTables, Agree, InFlight, DecodedWith, TreelessFails, huf_table,
                fse_table, dict_table
  <1> QED BY <1>3, <1>4, <1>5, Zenon

\* A frame starts with the dictionary's tables at both ends, or with none.
LEMMA StartStep ==
    ASSUME IInv, NEW uses \in BOOLEAN, StartFrame(uses) PROVE IInv'
  <1> USE DEF IInv
  <1>1. UNCHANGED <<attached, cache, heap, wire, coded_with, decoded_with>>
        /\ stage = "idle" /\ stage' = "open"
    BY Zenon DEF StartFrame
  <1>2. wire = Nothing BY <1>1, Zenon DEF InFlight
  <1>3. next' \in [Axis -> Handle \cup {None}]
    BY PreviousHandles, Zenon DEF StartFrame, TypeOK
  <1>4. CASE uses
    <2>1. attached # None /\ attached \in Dictionaries /\ attached \in DictionaryTables
      BY <1>4, TablesAssumption, Zenon DEF StartFrame, TypeOK
    <2>2. attached.huff \in Huffman \cup {None}
          /\ \A a \in Axis : attached.fse[a] \in Fse \cup {None}
      BY <2>1, Zenon DEF DictionaryTables
    <2>3. /\ last_huff_table' = attached.huff
          /\ active_dict' = attached
          /\ huf' = [source |-> "Dict", table |-> None]
          /\ fse' = [a \in Axis |-> [source |-> "Dict", table |-> None]]
          /\ previous' = [a \in Axis |-> IF cache[a] # None THEN Custom(cache[a]) ELSE None]
      BY <1>4, Zenon DEF StartFrame
    <2>4. \A a \in Axis : cache[a] # None => Custom(cache[a]) \in PreviousTables
      BY Zenon DEF TypeOK, PreviousTables
    <2>5. previous' \in [Axis -> PreviousTables \cup {None}] BY <2>3, <2>4, Zenon
    <2>6. TypeOK' BY <1>1, <1>2, <1>3, <2>1, <2>2, <2>3, <2>5, Zenon DEF TypeOK, Sources
    <2>7. DictionaryTablesIntact' BY <1>1, Zenon DEF DictionaryTablesIntact
    <2>8. SameTables' BY <1>1, Zenon DEF SameTables
    <2>9. InFlight' BY <1>1, <1>2, BlockKinds, Zenon DEF InFlight
    <2>10. HufAfter' = attached.huff
      BY <1>1, <1>2, <2>3, BlockKinds DEF HufAfter, huf_table, Raw
    <2>11. ASSUME NEW a \in Axis, previous'[a] # None
           PROVE Denotes(a, previous[a])' = TableAfter(a)'
      <3>1. cache[a] # None /\ previous'[a] = Custom(cache[a]) BY <2>3, <2>11, Zenon
      <3>2. heap[a][cache[a]] = attached.fse[a] /\ attached.fse[a] # None
        BY <2>1, <3>1, Zenon DEF DictionaryTablesIntact
      <3>3. Denotes(a, previous[a])' = Custom(attached.fse[a])
        BY <1>1, <2>11, <3>1, <3>2 DEF Denotes, Custom
      <3>4. fse_table(a)' = Custom(attached.fse[a])
        BY <2>3, <3>2, Zenon DEF fse_table, dict_table
      <3>5. TableAfter(a)' = fse_table(a)'
        BY <1>1, <1>2, BlockKinds DEF TableAfter, NoMode
      <3> QED BY <3>3, <3>4, <3>5, Zenon
    <2>12. Agree' BY <2>3, <2>10, <2>11, Zenon DEF Agree
    <2> QED BY <2>6, <2>7, <2>8, <2>9, <2>12, Zenon
  <1>5. CASE ~uses
    <2>1. /\ last_huff_table' = None
          /\ active_dict' = None
          /\ huf' = [source |-> "Local", table |-> None]
          /\ fse' = [a \in Axis |-> [source |-> "Local", table |-> None]]
          /\ previous' = [a \in Axis |-> None]
      BY <1>5, Zenon DEF StartFrame
    <2>2. TypeOK' BY <1>1, <1>2, <1>3, <2>1, Zenon DEF TypeOK, Sources
    <2>3. DictionaryTablesIntact' /\ SameTables' BY <1>1, Zenon DEF DictionaryTablesIntact, SameTables
    <2>4. InFlight' BY <1>1, <1>2, BlockKinds, Zenon DEF InFlight
    <2>5. Agree' BY <2>1, Zenon DEF Agree
    <2> QED BY <2>2, <2>3, <2>4, <2>5, Zenon
  <1> QED BY <1>4, <1>5, Zenon

\* The end of a frame touches no table.
LEMMA EndStep == ASSUME IInv, EndFrame PROVE IInv'
  <1> USE DEF IInv
  <1>1. UNCHANGED <<attached, cache, last_huff_table, previous, next, heap, wire, active_dict,
                    huf, fse, coded_with, decoded_with>>
        /\ stage' = "idle" /\ wire = Nothing
    BY Zenon DEF EndFrame, encoder, decoder
  <1>2. TypeOK' BY <1>1, Zenon DEF TypeOK
  <1>3. DictionaryTablesIntact' /\ SameTables' BY <1>1, Zenon DEF DictionaryTablesIntact, SameTables
  <1>4. Agree' BY <1>1, Zenon DEF Agree
  <1>5. InFlight' BY <1>1, BlockKinds, Zenon DEF InFlight
  <1> QED BY <1>2, <1>3, <1>4, <1>5, Zenon

-----------------------------------------------------------------------------
(* The encoder's blocks.                                                    *)

\* A build leaves the dictionary's tables and, on an axis that builds nothing
\* new, the remembered table as they were.
LEMMA BuildKeeps ==
    ASSUME IInv, NEW literals \in Literals, NEW modes \in [Axis -> Modes \cup {NoMode}],
           NEW slots \in [Axis -> Handle], EncodeBlock(literals, modes, slots),
           attached' = attached, cache' = cache
    PROVE  /\ heap' \in [Axis -> [Handle -> Fse \cup {None}]]
           /\ DictionaryTablesIntact'
           /\ \A a \in Axis : previous'[a] = previous[a]
                => Denotes(a, previous[a])' = Denotes(a, previous[a])
  <1> USE DEF IInv
  <1>1. heap' = Built(modes, slots)
        /\ \A a \in Axis : build_into_slot(a, modes[a], slots[a])
    BY Zenon DEF EncodeBlock
  <1>2. \A a \in Axis :
          /\ heap'[a] \in [Handle -> Fse \cup {None}]
          /\ \A h \in Handle : (h = previous_handle(a) \/ h = cache[a])
                                 => heap'[a][h] = heap[a][h]
    BY <1>1, BuildsElsewhere
  <1>3. heap' \in [Axis -> [Handle -> Fse \cup {None}]] BY <1>1, <1>2, Zenon DEF Built
  <1>4. \A a \in Axis : cache[a] # None => heap'[a][cache[a]] = heap[a][cache[a]]
    BY <1>2, Zenon DEF TypeOK
  <1>5. DictionaryTablesIntact' BY <1>4, Zenon DEF DictionaryTablesIntact
  <1>6. ASSUME NEW a \in Axis, previous'[a] = previous[a]
        PROVE Denotes(a, previous[a])' = Denotes(a, previous[a])
    <2>1. CASE previous[a] # None /\ previous[a].kind = "Custom"
      <3>1. heap'[a][previous[a].of] = heap[a][previous[a].of]
        BY <1>2, <2>1, PreviousHandles, Zenon
      <3> QED BY <1>6, <2>1, <3>1, Zenon DEF Denotes
    <2>2. CASE ~(previous[a] # None /\ previous[a].kind = "Custom")
      BY <1>6, <2>2, Zenon DEF Denotes
    <2> QED BY <2>1, <2>2, Zenon
  <1> QED BY <1>3, <1>5, <1>6, Zenon

\* A kept block: the tables it leaves remembered are the ones the decoder will
\* hold, and "repeat" names the same table at both ends.
LEMMA KeepStep ==
    ASSUME IInv, NEW literals \in Literals, NEW modes \in [Axis -> Modes \cup {NoMode}],
           NEW slots \in [Axis -> Handle], KeepBlock(literals, modes, slots)
    PROVE  IInv'
  <1> USE DEF IInv
  <1>1. /\ EncodeBlock(literals, modes, slots)
        /\ stage = "open" /\ wire = Nothing
        /\ wire' = BlockOf(literals, modes)
        /\ coded_with' = CodedWith(literals, modes)
        /\ last_huff_table' = commit_huff(literals)
        /\ UNCHANGED <<stage, attached, cache, active_dict, huf, fse, decoded_with>>
    BY Zenon DEF KeepBlock, EncodeBlock, decoder
  <1>2. /\ heap' \in [Axis -> [Handle -> Fse \cup {None}]]
        /\ DictionaryTablesIntact'
        /\ \A a \in Axis : previous'[a] = previous[a]
             => Denotes(a, previous[a])' = Denotes(a, previous[a])
    BY <1>1, BuildKeeps, Zenon
  <1>3. /\ wire'.kind = "Block" /\ wire'.literals = literals /\ wire'.modes = modes
        /\ wire' # Nothing /\ wire' # RawBlock
    BY <1>1, BlockKinds
  <1>4. \A a \in Axis : /\ modes[a] \in Modes \cup {NoMode}
                        /\ slots[a] \in Handle
                        /\ previous_handle(a) \in Handle \cup {None}
                        /\ next[a] \in Handle \cup {None}
                        /\ previous[a] \in PreviousTables \cup {None}
    BY PreviousHandles, Zenon DEF TypeOK
  <1>5. ASSUME NEW a \in Axis, modes[a].kind = "Custom"
        PROVE previous'[a] = Custom(slots[a]) /\ next'[a] = previous_handle(a)
    BY <1>5, Zenon DEF KeepBlock, commit_last_used_table
  <1>6. ASSUME NEW a \in Axis, modes[a].kind \in {"Default", "Rle"}
        PROVE previous'[a] = modes[a]
              /\ next'[a] = IF next[a] = None THEN previous_handle(a) ELSE next[a]
    BY <1>6, Zenon DEF KeepBlock, commit_last_used_table
  <1>7. ASSUME NEW a \in Axis, modes[a].kind \in {"Repeat", "None"}
        PROVE previous'[a] = previous[a] /\ next'[a] = next[a]
    BY <1>7, Zenon DEF KeepBlock, commit_last_used_table
  <1>8. \A a \in Axis : previous'[a] \in PreviousTables \cup {None}
                        /\ next'[a] \in Handle \cup {None}
    <2> TAKE a \in Axis
    <2>1. CASE modes[a].kind = "Custom" BY <1>4, <1>5, <2>1, Zenon DEF PreviousTables
    <2>2. CASE modes[a].kind \in {"Default", "Rle"}
      BY <1>4, <1>6, <2>2, ModeKinds DEF PreviousTables
    <2>3. CASE modes[a].kind \in {"Repeat", "None"} BY <1>4, <1>7, <2>3, Zenon
    <2> QED BY <1>4, <2>1, <2>2, <2>3, ModeKinds, Zenon
  <1>9. previous' \in [Axis -> PreviousTables \cup {None}] /\ next' \in [Axis -> Handle \cup {None}]
    BY <1>8, Zenon DEF KeepBlock
  <1>10. /\ literals.kind \in {"Raw", "Treeless", "Compressed"}
         /\ literals.kind = "Treeless" <=> literals = Treeless
         /\ literals.kind = "Compressed" => literals.of \in Huffman
    BY DEF Literals, Raw, Treeless, Compressed
  <1>11. last_huff_table' \in Huffman \cup {None}
    BY <1>1, <1>10, Zenon DEF commit_huff, TypeOK
  <1>12. wire' \in [kind : {"Block"}, literals : Literals, modes : [Axis -> Wired]]
    <2>1. modes \in [Axis -> Wired] BY ModeKinds, Zenon
    <2> QED BY <1>1, <2>1, Zenon DEF BlockOf
  <1>13. TypeOK' BY <1>1, <1>2, <1>9, <1>11, <1>12, Zenon DEF TypeOK
  <1>14. huf_table' = huf_table /\ \A a \in Axis : fse_table(a)' = fse_table(a)
    BY <1>1, Zenon DEF huf_table, fse_table, dict_table
  <1>15. wire.literals.kind # "Compressed" /\ HufAfter = huf_table
         /\ \A a \in Axis : TableAfter(a) = fse_table(a)
    BY <1>1, BlockKinds DEF HufAfter, TableAfter, Raw, NoMode
  <1>16. last_huff_table' # None => last_huff_table' = HufAfter'
    BY <1>1, <1>3, <1>10, <1>14, <1>15, Zenon DEF commit_huff, HufAfter, Agree
  <1>17. ASSUME NEW a \in Axis, previous'[a] # None
         PROVE Denotes(a, previous[a])' = TableAfter(a)'
    <2>1. CASE modes[a].kind = "Custom"
      <3>1. heap'[a][slots[a]] = modes[a].of
        BY <1>1, <2>1, BuildsElsewhere DEF EncodeBlock
      <3>2. Denotes(a, previous[a])' = Custom(modes[a].of)
        <4>1. Custom(slots[a]).kind = "Custom" /\ Custom(slots[a]).of = slots[a] BY Zenon DEF Custom
        <4>2. previous'[a] = Custom(slots[a]) BY <1>5, <2>1, Zenon
        <4> QED BY <1>17, <3>1, <4>1, <4>2, Zenon DEF Denotes
      <3>3. TableAfter(a)' = modes[a] BY <1>3, <2>1, Zenon DEF TableAfter
      <3> QED BY <1>4, <2>1, <3>2, <3>3, ModeKinds, Zenon
    <2>2. CASE modes[a].kind \in {"Default", "Rle"}
      <3>1. Denotes(a, previous[a])' = modes[a] BY <1>6, <2>2, Zenon DEF Denotes
      <3>2. TableAfter(a)' = modes[a] BY <1>3, <2>2, Zenon DEF TableAfter
      <3> QED BY <3>1, <3>2, Zenon
    <2>3. CASE modes[a].kind \in {"Repeat", "None"}
      <3>1. Denotes(a, previous[a])' = fse_table(a)
        BY <1>1, <1>2, <1>7, <1>15, <1>17, <2>3, Zenon DEF Agree
      <3>2. TableAfter(a)' = fse_table(a)' BY <1>3, <2>3, Zenon DEF TableAfter
      <3> QED BY <1>14, <3>1, <3>2, Zenon
    <2> QED BY <1>4, <2>1, <2>2, <2>3, ModeKinds, Zenon
  <1>18. Agree' BY <1>16, <1>17, Zenon DEF Agree
  <1>19. literals = Treeless => last_huff_table # None /\ last_huff_table = huf_table
    BY <1>1, <1>10, <1>15, Zenon DEF EncodeBlock, Agree
  <1>20. \A a \in Axis : modes[a] = RepeatLast => Denotes(a, previous[a]) = fse_table(a)
    <2> SUFFICES ASSUME NEW a \in Axis, modes[a] = RepeatLast
                 PROVE Denotes(a, previous[a]) = fse_table(a)
      BY Zenon
    <2>1. modes # NoModes BY DEF NoModes, RepeatLast, NoMode
    <2>2. previous[a] # None BY <1>1, <2>1, Zenon DEF EncodeBlock, Choices, choose_table
    <2> QED BY <1>1, <1>15, <2>2, Zenon DEF Agree
  <1>21. CodedWith(literals, modes) = DecodedWith'
    BY <1>3, <1>14, <1>19, <1>20, Zenon DEF CodedWith, DecodedWith
  <1>22. ~TreelessFails' BY <1>3, <1>10, <1>14, <1>19, Zenon DEF TreelessFails
  <1>23. InFlight' BY <1>1, <1>3, <1>21, <1>22, Zenon DEF InFlight
  <1>24. SameTables' BY <1>3, Zenon DEF SameTables
  <1> QED BY <1>2, <1>13, <1>18, <1>23, <1>24, Zenon

\* A discarded block: the tables it built stay in the slots, the remembered
\* ones are as the block before left them.
LEMMA DiscardStep ==
    ASSUME IInv, NEW literals \in Literals, NEW modes \in [Axis -> Modes \cup {NoMode}],
           NEW slots \in [Axis -> Handle], DiscardBlock(literals, modes, slots)
    PROVE  IInv' /\ last_huff_table' = last_huff_table
           /\ \A a \in Axis : Denotes(a, previous[a])' = Denotes(a, previous[a])
  <1> USE DEF IInv
  <1>1. /\ EncodeBlock(literals, modes, slots)
        /\ stage = "open" /\ wire = Nothing
        /\ wire' = RawBlock /\ coded_with' = RawBlock
        /\ next' = [a \in Axis |-> IF modes[a].kind = "Custom" THEN slots[a] ELSE next[a]]
        /\ UNCHANGED <<stage, attached, cache, last_huff_table, previous, active_dict, huf, fse,
                       decoded_with>>
    BY Zenon DEF DiscardBlock, EncodeBlock, decoder
  <1>2. /\ heap' \in [Axis -> [Handle -> Fse \cup {None}]]
        /\ DictionaryTablesIntact'
        /\ \A a \in Axis : Denotes(a, previous[a])' = Denotes(a, previous[a])
    BY <1>1, BuildKeeps, Zenon
  <1>3. TypeOK' BY <1>1, <1>2, Zenon DEF TypeOK
  <1>4. SameTables' /\ InFlight' BY <1>1, BlockKinds, Zenon DEF SameTables, InFlight
  <1>5. HufAfter' = HufAfter /\ \A a \in Axis : TableAfter(a)' = TableAfter(a)
    <2>1. huf_table' = huf_table /\ \A a \in Axis : fse_table(a)' = fse_table(a)
      BY <1>1, Zenon DEF huf_table, fse_table, dict_table
    <2>2. /\ wire.literals = wire'.literals
          /\ \A a \in Axis : wire.modes[a] = NoMode /\ wire'.modes[a] = NoMode
      BY <1>1, BlockKinds, Zenon
    <2> QED BY <2>1, <2>2, Zenon DEF HufAfter, TableAfter
  <1>6. Agree' BY <1>1, <1>2, <1>5, Zenon DEF Agree
  <1> QED BY <1>1, <1>2, <1>3, <1>4, <1>6, Zenon

\* A block stored without a search touches no table.
LEMMA StoreRawStep == ASSUME IInv, StoreRaw PROVE IInv'
  <1> USE DEF IInv
  <1>1. /\ stage = "open" /\ wire = Nothing /\ wire' = RawBlock /\ coded_with' = RawBlock
        /\ UNCHANGED <<stage, attached, cache, last_huff_table, previous, next, heap,
                       active_dict, huf, fse, decoded_with>>
    BY Zenon DEF StoreRaw, encoder, decoder
  <1>2. TypeOK' BY <1>1, Zenon DEF TypeOK
  <1>3. DictionaryTablesIntact' BY <1>1, Zenon DEF DictionaryTablesIntact
  <1>4. SameTables' /\ InFlight' BY <1>1, BlockKinds, Zenon DEF SameTables, InFlight
  <1>5. HufAfter' = HufAfter /\ \A a \in Axis : TableAfter(a)' = TableAfter(a)
    <2>1. huf_table' = huf_table /\ \A a \in Axis : fse_table(a)' = fse_table(a)
      BY <1>1, Zenon DEF huf_table, fse_table, dict_table
    <2>2. /\ wire.literals = wire'.literals
          /\ \A a \in Axis : wire.modes[a] = NoMode /\ wire'.modes[a] = NoMode
      BY <1>1, BlockKinds, Zenon
    <2> QED BY <2>1, <2>2, Zenon DEF HufAfter, TableAfter
  <1>6. Agree' BY <1>1, <1>5, Zenon DEF Agree, Denotes
  <1> QED BY <1>2, <1>3, <1>4, <1>6, Zenon

-----------------------------------------------------------------------------
(* The decoder's step.                                                      *)

\* Decoding a block leaves current the tables the block promised.
LEMMA DecodeStep == ASSUME IInv, DecodeBlock PROVE IInv'
  <1> USE DEF IInv
  <1>1. /\ wire # Nothing /\ wire' = Nothing
        /\ UNCHANGED <<stage, attached, cache, last_huff_table, previous, next, heap,
                       active_dict, coded_with>>
    BY Zenon DEF DecodeBlock, encoder
  <1>2. /\ wire'.literals = Raw /\ \A a \in Axis : wire'.modes[a] = NoMode
        /\ wire'.kind = "Nothing" /\ wire' # RawBlock
    BY <1>1, BlockKinds, Zenon
  <1>3. DictionaryTablesIntact' BY <1>1, Zenon DEF DictionaryTablesIntact
  <1>4. InFlight' BY <1>1, <1>2, Zenon DEF InFlight
  <1>5. HufAfter' = huf_table' /\ \A a \in Axis : TableAfter(a)' = fse_table(a)'
    BY <1>2 DEF HufAfter, TableAfter, Raw, NoMode
  <1>6. \A a \in Axis : Denotes(a, previous[a])' = Denotes(a, previous[a])
    BY <1>1, Zenon DEF Denotes
  <1>7. CASE wire = RawBlock
    <2>1. decoded_with' = RawBlock /\ huf' = huf /\ fse' = fse
      BY <1>7, BlockKinds, Zenon DEF DecodeBlock
    <2>2. TypeOK' BY <1>1, <2>1, Zenon DEF TypeOK
    <2>3. SameTables' BY <1>1, <1>7, <2>1, Zenon DEF SameTables, InFlight
    <2>4. huf_table' = huf_table /\ \A a \in Axis : fse_table(a)' = fse_table(a)
      BY <1>1, <2>1, Zenon DEF huf_table, fse_table, dict_table
    <2>5. HufAfter = huf_table /\ \A a \in Axis : TableAfter(a) = fse_table(a)
      BY <1>7, BlockKinds DEF HufAfter, TableAfter, Raw, NoMode
    <2>6. Agree' BY <1>1, <1>5, <1>6, <2>4, <2>5, Zenon DEF Agree
    <2> QED BY <1>3, <1>4, <2>2, <2>3, <2>6, Zenon
  <1>8. CASE wire \in [kind : {"Block"}, literals : Literals, modes : [Axis -> Wired]]
    <2>1. /\ huf' = huf_after
          /\ fse' = [a \in Axis |-> maybe_update_fse_tables(a)]
          /\ decoded_with' = DecodedWith
      BY <1>8, Zenon DEF DecodeBlock, InFlight
    <2>2. SameTables' BY <1>1, <1>8, <2>1, Zenon DEF SameTables, InFlight
    <2>3. wire.literals.kind = "Compressed" => wire.literals.of \in Huffman
      BY <1>8 DEF Literals, Raw, Treeless, Compressed
    <2>4. /\ huf' \in [source : Sources, table : Huffman \cup {None}]
          /\ huf'.source = "Dict" => huf.source = "Dict"
          /\ huf_table' = HufAfter
      <3>1. CASE wire.literals.kind = "Compressed"
        BY <2>1, <2>3, <3>1, Zenon DEF huf_after, huf_table, HufAfter, Sources
      <3>2. CASE wire.literals.kind # "Compressed"
        BY <1>1, <2>1, <3>2, Zenon DEF huf_after, huf_table, HufAfter, TypeOK
      <3> QED BY <3>1, <3>2, Zenon
    <2>5. ASSUME NEW a \in Axis
          PROVE /\ fse'[a] \in [source : Sources \cup {"Predefined"},
                                table : RleModes \cup CustomModes \cup {None}]
                /\ fse'[a].source = "Dict" => fse[a].source = "Dict"
                /\ fse_table(a)' = TableAfter(a)
      <3>1. fse[a] \in [source : Sources \cup {"Predefined"},
                        table : RleModes \cup CustomModes \cup {None}]
        BY Zenon DEF TypeOK
      <3>2. wire.modes[a] \in Modes \cup {NoMode} BY <1>8, Zenon DEF Wired, Modes, Tables
      <3>3. fse'[a] = maybe_update_fse_tables(a) BY <2>1, Zenon
      <3>4. CASE wire.modes[a].kind \in {"Custom", "Rle"}
        <4>1. fse'[a] = [source |-> "Local", table |-> wire.modes[a]]
          BY <3>3, <3>4, Zenon DEF maybe_update_fse_tables
        <4>2. wire.modes[a] \in RleModes \cup CustomModes BY <3>2, <3>4, ModeKinds, Zenon
        <4> QED BY <3>4, <4>1, <4>2 DEF fse_table, TableAfter, Sources
      <3>5. CASE wire.modes[a].kind = "Default"
        <4>1. fse'[a] = [fse[a] EXCEPT !.source = "Predefined"]
          BY <3>3, <3>5, Zenon DEF maybe_update_fse_tables
        <4>2. wire.modes[a] = Default BY <3>2, <3>5, ModeKinds, Zenon
        <4>3. fse'[a].source = "Predefined" BY <3>1, <4>1, Zenon
        <4> QED BY <3>1, <3>5, <4>1, <4>2, <4>3, Zenon DEF fse_table, TableAfter, Sources
      <3>6. CASE wire.modes[a].kind \in {"Repeat", "None"}
        <4>1. fse'[a] = fse[a] BY <3>3, <3>6, Zenon DEF maybe_update_fse_tables
        <4>2. fse_table(a)' = fse_table(a) BY <1>1, <4>1, Zenon DEF fse_table, dict_table
        <4> QED BY <3>1, <3>6, <4>1, <4>2, Zenon DEF TableAfter
      <3> QED BY <3>2, <3>4, <3>5, <3>6, ModeKinds, Zenon
    <2>6. fse' \in [Axis -> [source : Sources \cup {"Predefined"},
                             table : RleModes \cup CustomModes \cup {None}]]
      BY <2>1, <2>5, Zenon
    <2>7. TypeOK' BY <1>1, <2>4, <2>5, <2>6, Zenon DEF TypeOK
    <2>8. Agree' BY <1>1, <1>5, <1>6, <2>4, <2>5 DEF Agree
    <2> QED BY <1>3, <1>4, <2>2, <2>7, <2>8, Zenon
  <1> QED BY <1>1, <1>7, <1>8, Zenon DEF TypeOK

-----------------------------------------------------------------------------
(* The theorems.                                                            *)

\* Every step of either end, and a stutter, keeps the invariant.
LEMMA StepInvariant == IInv /\ [Next]_vars => IInv'
  <1> SUFFICES ASSUME IInv, [Next]_vars PROVE IInv' BY Zenon
  <1>1. CASE AttachDictionary BY <1>1, AttachStep, Zenon
  <1>2. CASE DetachDictionary BY <1>2, DetachStep, Zenon
  <1>3. CASE \E uses \in BOOLEAN : StartFrame(uses) BY <1>3, StartStep, Zenon
  <1>4. CASE WriteBlock BY <1>4, KeepStep, DiscardStep, Zenon DEF WriteBlock
  <1>5. CASE StoreRaw BY <1>5, StoreRawStep, Zenon
  <1>6. CASE DecodeBlock BY <1>6, DecodeStep, Zenon
  <1>7. CASE EndFrame BY <1>7, EndStep, Zenon
  <1>8. CASE UNCHANGED vars
    <2>1. UNCHANGED <<stage, attached, cache, last_huff_table, previous, next, heap, wire,
                      active_dict, huf, fse, coded_with, decoded_with>>
      BY <1>8, Zenon DEF vars, encoder, decoder
    <2>2. TypeOK' /\ DictionaryTablesIntact' /\ SameTables'
      BY <2>1 DEF IInv, TypeOK, DictionaryTablesIntact, SameTables
    <2>3. huf_table' = huf_table /\ \A a \in Axis : fse_table(a)' = fse_table(a)
      BY <2>1, Zenon DEF huf_table, fse_table, dict_table
    <2>4. HufAfter' = HufAfter /\ \A a \in Axis : TableAfter(a)' = TableAfter(a)
      BY <2>1, <2>3, Zenon DEF HufAfter, TableAfter
    <2>5. Agree' BY <2>1, <2>4, Zenon DEF IInv, Agree, Denotes
    <2>6. DecodedWith' = DecodedWith /\ TreelessFails' = TreelessFails
      BY <2>1, <2>3, Zenon DEF DecodedWith, TreelessFails
    <2>7. InFlight' BY <2>1, <2>6, Zenon DEF IInv, InFlight
    <2> QED BY <2>2, <2>5, <2>7, Zenon DEF IInv
  <1> QED BY <1>1, <1>2, <1>3, <1>4, <1>5, <1>6, <1>7, <1>8, Zenon DEF Next

\* The inductive invariant holds in every reachable state.
THEOREM TablesInvariant == Spec => []IInv
  BY InitInvariant, StepInvariant, PTL DEF Spec

\* Every variable keeps its type: the expects of commit_last_used_table and
\* expect_dict never fire.
THEOREM TypeCorrect == Spec => []TypeOK
  BY TablesInvariant, PTL DEF IInv

\* Every block is decoded with the tables it was coded with.
THEOREM SameTablesTheorem == Spec => []SameTables
  BY TablesInvariant, PTL DEF IInv

\* No build ever overwrites a table of the attached dictionary.
THEOREM DictionaryTheorem == Spec => []DictionaryTablesIntact
  BY TablesInvariant, PTL DEF IInv

\* Between blocks the encoder remembers only tables the decoder has.
THEOREM SharedTheorem == Spec => []RemembersOnlyShared
  <1>1. IInv => RemembersOnlyShared
    <2> SUFFICES ASSUME IInv, stage = "open", wire = Nothing
                 PROVE /\ last_huff_table # None => last_huff_table = huf_table
                       /\ \A a \in Axis : previous[a] # None
                            => Denotes(a, previous[a]) = fse_table(a)
      BY Zenon DEF RemembersOnlyShared
    <2>1. HufAfter = huf_table /\ \A a \in Axis : TableAfter(a) = fse_table(a)
      BY BlockKinds DEF HufAfter, TableAfter, Raw, NoMode
    <2> QED BY <2>1, Zenon DEF IInv, Agree
  <1> QED BY <1>1, TablesInvariant, PTL

\* A block written raw leaves the tables the next block may repeat.
THEOREM RawBlocksTheorem == Spec => RawBlocksLeaveTables
  <1> DEFINE Left == wire' = RawBlock =>
                       /\ last_huff_table' = last_huff_table
                       /\ \A a \in Axis : Denotes(a, previous[a])' = Denotes(a, previous[a])
  <1>1. IInv /\ [Next]_vars => [Left]_vars
    <2> SUFFICES ASSUME IInv, Next, wire' = RawBlock PROVE Left BY Zenon
    <2>1. CASE AttachDictionary \/ DetachDictionary \/ (\E uses \in BOOLEAN : StartFrame(uses))
               \/ EndFrame
      <3>1. wire = Nothing /\ wire' = wire
        BY <2>1, Zenon DEF IInv, InFlight, AttachDictionary, DetachDictionary, StartFrame, EndFrame
      <3> QED BY <3>1, BlockKinds, Zenon
    <2>2. CASE WriteBlock
      <3>1. PICK literals \in Literals, modes \in [Axis -> Modes \cup {NoMode}],
                 slots \in [Axis -> Handle] :
                   KeepBlock(literals, modes, slots) \/ DiscardBlock(literals, modes, slots)
        BY <2>2, Zenon DEF WriteBlock
      <3>2. CASE KeepBlock(literals, modes, slots)
        <4>1. wire' = BlockOf(literals, modes) BY <3>2, Zenon DEF KeepBlock
        <4>2. BlockOf(literals, modes).kind = "Block" /\ RawBlock.kind = "RawBlock"
          BY BlockKinds, Zenon
        <4> QED BY <4>1, <4>2, Zenon
      <3>3. CASE DiscardBlock(literals, modes, slots) BY <3>3, DiscardStep, Zenon
      <3> QED BY <3>1, <3>2, <3>3, Zenon
    <2>3. CASE StoreRaw BY <2>3, Zenon DEF StoreRaw, encoder, Denotes
    <2>4. CASE DecodeBlock BY <2>4, BlockKinds, Zenon DEF DecodeBlock
    <2> QED BY <2>1, <2>2, <2>3, <2>4, Zenon DEF Next
  <1>2. [][Left]_vars => RawBlocksLeaveTables BY Zenon DEF RawBlocksLeaveTables
  <1> HIDE DEF Left
  <1> QED BY <1>1, <1>2, TablesInvariant, PTL DEF Spec

-----------------------------------------------------------------------------
(* The repeat offsets.                                                      *)

\* The history a block's i-th sequence was coded against.
Before(i) == IF i = 1 THEN saved_offset_hist ELSE coded[i - 1].after

\* Both of the decoder's loops turn the sequence back into what it was.
Decodes(s, h) ==
    LET result == [offset |-> s.offset, hist |-> s.after]
    IN /\ decode_resolved(s.of, s.lit0, h) = result
       /\ do_offset_history(s.of.base + s.of.extra, s.lit0, h) = result

Chained ==
    /\ \A i \in 1..Len(coded) : Decodes(coded[i], Before(i))
    /\ offset_hist = Before(Len(coded) + 1)
    /\ scratch_hist = saved_offset_hist

\* The histories at each stage of a block.
Histories ==
    /\ LockStep
    /\ phase = "idle" => coded = <<>>
    /\ phase \in {"coding", "decoding"} => Chained
    /\ phase = "decoding" =>
          /\ saved_scratch_hist = scratch_hist
          /\ shadow_hist = Before(Len(resolved) + 1)
          /\ OffsetsRoundTrip
    /\ RolledBackWithItsHistory

OffsetsInv == OffsetsTypeOK /\ Histories

-----------------------------------------------------------------------------
(* Moving entries keeps a history usable (the rotations of both ends).      *)
LEMMA Moves ==
    ASSUME NEW h \in Usable, NEW o \in 1..MaxU32
    PROVE  /\ Rotate(h, o) \in Usable
           /\ Swap(h, o) \in Usable
  BY OffsetAssumption DEF Usable, Rotate, Swap

(* The fused resolution of decode_resolved and do_offset_history agree on   *)
(* every code and every history, the wrapped predecessor of zero included.  *)
LEMMA FormsAgree ==
    ASSUME NEW v \in Nat \ {0}, NEW lit0 \in BOOLEAN, NEW h \in History
    PROVE  decode_resolved(encode_offset(v), lit0, h) = do_offset_history(v, lit0, h)
  <1>1. CASE v >= 4
    BY <1>1 DEF decode_resolved, encode_offset, do_offset_history
  <1>2. CASE v = 1
    BY <1>2 DEF decode_resolved, encode_offset, do_offset_history
  <1>3. CASE v \in {2, 3}
    BY <1>3 DEF decode_resolved, encode_offset, do_offset_history
  <1> QED BY <1>1, <1>2, <1>3

(* The field of a code carries the code (encode_offset and the decoder's    *)
(* base plus extra bits).                                                   *)
LEMMA FieldCarriesCode ==
    ASSUME NEW v \in Nat \ {0}
    PROVE  /\ encode_offset(v).base + encode_offset(v).extra = v
           /\ encode_offset(v) \in [bits : 0..2, base : {1, 2, 4}, extra : Nat]
  BY DEF encode_offset

(* What encode_offset_with_history codes, do_offset_history resolves to the *)
(* same offset and the same next history.                                   *)
LEMMA FullRoundTrip ==
    ASSUME NEW o \in Offset, NEW lit0 \in BOOLEAN, NEW h \in Usable
    PROVE  LET c == encode_offset_with_history(o, lit0, h)
           IN /\ c.code \in Nat \ {0}
              /\ c.hist \in Usable
              /\ do_offset_history(c.code, lit0, h) = [offset |-> o, hist |-> c.hist]
  <1> DEFINE c == encode_offset_with_history(o, lit0, h)
  <1>0. /\ o \in 1..MaxU32
        /\ h[0] \in 1..MaxU32 /\ h[1] \in 1..MaxU32 /\ h[2] \in 1..MaxU32
    BY OffsetAssumption DEF Usable
  <1>1. c.hist \in Usable
    BY <1>0, Moves, Zenon DEF encode_offset_with_history
  <1>2. CASE ~lit0
    <2>1. CASE o = h[0]
      <3>1. OffsetCode(o, lit0, h) = 1
        BY <1>0, <1>2, <2>1, Zenon DEF OffsetCode
      <3>2. encode_offset_with_history(o, lit0, h) = [code |-> 1, hist |-> h]
        BY <1>0, <1>2, <3>1, Zenon DEF encode_offset_with_history
      <3>3. do_offset_history(1, lit0, h) = [offset |-> o, hist |-> h]
        BY <1>0, <1>2, <2>1 DEF do_offset_history
      <3> QED BY <1>0, <1>1, <3>2, <3>3
    <2>2. CASE o # h[0] /\ o = h[1]
      <3>1. OffsetCode(o, lit0, h) = 2
        BY <1>0, <1>2, <2>2, Zenon DEF OffsetCode
      <3>2. encode_offset_with_history(o, lit0, h) = [code |-> 2, hist |-> Swap(h, o)]
        BY <1>0, <1>2, <3>1 DEF encode_offset_with_history
      <3>3. do_offset_history(2, lit0, h) = [offset |-> o, hist |-> Swap(h, o)]
        BY <1>0, <1>2, <2>2 DEF do_offset_history
      <3> QED BY <1>0, <1>1, <3>2, <3>3
    <2>3. CASE o # h[0] /\ o # h[1] /\ o = h[2]
      <3>1. OffsetCode(o, lit0, h) = 3
        BY <1>0, <1>2, <2>3, Zenon DEF OffsetCode
      <3>2. encode_offset_with_history(o, lit0, h) = [code |-> 3, hist |-> Rotate(h, o)]
        BY <1>0, <1>2, <3>1 DEF encode_offset_with_history
      <3>3. do_offset_history(3, lit0, h) = [offset |-> o, hist |-> Rotate(h, o)]
        BY <1>0, <1>2, <2>3 DEF do_offset_history
      <3> QED BY <1>0, <1>1, <3>2, <3>3
    <2>4. CASE o # h[0] /\ o # h[1] /\ o # h[2]
      <3>1. OffsetCode(o, lit0, h) = o + 3
        BY <1>0, <1>2, <2>4, Zenon DEF OffsetCode
      <3>2. encode_offset_with_history(o, lit0, h) = [code |-> o + 3, hist |-> Rotate(h, o)]
        BY <1>0, <1>2, <3>1 DEF encode_offset_with_history
      <3>3. do_offset_history(o + 3, lit0, h) = [offset |-> o, hist |-> Rotate(h, o)]
        BY <1>0, <1>2, <2>4 DEF do_offset_history
      <3> QED BY <1>0, <1>1, <3>2, <3>3
    <2> QED BY <2>1, <2>2, <2>3, <2>4, Zenon
  <1>3. CASE lit0
    <2>1. CASE o = h[1]
      <3>1. OffsetCode(o, lit0, h) = 1
        BY <1>0, <1>3, <2>1, Zenon DEF OffsetCode
      <3>2. encode_offset_with_history(o, lit0, h) = [code |-> 1, hist |-> Swap(h, o)]
        BY <1>0, <1>3, <3>1, Zenon DEF encode_offset_with_history
      <3>3. do_offset_history(1, lit0, h) = [offset |-> o, hist |-> Swap(h, o)]
        BY <1>0, <1>3, <2>1 DEF do_offset_history
      <3> QED BY <1>0, <1>1, <3>2, <3>3
    <2>2. CASE o # h[1] /\ o = h[2]
      <3>1. OffsetCode(o, lit0, h) = 2
        BY <1>0, <1>3, <2>2, Zenon DEF OffsetCode
      <3>2. encode_offset_with_history(o, lit0, h) = [code |-> 2, hist |-> Rotate(h, o)]
        <4>1. OffsetCode(o, lit0, h) # 1
          BY <1>0, <3>1
        <4> QED BY <1>3, <3>1, <4>1, Zenon DEF encode_offset_with_history
      <3>3. do_offset_history(2, lit0, h) = [offset |-> o, hist |-> Rotate(h, o)]
        BY <1>0, <1>3, <2>2 DEF do_offset_history
      <3> QED BY <1>0, <1>1, <3>2, <3>3
    <2>3. CASE o # h[1] /\ o # h[2] /\ o = h[0] - 1
      <3>1. OffsetCode(o, lit0, h) = 3
        BY <1>0, <1>3, <2>3 DEF OffsetCode, wrapping_dec
      <3>2. encode_offset_with_history(o, lit0, h) = [code |-> 3, hist |-> Rotate(h, o)]
        <4>1. OffsetCode(o, lit0, h) # 1
          BY <1>0, <3>1
        <4> QED BY <1>3, <3>1, <4>1, Zenon DEF encode_offset_with_history
      <3>3. do_offset_history(3, lit0, h) = [offset |-> o, hist |-> Rotate(h, o)]
        BY <1>0, <1>3, <2>3 DEF do_offset_history, wrapping_dec
      <3> QED BY <1>0, <1>1, <3>2, <3>3
    <2>4. CASE o # h[1] /\ o # h[2] /\ o # h[0] - 1
      <3>1. OffsetCode(o, lit0, h) = o + 3
        BY <1>0, <1>3, <2>4 DEF OffsetCode, wrapping_dec
      <3>2. encode_offset_with_history(o, lit0, h) = [code |-> o + 3, hist |-> Rotate(h, o)]
        <4>1. OffsetCode(o, lit0, h) # 1
          BY <1>0, <3>1
        <4> QED BY <1>3, <3>1, <4>1, Zenon DEF encode_offset_with_history
      <3>3. do_offset_history(o + 3, lit0, h) = [offset |-> o, hist |-> Rotate(h, o)]
        BY <1>0, <1>3, <2>4 DEF do_offset_history, wrapping_dec
      <3> QED BY <1>0, <1>1, <3>2, <3>3
    <2> QED BY <2>1, <2>2, <2>3, <2>4, Zenon
  <1> QED BY <1>2, <1>3, Zenon

(* The same for the Fast band's encode_offset_with_history_fast.            *)
LEMMA FastRoundTrip ==
    ASSUME NEW o \in Offset, NEW lit0 \in BOOLEAN, NEW h \in Usable
    PROVE  LET c == encode_offset_with_history_fast(o, lit0, h)
           IN /\ c.code \in Nat \ {0}
              /\ c.hist \in Usable
              /\ do_offset_history(c.code, lit0, h) = [offset |-> o, hist |-> c.hist]
  <1>0. /\ o \in 1..MaxU32
        /\ h[0] \in 1..MaxU32 /\ h[1] \in 1..MaxU32 /\ h[2] \in 1..MaxU32
    BY OffsetAssumption DEF Usable
  <1>1. encode_offset_with_history_fast(o, lit0, h).hist \in Usable
    BY <1>0, Moves, Zenon DEF encode_offset_with_history_fast
  <1>2. CASE ~lit0 /\ o = h[0]
    BY <1>0, <1>1, <1>2, SMTT(30) DEF encode_offset_with_history_fast, do_offset_history
  <1>3. CASE lit0 /\ o = h[1]
    BY <1>0, <1>1, <1>3, SMTT(30) DEF encode_offset_with_history_fast, do_offset_history
  <1>4. CASE ~(~lit0 /\ o = h[0]) /\ ~(lit0 /\ o = h[1])
    BY <1>0, <1>1, <1>4 DEF encode_offset_with_history_fast, do_offset_history
  <1> QED BY <1>2, <1>3, <1>4, Zenon

(* The parser's encode_offset_with_reps is encode_offset_with_history: what *)
(* it prices is what the block will carry.                                  *)
LEMMA ParserAgrees ==
    ASSUME NEW o \in Offset, NEW lit0 \in BOOLEAN, NEW h \in Usable
    PROVE  encode_offset_with_reps(o, lit0, h) = encode_offset_with_history(o, lit0, h)
  <1>0. /\ o \in Nat /\ o + 3 <= MaxU32 /\ MaxU32 \in Nat
        /\ h[0] \in 1..MaxU32 /\ h[1] \in 1..MaxU32 /\ h[2] \in 1..MaxU32
    BY OffsetAssumption DEF Usable
  <1> DEFINE reps == encode_offset_with_reps(o, lit0, h)
             full == encode_offset_with_history(o, lit0, h)
  <1>1. CASE ~lit0
    <2>1. CASE o = h[0]
      BY <1>0, <1>1, <2>1 DEF encode_offset_with_reps, encode_offset_with_history, OffsetCode
    <2>2. CASE o # h[0] /\ o = h[1]
      BY <1>0, <1>1, <2>2 DEF encode_offset_with_reps, encode_offset_with_history, OffsetCode
    <2>3. CASE o # h[0] /\ o # h[1] /\ o = h[2]
      BY <1>0, <1>1, <2>3, Zenon DEF encode_offset_with_reps, encode_offset_with_history, OffsetCode
    <2>4. CASE o # h[0] /\ o # h[1] /\ o # h[2]
      BY <1>0, <1>1, <2>4
         DEF encode_offset_with_reps, encode_offset_with_history, OffsetCode, saturating_add3
    <2> QED BY <2>1, <2>2, <2>3, <2>4, Zenon
  <1>2. CASE lit0
    <2>1. CASE o = h[1]
      BY <1>0, <1>2, <2>1, Zenon DEF encode_offset_with_reps, encode_offset_with_history, OffsetCode
    <2>2. CASE o # h[1] /\ o = h[2]
      BY <1>0, <1>2, <2>2, Zenon DEF encode_offset_with_reps, encode_offset_with_history, OffsetCode
    <2>3. CASE o # h[1] /\ o # h[2]
      BY <1>0, <1>2, <2>3
         DEF encode_offset_with_reps, encode_offset_with_history, OffsetCode,
             saturating_add3, wrapping_dec
    <2> QED BY <2>1, <2>2, <2>3, Zenon
  <1> QED BY <1>1, <1>2, Zenon

-----------------------------------------------------------------------------
(* What a coded sequence appends keeps the chain (fill_and_count's loop and *)
(* the Fast band's emission in collect_block_parts).                        *)
LEMMA OneMoreSequence ==
    ASSUME NEW o \in Offset, NEW lit0 \in BOOLEAN, NEW h \in Usable, NEW tag \in BOOLEAN
    PROVE  LET c == IF tag THEN encode_offset_with_history_fast(o, lit0, h)
                    ELSE encode_offset_with_history(o, lit0, h)
               s == [of |-> encode_offset(c.code), lit0 |-> lit0,
                     offset |-> o, after |-> c.hist]
           IN /\ c.hist \in Usable
              /\ s \in CodedSequence
              /\ Decodes(s, h)
  <1> DEFINE c == IF tag THEN encode_offset_with_history_fast(o, lit0, h)
                  ELSE encode_offset_with_history(o, lit0, h)
             s == [of |-> encode_offset(c.code), lit0 |-> lit0,
                   offset |-> o, after |-> c.hist]
  <1>1. /\ c.code \in Nat \ {0}
        /\ c.hist \in Usable
        /\ do_offset_history(c.code, lit0, h) = [offset |-> o, hist |-> c.hist]
    BY FullRoundTrip, FastRoundTrip
  <1> HIDE DEF c
  <1>2. h \in History
    BY <1>1, OffsetAssumption DEF Usable, History, U32
  <1>3. /\ s.of = encode_offset(c.code) /\ s.lit0 = lit0
        /\ s.offset = o /\ s.after = c.hist
    BY Zenon
  <1>4. s \in CodedSequence
    BY <1>1, FieldCarriesCode, Zenon DEF CodedSequence
  <1> HIDE DEF s
  <1>5. Decodes(s, h)
    <2>1. do_offset_history(s.of.base + s.of.extra, lit0, h)
            = [offset |-> o, hist |-> c.hist]
      BY <1>1, <1>3, FieldCarriesCode, Zenon
    <2>2. decode_resolved(s.of, lit0, h) = [offset |-> o, hist |-> c.hist]
      BY <1>1, <1>2, <1>3, FormsAgree, Zenon
    <2> QED BY <2>1, <2>2, <1>3, Zenon DEF Decodes
  <1> QED BY <1>1, <1>4, <1>5, Zenon DEF c, s

(* Init establishes the invariant: both ends start from DefaultHistory.     *)
LEMMA InitInv == InitOffsets => OffsetsInv
  <1> SUFFICES ASSUME InitOffsets PROVE OffsetsInv
    BY Zenon
  <1>1. DefaultHistory \in Usable /\ DefaultHistory \in History
    BY OffsetAssumption DEF DefaultHistory, Usable, History, U32
  <1>2. OffsetsTypeOK
    <2>1. /\ coded = <<>> /\ coded \in Seq(CodedSequence) /\ Len(coded) = 0
          /\ resolved = <<>> /\ resolved \in Seq(U32) /\ Len(resolved) = 0
      BY DEF InitOffsets
    <2>2. Len(coded) <= MaxSequences /\ (phase = "decoding" => Len(resolved) <= Len(coded))
      BY <2>1, OffsetAssumption
    <2>3. /\ phase \in {"idle", "coding", "decoding", "failed"}
          /\ fast \in BOOLEAN /\ use_long_pipeline \in BOOLEAN /\ rolled_back \in BOOLEAN
      BY Zenon DEF InitOffsets
    <2> QED BY <1>1, <2>1, <2>2, <2>3, Zenon DEF InitOffsets, OffsetsTypeOK
  <1>3. Histories
    BY <1>1, Zenon DEF InitOffsets, Histories, LockStep, RolledBackWithItsHistory
  <1> QED BY <1>2, <1>3, Zenon DEF OffsetsInv

-----------------------------------------------------------------------------
(* StartFrame: both ends take the same history, the dictionary's or         *)
(* [1, 4, 8].                                                               *)
LEMMA StartFrameInv ==
    ASSUME OffsetsInv, NEW hist \in DictHistories \cup {DefaultHistory}, NEW tag \in BOOLEAN,
           StartOffsets(hist, tag)
    PROVE  OffsetsInv'
  <1>1. hist \in Usable
    <2>1. CASE hist = DefaultHistory
      BY <2>1, OffsetAssumption DEF DefaultHistory, Usable
    <2>2. CASE hist \in DictHistories
      BY <2>2, OffsetAssumption, Zenon DEF Usable
    <2> QED BY <2>1, <2>2, Zenon
  <1>2. OffsetsTypeOK'
    BY <1>1, OffsetAssumption DEF OffsetsInv, OffsetsTypeOK, StartOffsets
  <1>3. Histories'
    BY Zenon DEF StartOffsets, Histories, LockStep, RolledBackWithItsHistory
  <1> QED BY <1>2, <1>3, Zenon DEF OffsetsInv

(* BeginBlock: an empty block is chained from the saved history.            *)
LEMMA BeginBlockInv ==
    ASSUME OffsetsInv, BeginBlock
    PROVE  OffsetsInv'
  <1>1. OffsetsTypeOK'
    BY Zenon DEF OffsetsInv, OffsetsTypeOK, BeginBlock, resolver
  <1>2. Histories'
    BY DEF OffsetsInv, BeginBlock, resolver, Histories, LockStep, Chained, Before,
           RolledBackWithItsHistory, OffsetsRoundTrip
  <1> QED BY <1>1, <1>2, Zenon DEF OffsetsInv

(* CodeSequence: one more sequence is chained to the ones before it.        *)
LEMMA CodeSequenceInv ==
    ASSUME OffsetsInv, NEW o \in Offset, NEW lit0 \in BOOLEAN, CodeSequence(o, lit0)
    PROVE  OffsetsInv'
  <1> DEFINE c == IF fast THEN encode_offset_with_history_fast(o, lit0, offset_hist)
                  ELSE encode_offset_with_history(o, lit0, offset_hist)
             s == [of |-> encode_offset(c.code), lit0 |-> lit0,
                   offset |-> o, after |-> c.hist]
  <1>0. PICK n \in Nat \ {0} : n = Len(coded) + 1
    BY DEF OffsetsInv, OffsetsTypeOK
  <1>1. /\ phase = "coding" /\ Len(coded) < MaxSequences
        /\ coded' = Append(coded, s)
        /\ offset_hist' = c.hist
        /\ UNCHANGED <<phase, fast, saved_offset_hist, resolver>>
    BY Zenon DEF CodeSequence
  <1>2. c.hist \in Usable /\ s \in CodedSequence /\ Decodes(s, offset_hist) /\ s.after = c.hist
    BY OneMoreSequence, Zenon DEF OffsetsInv, OffsetsTypeOK
  <1> HIDE DEF c, s
  <1>3. /\ coded \in Seq(CodedSequence) /\ Len(coded') = n
        /\ coded'[n] = s
        /\ \A i \in 1..Len(coded) : coded'[i] = coded[i]
    BY <1>0, <1>1, <1>2 DEF OffsetsInv, OffsetsTypeOK
  <1>4. OffsetsTypeOK'
    BY <1>1, <1>2, <1>3, OffsetAssumption DEF OffsetsInv, OffsetsTypeOK, resolver
  <1>5. Chained
    BY <1>1, Zenon DEF OffsetsInv, Histories
  <1>6. Chained'
    <2>1. \A i \in 1..n : Before(i)' = Before(i)
      BY <1>0, <1>1, <1>3 DEF Before
    <2>2. Before(n + 1)' = c.hist
      <3>1. Before(n + 1)' = coded'[(n + 1) - 1].after
        BY <1>3 DEF Before
      <3>2. (n + 1) - 1 = n
        OBVIOUS
      <3> QED BY <1>2, <1>3, <3>1, <3>2, Zenon
    <2>3. ASSUME NEW i \in 1..n PROVE Decodes(coded'[i], Before(i))
      BY <1>0, <1>2, <1>3, <1>5, SMTT(30) DEF Chained
    <2>4. ASSUME NEW i \in 1..n PROVE Decodes(coded[i], Before(i))'
      BY <2>1, <2>3, ZenonT(40) DEF Decodes, decode_resolved, do_offset_history
    <2>5. \A i \in 1..Len(coded') : Decodes(coded[i], Before(i))'
      BY <1>3, <2>4, Zenon
    <2>6. offset_hist' = Before(Len(coded) + 1)'
      BY <1>1, <1>3, <2>2, Zenon
    <2>7. scratch_hist' = saved_offset_hist'
      BY <1>1, <1>5, Zenon DEF Chained, resolver
    <2> QED BY <2>5, <2>6, <2>7, Zenon DEF Chained
  <1>7. Histories'
    BY <1>1, <1>6, Zenon DEF Histories, LockStep, RolledBackWithItsHistory
  <1> QED BY <1>4, <1>7, Zenon DEF OffsetsInv

(* Steps that leave the encoder and the installed history alone leave the   *)
(* chain alone (the decoder's shadow_hist is a copy).                       *)
LEMMA ChainKept ==
    ASSUME Chained, coded \in Seq(CodedSequence), UNCHANGED <<coder, scratch_hist>>
    PROVE  Chained'
  <1>1. coded' = coded /\ UNCHANGED <<offset_hist, saved_offset_hist, scratch_hist>>
    BY Zenon DEF coder
  <1>2. \A i \in Nat : Before(i)' = Before(i)
    BY <1>1, Zenon DEF Before
  <1>3. ASSUME NEW i \in 1..Len(coded) PROVE Decodes(coded[i], Before(i))'
    <2>1. Decodes(coded[i], Before(i)) /\ Before(i)' = Before(i) /\ coded'[i] = coded[i]
      BY <1>1, <1>2 DEF Chained
    <2> QED BY <2>1, ZenonT(40) DEF Decodes, decode_resolved, do_offset_history
  <1>4. PICK n \in Nat : n = Len(coded) + 1
    OBVIOUS
  <1>5. Before(n)' = Before(Len(coded) + 1)' /\ Before(n) = offset_hist
    BY <1>1, <1>4, Zenon DEF Chained
  <1> QED BY <1>1, <1>2, <1>3, <1>5, Zenon DEF Chained

(* WriteRaw: the saved history is the decoder's.                            *)
LEMMA WriteRawInv ==
    ASSUME OffsetsInv, WriteRaw
    PROVE  OffsetsInv'
  <1>1. /\ coded' = <<>> /\ coded' \in Seq(CodedSequence) /\ Len(coded') = 0
        /\ phase' = "idle" /\ resolved' = resolved
    BY DEF WriteRaw, resolver
  <1>2. OffsetsTypeOK'
    BY <1>1, OffsetAssumption DEF OffsetsInv, OffsetsTypeOK, WriteRaw, resolver
  <1>3. Histories'
    BY <1>1, Zenon DEF OffsetsInv, Histories, Chained, WriteRaw, resolver, LockStep,
                RolledBackWithItsHistory
  <1> QED BY <1>2, <1>3, Zenon DEF OffsetsInv

(* WriteCompressed: the shadow starts where the encoder's block started.    *)
LEMMA WriteCompressedInv ==
    ASSUME OffsetsInv, NEW long \in BOOLEAN, WriteCompressed(long)
    PROVE  OffsetsInv'
  <1>1. /\ resolved' = <<>> /\ resolved' \in Seq(U32) /\ Len(resolved') = 0
        /\ coded' = coded /\ phase' = "decoding" /\ phase = "coding"
    BY DEF WriteCompressed, coder
  <1>2. OffsetsTypeOK'
    BY <1>1 DEF OffsetsInv, OffsetsTypeOK, WriteCompressed, coder
  <1>4. Chained'
    BY <1>1, ChainKept, Zenon DEF OffsetsInv, Histories, WriteCompressed, OffsetsTypeOK
  <1>5. shadow_hist' = Before(Len(resolved) + 1)'
    BY <1>1, <1>4 DEF Before, Chained, WriteCompressed, coder
  <1>6. Histories'
    BY <1>1, <1>4, <1>5 DEF Histories, LockStep, RolledBackWithItsHistory,
                            OffsetsRoundTrip, WriteCompressed, coder
  <1> QED BY <1>2, <1>6, Zenon DEF OffsetsInv

(* DecodeSequence: the chain's next link, through either loop.              *)
LEMMA DecodeSequenceInv ==
    ASSUME OffsetsInv, DecodeSequence
    PROVE  OffsetsInv'
  <1>0. PICK n \in Nat \ {0} : n = Len(resolved) + 1
    BY DEF OffsetsInv, OffsetsTypeOK
  <1> DEFINE r == Resolve(coded[n])
  <1>1. /\ phase = "decoding" /\ n \in 1..Len(coded)
        /\ resolved' = Append(resolved, r.offset)
        /\ shadow_hist' = r.hist
        /\ UNCHANGED <<phase, coder, use_long_pipeline, scratch_hist,
                       saved_scratch_hist, rolled_back>>
    BY <1>0 DEF DecodeSequence, OffsetsInv, OffsetsTypeOK
  <1>2. /\ coded \in Seq(CodedSequence) /\ coded[n] \in CodedSequence
        /\ coded' = coded /\ resolved \in Seq(U32)
    BY <1>1 DEF OffsetsInv, OffsetsTypeOK, coder
  <1>3. Decodes(coded[n], shadow_hist)
    BY <1>0, <1>1, Zenon DEF OffsetsInv, Histories, Chained
  <1>4. r = [offset |-> coded[n].offset, hist |-> coded[n].after]
    BY <1>3, Zenon DEF Resolve, Decodes
  <1> HIDE DEF r
  <1>5. /\ r.offset = coded[n].offset /\ r.hist = coded[n].after
        /\ r.offset \in U32 /\ r.hist \in Usable
    <2>1. coded[n].offset \in Offset /\ coded[n].after \in Usable
      BY <1>2, Zenon DEF CodedSequence
    <2>2. \A o \in Offset : o \in U32
      BY OffsetAssumption DEF U32
    <2> QED BY <1>4, <2>1, <2>2, Zenon
  <1>6. /\ resolved' \in Seq(U32) /\ Len(resolved') = n
        /\ resolved'[n] = r.offset
        /\ \A i \in 1..Len(resolved) : resolved'[i] = resolved[i]
    BY <1>0, <1>1, <1>2, <1>5
  <1>7. OffsetsTypeOK'
    BY <1>1, <1>2, <1>5, <1>6 DEF OffsetsInv, OffsetsTypeOK, coder
  <1>9. Chained'
    BY <1>1, <1>2, ChainKept, Zenon DEF OffsetsInv, Histories
  <1>10. shadow_hist' = Before(Len(resolved) + 1)'
    <2>1. Before(n + 1)' = coded'[(n + 1) - 1].after
      BY DEF Before
    <2>2. (n + 1) - 1 = n
      OBVIOUS
    <2> QED BY <1>1, <1>2, <1>5, <1>6, <2>1, <2>2, Zenon
  <1>11. OffsetsRoundTrip'
    BY <1>0, <1>1, <1>2, <1>5, <1>6 DEF OffsetsInv, Histories, OffsetsRoundTrip
  <1>12. Histories'
    BY <1>1, <1>9, <1>10, <1>11, Zenon
       DEF OffsetsInv, Histories, LockStep, RolledBackWithItsHistory
  <1> QED BY <1>7, <1>12, Zenon DEF OffsetsInv

(* FinishBlock: the shadow at the chain's end is the encoder's history.     *)
LEMMA FinishBlockInv ==
    ASSUME OffsetsInv, FinishBlock
    PROVE  OffsetsInv'
  <1>1. /\ coded' = <<>> /\ coded' \in Seq(CodedSequence) /\ Len(coded') = 0
        /\ resolved' = <<>> /\ resolved' \in Seq(U32) /\ Len(resolved') = 0
        /\ phase' = "idle" /\ phase = "decoding" /\ Len(resolved) = Len(coded)
    BY DEF FinishBlock
  <1>2. OffsetsTypeOK'
    BY <1>1, OffsetAssumption DEF OffsetsInv, OffsetsTypeOK, FinishBlock
  <1>3. shadow_hist = offset_hist
    BY <1>1, Zenon DEF OffsetsInv, Histories, Chained
  <1>4. Histories'
    BY <1>1, <1>3, Zenon DEF Histories, LockStep, RolledBackWithItsHistory, FinishBlock
  <1> QED BY <1>2, <1>4, Zenon DEF OffsetsInv

(* The two failures: the history is the saved one when the bytes are.       *)
LEMMA FailureInv ==
    ASSUME OffsetsInv, SequenceFails \/ BitsLeftOver
    PROVE  OffsetsInv'
  <1>1. /\ phase = "decoding" /\ phase' = "failed" /\ rolled_back' \in BOOLEAN
        /\ UNCHANGED <<coder, use_long_pipeline, shadow_hist, saved_scratch_hist, resolved>>
        /\ scratch_hist' \in {scratch_hist, saved_scratch_hist, shadow_hist}
    BY Zenon DEF SequenceFails, BitsLeftOver
  <1>2. OffsetsTypeOK'
    BY <1>1, Zenon DEF OffsetsInv, OffsetsTypeOK, coder
  <1>3. RolledBackWithItsHistory'
    BY <1>1, Zenon DEF OffsetsInv, Histories, RolledBackWithItsHistory, SequenceFails, BitsLeftOver
  <1>4. Histories'
    BY <1>1, <1>3, Zenon DEF Histories, LockStep
  <1> QED BY <1>2, <1>4, Zenon DEF OffsetsInv

(* Stuttering changes nothing the invariant reads.                          *)
LEMMA StutterInv ==
    ASSUME OffsetsInv, UNCHANGED offsetVars
    PROVE  OffsetsInv'
  <1>1. /\ UNCHANGED <<coder, scratch_hist>> /\ coded \in Seq(CodedSequence)
        /\ UNCHANGED <<phase, fast, offset_hist, saved_offset_hist, coded, use_long_pipeline>>
        /\ UNCHANGED <<shadow_hist, saved_scratch_hist, resolved, rolled_back>>
    BY Zenon DEF offsetVars, coder, resolver, OffsetsInv, OffsetsTypeOK
  <1>2. OffsetsTypeOK'
    BY <1>1, Zenon DEF OffsetsInv, OffsetsTypeOK
  <1>3. phase \in {"coding", "decoding"} => Chained'
    BY <1>1, ChainKept, Zenon DEF OffsetsInv, Histories
  <1>4. PICK n : n = Len(resolved) + 1
    BY Zenon
  <1>5. Before(n)' = Before(n)
    BY <1>1, Zenon DEF Before
  <1>6. Histories'
    BY <1>1, <1>3, <1>4, <1>5, Zenon DEF OffsetsInv, Histories, LockStep, RolledBackWithItsHistory,
                                  OffsetsRoundTrip
  <1> QED BY <1>2, <1>6, Zenon DEF OffsetsInv

-----------------------------------------------------------------------------
(* The invariant holds throughout: offset_hist and scratch_hist evolve      *)
(* together through kept blocks, raw fallbacks and new frames.              *)
THEOREM HistoryInvariant == OffsetsSpec => []OffsetsInv
  <1>1. ASSUME OffsetsInv, [NextOffsets]_offsetVars PROVE OffsetsInv'
    BY <1>1, StartFrameInv, BeginBlockInv, CodeSequenceInv, WriteRawInv, WriteCompressedInv,
       DecodeSequenceInv, FinishBlockInv, FailureInv, StutterInv, Zenon
       DEF NextOffsets
  <1> QED BY InitInv, <1>1, PTL DEF OffsetsSpec

(* The types, for every set of offsets and dictionaries: in particular no   *)
(* history ever holds offset zero.                                          *)
THEOREM OffsetsTypeCorrect == OffsetsSpec => []OffsetsTypeOK
  BY HistoryInvariant, PTL DEF OffsetsInv

(* Between blocks the encoder's offset_hist is the decoder's.               *)
THEOREM LockStepTheorem == OffsetsSpec => []LockStep
  <1>1. OffsetsInv => LockStep
    BY Zenon DEF OffsetsInv, Histories
  <1> QED BY <1>1, HistoryInvariant, PTL

(* Every offset the matcher found is the offset the decoder executes.       *)
THEOREM RoundTripTheorem == OffsetsSpec => []OffsetsRoundTrip
  <1>1. OffsetsInv => OffsetsRoundTrip
    BY Zenon DEF OffsetsInv, Histories, OffsetsRoundTrip
  <1> QED BY <1>1, HistoryInvariant, PTL

(* decode_resolved and do_offset_history agree in every reachable state.    *)
THEOREM ResolutionsTheorem == OffsetsSpec => []ResolutionsAgree
  <1>1. OffsetsInv => ResolutionsAgree
    <2> SUFFICES ASSUME OffsetsInv, NEW o \in Offset \cup {1, 2, 3}, NEW lit0 \in BOOLEAN
                 PROVE  decode_resolved(encode_offset(o), lit0, shadow_hist)
                            = do_offset_history(o, lit0, shadow_hist)
      BY Zenon DEF ResolutionsAgree
    <2>1. o \in Nat \ {0}
      BY OffsetAssumption
    <2>2. \A h \in Usable : h \in History
      BY OffsetAssumption DEF Usable, History, U32
    <2>3. shadow_hist \in History
      BY <2>2, Zenon DEF OffsetsInv, OffsetsTypeOK
    <2> QED BY <2>1, <2>3, FormsAgree, Zenon
  <1> QED BY <1>1, HistoryInvariant, PTL

(* A block whose bytes were taken back took its history back.               *)
THEOREM RollbackTheorem == OffsetsSpec => []RolledBackWithItsHistory
  <1>1. OffsetsInv => RolledBackWithItsHistory
    BY Zenon DEF OffsetsInv, Histories
  <1> QED BY <1>1, HistoryInvariant, PTL

(* encode_offset_with_reps and encode_offset_with_history agree wherever    *)
(* the encoder can be.                                                      *)
THEOREM ParserTheorem == OffsetsSpec => []ParserPricesTheCode
  <1>1. OffsetsInv => ParserPricesTheCode
    BY ParserAgrees, Zenon DEF OffsetsInv, OffsetsTypeOK, ParserPricesTheCode
  <1> QED BY <1>1, HistoryInvariant, PTL
=============================================================================
