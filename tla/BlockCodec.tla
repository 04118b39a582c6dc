------------------------------- MODULE BlockCodec -------------------------------
(***************************************************************************)
(* Frames of blocks between an encoder and a decoder that keep their       *)
(* tables from block to block, the encoder its memory from frame to frame. *)
(* The coding of a block is a parameter (BlockCoding).  The decoder never  *)
(* waits for more than a block, so the encoder is one block ahead at most. *)
(***************************************************************************)
EXTENDS Naturals, Sequences

CONSTANTS
  NewCoder,              \* the entropy state of an encoder just made
  Prepare(_),            \* a dictionary, from the sample it is made of
  BeginEncoder(_, _),    \* that state as a frame with a dictionary (<< >>: none) begins
  BeginDecoder(_),       \* the decoder's
  Compress(_, _, _),     \* a block: [enc, blocks]
  Decompress(_, _, _, _),\* a part of one: [dec, ok, literals, sequences]
  Resumed(_),            \* a decoder's state in another decoder
  Price(_, _),           \* what the splitter takes the literals of a part to cost
  LiteralsTaken(_),      \* what they took
  SameTables(_, _),      \* every table the encoder may repeat is the decoder's
  Configs,               \* how an encoder may be set up, and the samples it meets
  Samples,               \* blocks: [literals, sequences]
  DictionarySamples,     \* what the dictionaries are made of
  Kernels,               \* the decoder's loops
  MaxBlocks              \* blocks over the whole run

(***************************************************************************)
(* `wire` holds the parts of the block `sample` that are not decoded yet,  *)
(* `parts` all of them, `got` what the decoder made of the others.         *)
(***************************************************************************)
VARIABLES config, prepared, enc, dec, wire, parts, got, sample, left

vars == << config, prepared, enc, dec, wire, parts, got, sample, left >>

NoSample == 0

Init ==
  /\ \E i \in 1 .. Len(Configs) : config = Configs[i]
  /\ prepared = [i \in 1 .. Len(DictionarySamples) |-> << Prepare(DictionarySamples[i]) >>]
  /\ enc = BeginEncoder(NewCoder, << >>)
  /\ dec = BeginDecoder(<< >>)
  /\ wire = << >> /\ parts = << >> /\ got = << >> /\ sample = NoSample /\ left = MaxBlocks

(* run_one_frame, up to its first block: the dictionary that is set, or none. *)
StartFrame ==
  /\ wire = << >> /\ left > 0
  /\ \E number \in config.dictionaries :
       LET dictionary == IF number = 0 THEN << >> ELSE prepared[number]
       IN enc' = BeginEncoder(enc, dictionary) /\ dec' = BeginDecoder(dictionary)
  /\ parts' = << >> /\ got' = << >> /\ sample' = NoSample
  /\ UNCHANGED << config, prepared, wire, left >>

EncodeBlock ==
  /\ wire = << >> /\ left > 0
  /\ \E i \in config.samples :
       LET out == Compress(config, enc, Samples[i])
       IN enc' = out.enc /\ wire' = out.blocks /\ parts' = out.blocks /\ sample' = i
  /\ got' = << >> /\ left' = left - 1
  /\ UNCHANGED << config, prepared, dec >>

DecodeBlock ==
  /\ wire # << >>
  /\ \E kernel \in Kernels :
       LET out == Decompress(dec, Head(wire), config.far, kernel)
       IN dec' = out.dec /\ got' = Append(got, [ok |-> out.ok, literals |-> out.literals, sequences |-> out.sequences])
  /\ wire' = Tail(wire)
  /\ UNCHANGED << config, prepared, enc, parts, sample, left >>

(* A decode that stops after some blocks and goes on in another decoder. *)
Resume ==
  /\ config.resumes /\ dec # Resumed(dec)
  /\ dec' = Resumed(dec)
  /\ UNCHANGED << config, prepared, enc, wire, parts, got, sample, left >>

Next == StartFrame \/ EncodeBlock \/ DecodeBlock \/ Resume

Spec == Init /\ [][Next]_vars


(***************************************************************************)
(* Between two blocks every table and offset the encoder may refer to in   *)
(* the next one is what the decoder holds, though a stored block leaves    *)
(* the decoder alone and costs the encoder what it built                   *)
(* (commit_block_tables, discard_block_tables).                            *)
(***************************************************************************)
TablesAgree == wire = << >> => SameTables(enc, dec)

(***************************************************************************)
(* The literals of a part take what the splitter would price them at from  *)
(* the same tables, to the byte (estimate_literals_section_bytes).         *)
(***************************************************************************)
LiteralsPricedExactly ==
  \A i \in 1 .. Len(wire) : wire[i].raw \/ Price(config, wire[i]) = LiteralsTaken(wire[i])

(***************************************************************************)
(* The parts of a split block follow one another in it without gap or      *)
(* overlap: each regenerates the size reported for it, begins where the    *)
(* parts before it end, and together they are the block                    *)
(* (compress_block_with_post_split).                                       *)
(***************************************************************************)
RECURSIVE Joined(_, _)
Joined(list, field) == IF list = << >> THEN << >> ELSE Head(list)[field] \o Joined(Tail(list), field)

RECURSIVE Matched(_)
Matched(sequences) == IF sequences = << >> THEN 0 ELSE Head(sequences).ml + Matched(Tail(sequences))

RECURSIVE Abut(_, _)
Abut(list, start) ==
  list # << >> => /\ Head(list).start = start
                  /\ Head(list).size = Len(Head(list).literals) + Matched(Head(list).sequences)
                  /\ Abut(Tail(list), start + Head(list).size)

BlockTiled ==
  /\ Abut(parts, 0)
  /\ sample # NoSample => /\ Joined(parts, "literals") = Samples[sample].literals
                          /\ Joined(parts, "sequences") = Samples[sample].sequences
=============================================================================
