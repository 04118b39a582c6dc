---------------------------- MODULE SampleStreams ----------------------------
(* Streams small enough to enumerate, for the models of the stream decoders: *)
(* sound ones, and ones that are wrong in each way a decoder must notice.    *)
EXTENDS FrameDecoder

Raw(bytes, last) == BlockHeader("Raw", Len(bytes), last, bytes, FALSE)
Rle(byte, n, last) == BlockHeader("RLE", n, last, [i \in 1 .. n |-> byte], FALSE)
Compressed(size, out, last) == BlockHeader("Compressed", size, last, out, FALSE)
Damaged(size, out, last) == BlockHeader("Compressed", size, last, out, TRUE)
BadType(last) == BlockHeader("Reserved", 0, last, << >>, FALSE)

Frame(blocks) == [header |-> FrameHeader(6, FALSE, {}, "nothing"), blocks |-> blocks, checksum |-> << >>]
Sized(n, blocks) == [header |-> FrameHeader(7, FALSE, {n}, "nothing"), blocks |-> blocks, checksum |-> << >>]
Summed(of, blocks) == [header |-> FrameHeader(6, TRUE, {}, "nothing"), blocks |-> blocks, checksum |-> of]
Asking(asks, blocks) == [header |-> FrameHeader(6, FALSE, {}, asks), blocks |-> blocks, checksum |-> << >>]
Skippable(n) == [header |-> SkipHeader(n), blocks |-> << >>, checksum |-> << >>]
NoFrameAtAll == [header |-> [t |-> "junk", length |-> 5], blocks |-> << >>, checksum |-> << >>]

SoundStreams ==
  << <<Summed(<<1, 2, 3>>, <<Raw(<<1, 2, 3>>, TRUE)>>), Frame(<<Rle(4, 2, TRUE)>>)>>,
     <<Summed(<<1, 2, 3, 4>>, <<Compressed(2, <<1, 2, 3, 4>>, FALSE), Raw(<< >>, TRUE)>>), Skippable(3)>>,
     <<Skippable(0), Frame(<<Raw(<< >>, TRUE)>>), Summed(<<1, 2>>, <<Compressed(1, <<1, 2>>, TRUE)>>)>>,
     <<Sized(2, <<Rle(1, 1, FALSE), Raw(<<2>>, TRUE)>>), Summed(<< >>, <<Compressed(2, << >>, TRUE)>>)>> >>

WrongStreams ==
  << <<Summed(<<1, 1>>, <<Raw(<<1, 2>>, TRUE)>>), Frame(<<Raw(<<3>>, TRUE)>>)>>,
     <<Frame(<<Raw(<<1>>, TRUE)>>), Sized(3, <<Rle(2, 2, TRUE)>>)>>,
     <<Frame(<<Raw(<<1>>, FALSE), BadType(TRUE)>>)>>,
     <<Frame(<<Raw(<<1>>, FALSE), Rle(2, 4, TRUE)>>)>>,
     <<Frame(<<Compressed(1, <<1>>, FALSE), Raw(<<2, 2, 2, 2>>, TRUE)>>)>>,
     <<Frame(<<Rle(1, 1, FALSE), Compressed(4, <<2>>, TRUE)>>)>>,
     <<Frame(<<Compressed(1, <<1, 2>>, FALSE), Damaged(2, <<3>>, TRUE)>>)>>,
     <<Frame(<<Rle(1, 2, TRUE)>>), Asking("dictionary", <<Raw(<<2>>, TRUE)>>)>>,
     <<Frame(<<Rle(1, 2, TRUE)>>), NoFrameAtAll>> >>
=============================================================================
