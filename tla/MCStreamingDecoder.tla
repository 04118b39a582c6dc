------------------------- MODULE MCStreamingDecoder -------------------------
(* Streams small enough to enumerate, and every place a source may end in them. *)
EXTENDS StreamingDecoder, SampleStreams

CeilingStreams ==
  << <<Asking("window", <<Raw(<<1, 2, 3>>, FALSE), Compressed(1, <<4, 5>>, FALSE), Rle(6, 2, TRUE)>>)>>,
     <<Frame(<<Raw(<<1>>, TRUE)>>), Asking("window", <<Compressed(2, <<2, 3>>, FALSE), Raw(<<4>>, TRUE)>>)>> >>

AllStreams == (SoundStreams \o WrongStreams) \o CeilingStreams
=============================================================================
