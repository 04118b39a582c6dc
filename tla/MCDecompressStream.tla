------------------------- MODULE MCDecompressStream -------------------------
(* The C push decoder over the sample streams, whole and cut short. *)
EXTENDS DecompressStream, SampleStreams

AllStreams == SoundStreams \o WrongStreams

\* A block over the frame's maximum, which its header alone gives away.
OversizeStreams == <<WrongStreams[4], WrongStreams[5]>>
=============================================================================
