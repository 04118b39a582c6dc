\* Every sample stream, whole and cut anywhere; buffers of no byte, one byte and a
\* frame's content; a source that blocks once; a ceiling lowered and raised.
SPECIFICATION Spec
CONSTANTS
  BlockMaximum = 3
  ContentChecksum = "Verify"
  Streams <- AllStreams
  BufferLengths = {0, 1, 3}
  SkipChunk = 2
  RawChunk = 2
  MaxBlocked = 1
  MaxCeilings = 2
INVARIANTS InOrder ReportsAreTrue
PROPERTIES ReadAnswers Finishes
CHECK_DEADLOCK FALSE
