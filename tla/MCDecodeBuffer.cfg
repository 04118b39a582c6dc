\* Frames of up to four bytes, blocks of up to two, windows of one and three, with
\* and without a dictionary of two bytes.
CONSTANTS
  a = a
  b = b
  Byte = {a, b}
  Dict <- DictContent
  Windows = {1, 3}
  BlockLimit = 2
  MaxFrame = 4
  MixedCalls = FALSE
SPECIFICATION Spec
INVARIANTS OutputInOrder WindowKept LegalSequencesExecute
PROPERTIES SequenceIsLZ77
