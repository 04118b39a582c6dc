SPECIFICATION Spec
CONSTANTS
  BlockCapacity = 2
  ContentChecksum = TRUE
  Changes = {2, 5}
  BLOCK_SIZE_MAX = 3
  InputLengths = {0, 1, 4}
  OutputLengths = {0, 1, 9}
  Pledges = {2}
  MaxBytes = 5
  MaxFrames = 2
  MaxDictionaries = 2
INVARIANTS FrameHoldsTheInput DictionaryServesItsFrames AnswerTells
PROPERTIES Finishes
CHECK_DEADLOCK FALSE
