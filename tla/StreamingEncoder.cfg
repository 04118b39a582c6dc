SPECIFICATION Spec
CONSTANTS
  BlockCapacity = 3
  ContentChecksum = TRUE
  Changes = {2, 6, 8}
  WriteLengths = {0, 1, 2, 7}
  Pledges = {0, 2, 5}
  BadCalls = {0, 1, 2, 3, 4, 5, 6}
  MaxBytes = 10
  MaxEncoders = 3
INVARIANTS DrainHoldsItsFrame
PROPERTIES FailureSticks
CHECK_DEADLOCK FALSE
