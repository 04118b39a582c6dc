SPECIFICATION Spec
CONSTANTS
  BlockMaximum = 3
  ContentChecksum = "Verify"
  Streams <- AllStreams
  InputLengths = {0, 1, 2, 9, 30}
  OutputLengths = {0, 1, 5}
  NoForwardProgressMax = 3
  MaxResets = 1
INVARIANTS InOrder ZeroEndsAFrame
PROPERTIES Finishes
CHECK_DEADLOCK FALSE
