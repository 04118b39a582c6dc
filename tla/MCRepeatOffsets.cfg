CONSTANTS
    Offset = {1, 3, 4}
    DictHistories <- MCDictHistories
    MaxU32 = 15
    MaxSequences = 2
SPECIFICATION OffsetsSpec
INVARIANTS
    LockStep
    OffsetsRoundTrip
    RolledBackWithItsHistory
