SPECIFICATION Spec
CONSTANTS
    FixedBits = 30
    SuspectSampleSize = 8
    MaxU32 = 2000000000
    SumCeiling = 600
    StartReps <- DefaultHistory
    MinSplitSequences = 6
    MaxSplits = 2
    NewCoder <- NewEncoder
    Prepare <- PrepareDictionary
    BeginEncoder <- StartEncoder
    BeginDecoder <- StartDecoder
    Compress <- CompressBlock
    Decompress <- DecompressBlock
    Resumed <- ResumeDecoder
    Price <- PriceLiterals
    LiteralsTaken <- LiteralsBytes
    SameTables <- Agreeing
    Configs <- MCConfigs
    Samples <- MCSamples
    DictionarySamples <- MCDictionarySamples
    Kernels = {"scalar", "avx2", "vbmi2"}
    MaxBlocks = 3
INVARIANTS
    
    TablesAgree
    LiteralsPricedExactly
    BlockTiled
CHECK_DEADLOCK FALSE
