SPECIFICATION Spec
CONSTANTS
    MinMatch = 3
    HashReadSize = 5
    FastMls = 4
    FastStepIncr = 2
    FastStepIncrDict = 2
    MinDictMatch = 4
    EpochCeiling = 80
    RawSkipStep = 3
    SkipSeam = 1
    LongMatchTail = 4
    PrimedCeiling = 100
    DfShortKey = 4
    DfMinMatch = 4
    DfSkipStep = 3
    DfTaggedMaxRel = 80
    DfTaggedRebase = 32
    DfBareMaxRel = 120
    DfBareRebase = 32
    FloorCeiling = 96
    DfLongTail = 4
    DfPrimedCeiling = 100
    DfStepInterval = 2
    DfFillStepMax = 3
    BaseSlice = 18
    FastPrimedTail = 4
    RowTagValues = 3
    RowSkipStep = 3
    RowMinMatch = 4
    RowMaxPos = 120
    RowFloorCeiling = 96
    RowPrimedCeiling = 100
    RowLongTail = 4
    SortCompareCap = 6
    RowGap = 6
    LazyGapMax = 3
    RowHashCache = 2
    RowGapStart = 2
    RowGapEnd = 2
    LazyStrength = 4
    LazySkipping = 1
    HcMaxRel = 90
    HcFloorCeiling = 64
    HcPrimedCeiling = 100
    HcSkipStep = 3
    HcMinMatch = 4
    LongGap = 6
    LongTail = 3
    DmsDepth = 4
    OptNum = 16
    Hc3MaxOffset = 6
    MaxLit = 9
    MaxLL = 18
    MaxML = 18
    MaxOff = 7
    PredefThreshold = 14
    LitSample = 4
    LitTarget = 4
    CodeTarget = 3
    LitScale = 11
    CodeScale = 10
    DictReach = 12
    LdmMinMatch = 5
    NewMatcher <- DriverNew
    OpenFrame <- Begin
    TakeInput <- Borrow
    StartMatching <- Search
    SkipMatching <- Skip
    CloseFrame <- Finish
    ForgetDictionary <- InvalidatePrimed
    LongParses <- LongLists
    Admits <- Usual
    Frames <- MCFrames
    Dicts <- MCDicts
    Blocks <- MCBlocks
    MaxBlocks = 3
    MaxInput = 3
    Unusual = {}
INVARIANTS
    
    OffsetsInReach
    
    
CHECK_DEADLOCK FALSE
