SPECIFICATION Spec
CONSTANTS
    None = None
    Bad = Bad
    MaxSize = 1000
    Foreign = {"gz"}
    Real <- MCReal
    Folded <- MCFolded
    DirAt <- MCDirAt
    Unidentified <- MCUnidentified
    MinLevel <- MCMinLevel
    MaxLevel = 4
    PlainMaxLevel = 3
    MebiByte = 16
    DefaultWindow = 8
    WidestWindow = 64
    AuxiliaryBytes = 2
    MinWindowLog = 1
    EncoderWindowLog = 5
    DecoderWindowLog = 6
    DefaultLongWindowLog = 3
    KnobBound = 3
    Mirrored <- MCMirrored
    Compressed = {"zst", "gz"}
    CompressBound <- MCCompressBound
    EncoderWorkspace <- MCEncoderWorkspace
    MinBenchBlock = 2
    SyntheticSize = 5
    TrainingSampleMax = 3
    TrainingDataMax = 20
    TrainingSamplesMin = 5
    SizeEntry = 1
    Scenarios <- MCScenarios
    MaxFaults = 2
    Attempts <- MCAttempts
    TraceBuffer = 3
    Shuffled <- MCShuffled
    TrainerTakes <- MCTrainerTakes
INVARIANTS
    NothingLost
    OutputsWhole
    ExitTells
    
    TraceApart
    
