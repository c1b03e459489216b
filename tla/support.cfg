\* What stands behind an answer: see README, run "support".
SPECIFICATION MCSpec
CHECK_DEADLOCK FALSE
CONSTANTS
    dashboard = dashboard
    cli = cli
    name = name
    project = project
    Programs <- TwoPrograms
    Texts <- TwoTexts
    Importances = {1, 2}
    MaxId = 3
    MaxChunkLines = 4
    MinChunkLines = 3
    MaxHead = 3
    MaxLines = 6
    Files <- MCFiles
    Embedders <- MCEmbedders
    DefaultEmbedder = "hash256"
    Batch = 1
    MaxTotalChunks = 3
    MaxEdits = 1
    TypedMax = 4
    ChunkTypes <- MCTypes
    MaxRepo = 3
    Ks = {1, 3}
    Budgets = {0, 110, 200, 300, 420}
    Header = 20
    WordMax = 5
    Configs <- MCConfigs
    Growth <- MCGrowth
    Spikes = {2}
    RunSteps = 2
    MaxStep = 2
    Policies <- MCPolicies
    Encodings <- MCEncodings
    GroupSize = 4
    Lanes = 2
    MaxGroups = 3
    Nibbles <- MCNibbles
    ByteCodes <- MCBytes
    Activations <- MCActs
    Samples <- MCSamples
    Mantissas <- MCMantissas
    Tails <- MCTails
    MaxReply = 4
    MaxMembers = 4
    MaxCutMembers = 2
    MaxNesting = 3
    Limit = 2
    KeepMax = 2
    Stages = 2
    MaxWrites = 3
    MaxClock = 5
    Corpora <- MCCorpora
    MinPairFreq = 2
    MaxMerges = 3
    TypedMerges <- MCTypedMerges
    MaxText = 4
    Sizes = {5, 24}
    MinText = 6
    MinBin = 4
    TextShare = 3
    BinShare = 4
    Weights = {0, 30, 120}
    MaxSources = 2
    Windows = {2, 5}
    BatchRows = 2
    Rounds = 3
    MaxSequences = 4
    Pools <- MCPools
    SamplesPerRound = 3
    KeepBest = 2
    BufferCap = 3
    HashCap = 2
    TakeMax = 2
    Answers = {1, 2}
    Scores = {1, 2}
    MaxSampleRounds = 2
    MaxSpan = 3
    MaxSeed = 5
    NumSources = 3
    Deltas <- MCDeltas
    Size = 3
    Stalenesses = {0, 1}
    Passing <- MCPassing
    PassBase = 2
    KeepCount = 2
    Importance <- MCImportance
    MaxMerged = 3
    Shown = {"s1", "s2", "s3"}
    MaxEntries = 2
    MaxTyped = 5
    Avail = 6
    Widths = {2, 3, 8}
    PagePieces = {"x", " ", "nl", "p", "b", "script", "/script", "!--", "--", "<", "&"}
    MaxPage = 4
    ProseChars = {"1", ".", "nl", ",", " "}
    LongComma = 2
    MaxProse = 5
    Sentences <- MCSentences
    MaxSentences = 4
    Rooms = {2, 5, 8, 12}
    Found <- MCFound
    MaxFound = 3
    Wanted = {0, 1, 2, 5}

SYMMETRY Alike

INVARIANTS
    MemorySound
    IndexIsTrue
    ProcessesSound
    KernelsAgree
    SelfGenSound
    FilesSound
    PartsSound
PROPERTIES
    KeepsPromise
