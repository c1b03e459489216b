\* Whole sessions with restores, stops and refills interleaved with the rounds.
CONSTANTS
    w0 = w0
    w1 = w1
    w2 = w2
    w3 = w3
    w4 = w4
    w5 = w5
    w6 = w6
    w7 = w7
    w8 = w8
    w9 = w9
    w10 = w10
    continual = continual
    Weights <- BetterWeights
    InitWeights = w0
    Langs <- ThreeLangs
    HoldLoss <- BetterHoldLoss
    LangLoss <- BetterLangLoss
    Collapsed = {}
    LangCollapsed = {}
    PerLanguageGate = TRUE
    AcceptTolerance = 1
    RegressionBudget = 2
    Alphas <- OneAlpha
    AlphaUnit = 1
    RateBurst = 2
    Refills = {0, 1}
    Rels = {1, 3}
    SaveEvery = 1
    MaxDiskBackups = 1
    FisherEvery = 2
    Sources <- OneSource
    QueueCap = 1
    MaxRounds = 2
    MaxVersion = 3
    MaxAllowance = 3

SPECIFICATION HSpec

INVARIANTS
    RateLimited
    OneCommitPerStop
    NoStalenessUnderflow

PROPERTIES
    ImplementsRegistry
