\* The ratchet, per language, in a session without restore.
CONSTANTS
    w0 = w0
    w1 = w1
    w2 = w2
    w3 = w3
    w4 = w4
    w5 = w5
    w6 = w6
    w7 = w7
    w8 = w8
    w9 = w9
    w10 = w10
    continual = continual
    feedback = feedback
    Weights <- AllWeights
    InitWeights = w0
    Langs <- ThreeLangs
    HoldLoss <- AllHoldLoss
    LangLoss <- AllLangLoss
    Collapsed = {w8}
    LangCollapsed = {w9}
    PerLanguageGate = TRUE
    AcceptTolerance = 1
    RegressionBudget = 2
    Alphas <- TwoAlphas
    AlphaUnit = 2
    RateBurst = 2
    Refills = {0, 1}
    Rels = {2}
    SaveEvery = 2
    MaxDiskBackups = 1
    FisherEvery = 2
    Sources <- OneSource
    QueueCap = 1
    MaxRounds = 3
    MaxVersion = 4

SPECIFICATION SoleWriterSpec

INVARIANTS
    BaselineIsPublished
    BestSnapshotIsBest

PROPERTIES
    ImplementsPromise
