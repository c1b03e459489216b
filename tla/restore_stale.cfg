\* Violated: a restore of a snapshot that is no longer the best.
CONSTANTS
    w0 = w0
    w1 = w1
    w2 = w2
    w3 = w3
    w4 = w4
    w5 = w5
    w6 = w6
    w7 = w7
    w8 = w8
    w9 = w9
    w10 = w10
    continual = continual
    feedback = feedback
    Weights <- BetterWeights
    InitWeights = w0
    Langs <- ThreeLangs
    HoldLoss <- BetterHoldLoss
    LangLoss <- BetterLangLoss
    Collapsed = {}
    LangCollapsed = {}
    PerLanguageGate = TRUE
    AcceptTolerance = 1
    RegressionBudget = 2
    Alphas <- OneAlpha
    AlphaUnit = 1
    RateBurst = 1
    Refills = {1}
    Rels = {1}
    SaveEvery = 2
    MaxDiskBackups = 1
    FisherEvery = 2
    Sources <- OneSource
    QueueCap = 1
    MaxRounds = 2
    MaxVersion = 2

SPECIFICATION Spec

INVARIANTS
    SessionRatchet
