\* Rounds and the queue make progress, whatever restore and the stop do.
CONSTANTS
    w0 = w0
    w1 = w1
    w2 = w2
    w3 = w3
    w4 = w4
    w5 = w5
    w6 = w6
    w7 = w7
    w8 = w8
    w9 = w9
    w10 = w10
    continual = continual
    feedback = feedback
    Weights <- WorseWeights
    InitWeights = w0
    Langs <- ThreeLangs
    HoldLoss <- WorseHoldLoss
    LangLoss <- WorseLangLoss
    Collapsed = {}
    LangCollapsed = {}
    PerLanguageGate = TRUE
    AcceptTolerance = 1
    RegressionBudget = 2
    Alphas <- TwoAlphas
    AlphaUnit = 2
    RateBurst = 1
    Refills = {1}
    Rels = {1}
    SaveEvery = 1
    MaxDiskBackups = 1
    FisherEvery = 1
    Sources <- TwoSources
    QueueCap = 2
    MaxRounds = 1
    MaxVersion = 2

SPECIFICATION FairSpec

PROPERTIES
    RoundTerminates
    QueueDrains
