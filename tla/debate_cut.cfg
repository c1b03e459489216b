SPECIFICATION Spec
CHECK_DEADLOCK FALSE
CONSTANTS
    spt = spt
    olmo = olmo
    N = 3
    Backends <- MCBackends
    BackendOf <- MCBackendOf
    Multiplier <- MCMultiplier
    DraftCap <- MCDraftCap
    Weight <- MCWeight
    Cost <- MCCost
    CanSynthesise <- MCCanSynthesise
    Rounds = 4
    Ideas = {i1, i2}
    Scores <- MCScores
    PeerFloor = 55
    SynthesisFloor = 75
    EscalateMargin = 15
    Cascade = TRUE
    Synthesise = TRUE
PROPERTY
    AlwaysRepresented
