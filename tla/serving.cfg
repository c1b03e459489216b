\* What answers a question: see README, run "serving".
SPECIFICATION MCSpec
CHECK_DEADLOCK FALSE
CONSTANTS
    spt = spt
    olmo = olmo
    N = 3
    Backends <- MCBackends
    BackendOf <- MCBackendOf
    Multiplier <- MCMultiplier
    DraftCap <- MCDraftCap
    Weight <- MCWeight
    Cost <- MCCost
    CanSynthesise <- MCCanSynthesise
    Rounds = 4
    Ideas = {i1, i2}
    Scores <- MCScores
    PeerFloor = 55
    SynthesisFloor = 75
    EscalateMargin = 15
    Cascade = TRUE
    Synthesise = TRUE
    w0 = w0
    w1 = w1
    w2 = w2
    crd = crd
    ui = ui
    trainer = trainer
    chat = chat
    Weights <- MCWeights
    InitWeights = w0
    Writers <- MCWriters
    Trainers <- MCTrainers
    Sessions <- MCSessions
    MaxPublishes = 3
    sess = sess
    voice = voice
    x = x
    y = y
    eot = eot
    Short <- MCShort
    Vocab <- MCVocab
    Eot = eot
    MaxPrompt = 2
    Context = 4
    MaxNewTokens = 2
    Slots <- MCSlots
    NoSlot = none
    NSeqMax = 2
    Voices <- MCVoices
    Stateless = none
    GVocab <- MCTokens
    GPrompts <- MCPrompts
    GMaxNew = 2
    Embeddings = TRUE
    MaxBatch = 2
    Blocks <- MCBlocks
    Lengths <- MCLengths
    News <- MCNews
INVARIANTS
    OneVoicePerRound
    SlotsReleased
    SynthesisGuarded
    TurnsFollowMultiplier
    SkipIsFresh
    ServesCurrent
    SequencesSound
    FitsTheWindow
PROPERTIES
    NobodyVanishes
    EveryDebateEnds
    ReadersCatchUp
