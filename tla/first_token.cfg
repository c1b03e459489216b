\* Where the first token of a jointly decoded request comes from: see README,
\* run "first_token".
SPECIFICATION GgufSpec
CHECK_DEADLOCK FALSE
CONSTANTS
    voice = voice
    x = x
    y = y
    NSeqMax = 3
    Voices <- MCVoices
    Stateless = none
    GVocab <- MCTokens
    GPrompts <- MCPrompts
    GMaxNew = 2
    Embeddings = FALSE
    MaxBatch = 2
INVARIANT DrawsFromOwnLogits
