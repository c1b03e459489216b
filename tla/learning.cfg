\* Sessions with a user, an autopilot and both trainers, up to their shutdown.
CONSTANTS
    ask1 = ask1
    ask2 = ask2
    MaxAsks = 2
    MaxRatings = 2
    Prompts <- MCPrompts
    PromptOf <- MCPromptOf
    Answers = {"yes"}
    Failure = "failed"
    Scores = {1, 5}
    HistoryCap = 1
    HubCap = 2
    MaxPolls = 1
    DrainMax = 1
    MinSamples = 2
    BufferCap = 1
    LocalSteps = 1
    GoodScore = 4
    MinGap = 1
    BankCap = 1

SPECIFICATION FairSpec

INVARIANTS
    QuestionsInOrder
    TextsOnce
    BankCounted
    LatestRatingWins

PROPERTIES
    TextsReachTraining
    ShutdownCompletes

\* A session that has been shut down is over.
CHECK_DEADLOCK FALSE
