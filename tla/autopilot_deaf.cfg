\* Violated: the autopilot gives up on a question that has been answered.
CONSTANTS
    ask1 = ask1
    ask2 = ask2
    MaxAsks = 2
    MaxRatings = 4
    Prompts <- MCPrompts
    PromptOf <- MCPromptOf
    Answers = {"yes"}
    Failure = "failed"
    Scores = {1}
    HistoryCap = 1
    HubCap = 2
    MaxPolls = 1
    DrainMax = 1
    MinSamples = 2
    BufferCap = 1
    LocalSteps = 1
    GoodScore = 4
    MinGap = 1
    BankCap = 1

SPECIFICATION Spec

PROPERTIES
    AnswersAreHeard

CHECK_DEADLOCK FALSE
