\* One worker, one user, every answer, cancel and policy change in between.
CONSTANTS
    page1 = page1
    page2 = page2
    Calls <- Pages
    Tools <- WebTool
    Risks <- WebRisk
    ToolOf <- PageTool
    RiskOf <- ToolRisk
    KeyOf <- PageKey
    WebCalls <- Pages
    MaxToolSteps = 1
    MaxBatch = 2
    MaxPlanned = 2
    MaxAsks = 2

\* The program ends when the window is closed.
CHECK_DEADLOCK FALSE

SPECIFICATION FairSpec

INVARIANTS
    OnlyLiveRequests
    OneToolPerCancel

PROPERTIES
    ConsentBeforeRun
    AnswerIsHonoured
    TurnEnds
