\* A cancel between the worker's last look at the flag and its request.
CONSTANTS
    page1 = page1
    page2 = page2
    Calls <- Pages
    Tools <- WebTool
    Risks <- WebRisk
    ToolOf <- PageTool
    RiskOf <- ToolRisk
    KeyOf <- PageKey
    WebCalls <- Pages
    MaxToolSteps = 1
    MaxBatch = 2
    MaxPlanned = 2
    MaxAsks = 1

\* The program ends when the window is closed.
CHECK_DEADLOCK FALSE

SPECIFICATION Spec

INVARIANT
    CancelNeverParks
