CONSTANTS
    Turn = {t1, t2}
    Limit = 4
    MaxIterations = 2
    MaxTokens = 2
    PromptTokens = 1
    CallCost = {0, 5}
    MaxTools = 2

SPECIFICATION FairTurnSpec

INVARIANTS
    AllowanceIsAccounted
    NoCollectiveOverrun
    EndingIsTold

PROPERTIES
    StopStopsWork
    TurnsEnd

CHECK_DEADLOCK FALSE
