SPECIFICATION FairSpec
CONSTANTS
    m1 = m1
    Message = {m1}
    Capacity = 3
    MaxAttempts = 3
    MaxContent <- Long
CHECK_DEADLOCK FALSE
INVARIANTS
    MissesOnlyContent
PROPERTIES
    AbandonedTurnsStop
    OnlyErrorsHoldThePage
