SPECIFICATION Spec
CONSTANTS
    i1 = i1
    i2 = i2
    acme = acme
    first = first
    second = second
    Key <- Keys
    TenantOf <- OneTenant
    Chain <- Chains
    Invocation = {i1, i2}
    MaxAttempts = 2
    FailureThreshold = 2
    SuccessThreshold = 2
    HalfOpenMaxCalls = 1
INVARIANTS
    SlotsAreHeldOrLeaked
    NoSurge
PROPERTIES
    ChangesForCause
