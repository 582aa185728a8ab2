SPECIFICATION FairSpec
CONSTANTS
    buy = buy
    acct = acct
    Proposal = {buy}
    Account = {acct}
    AccountOf <- OneAccount
    None = None
    Request = {s1}
    Relay = {r1}
    BatchSize = 1
    MaxAttempts = 2
    MaxClock = 0
    MaxLost = 1
    Timed = {}
    Worker = {w1}
    MaxCopies = 4
    MaxSession = 2
    MaxOrder = 2
    MaxReports = 1
    MaxExpiry = 0
    MaxFaults = 0
INVARIANTS
    PlacedOnceForARequest
PROPERTIES
    AcceptedReachesAWorker
    QueuesDrain
CHECK_DEADLOCK FALSE
