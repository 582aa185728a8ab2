SPECIFICATION Spec
CONSTANTS
    buy = buy
    sell = sell
    acct1 = acct1
    Proposal = {buy}
    Account = {acct1}
    AccountOf <- SameAccount
    Timed = {buy}
    Worker = {w1, w2}
    None = None
    MaxCopies = 2
    MaxSession = 2
    MaxOrder = 2
    MaxReports = 1
    MaxExpiry = 1
    MaxFaults = 1
SYMMETRY Symmetry
INVARIANTS
    OneOrderPerKey
    
    BehindForAReason
PROPERTIES
    TimersEndForAReason
CHECK_DEADLOCK FALSE
