CONSTANTS
    a = a
    b = b
    ann = ann
    r1 = r1
    r2 = r2
    Order = {a, b}
    User = {ann}
    Request = {r1, r2}
    Thread = {t1, t2}
    Owner <- OneUser
    Clicks <- TwoRequestsOrOne
    Days <- Plans
    MaxCallbacks = 2
    MaxFaults = 1

SPECIFICATION FairSpec

INVARIANTS
    MoneyIsUsedOnce
    MembershipIsBought
    OneOrderPerRequest
    UnpaidIsTimed

PROPERTIES
    OrdersMoveForward
    RefundsAreMade

CHECK_DEADLOCK FALSE
