SPECIFICATION FairSpec
CONSTANTS
    Accounts = {a1, a2}
    Publishers = {p1}
    Detectors = {d1}
    Orders = {o1}
    Limits <- LostLimits
PROPERTY
    SaleDelists
CHECK_DEADLOCK FALSE
