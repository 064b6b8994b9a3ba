SPECIFICATION Spec
CONSTANTS
    Accounts = {a1, a2}
    Publishers = {p1, p2}
    Detectors = {d1, d2}
    Orders = {o1}
    Limits <- SafetyLimits
SYMMETRY Symmetry
INVARIANTS
    TypeOK
    SoldIsOffMarket
    EndedIsDown
    LiveIsKnown
CHECK_DEADLOCK FALSE
