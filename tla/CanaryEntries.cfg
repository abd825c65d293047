SPECIFICATION Spec
CONSTANTS
    Signals = {s1, s2}
    Workers = {w1, w2}
    Operators = {o1}
    NULL = NULL
    OrderQuantity = 2
    MaxExposure = 3
    MaxOrders = 4
    MaxGeneration = 2
    MaxLease = 2
SYMMETRY Symmetry
INVARIANT TypeOK
INVARIANT RejectedNeverPosted
INVARIANT PostedAtMostOnce
INVARIANT WorkingOrdersAreHeld
INVARIANT ExposureWithinCap
INVARIANT PostedUnderItsAuthority
CHECK_DEADLOCK FALSE
