SPECIFICATION Spec
CONSTANTS
    Signals = {s1}
    Workers = {w1}
    Operators = {o1, o2}
    NULL = NULL
    OrderQuantity = 1
    MaxExposure = 1
    MaxOrders = 2
    MaxGeneration = 2
    MaxLease = 1
PROPERTY KillLatchHolds
CHECK_DEADLOCK FALSE
