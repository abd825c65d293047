SPECIFICATION FairSpec
CONSTANTS
    Workers = {w1}
    NULL = NULL
    MaxExits = 2
    MaxQuantity = 2
    MaxCrashes = 1
INVARIANT SalesWithinInventory
 
CHECK_DEADLOCK FALSE
