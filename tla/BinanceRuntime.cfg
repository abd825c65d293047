SPECIFICATION FairSpec
CONSTANTS
    Processes = {p1, p2}
    NULL = NULL
INVARIANT TypeOK
INVARIANT OneWriter
 
INVARIANT ArmedUnderLock
PROPERTY LiveRequestKept
PROPERTY StopRequestHonoured
CHECK_DEADLOCK FALSE
