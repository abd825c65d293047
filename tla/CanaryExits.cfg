SPECIFICATION Spec
CONSTANTS
    Workers = {w1, w2}
    NULL = NULL
    MaxExits = 1
    MaxQuantity = 2
    MaxCrashes = 1
INVARIANT TypeOK
INVARIANT RejectedNeverPosted
INVARIANT BooksAgree
PROPERTY FinalStaysFinal
CHECK_DEADLOCK FALSE
