SPECIFICATION FairSpec
CONSTANTS
    MaxRows = 2
    MaxResult = 4
    None = None
INVARIANTS
    AnswerIsWhole
    ErrorSaysWhy
PROPERTIES
    QueryReturns
CHECK_DEADLOCK FALSE
