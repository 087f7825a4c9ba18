SPECIFICATION Spec
CONSTANTS
    Words <- Vocabulary
    starts <- Beginnings
    ends <- Endings
    within <- Letters
    MaxWords = 2
INVARIANTS
    RefusalNeverExecutes
CHECK_DEADLOCK FALSE
