SPECIFICATION Spec
CONSTANTS
    Words <- Vocabulary
    starts <- Beginnings
    ends <- Endings
    within <- Letters
    MaxWords = 4
INVARIANTS
    AnswerIsTaken
    LeastAmbiguousFirst
CHECK_DEADLOCK FALSE
