SPECIFICATION Spec
CONSTANTS
    first = first
    second = second
    Calls = {first, second}
    RetrySettings = {0, 1, 3}
    Headers <- SomeHeaders
    Unreadable = Unreadable
    NoClient = NoClient
INVARIANTS
    CompletionInv
    WaitsAsAsked
    GivesUpWithReason
    ClientSettles
PROPERTIES
    EveryCallEnds
CHECK_DEADLOCK FALSE
