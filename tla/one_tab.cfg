SPECIFICATION HistorySpec
CONSTANTS
    s1 = s1
    s2 = s2
    s3 = s3
    c1 = c1
    c2 = c2
    Sessions = {s1}
    Customers = {c1}
    CustomerOf <- OneTab
    Queries <- AllMessages
    ReadIntents = {"menu"}
    NoAction = NoAction
    MaxTurns = 4
    MaxTabs = 1
    MaxRestarts = 1
INVARIANTS
    HistoryInv
    OneTabInv
    AskedOrFailed
    ToolResultsFresh
    SummaryMatchesStaged
    DoneAnswerIsFresh
    EpisodesTruthful
    ExecutedInLaterTurn
    SettledOnce
PROPERTIES
    ReplyShowsItsTurn
    TraceAppended
    PendingNeverReplaced
    Refinement
CHECK_DEADLOCK FALSE
