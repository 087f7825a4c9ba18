SPECIFICATION FairSpec
CONSTANTS
    s1 = s1
    s2 = s2
    s3 = s3
    c1 = c1
    c2 = c2
    Sessions = {s1}
    Customers = {c1}
    CustomerOf <- OneTab
    Queries <- AllMessages
    ReadIntents = {"menu"}
    NoAction = NoAction
    MaxTurns = 2
    MaxTabs = 1
    MaxRestarts = 0
PROPERTIES
    SkippedOnlyIfRejected
CHECK_DEADLOCK FALSE
