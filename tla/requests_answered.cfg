SPECIFICATION FairSpec
CONSTANTS
    s1 = s1
    s2 = s2
    s3 = s3
    c1 = c1
    c2 = c2
    Sessions = {s1, s2, s3}
    Customers = {c1, c2}
    CustomerOf <- ThreeTabs
    Queries <- EachWay
    ReadIntents = {}
    NoAction = NoAction
    MaxTurns = 3
    MaxTabs = 2
    MaxRestarts = 1
INVARIANTS
    ThreadInv
PROPERTIES
    KeepsShared
    EveryRequestAnswered
    ConfirmationHonoured
CONSTRAINT
    TogetherBook
CHECK_DEADLOCK FALSE
