SPECIFICATION FairSpec
CONSTANTS
    s1 = s1
    s2 = s2
    s3 = s3
    c1 = c1
    c2 = c2
    Sessions = {s1, s2}
    Customers = {c1}
    CustomerOf <- TwoTabs
    Queries <- BookingTalk
    ReadIntents = {}
    NoAction = NoAction
    MaxTurns = 3
    MaxTabs = 2
    MaxRestarts = 0
INVARIANTS
    SettledOnce
SYMMETRY TabSymmetry
CHECK_DEADLOCK FALSE
