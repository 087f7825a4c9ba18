SPECIFICATION ConfirmedSpec
CONSTANTS
    table = table
    NoSlot = NoSlot
    Slots = {table}
    Exclusive = {table}
    Calls = {"book", "lookup"}
    Confirmed = {"book"}
    SlotOf <- TableOf
    LooksFor <- LooksForNobody
    Verdict <- VerdictOn
    NotFoundOk <- Lookups
    max_retries = 3
    DiskMayFail = TRUE
INVARIANTS
    RequestInv
    FirstAnswerIsTrue
    WaitsDouble
    RememberedWasMade
PROPERTIES
    AtMostSoOften
    EveryCallReturns
CHECK_DEADLOCK FALSE
