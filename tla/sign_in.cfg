SPECIFICATION SignInSpec
CONSTANTS
    i1 = i1
    i2 = i2
    badName = badName
    badPhone = badPhone
    ada = ada
    malformed = malformed
    NoSlot = NoSlot
    Slots = {ada, malformed}
    Exclusive = {ada}
    SignIns = {i1, i2, badName, badPhone}
    Regulars = {}
    Parties <- Couples
    ContactOf <- TheContact
    Calls <- SessionCalls
    SlotOf <- TheSlot
    LooksFor <- TheSearch
    Verdict <- TheVerdict
    NotFoundOk <- TheLookups
    max_retries = 1
INVARIANTS
    SignInInv
    RefusedWithReason
    KnownCustomerIsFound
    SameCustomerAgain
PROPERTIES
    KeepsRegister
    EverySignInEnds
CHECK_DEADLOCK FALSE
