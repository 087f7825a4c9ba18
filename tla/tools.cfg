SPECIFICATION Spec
CONSTANTS
    ada = ada
    bo = bo
    porch = porch
    garden = garden
    hall = hall
    Customers = {ada}
    Others = {bo}
    Tables = {hall, porch, garden}
    table_number <- Numbers
    location <- Whereabouts
    Locations = {"indoor", "outdoor"}
    None = None
    Menu <- TwoDishes
    Names = {"paneer tikka", "paneer"}
    Is <- FullNames
    In <- PartNames
    MaxReservations = 2
INVARIANTS
    ToolsInv
PROPERTIES
    StagedTableIsBest
    UnnamedOrderOnOpenBooking
    FullNameFirst
CHECK_DEADLOCK FALSE
