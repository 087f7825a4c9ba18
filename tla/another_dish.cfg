SPECIFICATION Spec
CONSTANTS
    ada = ada
    bo = bo
    hall = hall
    porch = porch
    garden = garden
    Customers = {ada}
    Others = {bo}
    Tables = {hall}
    table_number <- Numbers
    location <- Whereabouts
    Locations = {"indoor", "outdoor"}
    None = None
    Menu <- TwoDishes
    Names = {"paneer tikka", "paneer"}
    Is <- FullNames
    In <- PartNames
    MaxReservations = 1
INVARIANTS
    OrderedAsNamed
CHECK_DEADLOCK FALSE
