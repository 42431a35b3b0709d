SPECIFICATION SpecInOrder
CONSTANTS
    Calls = {1, 2, 3}
    Names = {"dev", "ops"}
    Faults = {"command", "list", "service"}
    Nobody = Nobody
INVARIANTS
    TypeOK
    CreatedHasBox
PROPERTIES
    EarlyReturnHasBox
    PortSpec
    EveryCallReturns
