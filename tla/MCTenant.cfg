SPECIFICATION SpecInOrder
CONSTANTS
    Requests = {1, 2, 3}
    Tenants = {acme}
    Resources = {"sandboxes", "tokens"}
    Plans = {"free", "pro"}
    PlanQuotas <- TwoRowQuotas
    Amounts <- UpAndDown
    Ops = {"create", "consume", "update", "get"}
    MaxInFlight = 3
    Faults = {"abort"}
    NoRequest = NoRequest
INVARIANTS
    TypeOK
    LockedReadStays
    UsedCountsGrants
    OneCreatePerSlug
    WaitsEnd
PROPERTIES
    GrantsFit
    LedgerSpec
    EveryRequestAnswered
