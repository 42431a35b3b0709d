SPECIFICATION FairSpecInOrder
CONSTANTS
    Requests = {1, 2, 3, 4}
    Tenants = {"globex"}
    Names = {"dev"}
    Registered = {"globex"}
    Limits <- PlanLimits
    Ops = {"create", "stop", "start", "delete", "policy"}
    Adapter = "openshell"
    MakeName <- MadeNames
    Characters <- SomeCharacters
    Plain <- ThirteenPlain
    Lower <- LowerCase
    PrefixLength = 2
    MaxLength = 7
    Faults = {"backend"}
    MaxInFlight = 3
    PoolSize = 2
    Nobody = Nobody
INVARIANTS
    NeverOvercharged
PROPERTIES
    EveryRequestAnswered
