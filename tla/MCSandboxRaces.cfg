SPECIFICATION Spec
CONSTANTS
    Requests = {r1, r2, r3, r4}
    Tenants = {"globex", "initech"}
    Names = {"dev"}
    Registered = {"globex"}
    Limits <- PlanLimits
    Ops = {"create", "stop", "start", "delete", "policy"}
    Adapter = "openshell"
    MakeName <- MadeNames
    Characters <- SomeCharacters
    Plain <- ThirteenPlain
    Lower <- LowerCase
    PrefixLength = 2
    MaxLength = 7
    Faults = {"backend", "http", "db", "crash"}
    MaxInFlight = 3
    PoolSize = 2
    Nobody = Nobody
SYMMETRY RequestSymmetry
INVARIANTS
    TypeOK
    NameUnique
    FailedCreateLeavesNoRow
PROPERTIES
    OwnRowsOnly
    OwnPodsOnly
