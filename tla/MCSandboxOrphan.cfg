SPECIFICATION Spec
CONSTANTS
    Requests = {r1, r2, r3, r4}
    Tenants = {"globex"}
    Names = {"dev"}
    Registered = {"globex"}
    Limits <- PlanLimits
    Ops = {"create", "stop", "delete"}
    Adapter = "openshell"
    MakeName <- MadeNames
    Characters <- SomeCharacters
    Plain <- ThirteenPlain
    Lower <- LowerCase
    PrefixLength = 2
    MaxLength = 7
    Faults = {}
    MaxInFlight = 1
    PoolSize = 1
    Nobody = Nobody
SYMMETRY RequestSymmetry
INVARIANTS
    DeletedLeavesNoPod
