SPECIFICATION Spec
CONSTANTS
    Requests = {r1, r2, r3}
    Tenants = {"globex"}
    Names = {"dev", "ops"}
    Registered = {"globex"}
    Limits <- PlanLimits
    Ops = {"create"}
    Adapter = "openshell"
    MakeName <- MadeNames
    Characters <- SomeCharacters
    Plain <- ThirteenPlain
    Lower <- LowerCase
    PrefixLength = 2
    MaxLength = 7
    Faults = {}
    MaxInFlight = 3
    PoolSize = 3
    Nobody = Nobody
SYMMETRY RequestSymmetry
INVARIANTS
    LiveWithinLimit
