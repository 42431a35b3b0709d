SPECIFICATION Spec
CONSTANTS
    Requests = {r1, r2, r3, r4, r5}
    Tenants = {"globex", "glob2"}
    Names = {"dev", "ops"}
    Registered = {"globex", "glob2"}
    Limits <- PlanLimits
    Ops = {"create", "stop", "start", "delete", "policy"}
    Adapter = "k8s"
    MakeName <- MadeNames
    Characters <- SomeCharacters
    Plain <- ThirteenPlain
    Lower <- LowerCase
    PrefixLength = 2
    MaxLength = 7
    Faults = {"backend"}
    MaxInFlight = 1
    PoolSize = 1
    Nobody = Nobody
SYMMETRY RequestSymmetry
INVARIANTS
    CountExact
    LiveWithinLimit
    RunningHasPod
PROPERTIES
    RegistrySpec
