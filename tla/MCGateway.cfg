SPECIFICATION GSpecObserved
CONSTANTS
    Requests = {r1}
    Models = {"nemotron", "gpt", "claude", "llama", "other"}
    Providers = {"nvidia", "openai", "anthropic", "ollama"}
    Routers <- ThreeRouters
    Streamers = {"nvidia", "openai", "anthropic"}
    Catalog <- FiveModels
    Default = "nvidia"
    NoProvider = NoProvider
    NoRouter = NoRouter
    Callers = {r1, r2}
    Keys = {"old", "new", "kept"}
    NoKey = NoKey
    Observed = r1
    KeySets <- OneRotation
    Modes = {"keycloak", "mock"}
    AuthFaults = {"fetch"}
INVARIANTS
    GTypeOK
    ChatsAreAuthenticated
    StreamsWellFormed
    FinishIsProviders
    KeptKeysAdmit
PROPERTIES
    EveryCallerServed
