SPECIFICATION SpecObserved
CONSTANTS
    Requests = {r1, r2}
    Observed = r1
    Checks = 2
    MaxClock = 1
    OtherReady = FALSE
INVARIANTS
    TypeOK
    LeftoverExplained
    ReportConsistent
PROPERTIES
    EveryCheckEnds
