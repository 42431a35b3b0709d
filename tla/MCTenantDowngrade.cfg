SPECIFICATION Spec
CONSTANTS
    Requests = {r1, r2, r3}
    Tenants = {acme}
    Resources = {"sandboxes"}
    Plans = {"free", "pro"}
    PlanQuotas <- OneRowQuotas
    Amounts <- JustOne
    Ops = {"consume", "update"}
    MaxInFlight = 3
    Faults = {}
    NoRequest = NoRequest
INVARIANT UseFitsPlan
