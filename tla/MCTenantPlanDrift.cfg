SPECIFICATION Spec
CONSTANTS
    Requests = {r1, r2, r3}
    Tenants = {acme}
    Resources = {"sandboxes"}
    Plans = {"free", "pro", "enterprise"}
    PlanQuotas <- OneRowQuotas
    Amounts <- JustOne
    Ops = {"update"}
    MaxInFlight = 3
    Faults = {}
    NoRequest = NoRequest
INVARIANT LimitsFollowPlan
