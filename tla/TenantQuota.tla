---------------------------- MODULE TenantQuota ----------------------------
(***************************************************************************)
(* The tenant service: tenants, their plans and their quota rows, under    *)
(* concurrent requests.                                                    *)
(*                                                                         *)
(* Every request runs in one database transaction (db.get_session).  An    *)
(* exception of the handler rolls it back before the error is answered.  A *)
(* handler that returns has its answer sent first: the session's exit      *)
(* code, with the flush and the commit, runs after it, and may still fail. *)
(* PostgreSQL runs at READ COMMITTED, so each SELECT sees what is          *)
(* committed when it runs, a SELECT FOR UPDATE or an UPDATE waits for the  *)
(* row's lock, and locks are held until commit or rollback.  One action    *)
(* here is one statement, together with the Python that follows it up to   *)
(* the next await.  The ORM writes only the columns whose value it changed *)
(* with respect to what it loaded, when the session is flushed at commit.  *)
(***************************************************************************)
EXTENDS QuotaRules, FiniteSets, FiniteSetsExt

CONSTANTS Requests,     \* HTTP requests; each runs once
          Tenants,      \* tenants, named by their slug (slugs are never reused)
          Resources,    \* "tokens", "sandboxes"
          Plans,        \* "free", "pro", ...
          PlanQuotas,   \* PlanQuotas[plan][resource]: the limit of a plan
          Amounts,      \* amounts a consume call may carry (negative: release)
          Ops,          \* the operations the requests call
          MaxInFlight,  \* bound: requests that are in flight at once
          Faults,       \* whether a request may be cut off ("abort")
          NoRequest     \* the holder of a free lock

ASSUME PlanQuotasAssumption ==
    /\ \A p \in Plans, res \in Resources : PlanQuotas[p][res] \in Int
    /\ Amounts \subseteq Int
    /\ Ops \subseteq {"create", "consume", "update", "get"}
    /\ NoRequest \notin Requests

VARIABLES known,     \* committed: the tenants that exist
          plan,      \* committed: their plan
          row,       \* committed: their quota rows
          committed, \* the requests whose transaction has committed
          planLock,  \* who holds the row lock of a tenant
          rowLock,   \* who holds the row lock of a quota row
          call,      \* what each request asks for
          pc,        \* the statement each request runs next
          view,      \* the plan and rows each request's session has loaded
          answer     \* the HTTP status each request was answered with

db    == <<known, plan, row, committed>>
locks == <<planLock, rowLock>>
vars  == <<known, plan, row, committed, planLock, rowLock, call, pc, view, answer>>

-----------------------------------------------------------------------------
(* Types *)

Calls ==
    [op : Ops, tenant : Tenants, plan : Plans, resource : Resources, amount : Amounts]

Labels  == {"idle", "slug", "insert", "load", "quotas", "reload", "requotas",
            "write", "rows", "lock", "commit", "done"}
Answers == {0, 200, 201, 402, 404, 409, 422, 500}
Views   == [plan : Plans, row : [Resources -> QuotaRow]]
Holders == Requests \cup {NoRequest}

(* Parameters an operation does not read are fixed, so that a call is one  *)
(* combination of the parameters it does read.                             *)
Relevant(c) ==
    /\ c.op \in {"create", "update"} =>
          /\ c.resource = (CHOOSE res \in Resources : TRUE)
          /\ c.amount = (CHOOSE n \in Amounts : TRUE)
    /\ c.op \in {"consume", "get"} => c.plan = (CHOOSE p \in Plans : TRUE)
    /\ c.op = "get" => c.amount = (CHOOSE n \in Amounts : TRUE)

TypeOK ==
    /\ known \in SUBSET Tenants
    /\ plan \in [Tenants -> Plans]
    /\ row \in [Tenants -> [Resources -> QuotaRow]]
    /\ committed \in SUBSET Requests
    /\ planLock \in [Tenants -> Holders]
    /\ rowLock \in [Tenants -> [Resources -> Holders]]
    /\ call \in [Requests -> Calls]
    /\ pc \in [Requests -> Labels]
    /\ view \in [Requests -> Views]
    /\ answer \in [Requests -> Answers]

-----------------------------------------------------------------------------
InFlight == {r \in Requests : pc[r] \notin {"idle", "done"}}

(* Mutant: a resource without a limit gets no row. *)
FreshLimitedRows(p) ==
    [res \in {res \in Resources : PlanQuotas[p][res] # Unlimited} |->
        [limit |-> PlanQuotas[p][res], used |-> 0]]

(* A fresh tenant on plan p: its limits are the plan's, nothing is used.   *)
FreshRows(p) == [res \in Resources |-> [limit |-> PlanQuotas[p][res], used |-> 0]]

(* Mutant: a refused request keeps its locks. *)
EndLocked(r, status) ==
    /\ pc' = [pc EXCEPT ![r] = "done"]
    /\ answer' = [answer EXCEPT ![r] = status]
    /\ view' = [view EXCEPT ![r] = [plan |-> call[r].plan, row |-> FreshRows(call[r].plan)]]
    /\ UNCHANGED locks

(* The transaction of r ends: its locks are free and r has its answer.     *)
(* Nothing the session loaded survives.                                    *)
End(r, status) ==
    /\ pc' = [pc EXCEPT ![r] = "done"]
    /\ answer' = [answer EXCEPT ![r] = status]
    /\ view' = [view EXCEPT ![r] = [plan |-> call[r].plan, row |-> FreshRows(call[r].plan)]]
    /\ planLock' = [t \in Tenants |->
          IF planLock[t] = r THEN NoRequest ELSE planLock[t]]
    /\ rowLock' = [t \in Tenants |-> [res \in Resources |->
          IF rowLock[t][res] = r THEN NoRequest ELSE rowLock[t][res]]]

(* r goes on to its next statement. *)
Goto(r, label) ==
    /\ pc' = [pc EXCEPT ![r] = label]
    /\ UNCHANGED answer

Init ==
    /\ call \in [Requests -> {c \in Calls : Relevant(c)}]
    /\ known \in SUBSET Tenants
    /\ plan \in [Tenants -> Plans]
    /\ row = [t \in Tenants |-> FreshRows(plan[t])]
    /\ committed = {}
    /\ planLock = [t \in Tenants |-> NoRequest]
    /\ rowLock = [t \in Tenants |-> [res \in Resources |-> NoRequest]]
    /\ pc = [r \in Requests |-> "idle"]
    /\ view = [r \in Requests |-> [plan |-> call[r].plan, row |-> FreshRows(call[r].plan)]]
    /\ answer = [r \in Requests |-> 0]

(* A request arrives and its handler starts. *)
First == [create |-> "slug", consume |-> "lock", update |-> "load", get |-> "load"]

Arrive(r) ==
    /\ pc[r] = "idle"
    /\ Cardinality(InFlight) < MaxInFlight
    /\ Goto(r, First[call[r].op])
    /\ UNCHANGED <<db, locks, call, view>>

(* The status of a handler that returns. *)
Success == [create |-> 201, consume |-> 200, update |-> 200, get |-> 200]

(* The handler has returned: its answer goes out, the flush and the commit *)
(* are still to come.                                                      *)
Respond(r) ==
    /\ pc[r] \in {"commit", "write"}
    /\ answer[r] = 0
    /\ answer' = [answer EXCEPT ![r] = Success[call[r].op]]
    /\ UNCHANGED <<db, locks, call, pc, view>>

(* The answer is out, and the transaction of r commits. *)
Commit(r) ==
    /\ answer[r] # 0
    /\ committed' = committed \cup {r}
    /\ End(r, answer[r])

(* Mutant: SELECT without FOR UPDATE. *)
RowUnchecked(t, res) == TRUE

(* The lock of a quota row is free, so a statement that asks for it goes on. *)
RowFree(t, res) == rowLock[t][res] = NoRequest

-----------------------------------------------------------------------------
(* POST /tenants *)

(* slug_exists: a taken slug is answered 409. *)
CheckSlug(r) ==
    /\ pc[r] = "slug"
    /\ \/ /\ call[r].tenant \in known
          /\ End(r, 409)
          /\ UNCHANGED <<db, call>>
       \/ /\ call[r].tenant \notin known
          /\ Goto(r, "insert")
          /\ UNCHANGED <<db, locks, call, view>>

(* Mutant: no unique index on the slug. *)
SlugNeverClaimed(r) == FALSE

(* Another open transaction has inserted the same slug: the unique index   *)
(* makes this insert wait for its end.                                     *)
SlugClaimed(r) ==
    \E o \in Requests \ {r} :
        /\ call[o].op = "create"
        /\ call[o].tenant = call[r].tenant
        /\ pc[o] = "commit"

(* The insert of the tenant and of its quota rows.  A slug that was        *)
(* committed since the check raises IntegrityError, which nobody catches.  *)
InsertTenant(r) ==
    /\ pc[r] = "insert"
    /\ ~SlugClaimed(r)
    /\ \/ /\ call[r].tenant \in known
          /\ End(r, 500)
          /\ UNCHANGED <<db, call>>
       \/ /\ call[r].tenant \notin known
          /\ Goto(r, "commit")
          /\ UNCHANGED <<db, locks, call, view>>

CommitCreate(r) ==
    /\ pc[r] = "commit"
    /\ call[r].op = "create"
    /\ known' = known \cup {call[r].tenant}
    /\ plan' = [plan EXCEPT ![call[r].tenant] = call[r].plan]
    /\ row' = [row EXCEPT ![call[r].tenant] = FreshRows(call[r].plan)]
    /\ Commit(r)
    /\ UNCHANGED call

-----------------------------------------------------------------------------
(* Statements shared by GET .../quota/{resource} and PATCH /tenants/{id}   *)

(* get_by_id, its SELECT of the tenant.  An update calls it twice: what    *)
(* the validation loaded has left the session's weak identity map by the   *)
(* time update() loads again.                                              *)
LoadTenant(r) ==
    /\ pc[r] \in {"load", "reload"}
    /\ \/ /\ call[r].tenant \notin known
          /\ End(r, 404)
          /\ UNCHANGED <<db, call>>
       \/ /\ call[r].tenant \in known
          /\ pc[r] = "load"
          /\ Goto(r, "quotas")
          /\ UNCHANGED <<db, locks, call, view>>
       \/ /\ call[r].tenant \in known
          /\ pc[r] = "reload"
          /\ view' = [view EXCEPT ![r].plan = plan[call[r].tenant]]
          /\ Goto(r, "requotas")
          /\ UNCHANGED <<db, locks, call>>

(* get_by_id, its second SELECT (selectinload of the quotas).  A GET only  *)
(* wanted to know that the tenant exists; an update checks, unlocked, that *)
(* what is in use fits the new plan.                                       *)
LoadQuotas(r) ==
    LET target == PlanQuotas[call[r].plan]
        fits   == \A res \in Resources :
                     FitsLimit(row[call[r].tenant][res].used, target[res])
    IN
    /\ pc[r] = "quotas"
    /\ \/ /\ call[r].op = "update" /\ ~fits
          /\ End(r, 422)
          /\ UNCHANGED <<db, call>>
       \/ /\ call[r].op = "update" /\ fits
          /\ Goto(r, "reload")
          /\ UNCHANGED <<db, locks, call, view>>
       \/ /\ call[r].op = "get"
          /\ Goto(r, "lock")
          /\ UNCHANGED <<db, locks, call, view>>

-----------------------------------------------------------------------------
(* PATCH /tenants/{id}: update(), then the flush and the commit *)

(* update()'s own load of the quotas.  The plan and the limits are set     *)
(* only when the plan differs from the one loaded.                         *)
ReloadQuotas(r) ==
    /\ pc[r] = "requotas"
    /\ view' = [view EXCEPT ![r].row = row[call[r].tenant]]
    /\ Goto(r, IF view[r].plan = call[r].plan THEN "commit" ELSE "write")
    /\ UNCHANGED <<db, locks, call>>

(* The quota rows whose limit the session changed. *)
Dirty(r) ==
    {res \in Resources : PlanQuotas[call[r].plan][res] # view[r].row[res].limit}

(* Mutant: the quota rows are written before the tenant's row is. *)
WritePlanUnlocked(r) ==
    /\ pc[r] = "write"
    /\ answer[r] # 0
    /\ Goto(r, "rows")
    /\ UNCHANGED <<db, locks, call, view>>

(* UPDATE tenants: takes the tenant's row lock. *)
WritePlan(r) ==
    /\ pc[r] = "write"
    /\ answer[r] # 0
    /\ planLock[call[r].tenant] = NoRequest
    /\ planLock' = [planLock EXCEPT ![call[r].tenant] = r]
    /\ Goto(r, "rows")
    /\ UNCHANGED <<db, rowLock, call, view>>

(* UPDATE tenant_quotas: takes one dirty row's lock after the other. *)
WriteRow(r, res) ==
    /\ pc[r] = "rows"
    /\ res \in Dirty(r)
    /\ RowFree(call[r].tenant, res)
    /\ rowLock' = [rowLock EXCEPT ![call[r].tenant][res] = r]
    /\ UNCHANGED <<db, planLock, call, pc, view, answer>>

CommitUpdate(r) ==
    LET t == call[r].tenant IN
    /\ pc[r] = "rows"
    /\ \A res \in Dirty(r) : rowLock[t][res] = r
    /\ plan' = [plan EXCEPT ![t] = call[r].plan]
    /\ row' = [row EXCEPT ![t] = [res \in Resources |->
                 IF res \in Dirty(r)
                 THEN [@[res] EXCEPT !.limit = PlanQuotas[call[r].plan][res]]
                 ELSE @[res]]]
    /\ Commit(r)
    /\ UNCHANGED <<known, call>>

-----------------------------------------------------------------------------
(* POST /tenants/{id}/quota/consume, and the last statement of GET quota   *)

(* SELECT ... FOR UPDATE: the row as it is under the lock.  A consume      *)
(* decides on it and answers 402 when the amount does not fit; a GET       *)
(* returns it.                                                             *)
LockRow(r) ==
    LET t       == call[r].tenant
        res     == call[r].resource
        refused == call[r].op = "consume" /\ Overdraws(row[t][res], call[r].amount)
    IN
    /\ pc[r] = "lock"
    /\ \/ /\ t \notin known
          /\ End(r, 404)
          /\ UNCHANGED <<db, call>>
       \/ /\ t \in known /\ RowFree(t, res)
          /\ refused
          /\ End(r, 402)
          /\ UNCHANGED <<db, call>>
       \/ /\ t \in known /\ RowFree(t, res)
          /\ ~refused
          /\ rowLock' = [rowLock EXCEPT ![t][res] = r]
          /\ view' = [view EXCEPT ![r].row[res] = row[t][res]]
          /\ Goto(r, "commit")
          /\ UNCHANGED <<db, planLock, call>>

(* The flush writes the value computed from the loaded row, and commits. *)
CommitConsume(r) ==
    LET res == call[r].resource IN
    /\ pc[r] = "commit"
    /\ call[r].op = "consume"
    /\ row' = [row EXCEPT ![call[r].tenant][res].used =
                 view[r].row[res].used + call[r].amount]
    /\ Commit(r)
    /\ UNCHANGED <<known, plan, call>>

(* A GET, or an update to the plan the tenant has, wrote nothing. *)
CommitUnchanged(r) ==
    /\ pc[r] = "commit"
    /\ call[r].op \in {"get", "update"}
    /\ Commit(r)
    /\ UNCHANGED <<known, plan, row, call>>

-----------------------------------------------------------------------------
(* The connection, the process or the database fails, at a statement or at *)
(* the commit: the transaction is rolled back.  An answer that is out      *)
(* stays, else the client sees a 500.                                      *)
Abort(r) ==
    /\ "abort" \in Faults
    /\ r \in InFlight
    /\ End(r, IF answer[r] = 0 THEN 500 ELSE answer[r])
    /\ UNCHANGED <<db, call>>

(* The statements of one request. *)
Step(r) ==
    \/ CheckSlug(r)
    \/ InsertTenant(r)
    \/ CommitCreate(r)
    \/ LoadTenant(r)
    \/ LoadQuotas(r)
    \/ ReloadQuotas(r)
    \/ Respond(r)
    \/ WritePlan(r)
    \/ \E res \in Resources : WriteRow(r, res)
    \/ CommitUpdate(r)
    \/ LockRow(r)
    \/ CommitConsume(r)
    \/ CommitUnchanged(r)

AllDone == \A r \in Requests : pc[r] = "done"

Finished == AllDone /\ UNCHANGED vars

Next ==
    \/ \E r \in Requests : Arrive(r) \/ Step(r) \/ Abort(r)
    \/ Finished

Spec == Init /\ [][Next]_vars

(* The event loop runs every handler that can go on, and PostgreSQL grants *)
(* a row lock that stays requested.                                        *)
FairSpec == Spec /\ \A r \in Requests : WF_vars(Step(r))

-----------------------------------------------------------------------------
(* Properties *)

(* A consume or a GET that has read its quota row holds its lock until it  *)
(* commits, and both columns it decided on or returns are still the        *)
(* committed ones: no consume and no plan change slips in between the      *)
(* check and the write (tenant_repo.get_quota's FOR UPDATE).               *)
LockedReadStays ==
    \A r \in Requests :
        pc[r] = "commit" /\ call[r].op \in {"consume", "get"} =>
            /\ rowLock[call[r].tenant][call[r].resource] = r
            /\ view[r].row[call[r].resource] = row[call[r].tenant][call[r].resource]

(* However consumes, plan changes and tenant creation interleave, a step   *)
(* that raises "used" leaves it within the limit the row then has          *)
(* (tenant_service.consume_quota).                                         *)
GrantsFit ==
    [][\A t \in Tenants, res \in Resources :
          row'[t][res].used > row[t][res].used =>
              FitsLimit(row'[t][res].used, row'[t][res].limit)]_vars

(* The consumes on a row whose transaction has committed. *)
Granted(t, res) ==
    {r \in committed : /\ call[r].op = "consume"
                       /\ call[r].tenant = t
                       /\ call[r].resource = res}

(* No update is lost or applied twice: what a row says is used is the sum  *)
(* of the consumes that committed, each of which was answered 200.  One    *)
(* that was cut off leaves nothing, also when its 200 was out before its   *)
(* commit failed (db.get_session).                                         *)
UsedCountsGrants ==
    \A t \in Tenants, res \in Resources :
        /\ \A r \in Granted(t, res) : answer[r] = 200
        /\ row[t][res].used = MapThenSumSet(LAMBDA r : call[r].amount, Granted(t, res))

(* r's next statement asks for a lock that o holds. *)
WaitsFor(r, o) ==
    LET t == call[r].tenant IN
    /\ o # r
    /\ \/ /\ pc[r] = "insert"
          /\ pc[o] = "commit" /\ call[o].op = "create" /\ call[o].tenant = t
       \/ pc[r] = "write" /\ planLock[t] = o
       \/ pc[r] = "rows" /\ \E res \in Dirty(r) : rowLock[t][res] = o
       \/ pc[r] = "lock" /\ t \in known /\ rowLock[t][call[r].resource] = o

(* No deadlock among the row locks: a request only waits for one that is   *)
(* still in flight, and whoever that one waits for waits for nobody.  A    *)
(* plan change takes several row locks, in no agreed order; what keeps two *)
(* of them from holding one row each is the tenant's row, locked first.    *)
WaitsEnd ==
    \A r, o \in Requests : WaitsFor(r, o) =>
        /\ o \in InFlight
        /\ \A p, q \in Requests : WaitsFor(o, p) => ~WaitsFor(p, q)

(* Two racing creates of one slug may both have passed slug_exists.  At    *)
(* most one commits; that both are answered 201 takes a commit that failed *)
(* after its 201 was out, and the slug is free again by then.              *)
OneCreatePerSlug ==
    \A r, o \in Requests :
        /\ call[r].op = "create" /\ answer[r] = 201
        /\ call[o].op = "create" /\ answer[o] = 201
        /\ call[r].tenant = call[o].tenant
        /\ r # o
        => \E failed \in {r, o} : pc[failed] = "done" /\ failed \notin committed

(* The service implements the atomic ledger: every committed transaction   *)
(* is one Open, Charge or Relimit on the rows as they are at its commit.   *)
PlanLimits == {PlanQuotas[p][res] : p \in Plans, res \in Resources}

Ledger == INSTANCE QuotaLedger WITH Limits <- PlanLimits
LedgerSpec == Ledger!LSpec

(* A downgrade never leaves more in use than the plan allows (docstring of *)
(* InvalidPlanDowngradeError).  A racing consume breaks it.                *)
UseFitsPlan ==
    \A t \in known, res \in Resources :
        FitsLimit(row[t][res].used, row[t][res].limit)

(* The limits of a tenant's rows are those of its plan (the comment in     *)
(* tenant_repo.update).  Racing plan changes break it.                     *)
LimitsFollowPlan ==
    \A t \in known, res \in Resources :
        row[t][res].limit = PlanQuotas[plan[t]][res]

(* Row locks never leave requests waiting for each other: every request    *)
(* that arrived is answered and its transaction ends.                      *)
EveryRequestAnswered ==
    \A r \in Requests : pc[r] # "idle" ~> pc[r] = "done" /\ answer[r] # 0

=============================================================================
