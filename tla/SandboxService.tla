--------------------------- MODULE SandboxService ---------------------------
(***************************************************************************)
(* The sandbox service: its requests, its rows in PostgreSQL, the backend  *)
(* that runs the sandboxes and the tenant service's quota counter.         *)
(*                                                                         *)
(* A handler works in one database transaction (db.get_session).  When it  *)
(* raises, the transaction is rolled back and the error is answered.  When *)
(* it returns, its answer is sent and the transaction commits after that.  *)
(* In between it awaits the backend and the tenant service, whose effects  *)
(* are immediate and are not undone by a rollback.  A row is read without  *)
(* a lock; a changed status is written by primary key when the session is  *)
(* flushed, which is at commit, except that repo.create flushes its INSERT *)
(* at once and so occupies the unique index from then on.                  *)
(*                                                                         *)
(* One action is one await of the handler with the code that follows it.   *)
(* The sandbox id drawn by a create is represented by the request itself.  *)
(* The quota counter is the atomic one that TenantQuota implements.  What  *)
(* a handler has set off may take effect without it: a quota call that     *)
(* timed out or whose caller died, and an openshell command whose caller   *)
(* died.                                                                   *)
(***************************************************************************)
EXTENDS QuotaRules, FiniteSets

CONSTANTS Requests,     \* HTTP requests; each runs once
          Tenants,
          Names,        \* sandbox names
          Registered,   \* the tenants that the tenant service knows
          Limits,       \* Limits[t]: the sandbox limit of t's plan
          Ops,          \* the operations the requests call
          Adapter,      \* "mock", "openshell" or "k8s"
          MakeName,     \* MakeName[slot]: the backend's name of a sandbox
          Faults,       \* which failures occur: "backend", "http", "db", "crash"
          MaxInFlight,  \* bound: requests that are in flight at once
          PoolSize,     \* database connections of the service
          Nobody        \* neither a request nor a sandbox

ASSUME SandboxAssumption ==
    /\ Registered \subseteq Tenants
    /\ \A t \in Tenants : Limits[t] \in Nat \cup {Unlimited}
    /\ Ops \subseteq {"create", "stop", "start", "delete", "policy"}
    /\ Ops # {} /\ Tenants # {} /\ Names # {}
    /\ Adapter \in {"mock", "openshell", "k8s"}
    /\ Nobody \notin Requests

VARIABLES status,   \* committed: status[id] of a sandbox row, "none" if no row
          saved,    \* committed: the latest policy record of a sandbox
          pods,     \* the backend's sandboxes, by the key the adapter uses
          taken,    \* history: the delete that took the pod of a sandbox
          stray,    \* requests whose openshell command has outlived them
          used,     \* the tenant service's count of sandboxes
          late,     \* requests whose quota call has outlived its caller's wait
          call,     \* what each request asks for
          pc,       \* where each handler is
          answer    \* the HTTP status a request was answered with, 0 for none

backend == <<pods, taken, stray>>
vars    == <<status, saved, pods, taken, stray, used, late, call, pc, answer>>

-----------------------------------------------------------------------------
(* Types *)

Calls == [op : Ops, tenant : Tenants, name : Names,
          target : Requests \cup {Nobody}, force : BOOLEAN]

(* Parameters an operation does not read are fixed. *)
Relevant(c) ==
    /\ (c.op = "create") <=> (c.target = Nobody)
    /\ c.op # "create" => c.name = (CHOOSE n \in Names : TRUE)
    /\ c.op # "delete" => ~c.force

Live     == {"running", "stopped"}
Statuses == Live \cup {"none", "deleted"}
Labels   == {"idle", "check", "connect", "insert", "load", "backend",
             "consume", "release", "commit", "done"}
Success  == {200, 201, 204}
Answers  == Success \cup {0, 402, 404, 409, 422, 500}
Slots    == Tenants \X Names
Keys     == IF Adapter = "mock" THEN Requests ELSE {MakeName[slot] : slot \in Slots}
Pods     == [owner : Requests \cup {Nobody}, phase : {"absent", "running", "stopped"}]

TypeOK ==
    /\ status \in [Requests -> Statuses]
    /\ saved \in [Requests -> Requests \cup {Nobody}]
    /\ pods \in [Keys -> Pods]
    /\ taken \in [Requests -> Requests \cup {Nobody}]
    /\ stray \in SUBSET Requests
    /\ used \in [Tenants -> Int]
    /\ late \in SUBSET Requests
    /\ call \in [Requests -> Calls]
    /\ pc \in [Requests -> Labels]
    /\ answer \in [Requests -> Answers]

-----------------------------------------------------------------------------
(* Names for parts of the state *)

InFlight == {r \in Requests : pc[r] \notin {"idle", "done"}}

(* Handlers that hold a database connection. *)
Connected == {r \in Requests : pc[r] \in {"insert", "load", "backend", "consume",
                                           "release", "commit"}}

(* The sandbox a request is about, its name and its key in the backend.    *)
(* The mock keys by sandbox id, the others by the name they make of tenant *)
(* and sandbox name and store in external_id.                              *)
Id(r)    == IF call[r].op = "create" THEN r ELSE call[r].target
Slot(id) == <<call[id].tenant, call[id].name>>
Key(id)  == IF Adapter = "mock" THEN id ELSE MakeName[Slot(id)]

NoPod == [owner |-> Nobody, phase |-> "absent"]

LiveRows(t) == {id \in Requests : status[id] \in Live /\ call[id].tenant = t}

Quota(t) == [limit |-> Limits[t], used |-> used[t]]

(* Creates whose INSERT is flushed and whose transaction is open. *)
Inserted == {r \in Requests : /\ call[r].op = "create"
                              /\ pc[r] \in {"backend", "consume", "commit"}}

(* A live committed row has this name; the partial unique index forbids    *)
(* another.                                                                *)
NameTaken(slot) == \E id \in Requests : status[id] \in Live /\ Slot(id) = slot

(* Mutants: no unique index, and one whose entries outlive a rollback. *)
NameNeverClaimed(slot) == FALSE

NameClaimedForEver(slot) ==
    \E o \in Requests :
        /\ call[o].op = "create"
        /\ pc[o] \in {"backend", "consume", "commit", "done"}
        /\ Slot(o) = slot

(* An open transaction has inserted this name: who wants it waits.         *)
NameClaimed(slot) == \E o \in Inserted : Slot(o) = slot

Goto(r, label) ==
    /\ pc' = [pc EXCEPT ![r] = label]
    /\ UNCHANGED answer

(* The handler ends.  After anything but a success, get_session rolls the  *)
(* transaction back: an uncommitted row disappears, and so do the "error"  *)
(* or "deleted" status that create's except branches set before raising.   *)
End(r, code) ==
    /\ pc' = [pc EXCEPT ![r] = "done"]
    /\ answer' = [answer EXCEPT ![r] = code]

-----------------------------------------------------------------------------
(* What a request that has not arrived asks for is not yet known. *)
Unset == CHOOSE c \in Calls : c.target = Nobody /\ ~c.force

Init ==
    /\ call = [r \in Requests |-> Unset]
    /\ status = [id \in Requests |-> "none"]
    /\ saved = [id \in Requests |-> Nobody]
    /\ pods = [k \in Keys |-> NoPod]
    /\ taken = [id \in Requests |-> Nobody]
    /\ stray = {}
    /\ used = [t \in Tenants |-> 0]
    /\ late = {}
    /\ pc = [r \in Requests |-> "idle"]
    /\ answer = [r \in Requests |-> 0]

(* A request comes in, from any tenant, about any sandbox there ever was.  *)
Arrive(r) ==
    /\ pc[r] = "idle"
    /\ Cardinality(InFlight) < MaxInFlight
    /\ \E c \in Calls :
          /\ Relevant(c)
          /\ c.target # Nobody => status[c.target] # "none"
          /\ call' = [call EXCEPT ![r] = c]
          /\ Goto(r, IF c.op = "create" THEN "check" ELSE "connect")
    /\ UNCHANGED <<status, saved, backend, used, late>>

(* The session takes a connection at its first statement and keeps it to   *)
(* the end, through every call of the backend and the tenant service.      *)
Connect(r) ==
    /\ pc[r] = "connect"
    /\ Cardinality(Connected) < PoolSize
    /\ Goto(r, IF call[r].op = "create" THEN "insert" ELSE "load")
    /\ UNCHANGED <<status, saved, backend, used, late, call>>

(* No connection became free in time. *)
PoolTimeout(r) ==
    /\ pc[r] = "connect"
    /\ Cardinality(Connected) >= PoolSize
    /\ End(r, 500)
    /\ UNCHANGED <<status, saved, backend, used, late, call>>

-----------------------------------------------------------------------------
(* Creating a sandbox *)

(* GET quota/sandboxes: an unknown tenant (404) passes, an exceeded one is *)
(* refused, and any other failure of the call raises.                      *)
CheckQuota(r) ==
    /\ pc[r] = "check"
    /\ \/ /\ call[r].tenant \in Registered
          /\ Exceeded(Quota(call[r].tenant))
          /\ End(r, 402)
       \/ /\ call[r].tenant \in Registered => ~Exceeded(Quota(call[r].tenant))
          /\ Goto(r, "connect")
       \/ /\ "http" \in Faults
          /\ End(r, 500)
    /\ UNCHANGED <<status, saved, backend, used, late, call>>

(* repo.create: the flushed INSERT, which waits for an open insert of the  *)
(* same name and conflicts with a committed one.                           *)
Insert(r) ==
    /\ pc[r] = "insert"
    /\ ~NameClaimed(Slot(r))
    /\ IF NameTaken(Slot(r)) THEN End(r, 409) ELSE Goto(r, "backend")
    /\ UNCHANGED <<status, saved, backend, used, late, call>>

(* The backend makes the sandbox of r. *)
MakePod(r) ==
    /\ pods' = [pods EXCEPT ![Key(r)] = [owner |-> r, phase |-> "running"]]
    /\ UNCHANGED taken

(* Mutant: the "error" that the except branch sets is committed. *)
BackendCreateCommits(r) ==
    /\ pc[r] = "backend"
    /\ call[r].op = "create"
    /\ \/ MakePod(r) /\ Goto(r, "consume") /\ UNCHANGED status
       \/ /\ UNCHANGED <<pods, taken>>
          /\ End(r, 500)
          /\ status' = [status EXCEPT ![r] = "error"]
    /\ UNCHANGED <<saved, stray, used, late, call>>

(* backend.create.  The mock always succeeds; OpenShell refuses a name it  *)
(* already has, and its command may fail before or after the gateway has   *)
(* created the sandbox.                                                    *)
BackendCreate(r) ==
    LET free == Adapter = "mock" \/ pods[Key(r)] = NoPod IN
    /\ pc[r] = "backend"
    /\ call[r].op = "create"
    /\ \/ /\ free
          /\ MakePod(r)
          /\ Goto(r, "consume")
       \/ /\ ~free
          /\ End(r, 500)
          /\ UNCHANGED <<pods, taken>>
       \/ /\ "backend" \in Faults
          /\ Adapter # "mock"
          /\ End(r, 500)
          /\ \/ UNCHANGED <<pods, taken>>
             \/ free /\ MakePod(r)
    /\ UNCHANGED <<status, saved, stray, used, late, call>>

(* Mutants: releases, or charges, are refused. *)
ChargeUpOnly(t, n) ==
    IF n > 0 /\ t \in Registered /\ ~Overdraws(Quota(t), n)
    THEN used' = [used EXCEPT ![t] = @ + n]
    ELSE UNCHANGED used

ChargeDownOnly(t, n) ==
    IF n < 0 /\ t \in Registered
    THEN used' = [used EXCEPT ![t] = @ + n]
    ELSE UNCHANGED used

(* POST quota/consume, as the tenant service serves it: an unknown tenant  *)
(* (404) and a charge beyond the limit (402) change nothing.               *)
Charge(t, n) ==
    IF t \in Registered /\ ~Overdraws(Quota(t), n)
    THEN used' = [used EXCEPT ![t] = @ + n]
    ELSE UNCHANGED used

(* The call fails, or times out after 5 seconds and is served later.       *)
CallFails(r) ==
    /\ "http" \in Faults
    /\ late' \in {late, late \cup {r}}
    /\ UNCHANGED used

Delta(r) == IF call[r].op = "create" THEN 1 ELSE -1

ServeLate(r) ==
    /\ r \in late
    /\ late' = late \ {r}
    /\ Charge(call[r].tenant, Delta(r))
    /\ UNCHANGED <<status, saved, backend, call, pc, answer>>

(* consume_sandbox_quota: whatever becomes of the call, the handler goes   *)
(* on, so a sandbox beyond the limit is created all the same.              *)
Consume(r) ==
    /\ pc[r] = "consume"
    /\ \/ Charge(call[r].tenant, 1) /\ UNCHANGED late
       \/ CallFails(r)
    /\ Goto(r, "commit")
    /\ UNCHANGED <<status, saved, backend, call>>

-----------------------------------------------------------------------------
(* Operations on an existing sandbox *)

(* repo.get: the row must be the caller's own and not deleted.  (Mutant:   *)
(* the tenant filter is left out.)                                         *)
VisibleToAll(r) == Id(r) \in Requests /\ status[Id(r)] \in Live

Visible(r) ==
    /\ Id(r) \in Requests
    /\ status[Id(r)] \in Live
    /\ call[Id(r)].tenant = call[r].tenant

(* The handler's check of the status it read: stop wants the sandbox       *)
(* running, start stopped, delete wants force for a running one.           *)
Refused(r) ==
    \/ /\ call[r].op = "stop"
       /\ status[Id(r)] # "running"
    \/ /\ call[r].op = "start"
       /\ status[Id(r)] # "stopped"
    \/ /\ call[r].op = "delete"
       /\ status[Id(r)] = "running"
       /\ ~call[r].force

Load(r) ==
    /\ pc[r] = "load"
    /\ \/ /\ ~Visible(r)
          /\ End(r, 404)
       \/ /\ Visible(r)
          /\ Refused(r)
          /\ End(r, 422)
       \/ /\ Visible(r)
          /\ ~Refused(r)
          /\ Goto(r, IF call[r].op = "delete" /\ status[Id(r)] # "running"
                     THEN "release" ELSE "backend")
    /\ UNCHANGED <<status, saved, backend, used, late, call>>

(* backend.stop and backend.start.  OpenShell and Kubernetes have neither: *)
(* the pod keeps running.  The mock writes its entry, there or not.        *)
BackendPause(r) ==
    /\ pc[r] = "backend"
    /\ call[r].op \in {"stop", "start"}
    /\ pods' = IF Adapter = "mock"
               THEN [pods EXCEPT ![Key(Id(r))] =
                       [owner |-> Id(r),
                        phase |-> IF call[r].op = "stop" THEN "stopped" ELSE "running"]]
               ELSE pods
    /\ Goto(r, "commit")
    /\ UNCHANGED <<status, saved, taken, stray, used, late, call>>

(* The backend removes whatever has the key of r's sandbox now. *)
TakePod(r) ==
    LET k == Key(Id(r)) IN
    /\ pods' = [pods EXCEPT ![k] = NoPod]
    /\ taken' = [id \in Requests |-> IF id = pods[k].owner THEN r ELSE taken[id]]

(* backend.destroy, by key.  The mock never fails; OpenShell fails for a   *)
(* name it does not have, and may fail when it has done its work.          *)
BackendDestroy(r) ==
    LET k == Key(Id(r)) IN
    /\ pc[r] = "backend"
    /\ call[r].op = "delete"
    /\ \/ /\ Adapter = "mock" \/ pods[k] # NoPod
          /\ TakePod(r)
          /\ Goto(r, "release")
       \/ /\ Adapter # "mock"
          /\ pods[k] = NoPod \/ "backend" \in Faults
          /\ UNCHANGED <<pods, taken>> \/ TakePod(r)
          /\ End(r, 500)
    /\ UNCHANGED <<status, saved, stray, used, late, call>>

(* The openshell command of a request that died with the service: it goes  *)
(* on, and does then what it was told.  One that is refused or fails       *)
(* changes nothing.                                                        *)
CommandActs(r) ==
    /\ r \in stray
    /\ stray' = stray \ {r}
    /\ \/ call[r].op = "create" /\ pods[Key(r)] = NoPod /\ MakePod(r)
       \/ call[r].op = "delete" /\ TakePod(r)
    /\ UNCHANGED <<status, saved, used, late, call, pc, answer>>

(* release_sandbox_quota: again the handler goes on in every case. *)
Release(r) ==
    /\ pc[r] = "release"
    /\ \/ Charge(call[r].tenant, -1) /\ UNCHANGED late
       \/ CallFails(r)
    /\ Goto(r, "commit")
    /\ UNCHANGED <<status, saved, backend, call>>

(* backend.apply_network_policy.  The mock only logs and OpenShell only    *)
(* writes a file; the Kubernetes adapter wants handle.namespace, which the *)
(* service never sets, and raises.                                         *)
BackendPolicy(r) ==
    /\ pc[r] = "backend"
    /\ call[r].op = "policy"
    /\ IF Adapter = "k8s" THEN End(r, 500) ELSE Goto(r, "commit")
    /\ UNCHANGED <<status, saved, backend, used, late, call>>

-----------------------------------------------------------------------------
(* The end of the transaction *)

(* Mutants: set_running, or soft_delete, is left out. *)
NewStatusCreating == [create |-> "creating", stop |-> "stopped", start |-> "running",
                      delete |-> "deleted"]
NewStatusKept     == [create |-> "running", stop |-> "stopped", start |-> "running",
                      delete |-> "running"]

(* The status the session writes: the one the operation sets, whatever the *)
(* committed row says by now.                                              *)
NewStatus == [create |-> "running", stop |-> "stopped", start |-> "running",
              delete |-> "deleted"]

SuccessCode == [create |-> 201, stop |-> 200, start |-> 200, delete |-> 204,
                policy |-> 200]

(* A row that was deleted meanwhile enters the unique index again when it  *)
(* is written with a live status.                                          *)
Reenters(r) ==
    /\ call[r].op \in {"stop", "start"}
    /\ status[Id(r)] = "deleted"

(* The answer goes out, and the rows are written.  A commit that conflicts *)
(* is rolled back and changes nothing but the log.  (When the database's   *)
(* confirmation is lost the rows are written all the same.)                *)
Commit(r) ==
    /\ pc[r] = "commit"
    /\ Reenters(r) => ~NameClaimed(Slot(Id(r)))
    /\ IF Reenters(r) /\ NameTaken(Slot(Id(r)))
       THEN UNCHANGED <<status, saved>>
       ELSE IF call[r].op = "policy"
       THEN /\ saved' = [saved EXCEPT ![Id(r)] = r]
            /\ UNCHANGED status
       ELSE /\ status' = [status EXCEPT ![Id(r)] = NewStatus[call[r].op]]
            /\ UNCHANGED saved
    /\ End(r, SuccessCode[call[r].op])
    /\ UNCHANGED <<backend, used, late, call>>

(* The commit fails when the answer is out. *)
CommitFails(r) ==
    /\ "db" \in Faults
    /\ pc[r] = "commit"
    /\ End(r, SuccessCode[call[r].op])
    /\ UNCHANGED <<status, saved, backend, used, late, call>>

(* The openshell commands that handlers are waiting for. *)
Commands ==
    {r \in Requests : /\ Adapter # "mock"
                      /\ pc[r] = "backend"
                      /\ call[r].op \in {"create", "delete"}}

(* The service dies and starts again: open transactions are rolled back,   *)
(* their callers get no answer (or had it, before the commit), the mock    *)
(* forgets its sandboxes.  What was under way elsewhere goes on.           *)
Crash ==
    /\ "crash" \in Faults
    /\ InFlight # {}
    /\ pc' = [r \in Requests |-> IF r \in InFlight THEN "done" ELSE pc[r]]
    /\ \E told \in SUBSET {r \in Requests : pc[r] = "commit"} :
          answer' = [r \in Requests |->
                       IF r \in told THEN SuccessCode[call[r].op] ELSE answer[r]]
    /\ pods' = IF Adapter = "mock" THEN [k \in Keys |-> NoPod] ELSE pods
    /\ stray' = stray \cup Commands
    /\ late' = late \cup {r \in Requests : pc[r] \in {"consume", "release"}}
    /\ UNCHANGED <<status, saved, taken, used, call>>

-----------------------------------------------------------------------------
Step(r) ==
    \/ Connect(r)
    \/ PoolTimeout(r)
    \/ CheckQuota(r)
    \/ Insert(r)
    \/ BackendCreate(r)
    \/ Consume(r)
    \/ Load(r)
    \/ BackendPause(r)
    \/ BackendDestroy(r)
    \/ Release(r)
    \/ BackendPolicy(r)
    \/ Commit(r)

Finished ==
    /\ \A r \in Requests : pc[r] = "done"
    /\ UNCHANGED vars

Next ==
    \/ \E r \in Requests : Arrive(r) \/ Step(r) \/ CommitFails(r) \/ ServeLate(r) \/ CommandActs(r)
    \/ Crash
    \/ Finished

Spec == Init /\ [][Next]_vars

(* The event loop runs every handler whose await has ended.  The calls of  *)
(* the tenant service end by their timeout; that the backend's commands    *)
(* end is assumed, nothing in the adapters bounds them.                    *)
Fairness == \A r \in Requests : WF_vars(Step(r))

-----------------------------------------------------------------------------
(* Properties, whatever the interleaving *)

(* The live sandboxes of a tenant have different names, though names are   *)
(* freed by deletes, taken by inserts that are not committed yet, and      *)
(* taken again by a stop or a start that lost a race with a delete         *)
(* (the partial unique index of migration 002).                            *)
NameUnique ==
    \A a, b \in Requests :
        /\ status[a] \in Live
        /\ status[b] \in Live
        /\ Slot(a) = Slot(b)
        => a = b

(* A row changes only when a request of the row's own tenant ends, and     *)
(* that request is answered with success (repo.get's tenant filter, and    *)
(* get_session's rollback on every error).                                 *)
OwnRowsOnly ==
    [][\A id \in Requests : status'[id] # status[id] =>
          \E r \in Requests :
              /\ pc[r] = "commit"
              /\ Id(r) = id
              /\ call[r].tenant = call[id].tenant
              /\ answer'[r] \in Success]_vars

(* A pod is stopped, started or destroyed by nobody but its tenant: by a   *)
(* request about a sandbox of that name, or by the command of one, which   *)
(* may act when the service has died and started again, and hit a pod that *)
(* was created under the name since.                                       *)
OwnPodsOnly ==
    [][\A k \in Keys : pods'[k] # pods[k] /\ pods[k].owner # Nobody =>
          \/ \E r \in Requests :
                 /\ \/ pc[r] = "backend" /\ pc'[r] # "backend"
                    \/ r \in stray \ stray'
                 /\ Key(Id(r)) = k
                 /\ call[r].tenant = call[pods[k].owner].tenant
          \/ Adapter = "mock" /\ pods' = [key \in Keys |-> NoPod]]_vars

(* A create that was answered with an error, or that died unanswered,      *)
(* leaves no row, live or not, whatever step failed: in particular no row  *)
(* ever shows "error", because set_error is rolled back with the rest.     *)
FailedCreateLeavesNoRow ==
    \A r \in Requests :
        call[r].op = "create" /\ answer[r] \notin Success => status[r] = "none"

(* Without faults a tenant is never charged for a sandbox it does not have *)
(* or is not just getting: the count is at most the live rows and the      *)
(* creates that are about to commit.                                       *)
NeverOvercharged ==
    \A t \in Tenants :
        used[t] <= Cardinality(LiveRows(t))
                   + Cardinality({r \in Inserted : pc[r] = "commit" /\ call[r].tenant = t})

-----------------------------------------------------------------------------
(* Properties of one request at a time *)

Quiet == InFlight = {}

(* Between requests the tenant service counts exactly the live rows.       *)
CountExact ==
    Quiet => \A t \in Registered : used[t] = Cardinality(LiveRows(t))

(* A sandbox that shows as running has its pod, and the pod is its own, in *)
(* spite of the pods that failed creates and stopped deletes leave behind  *)
(* under its name, and of the sandboxes to which the backend's naming      *)
(* gives the same name.  Its pod is lost in two ways only.  A delete of it *)
(* failed when the backend had done its work, and the row is rolled back   *)
(* to running.  Or another sandbox that has the same name in the backend   *)
(* lost its own pod so before, and was deleted again.                      *)
RunningHasPod ==
    Quiet => \A id \in Requests :
        status[id] = "running" =>
            \/ pods[Key(id)] = [owner |-> id, phase |-> "running"]
            \/ \E r \in Requests :
                  /\ taken[id] = r
                  /\ \/ Id(r) = id /\ answer[r] = 500
                     \/ Slot(Id(r)) # Slot(id) /\ taken[Id(r)] # Nobody

(* The limit is never exceeded (the FOR UPDATE of tenant_repo.get_quota    *)
(* says "against concurrent overuse").                                     *)
LiveWithinLimit ==
    \A t \in Registered :
        Limits[t] # Unlimited => Cardinality(LiveRows(t)) <= Limits[t]

(* The service is the registry of SandboxRegistry.                         *)
LiveIds == {id \in Requests : status[id] \in Live}

Registry == INSTANCE SandboxRegistry WITH
    Ids   <- Requests,
    rows  <- {[id |-> id, slot |-> Slot(id), phase |-> status[id]] : id \in LiveIds},
    gone  <- {id \in Requests : status[id] = "deleted"}
RegistrySpec == Registry!RSpec

-----------------------------------------------------------------------------
(* Liveness: neither the unique index nor the connection pool leaves a     *)
(* request waiting for ever.                                               *)
EveryRequestAnswered ==
    \A r \in Requests : pc[r] # "idle" ~> pc[r] = "done"

-----------------------------------------------------------------------------
(* What comments and tests say and the code does not do *)

(* A deleted sandbox stays deleted (summary of the DELETE route).          *)
DeletedStaysDeleted ==
    [][\A id \in Requests : status[id] = "deleted" => status'[id] = "deleted"]_vars

(* A deleted sandbox leaves nothing in the backend: it runs until it is    *)
(* deleted (comment in OpenShellAdapter.stop).                             *)
DeletedLeavesNoPod ==
    Quiet => \A id \in Requests :
        status[id] = "deleted" => pods[Key(id)].owner # id

=============================================================================
