# TLA+ models and proofs of the NemoClaw multi-tenant platform

This directory models the Python services under `src/platform`: who may have how
many sandboxes (tenant service), how sandboxes come and go (sandbox service and
its backends), who is let in (the shared authentication), how completions are
routed and streamed (inference gateway), and the administrators' compatibility
check.  The modules are checked with TLC on
small instances; every invariant, action property and refinement that a passing
run checks is also proved with TLAPS, for every value of the constants.

Paths below are relative to `src/platform/services`.

## 1. The system

| Component | State it keeps | Operations | Talks to |
|---|---|---|---|
| Tenant service (`tenant/`) | PostgreSQL: tenants (slug, plan), one quota row per resource (limit, used) | create tenant, change plan, read a quota, consume or release (negative amount) | PostgreSQL |
| Sandbox service (`sandbox/`) | PostgreSQL: sandbox rows (tenant, name, status, external id), policy records | create, list, get, stop, start, delete, policy | tenant service over HTTP, a backend adapter, PostgreSQL |
| Backend adapters (`sandbox/.../adapters`) | mock: a dictionary; OpenShell and Kubernetes: the gateway's sandboxes | create, stop, start, destroy, apply policy | the `openshell` command, `kubectl` |
| Compatibility check (`sandbox/.../routes/compatibility.py`) | local variables; a test sandbox in the gateway | quick checks, full check | docker, the `openshell` command |
| Inference gateway (`inference-gw/`) | registered providers, catalogue | chat completion, streamed or not | NVIDIA, OpenAI, Anthropic, Ollama |
| Shared package (`packages/shared`) | JWKS cache, one per service process | `require_auth` with the fetch of the keys, logging, response types | identity provider |
| Billing (`billing/`) | none (a stub) | health | - |

How they interact.  A sandbox request asks the tenant service for the quota,
inserts a row, calls the backend, charges the quota, and commits when the
handler has returned and the answer is out (`sandbox/db.py`).  Only the row
belongs to the transaction: the effects on the backend and on the quota are
immediate and nothing undoes them.  The tenant service is reached through a client that treats
404 as "no limit", logs every other refusal of a charge and goes on.

What is hard here:

* **Interleaving.** Every handler is a coroutine, so requests interleave at
  every `await`; rows are read without locks except in `get_quota`.  Stale
  decisions are written back by primary key (stop, start, delete, plan change).
* **Check, then act across services.** The quota is checked before and charged
  after a slow backend call.
* **Partial failure.** Backend, quota call, commit and process may each fail
  after the others took effect.
* **Answer before commit.** Both services commit in the exit code of a FastAPI
  dependency, which in the pinned version (`src/platform/requirements.txt:23`) runs when
  the response has been sent.  A caller can be told of a success that is then
  rolled back.  Errors are rolled back before they are answered.
* **Late calls.** A timed-out HTTP call or a subprocess that was given up on may
  still do its work, also after the service that started it has died.
* **A cache that everybody fills.** Callers that find no keys fetch them at once;
  the answers may be older than what is stored, and the issuer rotates.
* **Waiting.** Row locks, a unique index that makes inserts wait, and a
  connection pool are held through slow calls.
* **Streaming.** The status of a streamed answer is sent before anything can
  fail.

What makes each part correct is stated as the properties in section 4.  The list
of hazards, at their source lines, is in `PROJECT.json`.

## 2. Modules

| Module | Models | Notes |
|---|---|---|
| `QuotaRules` | the arithmetic of one quota row | shared by all; `-1` is "unlimited" |
| `QuotaLedger` | abstract: rows that change atomically | refined by `TenantQuota` |
| `TenantQuota` | the tenant service, one SQL statement per action | row locks, READ COMMITTED, ORM dirty columns, answers before commits, cut-off transactions |
| `SandboxRegistry` | abstract: what a tenant is promised of its sandboxes | refined by `SandboxService`, one request at a time |
| `SandboxService` | the sandbox service, its adapters and its use of the quota, one await per action | backend, HTTP, commit failures; crashes that the backend's commands survive |
| `BackendNames` | the names of sandboxes in OpenShell and Kubernetes | strings as sequences of characters, lengths as parameters |
| `SandboxPort` | abstract: what a call of a backend promises | refined by `K8sBackend` |
| `K8sBackend` | the Kubernetes adapter, its processes and its wait for Ready | failing commands, lists that fail or are stale when read, a deadline, a service that dies |
| `TokenAuth` | `require_auth` and its key cache, one await per action | overlapping and failing fetches, key rotation |
| `InferenceGateway` | routing and streaming, one await or yield per action | disconnects and provider failures |
| `AuthenticatedGateway` | composition: the gateway's handlers run for callers that `TokenAuth` lets in | the two have no variable in common |
| `CompatCheck` | the full compatibility check | processes that outlive their timeouts |
| `TenantQuotaProofs`, `SandboxServiceProofs`, `BackendNamesProofs`, `K8sBackendProofs`, `GatewayProofs`, `CompatCheckProofs` | theorems and proofs | extend their component's module |
| `SandboxCountProofs`, `SandboxSerialProofs` | theorems about the sandbox service when only the backend fails: counts and limits; pods and the registry | each extends the one before, from `SandboxServiceProofs` on |
| `MC*` | constants for TLC | |

`SandboxService` takes its backend to be atomic: `BackendCreate` and its likes act
at one instant, at the latest when they return, a call that fails may have acted
before, and the command of a handler that died with the service may act at any time
later (`CommandActs`).  `SandboxPort` says the same of a call, and `K8sBackend` is shown
to implement it; `SandboxService` itself is not an instance of `SandboxPort`, so the
step from one to the other is by reading.  A call that acts at some moment before it
returns is here one that acts and returns at once and whose next step comes late (the
handler's next step may be as late as the return was).  `SandboxService` takes
the names as a parameter, `MakeName`; `MCSandbox` gives it those of `BackendNames`.

Correspondence with the code:

* **`TenantQuota`.** `known`, `plan` and `row` are the committed tables,
  `planLock` and `rowLock` PostgreSQL's row locks, `view` what a session has loaded
  and still holds, `pc` the next statement, `committed` the requests whose
  transaction took effect.  `Respond` sends the answer of a handler that returns;
  the flush and the commit (`Commit`, inside `CommitCreate`, `CommitUpdate`,
  `CommitConsume` and `CommitUnchanged`) come after it, and `Abort` may roll the
  transaction back on either side of it.  `End` frees the locks.  `Dirty` is
  SQLAlchemy's rule that only columns which differ from the loaded value are
  written.  `LockRow` is `get_quota`'s `FOR UPDATE`.  A plan change loads the tenant
  twice (`LoadTenant` and `LoadQuotas` for the check, then again, with
  `ReloadQuotas`, in `update`): the session's identity map is weak and nothing keeps
  the objects of the first load.
* **`SandboxService`.** `status` is the committed status column, `pods` what the
  backend has, by the key its adapter uses (the id for the mock, the made-up
  name for the others), `taken` which request's destroy last took each sandbox's
  pod, `stray` the commands whose handlers have died, `used` the tenant service's
  counter, `late` the quota calls that timed out and may still be served.  The row
  of an open create is visible only through the unique index (`NameClaimed`).
  `Commit` sends the success answer and writes, or conflicts and writes nothing;
  `CommitFails` sends it and writes nothing; a `Crash` at that point may come before
  or after the answer.  The tenant service appears as the atomic counter that
  `TenantQuota` is shown to implement.
* **`BackendNames`.** `Sanitize`, `Take` and `RStrip` are `_sanitize`, the slices and
  `rstrip("-")`; `BackendName` is `_make_name` (OpenShell) and `_make_crd_name`
  (Kubernetes), which agree.  `ValidNames` is `SandboxCreate`'s pattern.
* **`K8sBackend`.** `pc` is where the coroutine is, `proc` the operating-system
  process it waits for: it acts on the gateway (`Act`) at some moment before it
  exits (`Exit`), and goes on after the coroutine's death (`Crash`).  `box` is the
  gateway's registry, with the call that made each entry; `Poll`, `List` and
  `Sleep` are the loop of `_wait_openshell_ready`, `overdue` its 120 seconds.  A list
  is a process too: `Show` is the moment the gateway answers it, `List` the moment
  the coroutine reads it, and `stale` has the calls whose name was destroyed in
  between.  The
  controller turns pods on and off (`Turn`).
* **`TokenAuth`.** `published` is the set of keys the issuer serves, `cache` is
  `_jwks_cache`, `body` the answer a caller's fetch has got and not stored yet.
  Storing the answer and reading the cache are two actions (`Store`, `Close`), since
  closing the HTTP client is an await between them.  A token is its key and
  whether it is current and has a `sub`.
* **`InferenceGateway`.** `router` is `_provider_router` (the registered providers,
  or none yet), `sent` what the client has read; `Streamers` are the providers whose
  `stream()` is a generator.  A reply keeps the provider's own finish reason beside
  the one its adapter makes of it (`AnthropicReplies`, `OpenAIReplies`,
  `PlainReplies`); `Finish` is what the generator makes of that.  `Choose` answers
  503, 500 (content that cannot be joined) and 422 before any provider is asked.
* **`AuthenticatedGateway`.** `Chat` is a handler that starts, after its dependency
  `require_auth` has returned; callers that are not chats ask for the models.
* **`CompatCheck`.** The quick checks run one after the other (`QuickCheck`), then their
  verdict is worked out (`QuickDone`).  `creator` and `deleter` are operating-system
  processes: `CreateReturns` may give up on one that is still running, and one that
  is "broken" has registered its sandbox and then failed.

What is abstracted: payloads, prices, token counts, log lines, time of day
(timeouts are free choices), the wording of answers, signatures (a token is
signed by a key or is not).

## 3. Runs and bounds

Passing runs:

| Run | Question | Bounds |
|---|---|---|
| `tenant` | consume, release, plan change, creation and reads racing; no deadlock among row locks | 3 requests of any kind (at most 1 read), 1 tenant, 2 rows, 2 plans (one row unlimited), cut-offs before and after the answer |
| `sandbox_races` | names, failed creates, ownership under all faults | 4 requests (3 at once), 2 tenants, 1 name, 2 connections, OpenShell |
| `sandbox_serial` | count, limit, pods and the abstract registry | 5 requests in turn, 2 tenants whose prefixes are the same, 2 names, limits 1 and 2, Kubernetes, failing backend |
| `sandbox_live` | every request is answered; races never overcharge | 4 requests (3 at once), 1 name, 2 connections, failing backend |
| `k8s_backend` | a created sandbox is there, calls are atomic, none waits for ever | 3 calls, 2 names, every fault |
| `gateway` | who gets to a provider; form and end of answers; what becomes of the keys | 1 chat and 1 other caller, 5 models, 4 providers, with all, all but the default, or no router registered, every set of roles, 1 rotation that keeps one key, failing fetches, both modes |
| `compat_check` | leftovers, report, termination | 2 checks, 2 quick checks each, 2 seconds |

Why they are enough to be interesting: each race here needs two actors plus at
most one that created what they fight over; a third concurrent request shows that
nothing depends on pairs.  One tenant suffices where rows of different tenants
share nothing; `sandbox_races` has two, one of them unknown to the tenant
service.  Two rows are the least that two plan changes can lock in opposite
orders.  In `k8s_backend` a create, a destroy and a create of one name are the case
that matters; the second name is the "other sandbox" whose Ready is mistaken.
Chats share nothing but the key cache, so one of them and one caller more show the
races on it: two fetches, a rotation between their answers, and the older stored
last; the third key is the one that no overwrite may make unusable.  Every model has
its provider, so that every adapter's conversion is reached, and a null reason
through NVIDIA's.  Two quick checks reach all three verdicts.

Bounds that are not the code's: `MaxInFlight` bounds concurrency, `MaxClock` the
seconds that the compatibility check can tell apart.  Shrunk: `PoolSize` is 30 in
the code, `PrefixLength` 8 and `MaxLength` 63; tenant ids and names are cut to
three characters, so that prefixes can be the same and a name is cut.  The proofs
need none of these bounds.

Requests and calls differ in their number only.  `sandbox_races` and
`sandbox_serial`, which check no liveness, use TLC's symmetry.  The runs with
liveness properties cannot; they take one representative of each
renumbering instead: `tenant` and `k8s_backend` start with the calls in a fixed
order (`InitInOrder`), `sandbox_live` lets requests arrive in the order of their
numbers (`NextInOrder`), since a request is like any other until it arrives.
Two runs cut what no other actor can see: in `compat_check` only one of the two
requests has quick checks that fail or warn (`SpecObserved`; a report is its own
request's), and in `gateway` only the chat's caller comes with every token
(`GSpecObserved`; nobody looks at another's token, and the other caller may have none,
so that it is refused without a fetch, or a good one).

`CountExact` and `NeverOvercharged` are checked without HTTP faults, as nothing
in the code repairs the count after a lost call.  `RunningHasPod` excepts two
cases, and names the request whose destroy took the pod (`taken`): a delete of the
very sandbox that failed when the backend had done its work, so that the row went
back to running; and a destroy for another sandbox of the same backend name whose own
pod had been lost before.

### Where code and text differ

Each of these runs ends in a counterexample; `PROJECT.json` quotes the text.

| Run | What happens |
|---|---|
| `tenant_downgrade` | a consume commits between the check of a downgrade and its write |
| `tenant_plan_drift` | three plan changes: one commits between the two SELECTs of another's load, which then finds the limits as it wants them and writes its plan only; a third commits before it and leaves its limits |
| `sandbox_over_limit` | two creates pass the quota check; the refused charge is ignored |
| `sandbox_revived` | a stop overtaken by a forced delete writes the row back as stopped |
| `sandbox_orphan` | deleting a stopped sandbox leaves its pod on OpenShell and Kubernetes |

Divergences that need no interleaving and have no run of their own; the models
follow the code:

* `sandbox/tests/test_sandbox_service.py:128` deletes a running sandbox without
  force and expects it destroyed; the service refuses (`Refused`).
* `sandbox/.../adapters/openshell_adapter.py:75` calls the backend's name "globally
  unique".  It is the first eight characters of the tenant id, so the tenants
  `3f2504e0-4f89-41d3-9a0c-0305e82c3301` and `3f2504e0-8c11-4b7a-b6de-52f1a90c7d42`
  share theirs; names of more than 52 characters lose their end, and may lose what
  tells them apart.  `sandbox_serial` runs on such names; `BackendNamesProofs` says when
  they are unique.
* `sandbox/.../schemas/sandbox.py` ends its name pattern in `$`, which lets a newline
  at the end pass; sanitised and stripped, that is the name without it.
* `sandbox/.../adapters/k8s_adapter.py:376` waits for the sandbox to be Ready; it
  searches the whole list for the word, so another sandbox's will do, and it
  returns without an error after 120 seconds (`Listed`, `Poll`).
* `shared/auth.py:41` says the keys are fetched once; callers that arrive before the
  first answer fetch them too, and the answer that is stored last stays, be it
  the older (`Store`).  After a rotation every token of the new key is refused until
  the process is restarted; `KeptKeysAdmit` says what holds of the other keys.
* `shared/auth.py`: a token without `sub`, an issuer that does not answer, or a missing
  `KEYCLOAK_URL` ends in 500, not 401 (`Verify`, `FetchFails`).
* The sandbox service's `TenantClient` presents a mock token, which a tenant service
  in keycloak mode refuses.
* `shared/logging_config.py` keeps "168 files"; the names it gives to rotated
  files do not match the pattern by which the handler finds files to delete.
* The backend setting `nemoclaw` builds an `OpenShellAdapter`; `NemoclawAdapter` is
  never constructed.
* `sandbox/.../ports/sandbox_backend.py:134` promises policy updates; on Kubernetes
  they always raise, because the handle is built without its namespace
  (`BackendPolicy`).
* `inference-gw/.../router.py:5` gives the X-Provider header priority; the
  handler never reads it, nor a tenant's preference (`Routed`).
* `inference-gw/.../routes/chat.py:90` sets out to skip what cannot be converted; a
  list item whose text is null ends in an uncaught `TypeError`, 500 (`Joins`).
* `inference-gw/.../routes/chat.py:5` announces a quota check; there is none.
* `sandbox/.../routes/compatibility.py:275` cleans up "successful or not"; a create
  that outlives its 90 seconds, or registers its sandbox and then fails, leaves it
  behind (`CreateReturns`, `CreateRuns`, `LeftoverExplained`).  Line 264 takes any
  sandbox's Ready for the test's (`ListReturns`), and the wait "of at most 60 seconds"
  (line 255) contains a call without a timeout, as do the quick checks "of 5 seconds"
  (line 295; `Fairness`).
* Both services answer 200, 201 or 204 before they commit (`tenant/db.py:31`,
  `sandbox/db.py:16`), so that "created" may be untrue (`Respond` and `Abort`;
  `Commit` and `CommitFails`).
* Two deletes of one sandbox both release its quota (`sandbox_service.py:160`): the
  count ends too low.

## 4. Properties

* **Tenant service.** `LockedReadStays`: a consume or a read past its locked
  SELECT still sees the committed row.  `UsedCountsGrants`: the use is the sum of what
  has committed, all of it answered 200; nothing is lost or applied twice.
  `GrantsFit`: no step raises the use beyond the limit.  `OneCreatePerSlug`: two 201
  for a slug take a commit that failed after the first.  `WaitsEnd`: no deadlock among
  the row locks, though a plan change locks its rows in no agreed order; `WaitsFor`
  says which request waits for which.  `LedgerSpec`: refinement of `QuotaLedger`.
* **Sandbox service.** Under races and faults: `NameUnique`, `OwnRowsOnly`,
  `OwnPodsOnly` (also for a command that acts after its service died),
  `FailedCreateLeavesNoRow`, `NeverOvercharged`.  One request at a
  time: `CountExact`, `LiveWithinLimit`, `RunningHasPod`, `RegistrySpec`.
* **Kubernetes adapter.** `CreatedHasBox`: a create that returned has its sandbox,
  and it is its own, until a destroy of its name acts.  `EarlyReturnHasBox`: what an
  early return tells is no older than one list; a sandbox destroyed earlier in the
  wait is not reported.  `PortSpec`: refinement of `SandboxPort`.
* **Gateway and authentication.** `ChatsAreAuthenticated`: a handler runs only for a
  caller the issuer vouches for.  `KeptKeysAdmit`: no good token of a key that has
  been published all along is refused, whatever fetches fail or overtake each other.
  `StreamsWellFormed`.  `FinishIsProviders`: the finish reason means what the provider
  meant by its own, through both conversions.
* **Compatibility check.** `LeftoverExplained`: a test sandbox stays behind in three
  cases only.  `ReportConsistent`.
* **Liveness.** `EveryRequestAnswered` (tenant and sandbox service),
  `EveryCallReturns` (Kubernetes adapter), `EveryCallerServed` (gateway),
  `EveryCheckEnds`.
* **Refuted** (the table above): `UseFitsPlan`, `LimitsFollowPlan`,
  `LiveWithinLimit` under races, `DeletedStaysDeleted`, `DeletedLeavesNoPod`.

### Fairness

Weak fairness of each handler's steps, because the event loop
resumes every coroutine whose await has ended, and because PostgreSQL grants a
lock or a pooled connection that stays free.  Clients, failures, rotations and
late calls get no fairness; a disconnect or a rotation need never happen.  Fetches of keys and
providers' calls end because their HTTP clients have timeouts (10 seconds for
the keys; per read, so that a provider that trickles could hold a caller, which is
assumed not to happen), time passes (`Expire`).  Three assumptions go beyond the code and are
named where they are made: `sandbox_live` and `k8s_backend` take the backend's
commands to end (the adapters do not bound them), and `CompatCheck`'s `Fairness`
takes `openshell sandbox list` to end, in the quick checks and in the loop.  The compatibility check's create and delete
may hang: their timeouts do the work.

## 5. Proofs

`TenantQuotaProofs`, for any sets of requests, tenants, resources, plans and
amounts:

* `Invariance` (`TypeOK`): an inductive invariant.  `LockedReadStays` alone is not
  inductive: one needs who holds each lock (a request at its commit holds the row, one that
  rewrites limits holds the rows it has locked), and that a holder is unique.
* `ConsumeIsLocked` (`LockedReadStays`), `GrantsAlwaysFit` (`GrantsFit`).
* `ImplementsLedger` (`LedgerSpec`): a commit maps to one `Open`, `Charge` or
  `Relimit`, every other step to a stutter.  The locked view is what makes
  a commit's absolute write equal to an increment of the current row.

* `CreatesAreUnique` (`OneCreatePerSlug`): the inserter of a slug is alone until its
  commit, and a create that has committed finds its tenant, so that a later one cannot
  insert; one that was answered 201 is at its commit, has committed, or has failed.
* `UseIsWhatWasGranted` (`UsedCountsGrants`): `CountInv` adds that only finitely many
  requests have committed.  A sum over a set of requests is the value of any
  function that adds the elements one at a time (`Sums`); that it exists and is the only
  one is shown by taking a smallest set for which it fails (`SmallestSet`), as the
  library's induction rules cannot be used, and `SumIsTotal` links it to the
  `MapThenSumSet` of the property.
* `NoDeadlock` (`WaitsEnd`): `Holding` says who may hold which lock.  A tenant's row is
  locked by exactly the plan change that is writing its quota rows, so of two
  plan changes of one tenant one waits before it holds anything; consumes and
  reads hold one row and are about to commit.  So a chain is at most: a request at
  its first lock, the plan change, a request at its commit.
* `PlansHoldInTurn`: for one request at a time and limits that are natural numbers or
  "unlimited", `UseFitsPlan` and `LimitsFollowPlan` hold, so the two counterexamples of
  section 3 are races and nothing else.

`SandboxServiceProofs`, for any adapter, name function and set of faults:

* `Typing`, `Invariance`.
* `NamesStayUnique` (`NameUnique`): the invariant has to speak of committed live
  rows and open inserts together, as a row leaves the second set for the first at
  commit, and of the stop or start that brings a deleted row back.
* `FailuresLeaveNoRow` (`FailedCreateLeavesNoRow`): a create that has ended without
  success never had its row written.
* `RowsChangeForOwner` (`OwnRowsOnly`): a request past its load has a row of its
  own tenant, and rows keep their tenant.
* `PodsChangeForOwner` (`OwnPodsOnly`): every request works on the pod of its own
  row's name.  It assumes `TenantsSeparate`, that `MakeName` gives two tenants
  no common name.

`SandboxCountProofs`, for any number of requests, any adapter and names, and limits
that are natural numbers or "unlimited".  The theorems assume `Reliable` (only the
backend fails, since nothing in the code repairs a count after a lost quota call or
commit) and, all but the first, `Sequential` (one request at a time): the run
`sandbox_over_limit` shows what two racing creates do to the limit.

* `NobodyOvercharged` (`NeverOvercharged`), under races.  The invariant is a balance: live
  rows, plus creates about to commit, less deletes about to commit, are never
  fewer than what is counted.  Two deletes of one row, a refused charge and a row
  that is brought back make the balance bigger and never smaller.
* `SerialInvariance`: for one request at a time the balance is zero, the count stays within
  the limit, and what the request has read is still so (`Fresh`).  From it
  `CountsAreExact` (`CountExact`) and `LimitsAreKept` (`LiveWithinLimit`).

`SandboxSerialProofs`, under the same two assumptions:

* `RunningRowsHavePods` (`RunningHasPod`): `PodInv` follows a pod from the backend call that
  makes it to the commit that shows it, and through the moments at which a row
  shows as running while its pod is already gone (`Leaving`), to the two cases that the
  property excepts (`Excused`).
* `ImplementsRegistry` (`RegistrySpec`): a commit maps to the registry's step, all else to a
  stutter; `Fresh` is what lets a commit act on the row as it was loaded.
* `DeletedStaysInTurn`: from the refinement, `DeletedStaysDeleted`; the run
  `sandbox_revived` shows the race that breaks it.

`BackendNamesProofs`, for any alphabet and any lengths: that assumption holds of the names
the adapters make when the tenants' ids differ, sanitised, in their first
`PrefixLength` characters (`TenantsApart`: the cut leaves at least one character of
the sandbox's
name, so the prefix is never stripped), and one tenant's names are different when
they are short enough not to be cut (`ShortNamesApart`).  `PodsKeptApart` puts the
first together with `PodsChangeForOwner`: on such names, for such tenants, the service
has `OwnPodsOnly` with no assumption on `MakeName` but what makes it.

`K8sBackendProofs`, for any calls, names and faults:

* `Typing` (`TypeOK`) and `Invariance`: what a coroutine knows of its process, and
  that the box of a
  create that has acted is its own until a destroy of that name has acted.
* `CreatedStaysInGateway` (`CreatedHasBox`).  `EarlyReturnsSeeBox` (`EarlyReturnHasBox`):
  a list that showed the name and has not been read yet is still true, or `stale`.
* `ImplementsPort` (`PortSpec`): `Act` maps to `TakeEffect`, the steps that return to
  `Answer`, all else to a stutter.

`GatewayProofs`, for any callers, models, providers, catalogue, keys and rotations:

* `AuthInvariance`, `IssuerAdmits` (`AdmittedByIssuer`), `KeptKeysAlwaysAdmit`
  (`KeptKeysAdmit`): who decides by the cache finds it filled (`KeysHeld`), with one of
  the sets published so far, and a key published all along is in each of them.
* `GatewayInvariance`: for each point of a handler exactly the events its client has
  read (`Read`), by the reply where there is one, and that the adapter's reason means
  the provider's (`Meant`).  From it `StreamsAreWellFormed` and `FinishIsTheProviders`.
* `ImplementsParts`: the composition implements both parts, so all of the above hold of
  it.  `GatewayTyping` and `OnlyVouchedChat` (`ChatsAreAuthenticated`), for which
  a verdict must be final.

`CompatCheckProofs`, for any number of overlapping checks, names, seconds and quick checks:

* `Invariance`: what the handler knows of its processes at each point, that every test
  sandbox has a creator that has not undone its work (`BoxHeld`), and what the
  report adds up to so far (`ReportFits`).  From it `Typing` (`TypeOK`),
  `LeftoversExplained` (`LeftoverExplained`) and `ReportsAgree` (`ReportConsistent`).

Apart from `TenantsSeparate` (or what `PodsKeptApart` says of the ids in its place),
`LimitsSound`, `Reliable` and `Sequential`, stated where they are used, the proofs
assume only the named assumptions on constants in the modules.
The runs `sandbox_live` and `sandbox_serial` have constants that satisfy `Reliable`,
and `sandbox_serial` `Sequential` too.

Model-checked only: liveness under fairness, which is outside the prover's reach
(`EveryRequestAnswered` of the two services, `EveryCallReturns`,
`EveryCallerServed`, `EveryCheckEnds`), and the counterexamples of section 3.

## 6. Not modelled

* Authentication: `require_role` and `require_tenant_access`, predicates on the
  token that no modelled endpoint uses; restarting a process, which is what
  empties the key cache.  The other services depend on `require_auth` in the same
  way; `SandboxService` and `TenantQuota` take their callers to be authenticated
  members of a tenant.
* Kubernetes: pod and namespace YAML and the `kubectl` code, most of which has no
  caller; status and logs, which change nothing.
* The NemoClaw adapter (never constructed), snapshots (not implemented), listing and
  pagination (two SELECTs on which nothing is decided).
* `SandboxService` with the statements of `TenantQuota` in place of the atomic counter: the
  refinement of `QuotaLedger` stands for it, the product of the two is too large for TLC.
* Billing (a stub), logging and its rotation, start scripts, migrations beyond
  their unique indexes, and the design documents 01 to 05, which describe software
  that is not in the repository.

## 7. Plan

Done: every component that keeps state, the composition of gateway and
authentication, the refinements of `QuotaLedger`, `SandboxRegistry` and
`SandboxPort`, and a theorem for every safety property of the passing runs.  Next:

1. Which races break `CountExact` and `RunningHasPod`, and which do not.
2. `SandboxService` as an instance of `SandboxPort`: a call that acts at a moment of its own
   before it returns.
3. The hazards that no property covers yet and whose code keeps state, first of all the
   double release of the quota.
