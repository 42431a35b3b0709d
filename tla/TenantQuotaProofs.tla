------------------------- MODULE TenantQuotaProofs -------------------------
(***************************************************************************)
(* Proofs about TenantQuota, for every set of requests, tenants, resources *)
(* and plans.  The argument: a consume keeps its quota row locked from its *)
(* decision to its commit, only the holder of a row's lock writes the row, *)
(* and only the one open insert of a slug creates a tenant's rows.         *)
(***************************************************************************)
EXTENDS TenantQuota, FiniteSetTheorems, TLAPS

(* What the steps below rest on, part by part. *)

(* Where in the handlers each operation can be. *)
LabelsFit ==
    \A r \in Requests :
        /\ pc[r] \in {"slug", "insert"} => call[r].op = "create"
        /\ pc[r] \in {"load", "quotas"} => call[r].op \in {"get", "update"}
        /\ pc[r] \in {"reload", "requotas", "write", "rows"} => call[r].op = "update"
        /\ pc[r] = "lock" => call[r].op \in {"consume", "get"}

(* A request about to commit on one row holds that row's lock. *)
LocksHeld ==
    \A r \in Requests :
        pc[r] = "commit" /\ call[r].op \in {"consume", "get"} =>
            rowLock[call[r].tenant][call[r].resource] = r

(* A request past its existence check works on a tenant that exists. *)
OnlyKnown ==
    \A r \in Requests :
        \/ pc[r] = "commit" /\ call[r].op \in {"consume", "get"}
        \/ pc[r] \in {"quotas", "reload", "requotas", "write", "rows"}
        => call[r].tenant \in known

(* The inserter of a slug is alone, and the slug is still free. *)
OneInserter ==
    \A r \in Requests :
        pc[r] = "commit" /\ call[r].op = "create" =>
            /\ call[r].tenant \notin known
            /\ \A o \in Requests :
                  /\ pc[o] = "commit" /\ call[o].op = "create"
                  /\ call[o].tenant = call[r].tenant
                  => o = r

(* A consume about to commit was within the limit it read. *)
Decided ==
    \A r \in Requests :
        pc[r] = "commit" /\ call[r].op = "consume" =>
            ~Overdraws(view[r].row[call[r].resource], call[r].amount)

(* Limits come from plans, and nothing is used before a tenant exists. *)
RowsSound ==
    \A t \in Tenants, res \in Resources :
        /\ row[t][res].limit \in PlanLimits
        /\ t \notin known => row[t][res].used = 0

IInv == TypeOK /\ LabelsFit /\ LocksHeld /\ OnlyKnown /\ OneInserter /\ Decided
               /\ RowsSound /\ LockedReadStays

-----------------------------------------------------------------------------

(* Replacing one column of a quota row leaves the other. *)
LEMMA RowColumns ==
    ASSUME NEW q \in QuotaRow, NEW n \in Int
    PROVE  /\ [q EXCEPT !.used = n] \in QuotaRow
           /\ [q EXCEPT !.used = n].used = n
           /\ [q EXCEPT !.used = n].limit = q.limit
           /\ [q EXCEPT !.limit = n] \in QuotaRow
           /\ [q EXCEPT !.limit = n].limit = n
           /\ [q EXCEPT !.limit = n].used = q.used
           /\ [q EXCEPT !.limit = q.limit] = q
BY DEF QuotaRow

(* A plan's limit is one of the plans' limits. *)
LEMMA PlanLimitIn ==
    ASSUME NEW p \in Plans, NEW res \in Resources
    PROVE  PlanQuotas[p][res] \in PlanLimits
BY DEF PlanLimits

(* A plan's fresh rows are quota rows. *)
LEMMA FreshRowsType ==
    ASSUME NEW p \in Plans
    PROVE  FreshRows(p) \in [Resources -> QuotaRow]
BY PlanQuotasAssumption DEF FreshRows, QuotaRow

(* Their limits are the plan's, and nothing is used. *)
LEMMA FreshRowsValue ==
    ASSUME NEW p \in Plans, NEW res \in Resources
    PROVE  /\ FreshRows(p)[res].limit = PlanQuotas[p][res]
           /\ FreshRows(p)[res].used = 0
BY DEF FreshRows

(* Ending a transaction keeps the types of what it touches. *)
LEMMA EndType ==
    ASSUME TypeOK, NEW r \in Requests, NEW status \in Answers, End(r, status)
    PROVE  /\ pc' \in [Requests -> Labels]
           /\ answer' \in [Requests -> Answers]
           /\ view' \in [Requests -> Views]
           /\ planLock' \in [Tenants -> Holders]
           /\ rowLock' \in [Tenants -> [Resources -> Holders]]
<1>1. call[r].plan \in Plans
  BY DEF TypeOK, Calls
<1>2. [plan |-> call[r].plan, row |-> FreshRows(call[r].plan)] \in Views
  BY <1>1, FreshRowsType DEF Views
<1> QED
  BY <1>2 DEF TypeOK, End, Labels, Holders

(* The initial states satisfy the inductive invariant. *)
LEMMA InitInv == Init => IInv
<1> SUFFICES ASSUME Init PROVE IInv
  OBVIOUS
<1>1. TypeOK
  BY FreshRowsType, PlanQuotasAssumption
     DEF Init, TypeOK, Calls, Labels, Answers, Views, Holders
<1>2. RowsSound
  BY PlanLimitIn DEF Init, RowsSound, FreshRows
<1> QED
  BY <1>1, <1>2
     DEF Init, IInv, LabelsFit, LocksHeld, OnlyKnown, OneInserter, Decided, LockedReadStays

(* A call's parameters have their types. *)
LEMMA CallType ==
    ASSUME TypeOK, NEW r \in Requests
    PROVE  /\ call[r].tenant \in Tenants
           /\ call[r].resource \in Resources
           /\ call[r].plan \in Plans
           /\ call[r].amount \in Int
BY PlanQuotasAssumption DEF TypeOK, Calls

(* What the end of r's transaction leaves of the others: all they have     *)
(* loaded and locked, and r itself is done.                                *)
LEMMA EndFrame ==
    ASSUME TypeOK, NEW r \in Requests, NEW status \in Answers, End(r, status)
    PROVE  /\ pc'[r] = "done"
           /\ \A o \in Requests \ {r} : pc'[o] = pc[o] /\ view'[o] = view[o]
           /\ \A o \in Requests \ {r}, t \in Tenants, res \in Resources :
                 rowLock[t][res] = o => rowLock'[t][res] = o
BY DEF TypeOK, End

(* A transaction that ends without writing anything. *)
LEMMA EndInv ==
    ASSUME IInv, NEW r \in Requests, NEW status \in Answers, End(r, status),
           UNCHANGED <<db, call>>
    PROVE  IInv'
<1>0. TypeOK
  BY DEF IInv
<1>1. /\ known' = known /\ plan' = plan /\ row' = row /\ call' = call
      /\ committed' = committed
  BY DEF db
<1>2. TypeOK'
  BY <1>0, <1>1, EndType DEF TypeOK
<1>3. LocksHeld' /\ LockedReadStays'
  BY <1>0, <1>1, EndFrame, CallType DEF IInv, LocksHeld, LockedReadStays
<1>4. LabelsFit' /\ OnlyKnown' /\ OneInserter' /\ Decided'
  BY <1>0, <1>1, EndFrame DEF IInv, LabelsFit, OnlyKnown, OneInserter, Decided, Overdraws
<1>5. RowsSound'
  BY <1>1 DEF IInv, RowsSound
<1> QED
  BY <1>2, <1>3, <1>4, <1>5 DEF IInv

(* A request that goes on without having loaded or locked anything that    *)
(* the invariant speaks of.                                                *)
LEMMA GotoInv ==
    ASSUME IInv, NEW r \in Requests,
           NEW label \in {"slug", "insert", "load", "lock", "quotas", "reload"},
           label \in {"slug", "insert"} => call[r].op = "create",
           label \in {"load", "quotas"} => call[r].op \in {"get", "update"},
           label = "reload" => call[r].op = "update",
           label \in {"quotas", "reload"} => call[r].tenant \in known,
           label = "lock" => call[r].op \in {"consume", "get"},
           Goto(r, label), UNCHANGED <<db, locks, call, view>>
    PROVE  IInv'
<1>0. TypeOK
  BY DEF IInv
<1>1. /\ known' = known /\ plan' = plan /\ row' = row /\ call' = call
      /\ committed' = committed
      /\ planLock' = planLock /\ rowLock' = rowLock /\ view' = view
  BY DEF db, locks
<1>2. pc' = [pc EXCEPT ![r] = label] /\ answer' = answer /\ label \in Labels
  BY DEF Goto, Labels
<1>3. TypeOK'
  BY <1>0, <1>1, <1>2 DEF TypeOK
<1>4. \A o \in Requests : pc'[o] = IF o = r THEN label ELSE pc[o]
  BY <1>0, <1>2 DEF TypeOK
<1>5. LabelsFit' /\ LocksHeld' /\ LockedReadStays' /\ OnlyKnown' /\ OneInserter'
  BY <1>1, <1>4
     DEF IInv, LabelsFit, LocksHeld, LockedReadStays, OnlyKnown, OneInserter
<1>6. Decided' /\ RowsSound'
  BY <1>1, <1>4 DEF IInv, Decided, RowsSound, Overdraws
<1> QED
  BY <1>3, <1>5, <1>6 DEF IInv

(* A request arrives. *)
LEMMA ArriveInv ==
    ASSUME IInv, NEW r \in Requests, Arrive(r)
    PROVE  IInv'
<1>1. call[r].op \in {"create", "consume", "update", "get"}
  BY PlanQuotasAssumption DEF IInv, TypeOK, Calls
<1> QED
  BY <1>1, GotoInv DEF Arrive, First

(* POST /tenants up to the commit: the insert is the only open one of its  *)
(* slug.                                                                   *)
LEMMA CreateInv ==
    ASSUME IInv, NEW r \in Requests, CheckSlug(r) \/ InsertTenant(r)
    PROVE  IInv'
<1>0. TypeOK
  BY DEF IInv
<1>1. CASE CheckSlug(r)
  BY <1>1, EndInv, GotoInv DEF CheckSlug, Answers, IInv, LabelsFit
<1>2. CASE InsertTenant(r) /\ call[r].tenant \in known
  BY <1>2, EndInv DEF InsertTenant, Answers
<1>3. CASE InsertTenant(r) /\ call[r].tenant \notin known
  <2>1. /\ known' = known /\ plan' = plan /\ row' = row /\ call' = call
        /\ committed' = committed
        /\ planLock' = planLock /\ rowLock' = rowLock /\ view' = view
        /\ pc' = [pc EXCEPT ![r] = "commit"] /\ answer' = answer
        /\ call[r].op = "create" /\ ~SlugClaimed(r)
    BY <1>3 DEF InsertTenant, Goto, db, locks, IInv, LabelsFit
  <2>2. TypeOK'
    BY <1>0, <2>1 DEF TypeOK, Labels
  <2>3. \A o \in Requests : pc'[o] = IF o = r THEN "commit" ELSE pc[o]
    BY <1>0, <2>1 DEF TypeOK
  <2>4. LabelsFit' /\ LocksHeld' /\ LockedReadStays' /\ OnlyKnown'
    BY <2>1, <2>3 DEF IInv, LabelsFit, LocksHeld, LockedReadStays, OnlyKnown
  <2>5. OneInserter'
    BY <1>3, <2>1, <2>3 DEF IInv, OneInserter, SlugClaimed
  <2>6. Decided' /\ RowsSound'
    BY <2>1, <2>3 DEF IInv, Decided, RowsSound, Overdraws
  <2> QED
    BY <2>2, <2>4, <2>5, <2>6 DEF IInv
<1> QED
  BY <1>1, <1>2, <1>3

(* The unlocked reads of GET and PATCH. *)
LEMMA LoadInv ==
    ASSUME IInv, NEW r \in Requests, LoadTenant(r) \/ LoadQuotas(r) \/ ReloadQuotas(r)
    PROVE  IInv'
<1> DEFINE t == call[r].tenant
<1>0. TypeOK /\ t \in Tenants
  BY CallType DEF IInv
<1>1. ASSUME NEW label \in {"requotas", "write", "commit"}, Goto(r, label),
             UNCHANGED <<db, locks, call>>, t \in known, call[r].op = "update",
             view' \in [Requests -> Views],
             \A o \in Requests \ {r} : view'[o] = view[o]
      PROVE  IInv'
  <2>1. /\ known' = known /\ plan' = plan /\ row' = row /\ call' = call
        /\ committed' = committed
        /\ planLock' = planLock /\ rowLock' = rowLock
        /\ pc' = [pc EXCEPT ![r] = label] /\ answer' = answer
    BY <1>1 DEF Goto, db, locks
  <2>2. TypeOK'
    BY <1>0, <1>1, <2>1 DEF TypeOK, Labels
  <2>3. \A o \in Requests : pc'[o] = IF o = r THEN label ELSE pc[o]
    BY <1>0, <2>1 DEF TypeOK
  <2>4. LabelsFit' /\ LocksHeld' /\ LockedReadStays' /\ OnlyKnown' /\ OneInserter'
    BY <1>1, <2>1, <2>3
       DEF IInv, LabelsFit, LocksHeld, LockedReadStays, OnlyKnown, OneInserter
  <2>5. Decided' /\ RowsSound'
    BY <1>1, <2>1, <2>3 DEF IInv, Decided, RowsSound, Overdraws
  <2> QED
    BY <2>2, <2>4, <2>5 DEF IInv
<1>2. CASE LoadTenant(r)
  <2>1. pc[r] = "load" => call[r].op \in {"get", "update"}
    BY DEF IInv, LabelsFit
  <2>2. pc[r] = "reload" => call[r].op = "update"
    BY DEF IInv, LabelsFit
  <2>3. CASE t \notin known
    BY <1>2, <2>3, EndInv DEF LoadTenant, Answers
  <2>4. CASE t \in known /\ pc[r] = "load"
    BY <1>2, <2>1, <2>4, GotoInv DEF LoadTenant
  <2>5. CASE t \in known /\ pc[r] = "reload"
    <3>1. /\ view' = [view EXCEPT ![r].plan = plan[t]] /\ Goto(r, "requotas")
          /\ UNCHANGED <<db, locks, call>>
      BY <1>2, <2>5 DEF LoadTenant
    <3>2. view' \in [Requests -> Views] /\ \A o \in Requests \ {r} : view'[o] = view[o]
      BY <1>0, <3>1 DEF TypeOK, Views
    <3> QED
      BY <1>1, <2>2, <2>5, <3>1, <3>2
  <2> QED
    BY <1>2, <2>3, <2>4, <2>5 DEF LoadTenant
<1>3. CASE LoadQuotas(r)
  <2>1. t \in known /\ pc[r] = "quotas"
    BY <1>3 DEF LoadQuotas, IInv, OnlyKnown
  <2>2. CASE End(r, 422) /\ UNCHANGED <<db, call>>
    BY <2>2, EndInv DEF Answers
  <2>3. CASE /\ UNCHANGED <<db, locks, call, view>>
             /\ \/ call[r].op = "update" /\ Goto(r, "reload")
                \/ call[r].op = "get" /\ Goto(r, "lock")
    BY <2>1, <2>3, GotoInv
  <2> QED
    BY <1>3, <2>2, <2>3, Zenon DEF LoadQuotas
<1>4. CASE ReloadQuotas(r)
  <2>1. /\ t \in known /\ call[r].op = "update" /\ UNCHANGED <<db, locks, call>>
        /\ Goto(r, "commit") \/ Goto(r, "write")
        /\ view' = [view EXCEPT ![r].row = row[t]]
    BY <1>4 DEF ReloadQuotas, IInv, OnlyKnown, LabelsFit
  <2>2. view' \in [Requests -> Views] /\ \A o \in Requests \ {r} : view'[o] = view[o]
    BY <1>0, <2>1 DEF TypeOK, Views
  <2> QED
    BY <1>1, <2>1, <2>2
<1> QED
  BY <1>2, <1>3, <1>4

(* The answer leaves, and nothing else changes. *)
LEMMA RespondInv ==
    ASSUME IInv, NEW r \in Requests, Respond(r)
    PROVE  IInv'
<1>1. /\ known' = known /\ plan' = plan /\ row' = row /\ call' = call
      /\ committed' = committed /\ pc' = pc
      /\ planLock' = planLock /\ rowLock' = rowLock /\ view' = view
      /\ answer' = [answer EXCEPT ![r] = Success[call[r].op]]
  BY DEF Respond, db, locks
<1>2. Success[call[r].op] \in Answers
  <2>1. call[r].op \in {"create", "consume", "update", "get"}
    BY PlanQuotasAssumption DEF IInv, TypeOK, Calls
  <2> QED
    BY <2>1 DEF Success, Answers
<1>3. TypeOK'
  BY <1>1, <1>2 DEF IInv, TypeOK
<1>4. LabelsFit' /\ LocksHeld' /\ LockedReadStays' /\ OnlyKnown' /\ OneInserter'
  BY <1>1 DEF IInv, LabelsFit, LocksHeld, LockedReadStays, OnlyKnown, OneInserter
<1>5. Decided' /\ RowsSound'
  BY <1>1 DEF IInv, Decided, RowsSound, Overdraws
<1> QED
  BY <1>3, <1>4, <1>5 DEF IInv

(* The flush of PATCH: it takes locks nobody holds. *)
LEMMA WriteInv ==
    ASSUME IInv, NEW r \in Requests,
           WritePlan(r) \/ \E res \in Resources : WriteRow(r, res)
    PROVE  IInv'
<1> DEFINE t == call[r].tenant
<1>0. TypeOK /\ t \in Tenants
  BY CallType DEF IInv
<1>1. CASE WritePlan(r)
  <2>1. /\ known' = known /\ plan' = plan /\ row' = row /\ call' = call
        /\ committed' = committed
        /\ planLock' = [planLock EXCEPT ![t] = r] /\ rowLock' = rowLock /\ view' = view
        /\ pc' = [pc EXCEPT ![r] = "rows"] /\ answer' = answer
        /\ call[r].op = "update" /\ t \in known
    BY <1>1 DEF WritePlan, Goto, db, IInv, LabelsFit, OnlyKnown
  <2>2. TypeOK'
    BY <1>0, <2>1 DEF TypeOK, Labels, Holders
  <2>3. \A o \in Requests : pc'[o] = IF o = r THEN "rows" ELSE pc[o]
    BY <1>0, <2>1 DEF TypeOK
  <2>4. LabelsFit' /\ LocksHeld' /\ LockedReadStays' /\ OnlyKnown' /\ OneInserter'
    BY <2>1, <2>3
       DEF IInv, LabelsFit, LocksHeld, LockedReadStays, OnlyKnown, OneInserter
  <2>5. Decided' /\ RowsSound'
    BY <2>1, <2>3 DEF IInv, Decided, RowsSound, Overdraws
  <2> QED
    BY <2>2, <2>4, <2>5 DEF IInv
<1>2. ASSUME NEW res \in Resources, WriteRow(r, res)
      PROVE  IInv'
  <2>1. /\ known' = known /\ plan' = plan /\ row' = row /\ call' = call
        /\ committed' = committed
        /\ planLock' = planLock /\ rowLock' = [rowLock EXCEPT ![t][res] = r]
        /\ view' = view /\ pc' = pc /\ answer' = answer
        /\ rowLock[t][res] = NoRequest /\ pc[r] = "rows"
    BY <1>2 DEF RowFree, WriteRow, db
  <2>2. TypeOK'
    BY <1>0, <2>1 DEF TypeOK, Holders
  <2>3. \A u \in Tenants, s \in Resources :
           rowLock[u][s] # NoRequest => rowLock'[u][s] = rowLock[u][s]
    BY <1>0, <2>1 DEF TypeOK
  <2>4. LocksHeld' /\ LockedReadStays'
    BY <1>0, <2>1, <2>3, CallType, PlanQuotasAssumption
       DEF IInv, LocksHeld, LockedReadStays
  <2>5. LabelsFit' /\ OnlyKnown' /\ OneInserter' /\ Decided' /\ RowsSound'
    BY <2>1
       DEF IInv, LabelsFit, OnlyKnown, OneInserter, Decided, RowsSound, Overdraws
  <2> QED
    BY <2>2, <2>4, <2>5 DEF IInv
<1> QED
  BY <1>1, <1>2

(* A new tenant's commit: no other request works on its rows yet. *)
LEMMA CommitCreateInv ==
    ASSUME IInv, NEW r \in Requests, CommitCreate(r)
    PROVE  IInv'
<1> DEFINE t == call[r].tenant
<1>0. TypeOK /\ t \in Tenants /\ call[r].plan \in Plans
  BY CallType DEF IInv
<1>1. /\ known' = known \cup {t} /\ plan' = [plan EXCEPT ![t] = call[r].plan]
      /\ row' = [row EXCEPT ![t] = FreshRows(call[r].plan)] /\ call' = call
      /\ pc[r] = "commit" /\ call[r].op = "create" /\ t \notin known
      /\ End(r, answer[r]) /\ answer[r] \in Answers /\ committed' = committed \cup {r}
  BY <1>0 DEF CommitCreate, Commit, IInv, OneInserter, TypeOK
<1>2. TypeOK'
  BY <1>0, <1>1, EndType, FreshRowsType DEF TypeOK
<1>3. LocksHeld'
  BY <1>0, <1>1, EndFrame, CallType DEF IInv, LocksHeld
<1>4. \A u \in Tenants \ {t} : row'[u] = row[u]
  BY <1>0, <1>1 DEF TypeOK
<1>5. LockedReadStays'
  BY <1>0, <1>1, <1>4, EndFrame, CallType DEF IInv, LockedReadStays, OnlyKnown
<1>6. LabelsFit' /\ OnlyKnown' /\ OneInserter'
  BY <1>0, <1>1, EndFrame DEF IInv, LabelsFit, OnlyKnown, OneInserter
<1>7. Decided'
  BY <1>0, <1>1, EndFrame DEF IInv, Decided, Overdraws
<1>8. RowsSound'
  <2>1. row'[t] = FreshRows(call[r].plan)
    BY <1>0, <1>1 DEF TypeOK
  <2> QED
    <3>1. ASSUME NEW u \in Tenants, NEW res \in Resources
          PROVE  /\ row'[u][res].limit \in PlanLimits
                 /\ u \notin known' => row'[u][res].used = 0
      <4>1. CASE u = t
        <5>1. /\ row'[u][res].limit = PlanQuotas[call[r].plan][res]
              /\ row'[u][res].used = 0
          BY <1>0, <2>1, <4>1, FreshRowsValue
        <5>2. PlanQuotas[call[r].plan][res] \in PlanLimits
          BY <1>0, PlanLimitIn
        <5> QED
          BY <5>1, <5>2
      <4>2. CASE u # t
        BY <1>1, <1>4, <4>2 DEF IInv, RowsSound
      <4> QED
        BY <4>1, <4>2
    <3> QED
      BY <3>1 DEF RowsSound
<1> QED
  BY <1>2, <1>3, <1>5, <1>6, <1>7, <1>8 DEF IInv

(* A plan change's commit writes only rows it holds the locks of. *)
LEMMA CommitUpdateInv ==
    ASSUME IInv, NEW r \in Requests, CommitUpdate(r)
    PROVE  /\ IInv'
           /\ call[r].tenant \in known /\ known' = known
           /\ \A u \in Tenants, res \in Resources :
                 row'[u][res].used = row[u][res].used
           /\ \A u \in Tenants \ {call[r].tenant} : row'[u] = row[u]
           /\ \A res \in Resources :
                 row'[call[r].tenant][res].limit =
                    IF res \in Dirty(r) THEN PlanQuotas[call[r].plan][res]
                                        ELSE row[call[r].tenant][res].limit
<1> DEFINE t == call[r].tenant
<1>0. TypeOK /\ t \in Tenants /\ call[r].plan \in Plans
  BY CallType DEF IInv
<1>1. /\ known' = known /\ plan' = [plan EXCEPT ![t] = call[r].plan] /\ call' = call
      /\ pc[r] = "rows" /\ t \in known
      /\ End(r, answer[r]) /\ answer[r] \in Answers /\ committed' = committed \cup {r}
      /\ \A res \in Dirty(r) : rowLock[t][res] = r
  BY <1>0 DEF CommitUpdate, Commit, IInv, OnlyKnown, TypeOK
<1> DEFINE new(res) == [row[t][res] EXCEPT !.limit = PlanQuotas[call[r].plan][res]]
<1>2. /\ row' \in [Tenants -> [Resources -> QuotaRow]]
      /\ \A u \in Tenants \ {t} : row'[u] = row[u]
      /\ \A res \in Resources \ Dirty(r) : row'[t][res] = row[t][res]
      /\ \A res \in Resources : row'[t][res].used = row[t][res].used
      /\ \A res \in Dirty(r) : row'[t][res].limit = PlanQuotas[call[r].plan][res]
  <2>1. \A res \in Resources :
           /\ row[t][res] \in QuotaRow /\ new(res) \in QuotaRow
           /\ new(res).used = row[t][res].used
           /\ new(res).limit = PlanQuotas[call[r].plan][res]
    <3> TAKE res \in Resources
    <3>1. row[t][res] \in QuotaRow /\ PlanQuotas[call[r].plan][res] \in Int
      BY <1>0, PlanQuotasAssumption DEF TypeOK
    <3> QED
      BY <3>1, RowColumns
  <2>2. row' = [row EXCEPT ![t] = [res \in Resources |->
                   IF res \in Dirty(r) THEN new(res) ELSE row[t][res]]]
    BY <1>0 DEF CommitUpdate, TypeOK
  <2>3. Dirty(r) \subseteq Resources
    BY DEF Dirty
  <2> HIDE DEF new
  <2>4. /\ \A u \in Tenants \ {t} : row'[u] = row[u]
        /\ \A res \in Resources :
              row'[t][res] = IF res \in Dirty(r) THEN new(res) ELSE row[t][res]
    BY <1>0, <2>2 DEF TypeOK
  <2>5. [res \in Resources |-> IF res \in Dirty(r) THEN new(res) ELSE row[t][res]]
           \in [Resources -> QuotaRow]
    BY <2>1
  <2>6. row' \in [Tenants -> [Resources -> QuotaRow]]
    BY <1>0, <2>2, <2>5 DEF TypeOK
  <2> QED
    BY <2>1, <2>3, <2>4, <2>6
<1>3. TypeOK'
  <2>1. plan' \in [Tenants -> Plans]
    BY <1>0, <1>1 DEF TypeOK
  <2>2. /\ known' \in SUBSET Tenants /\ call' \in [Requests -> Calls]
        /\ committed' \in SUBSET Requests
    BY <1>0, <1>1 DEF TypeOK
  <2> QED
    BY <1>0, <1>1, <1>2, <2>1, <2>2, EndType DEF TypeOK
<1>4. LocksHeld'
  BY <1>0, <1>1, EndFrame, CallType DEF IInv, LocksHeld
<1>5. LockedReadStays'
  <2>1. SUFFICES ASSUME NEW o \in Requests, pc'[o] = "commit",
                        call'[o].op \in {"consume", "get"}
                 PROVE  /\ rowLock'[call'[o].tenant][call'[o].resource] = o
                        /\ view'[o].row[call'[o].resource]
                              = row'[call'[o].tenant][call'[o].resource]
    BY DEF LockedReadStays
  <2> DEFINE u == call[o].tenant
             res == call[o].resource
  <2>2. u \in Tenants /\ res \in Resources
    BY <1>0, CallType
  <2>3. o # r /\ pc[o] = "commit" /\ view'[o] = view[o]
    BY <1>0, <1>1, <2>1, EndFrame
  <2>4. rowLock[u][res] = o /\ view[o].row[res] = row[u][res]
    BY <1>1, <2>1, <2>3 DEF IInv, LockedReadStays
  <2>5. rowLock'[u][res] = o
    BY <1>0, <1>1, <2>2, <2>3, <2>4, EndFrame
  <2>6. row'[u][res] = row[u][res]
    <3>1. u = t => res \notin Dirty(r)
      BY <1>1, <2>3, <2>4
    <3> QED
      BY <1>2, <2>2, <3>1
  <2> QED
    BY <1>1, <2>3, <2>4, <2>5, <2>6
<1>6. LabelsFit' /\ OnlyKnown' /\ OneInserter'
  BY <1>0, <1>1, EndFrame DEF IInv, LabelsFit, OnlyKnown, OneInserter
<1>7. Decided'
  BY <1>0, <1>1, EndFrame DEF IInv, Decided, Overdraws
<1>8. RowsSound'
  <2>1. ASSUME NEW res \in Resources
        PROVE  row'[t][res].limit \in PlanLimits
    BY <1>0, <1>2, <2>1, PlanLimitIn DEF IInv, RowsSound
  <2> QED
    BY <1>0, <1>1, <1>2, <2>1 DEF IInv, RowsSound
<1> QED
  BY <1>1, <1>2, <1>3, <1>4, <1>5, <1>6, <1>7, <1>8 DEF IInv

(* SELECT ... FOR UPDATE: a free row's lock, and the row as committed. *)
LEMMA LockInv ==
    ASSUME IInv, NEW r \in Requests, LockRow(r)
    PROVE  IInv'
<1> DEFINE t == call[r].tenant
           res == call[r].resource
<1>0. TypeOK /\ t \in Tenants /\ res \in Resources
  BY CallType DEF IInv
<1>1. CASE (End(r, 404) \/ End(r, 402)) /\ UNCHANGED <<db, call>>
  BY <1>1, EndInv DEF Answers
<1>2. CASE /\ Goto(r, "commit") /\ UNCHANGED <<db, planLock, call>>
           /\ rowLock' = [rowLock EXCEPT ![t][res] = r]
           /\ rowLock[t][res] = NoRequest /\ t \in known /\ pc[r] = "lock"
           /\ ~(call[r].op = "consume" /\ Overdraws(row[t][res], call[r].amount))
           /\ view' = [view EXCEPT ![r].row[res] = row[t][res]]
  <2>1. /\ known' = known /\ plan' = plan /\ row' = row /\ call' = call
        /\ committed' = committed /\ planLock' = planLock
        /\ pc' = [pc EXCEPT ![r] = "commit"] /\ answer' = answer
        /\ call[r].op \in {"consume", "get"}
    BY <1>2 DEF Goto, db, IInv, LabelsFit
  <2>2. /\ view' \in [Requests -> Views]
        /\ \A o \in Requests \ {r} : view'[o] = view[o]
        /\ view'[r].row[res] = row[t][res]
    <3>1. view[r] \in Views /\ row[t][res] \in QuotaRow
      BY <1>0 DEF TypeOK
    <3>2. [view[r].row EXCEPT ![res] = row[t][res]] \in [Resources -> QuotaRow]
      BY <1>0, <3>1 DEF Views
    <3> QED
      BY <1>0, <1>2, <3>1, <3>2 DEF TypeOK, Views
  <2>3. TypeOK'
    BY <1>0, <1>2, <2>1, <2>2 DEF TypeOK, Labels, Holders
  <2>4. \A o \in Requests : pc'[o] = IF o = r THEN "commit" ELSE pc[o]
    BY <1>0, <2>1 DEF TypeOK
  <2>5. /\ rowLock'[t][res] = r
        /\ \A u \in Tenants, s \in Resources :
              rowLock[u][s] # NoRequest => rowLock'[u][s] = rowLock[u][s]
    BY <1>0, <1>2 DEF TypeOK
  <2>6. LocksHeld' /\ LockedReadStays'
    <3>1. LocksHeld'
      BY <1>0, <2>1, <2>4, <2>5, CallType, PlanQuotasAssumption DEF IInv, LocksHeld
    <3>2. LockedReadStays'
      <4>1. SUFFICES ASSUME NEW o \in Requests, pc'[o] = "commit",
                            call'[o].op \in {"consume", "get"}
                     PROVE  /\ rowLock'[call'[o].tenant][call'[o].resource] = o
                            /\ view'[o].row[call'[o].resource]
                                  = row'[call'[o].tenant][call'[o].resource]
        BY DEF LockedReadStays
      <4>2. CASE o = r
        BY <2>1, <2>2, <2>5, <4>1, <4>2
      <4>3. CASE o # r
        <5>1. pc[o] = "commit" /\ call[o].op \in {"consume", "get"} /\ view'[o] = view[o]
          BY <2>1, <2>2, <2>4, <4>1, <4>3
        <5>2. /\ rowLock[call[o].tenant][call[o].resource] = o
              /\ view[o].row[call[o].resource] = row[call[o].tenant][call[o].resource]
          BY <5>1 DEF IInv, LockedReadStays
        <5>3. call[o].tenant \in Tenants /\ call[o].resource \in Resources
          BY <1>0, CallType
        <5>4. o # NoRequest
          BY PlanQuotasAssumption
        <5> QED
          BY <2>1, <2>5, <5>1, <5>2, <5>3, <5>4
      <4> QED
        BY <4>2, <4>3
    <3> QED
      BY <3>1, <3>2
  <2>7. LabelsFit' /\ OnlyKnown' /\ OneInserter'
    BY <1>2, <2>1, <2>4 DEF IInv, LabelsFit, OnlyKnown, OneInserter
  <2>8. Decided'
    <3>1. SUFFICES ASSUME NEW o \in Requests, pc'[o] = "commit", call'[o].op = "consume"
                   PROVE  ~Overdraws(view'[o].row[call'[o].resource], call'[o].amount)
      BY DEF Decided, Overdraws
    <3>2. CASE o = r
      BY <1>2, <2>1, <2>2, <3>1, <3>2
    <3>3. CASE o # r
      <4>1. pc[o] = "commit" /\ call[o].op = "consume" /\ view'[o] = view[o]
        BY <2>1, <2>2, <2>4, <3>1, <3>3
      <4> QED
        BY <2>1, <4>1 DEF IInv, Decided
    <3> QED
      BY <3>2, <3>3
  <2>9. RowsSound'
    BY <2>1 DEF IInv, RowsSound
  <2> QED
    BY <2>3, <2>6, <2>7, <2>8, <2>9 DEF IInv
<1> QED
  BY <1>1, <1>2, Zenon DEF RowFree, LockRow

(* A consume's commit writes the one row it holds the lock of. *)
LEMMA CommitConsumeInv ==
    ASSUME IInv, NEW r \in Requests, CommitConsume(r)
    PROVE  /\ IInv'
           /\ ~Overdraws(row[call[r].tenant][call[r].resource], call[r].amount)
           /\ row' = [row EXCEPT ![call[r].tenant][call[r].resource].used
                          = @ + call[r].amount]
           /\ \A u \in Tenants, s \in Resources :
                 /\ row'[u][s].limit = row[u][s].limit
                 /\ row'[u][s].used =
                       IF u = call[r].tenant /\ s = call[r].resource
                       THEN row[u][s].used + call[r].amount
                       ELSE row[u][s].used
<1> DEFINE t == call[r].tenant
           res == call[r].resource
<1>0. TypeOK /\ t \in Tenants /\ res \in Resources /\ call[r].amount \in Int
  BY CallType DEF IInv
<1>1. /\ known' = known /\ plan' = plan /\ call' = call
      /\ pc[r] = "commit" /\ call[r].op = "consume" /\ t \in known
      /\ rowLock[t][res] = r /\ view[r].row[res] = row[t][res]
      /\ End(r, answer[r]) /\ answer[r] \in Answers /\ committed' = committed \cup {r}
  <2>1. /\ known' = known /\ plan' = plan /\ call' = call
        /\ pc[r] = "commit" /\ call[r].op = "consume"
        /\ End(r, answer[r]) /\ committed' = committed \cup {r}
    BY DEF CommitConsume, Commit
  <2>2. t \in known
    BY <2>1 DEF IInv, OnlyKnown
  <2>3. rowLock[t][res] = r /\ view[r].row[res] = row[t][res]
    BY <2>1 DEF IInv, LockedReadStays
  <2> QED
    BY <1>0, <2>1, <2>2, <2>3 DEF TypeOK
<1>2. ~Overdraws(row[t][res], call[r].amount)
  BY <1>1 DEF IInv, Decided, Overdraws
<1>3. row' = [row EXCEPT ![t][res].used = @ + call[r].amount]
  BY <1>0, <1>1 DEF CommitConsume, TypeOK
<1>4. /\ row' \in [Tenants -> [Resources -> QuotaRow]]
      /\ \A u \in Tenants, s \in Resources :
            /\ u # t \/ s # res => row'[u][s] = row[u][s]
            /\ row'[u][s].limit = row[u][s].limit
            /\ row'[u][s].used = IF u = t /\ s = res
                                 THEN row[u][s].used + call[r].amount
                                 ELSE row[u][s].used
  <2> DEFINE n == row[t][res].used + call[r].amount
             new == [row[t][res] EXCEPT !.used = n]
  <2>0. row[t][res] \in QuotaRow /\ n \in Int
    BY <1>0 DEF TypeOK, QuotaRow
  <2>1. /\ new \in QuotaRow /\ new.limit = row[t][res].limit
        /\ new.used = row[t][res].used + call[r].amount
    BY <2>0, RowColumns
  <2>2. row' = [row EXCEPT ![t] = [row[t] EXCEPT ![res] = new]]
    BY <1>0, <1>3 DEF TypeOK
  <2> HIDE DEF new
  <2>3. [row[t] EXCEPT ![res] = new] \in [Resources -> QuotaRow]
    BY <1>0, <2>1 DEF TypeOK
  <2> QED
    BY <1>0, <2>1, <2>2, <2>3 DEF TypeOK
<1>5. TypeOK'
  BY <1>0, <1>1, <1>4, EndType DEF TypeOK
<1>6. LocksHeld'
  BY <1>0, <1>1, EndFrame, CallType DEF IInv, LocksHeld
<1>7. LockedReadStays'
  <2>1. SUFFICES ASSUME NEW o \in Requests, pc'[o] = "commit",
                        call'[o].op \in {"consume", "get"}
                 PROVE  /\ rowLock'[call'[o].tenant][call'[o].resource] = o
                        /\ view'[o].row[call'[o].resource]
                              = row'[call'[o].tenant][call'[o].resource]
    BY DEF LockedReadStays
  <2> DEFINE u == call[o].tenant
             s == call[o].resource
  <2>2. u \in Tenants /\ s \in Resources
    BY <1>0, CallType
  <2>3. o # r /\ pc[o] = "commit" /\ view'[o] = view[o]
    BY <1>0, <1>1, <2>1, EndFrame
  <2>4. rowLock[u][s] = o /\ view[o].row[s] = row[u][s]
    BY <1>1, <2>1, <2>3 DEF IInv, LockedReadStays
  <2>5. rowLock'[u][s] = o
    BY <1>0, <1>1, <2>2, <2>3, <2>4, EndFrame
  <2>6. row'[u][s] = row[u][s]
    BY <1>1, <1>4, <2>2, <2>3, <2>4
  <2> QED
    BY <1>1, <2>3, <2>4, <2>5, <2>6
<1>8. LabelsFit' /\ OnlyKnown' /\ OneInserter'
  BY <1>0, <1>1, EndFrame DEF IInv, LabelsFit, OnlyKnown, OneInserter
<1>9. Decided'
  BY <1>0, <1>1, EndFrame DEF IInv, Decided, Overdraws
<1>10. RowsSound'
  BY <1>0, <1>1, <1>4 DEF IInv, RowsSound
<1> QED
  BY <1>2, <1>3, <1>4, <1>5, <1>6, <1>7, <1>8, <1>9, <1>10 DEF IInv

(* A commit of what wrote nothing. *)
LEMMA CommitUnchangedInv ==
    ASSUME IInv, NEW r \in Requests, CommitUnchanged(r)
    PROVE  IInv'
<1>0. TypeOK
  BY DEF IInv
<1>1. /\ known' = known /\ plan' = plan /\ row' = row /\ call' = call
      /\ End(r, answer[r]) /\ answer[r] \in Answers /\ committed' = committed \cup {r}
  BY <1>0 DEF CommitUnchanged, Commit, TypeOK
<1>2. TypeOK'
  BY <1>0, <1>1, EndType DEF TypeOK
<1>3. LocksHeld' /\ LockedReadStays'
  BY <1>0, <1>1, EndFrame, CallType DEF IInv, LocksHeld, LockedReadStays
<1>4. LabelsFit' /\ OnlyKnown' /\ OneInserter' /\ Decided'
  BY <1>0, <1>1, EndFrame DEF IInv, LabelsFit, OnlyKnown, OneInserter, Decided, Overdraws
<1>5. RowsSound'
  BY <1>1 DEF IInv, RowsSound
<1> QED
  BY <1>2, <1>3, <1>4, <1>5 DEF IInv

(* Every step preserves the invariant. *)
LEMMA StepInv ==
    ASSUME IInv, NEW r \in Requests, Arrive(r) \/ Step(r) \/ Abort(r)
    PROVE  IInv'
<1>1. CASE Abort(r)
  <2>1. (IF answer[r] = 0 THEN 500 ELSE answer[r]) \in Answers
    BY DEF IInv, TypeOK, Answers
  <2> QED
    BY <1>1, <2>1, EndInv DEF Abort
<1> QED
  BY <1>1, ArriveInv, CreateInv, CommitCreateInv, LoadInv, RespondInv, WriteInv,
     CommitUpdateInv, LockInv, CommitConsumeInv, CommitUnchangedInv
  DEF Step

(* Every step keeps the inductive invariant. *)
LEMMA NextInv == IInv /\ [Next]_vars => IInv'
<1>1. ASSUME IInv, UNCHANGED vars
      PROVE  IInv'
  BY <1>1
  DEF vars, IInv, TypeOK, LabelsFit, LocksHeld, OnlyKnown, OneInserter, Decided,
      RowsSound, LockedReadStays, Overdraws
<1> QED
  BY <1>1, StepInv DEF Next, Finished

(* The inductive invariant holds in every reachable state, and with it the *)
(* types of all variables.                                                 *)
THEOREM Invariance == Spec => [](TypeOK /\ IInv)
<1>1. Init => IInv
  BY InitInv
<1>2. IInv /\ [Next]_vars => IInv'
  BY NextInv
<1>3. IInv => TypeOK
  BY DEF IInv
<1> QED
  BY <1>1, <1>2, <1>3, PTL DEF Spec

-----------------------------------------------------------------------------
(* Answers and commits. *)

(* An answer goes out when the handler has returned, and what is answered  *)
(* by then is success; what has committed was answered so before.          *)
AnswersFit ==
    \A r \in Requests :
        /\ pc[r] \notin {"commit", "write", "rows", "done"} => answer[r] = 0
        /\ pc[r] # "done" => answer[r] \in {0, Success[call[r].op]}
        /\ r \in committed => pc[r] = "done" /\ answer[r] = Success[call[r].op]

(* What a step does to the answers and the commits. *)
LEMMA AnswerSteps ==
    ASSUME TypeOK, LabelsFit, [Next]_vars
    PROVE  /\ call' = call
           /\ \/ \E r \in Requests : \E status :
                    /\ pc[r] # "done" /\ End(r, status) /\ committed' = committed
              \/ \E r \in Requests : pc[r] # "done" /\ Commit(r)
              \/ \E r \in Requests : Respond(r)
              \/ \E r \in Requests : \E label :
                    /\ Goto(r, label) /\ committed' = committed /\ pc[r] # "done"
                    /\ pc[r] \in {"commit", "write", "rows"} => label = "rows"
              \/ UNCHANGED <<pc, answer, committed>>
<1> DEFINE Does ==
              /\ call' = call
              /\ \/ \E r \in Requests : \E status :
                       /\ pc[r] # "done" /\ End(r, status) /\ committed' = committed
                 \/ \E r \in Requests : pc[r] # "done" /\ Commit(r)
                 \/ \E r \in Requests : Respond(r)
                 \/ \E r \in Requests : \E label :
                       /\ Goto(r, label) /\ committed' = committed /\ pc[r] # "done"
                       /\ pc[r] \in {"commit", "write", "rows"} => label = "rows"
                 \/ UNCHANGED <<pc, answer, committed>>
<1>1. ASSUME NEW r \in Requests, NEW status, End(r, status), pc[r] # "done",
             UNCHANGED <<db, call>>
      PROVE  Does
  BY <1>1 DEF db
<1>2. ASSUME NEW r \in Requests, NEW label, Goto(r, label), UNCHANGED <<db, call>>,
             pc[r] # "done", pc[r] \in {"commit", "write", "rows"} => label = "rows"
      PROVE  Does
  BY <1>2 DEF db
<1>3. ASSUME NEW r \in Requests, Commit(r), call' = call, pc[r] # "done"
      PROVE  Does
  BY <1>3
<1>4. ASSUME UNCHANGED <<db, call>>, UNCHANGED <<pc, answer>> PROVE Does
  BY <1>4 DEF db
<1>5. ASSUME NEW r \in Requests, Respond(r) PROVE Does
  BY <1>5 DEF Respond
<1> SUFFICES Does
  BY Zenon
<1> HIDE DEF Does
<1>6. ASSUME NEW r \in Requests, Arrive(r) \/ Abort(r) PROVE Does
  BY <1>1, <1>2, <1>6 DEF Arrive, Abort, InFlight
<1>7. ASSUME NEW r \in Requests, CheckSlug(r) \/ InsertTenant(r) \/ LoadTenant(r)
      PROVE  Does
  BY <1>1, <1>2, <1>7 DEF CheckSlug, InsertTenant, LoadTenant
<1>8. ASSUME NEW r \in Requests, LoadQuotas(r) PROVE Does
  <2>1. /\ pc[r] = "quotas" /\ UNCHANGED <<db, call>>
        /\ End(r, 422) \/ Goto(r, "reload") \/ Goto(r, "lock")
    BY <1>8, Zenon DEF LoadQuotas
  <2> QED
    BY <1>1, <1>2, <2>1
<1>9. ASSUME NEW r \in Requests, ReloadQuotas(r) PROVE Does
  BY <1>2, <1>9 DEF ReloadQuotas
<1>10. ASSUME NEW r \in Requests, WritePlan(r) \/ \E res \in Resources : WriteRow(r, res)
       PROVE  Does
  BY <1>2, <1>4, <1>10 DEF WritePlan, WriteRow
<1>11. ASSUME NEW r \in Requests, LockRow(r) PROVE Does
  <2>1. /\ pc[r] = "lock" /\ UNCHANGED <<db, call>>
        /\ End(r, 404) \/ End(r, 402) \/ Goto(r, "commit")
    BY <1>11, Zenon DEF LockRow
  <2> QED
    BY <1>1, <1>2, <2>1
<1>12. ASSUME NEW r \in Requests,
              \/ CommitCreate(r) \/ CommitUpdate(r) \/ CommitConsume(r) \/ CommitUnchanged(r)
       PROVE  Does
  BY <1>3, <1>12 DEF CommitCreate, CommitUpdate, CommitConsume, CommitUnchanged
<1>13. CASE Finished \/ UNCHANGED vars
  BY <1>4, <1>13 DEF Finished, vars, db
<1> QED
  BY <1>5, <1>6, <1>7, <1>8, <1>9, <1>10, <1>11, <1>12, <1>13 DEF Next, Step

(* Every step keeps the answers fitting. *)
LEMMA NextAnswers ==
    ASSUME TypeOK, LabelsFit, AnswersFit, [Next]_vars
    PROVE  AnswersFit'
<1>0. call' = call
  BY AnswerSteps
<1>1. ASSUME NEW r \in Requests, NEW status, pc[r] # "done", End(r, status),
             committed' = committed
      PROVE  AnswersFit'
  BY <1>0, <1>1 DEF End, TypeOK, AnswersFit
<1>2. ASSUME NEW r \in Requests, pc[r] # "done", Commit(r)
      PROVE  AnswersFit'
  BY <1>0, <1>2 DEF Commit, End, TypeOK, AnswersFit
<1>3. ASSUME NEW r \in Requests, Respond(r)
      PROVE  AnswersFit'
  BY <1>0, <1>3 DEF Respond, db, TypeOK, AnswersFit
<1>4. ASSUME NEW r \in Requests, NEW label, Goto(r, label), committed' = committed,
             pc[r] # "done", pc[r] \in {"commit", "write", "rows"} => label = "rows"
      PROVE  AnswersFit'
  BY <1>0, <1>4 DEF Goto, TypeOK, AnswersFit
<1>5. CASE UNCHANGED <<pc, answer, committed>>
  BY <1>0, <1>5 DEF AnswersFit
<1> QED
  BY <1>1, <1>2, <1>3, <1>4, <1>5, AnswerSteps

(* Answers and commits fit in every reachable state. *)
LEMMA AnswersAlwaysFit == Spec => [](IInv /\ AnswersFit)
<1>1. Init => AnswersFit
  BY DEF Init, AnswersFit
<1>2. IInv /\ AnswersFit /\ [Next]_vars => AnswersFit'
  BY NextAnswers DEF IInv
<1> QED
  BY <1>1, <1>2, Invariance, PTL DEF Spec

(* A committed create finds its tenant, and is the only one of its slug.   *)
CreatedKnown ==
    \A r \in committed :
        call[r].op = "create" =>
            /\ call[r].tenant \in known
            /\ \A o \in committed :
                  call[o].op = "create" /\ call[o].tenant = call[r].tenant => o = r

(* Only an insert's commit commits a create; no step loses a tenant.       *)
LEMMA CreateSteps ==
    ASSUME TypeOK, LabelsFit, [Next]_vars
    PROVE  \/ \E r \in Requests : CommitCreate(r)
           \/ /\ UNCHANGED <<known, call>>
              /\ \A r \in committed' \ committed : call[r].op # "create"
<1> DEFINE Quiet == /\ UNCHANGED <<known, call>>
                    /\ \A r \in committed' \ committed : call[r].op # "create"
<1>1. ASSUME UNCHANGED <<db, call>> PROVE Quiet
  BY <1>1 DEF db
<1>2. ASSUME NEW r \in Requests, UNCHANGED <<known, call>>, call[r].op # "create",
             committed' = committed \cup {r}
      PROVE  Quiet
  BY <1>2
<1> HIDE DEF Quiet
<1>3. ASSUME NEW r \in Requests, Arrive(r) \/ Abort(r) \/ Respond(r) PROVE Quiet
  BY <1>1, <1>3 DEF Arrive, Abort, Respond
<1>4. ASSUME NEW r \in Requests,
             CheckSlug(r) \/ InsertTenant(r) \/ LoadTenant(r) \/ LoadQuotas(r)
                \/ ReloadQuotas(r) \/ LockRow(r)
      PROVE  Quiet
  <2>1. UNCHANGED <<db, call>>
    BY <1>4, Zenon DEF CheckSlug, InsertTenant, LoadTenant, LoadQuotas, ReloadQuotas, LockRow
  <2> QED
    BY <1>1, <2>1
<1>5. ASSUME NEW r \in Requests, WritePlan(r) \/ \E res \in Resources : WriteRow(r, res)
      PROVE  Quiet
  BY <1>1, <1>5 DEF WritePlan, WriteRow
<1>6. ASSUME NEW r \in Requests, CommitUpdate(r) \/ CommitConsume(r) \/ CommitUnchanged(r)
      PROVE  Quiet
  BY <1>2, <1>6 DEF CommitUpdate, CommitConsume, CommitUnchanged, Commit, LabelsFit
<1>7. CASE Finished \/ UNCHANGED vars
  BY <1>1, <1>7 DEF Finished, vars, db
<1> QED
  BY <1>3, <1>4, <1>5, <1>6, <1>7 DEF Next, Step, Quiet

(* Of any number of racing creates of a slug at most one commits; two that *)
(* are both answered 201 are never both open or committed.                 *)
THEOREM CreatesAreUnique == Spec => []OneCreatePerSlug
<1>1. Init => CreatedKnown
  BY DEF Init, CreatedKnown
<1>2. ASSUME IInv, AnswersFit, CreatedKnown, [Next]_vars PROVE CreatedKnown'
  <2>0. TypeOK /\ LabelsFit
    BY <1>2 DEF IInv
  <2>1. CASE /\ UNCHANGED <<known, call>>
             /\ \A r \in committed' \ committed : call[r].op # "create"
    BY <1>2, <2>1 DEF CreatedKnown
  <2>2. ASSUME NEW r \in Requests, CommitCreate(r) PROVE CreatedKnown'
    <3>1. /\ call[r].tenant \notin known /\ known' = known \cup {call[r].tenant}
          /\ call' = call /\ committed' = committed \cup {r}
      BY <1>2, <2>0, <2>2 DEF CommitCreate, Commit, IInv, OneInserter
    <3>2. \A o \in committed : call[o].op = "create" => call[o].tenant # call[r].tenant
      BY <1>2, <3>1 DEF CreatedKnown
    <3> QED
      BY <1>2, <3>1, <3>2 DEF CreatedKnown
  <2> QED
    BY <1>2, <2>0, <2>1, <2>2, CreateSteps
<1>3. IInv /\ AnswersFit /\ CreatedKnown => OneCreatePerSlug
  <2> SUFFICES ASSUME IInv, AnswersFit, CreatedKnown, NEW r \in Requests, NEW o \in Requests,
                      call[r].op = "create", answer[r] = 201,
                      call[o].op = "create", answer[o] = 201,
                      call[r].tenant = call[o].tenant, r # o
               PROVE  \E failed \in {r, o} : pc[failed] = "done" /\ failed \notin committed
    BY DEF OneCreatePerSlug
  <2>1. ASSUME NEW p \in {r, o}, p \notin committed, pc[p] # "done"
        PROVE  pc[p] = "commit"
    <3>1. pc[p] \in {"commit", "write", "rows", "done"} /\ call[p].op = "create"
      BY DEF AnswersFit
    <3> QED
      BY <2>1, <3>1 DEF IInv, LabelsFit
  <2>2. ASSUME NEW p \in {r, o}, pc[p] = "commit"
        PROVE  /\ call[p].tenant \notin known
               /\ \A q \in {r, o} : pc[q] = "commit" => q = p
    BY <2>2 DEF IInv, OneInserter
  <2>3. \A p \in {r, o} : p \in committed => call[p].tenant \in known
    BY DEF CreatedKnown
  <2>4. ~(r \in committed /\ o \in committed)
    BY DEF CreatedKnown
  <2>5. \A p \in {r, o} : pc[p] # "done" \/ p \in committed =>
           p \in committed \/ pc[p] = "commit"
    BY <2>1
  <2>6. CASE r \in committed \/ pc[r] = "commit"
    <3>1. o \notin committed /\ pc[o] # "commit"
      BY <2>2, <2>3, <2>4, <2>6
    <3> QED
      BY <2>5, <3>1
  <2>7. CASE ~(r \in committed \/ pc[r] = "commit")
    BY <2>5, <2>7
  <2> QED
    BY <2>6, <2>7
<1> QED
  BY <1>1, <1>2, <1>3, AnswersAlwaysFit, PTL DEF Spec

(* For any number of concurrent requests, nothing changes a quota row      *)
(* between a consume's check and its write.                                *)
THEOREM ConsumeIsLocked == Spec => []LockedReadStays
<1>1. IInv => LockedReadStays
  BY DEF IInv
<1> QED
  BY <1>1, Invariance, PTL

-----------------------------------------------------------------------------

(* What each kind of step does to the committed rows. *)
LEMMA RowSteps ==
    ASSUME IInv, Next
    PROVE  \/ row' = row /\ known' = known
           \/ \E r \in Requests : CommitCreate(r) \/ CommitUpdate(r) \/ CommitConsume(r)
<1>1. CASE Finished
  BY <1>1 DEF Finished, vars
<1>2. ASSUME NEW r \in Requests, Arrive(r) \/ Abort(r) \/ CheckSlug(r)
                                 \/ InsertTenant(r) \/ LoadTenant(r) \/ ReloadQuotas(r)
                                 \/ Respond(r)
      PROVE  row' = row /\ known' = known
  BY <1>2 DEF Arrive, Abort, CheckSlug, InsertTenant, LoadTenant, ReloadQuotas, Respond, db
<1>3. ASSUME NEW r \in Requests, LoadQuotas(r)
      PROVE  row' = row /\ known' = known
  BY <1>3, Zenon DEF LoadQuotas, db
<1>4. ASSUME NEW r \in Requests, LockRow(r) \/ CommitUnchanged(r)
      PROVE  row' = row /\ known' = known
  BY <1>4, Zenon DEF RowFree, LockRow, CommitUnchanged, db
<1>5. ASSUME NEW r \in Requests, WritePlan(r) \/ \E res \in Resources : WriteRow(r, res)
      PROVE  row' = row /\ known' = known
  BY <1>5 DEF RowFree, WritePlan, WriteRow, db
<1> QED
  BY <1>1, <1>2, <1>3, <1>4, <1>5 DEF Next, Step

(* No grant passes the limit, however many requests race. *)
THEOREM GrantsAlwaysFit == Spec => GrantsFit
<1> DEFINE Fits == \A t \in Tenants, res \in Resources :
                      row'[t][res].used > row[t][res].used =>
                          FitsLimit(row'[t][res].used, row'[t][res].limit)
<1>1. ASSUME IInv, UNCHANGED vars
      PROVE  Fits
  BY <1>1 DEF vars, IInv, TypeOK, QuotaRow
<1>2. ASSUME IInv, Next
      PROVE  Fits
  <2> SUFFICES ASSUME NEW t \in Tenants, NEW res \in Resources,
                      row'[t][res].used > row[t][res].used
               PROVE  FitsLimit(row'[t][res].used, row'[t][res].limit)
    OBVIOUS
  <2>0. row \in [Tenants -> [Resources -> QuotaRow]] /\ row[t][res].used \in Int
        /\ row[t][res].limit \in Int
    BY <1>2 DEF IInv, TypeOK, QuotaRow
  <2>1. ASSUME NEW r \in Requests, CommitConsume(r)
        PROVE  FitsLimit(row'[t][res].used, row'[t][res].limit)
    <3>1. /\ row'[t][res].limit = row[t][res].limit
          /\ t = call[r].tenant /\ res = call[r].resource
          /\ row'[t][res].used = row[t][res].used + call[r].amount
          /\ ~Overdraws(row[t][res], call[r].amount)
      <4>1. /\ row'[t][res].limit = row[t][res].limit
            /\ row'[t][res].used =
                  IF t = call[r].tenant /\ res = call[r].resource
                  THEN row[t][res].used + call[r].amount
                  ELSE row[t][res].used
        BY <1>2, <2>1, CommitConsumeInv
      <4>2. ~Overdraws(row[call[r].tenant][call[r].resource], call[r].amount)
        BY <1>2, <2>1, CommitConsumeInv
      <4>3. t = call[r].tenant /\ res = call[r].resource
        BY <2>0, <4>1
      <4> QED
        BY <4>1, <4>2, <4>3
    <3>2. call[r].amount \in Int
      BY <1>2, CallType DEF IInv
    <3> QED
      BY <2>0, <3>1, <3>2 DEF FitsLimit, Overdraws
  <2>2. ASSUME NEW r \in Requests, CommitCreate(r)
        PROVE  FALSE
    <3>1. /\ call[r].tenant \in Tenants /\ call[r].plan \in Plans
          /\ call[r].tenant \notin known
      BY <1>2, <2>2, CallType DEF CommitCreate, IInv, OneInserter
    <3>2. row' = [row EXCEPT ![call[r].tenant] = FreshRows(call[r].plan)]
      BY <2>2 DEF CommitCreate
    <3>3. CASE t = call[r].tenant
      <4>1. row[t][res].used = 0
        BY <1>2, <3>1, <3>3 DEF IInv, RowsSound
      <4>2. row'[t][res].used = 0
        BY <2>0, <3>1, <3>2, <3>3, FreshRowsValue
      <4> QED
        BY <4>1, <4>2
    <3>4. CASE t # call[r].tenant
      BY <2>0, <3>1, <3>2, <3>4
    <3> QED
      BY <3>3, <3>4
  <2>3. ASSUME NEW r \in Requests, CommitUpdate(r)
        PROVE  FALSE
    <3>1. row'[t][res].used = row[t][res].used
      BY <1>2, <2>3, CommitUpdateInv
    <3> QED
      BY <2>0, <3>1
  <2> QED
    BY <1>2, <2>0, <2>1, <2>2, <2>3, RowSteps
<1> QED
  BY <1>1, <1>2, Invariance, PTL DEF Spec, GrantsFit

(* The service implements the atomic ledger: whatever the interleaving of  *)
(* statements, every committed transaction is one atomic ledger step.      *)
THEOREM ImplementsLedger == Spec => LedgerSpec
<1>1. Init => Ledger!LInit
  BY InitInv DEF Ledger!LInit, IInv, TypeOK, Ledger!QuotaRow, QuotaRow
<1>2. ASSUME IInv, Next
      PROVE  Ledger!LNext \/ UNCHANGED <<known, row>>
  <2>0. row \in [Tenants -> [Resources -> QuotaRow]]
    BY <1>2 DEF IInv, TypeOK
  <2>1. ASSUME NEW r \in Requests, CommitCreate(r)
        PROVE  Ledger!LNext
    <3> DEFINE t == call[r].tenant
               limits == [res \in Resources |-> PlanQuotas[call[r].plan][res]]
    <3>1. t \in Tenants /\ call[r].plan \in Plans /\ t \notin known
      BY <1>2, <2>1, CallType DEF CommitCreate, IInv, OneInserter
    <3>2. limits \in [Resources -> PlanLimits]
      BY <3>1, PlanLimitIn
    <3>3. row' = [row EXCEPT ![t] =
                     [res \in Resources |-> [limit |-> limits[res], used |-> 0]]]
      BY <2>1 DEF CommitCreate, FreshRows
    <3> HIDE DEF limits
    <3>4. \E l \in [Resources -> PlanLimits] :
             row' = [row EXCEPT ![t] =
                       [res \in Resources |-> [limit |-> l[res], used |-> 0]]]
      BY <3>2, <3>3, Zenon
    <3>5. Ledger!Open(t)
      BY <2>1, <3>1, <3>4, Zenon DEF Ledger!Open, CommitCreate
    <3> QED
      BY <3>1, <3>5 DEF Ledger!LNext
  <2>2. ASSUME NEW r \in Requests, CommitUpdate(r)
        PROVE  Ledger!LNext
    <3> DEFINE t == call[r].tenant
               limits == [res \in Resources |-> row'[t][res].limit]
    <3>1. t \in Tenants /\ t \in known /\ known' = known /\ IInv'
      BY <1>2, <2>2, CallType, CommitUpdateInv DEF IInv
    <3>2. limits \in [Resources -> PlanLimits]
      BY <3>1 DEF IInv, RowsSound
    <3>3. row' = [row EXCEPT ![t] =
                     [res \in Resources |-> [row[t][res] EXCEPT !.limit = limits[res]]]]
      <4>1. row' = [row EXCEPT ![t] = [res \in Resources |->
                       IF res \in Dirty(r)
                       THEN [row[t][res] EXCEPT !.limit = PlanQuotas[call[r].plan][res]]
                       ELSE row[t][res]]]
        BY <2>0, <2>2, <3>1 DEF CommitUpdate
      <4>2. ASSUME NEW res \in Resources
            PROVE  row'[t][res] = [row[t][res] EXCEPT !.limit = limits[res]]
        <5>1. row[t][res] \in QuotaRow /\ PlanQuotas[call[r].plan][res] \in Int
          BY <1>2, <2>0, <3>1, CallType, PlanQuotasAssumption DEF IInv
        <5>2. row'[t][res] = IF res \in Dirty(r)
                THEN [row[t][res] EXCEPT !.limit = PlanQuotas[call[r].plan][res]]
                ELSE row[t][res]
          BY <2>0, <3>1, <4>1
        <5>3. CASE res \in Dirty(r)
          <6>1. row'[t][res] = [row[t][res] EXCEPT !.limit = PlanQuotas[call[r].plan][res]]
            BY <5>2, <5>3
          <6>2. limits[res] = PlanQuotas[call[r].plan][res]
            <7>1. row'[t][res].limit = PlanQuotas[call[r].plan][res]
              BY <5>1, <6>1, RowColumns
            <7> QED
              BY <7>1
          <6> QED
            BY <6>1, <6>2
        <5>4. CASE res \notin Dirty(r)
          BY <5>1, <5>2, <5>4, RowColumns
        <5> QED
          BY <5>3, <5>4
      <4>3. row'[t] = [res \in Resources |-> [row[t][res] EXCEPT !.limit = limits[res]]]
        <5>1. row'[t] = [res \in Resources |-> row'[t][res]]
          BY <3>1 DEF IInv, TypeOK
        <5> HIDE DEF limits
        <5> QED
          BY <4>2, <5>1
      <4>4. row' = [row EXCEPT ![t] = row'[t]]
        <5>1. \A u \in Tenants \ {t} : row'[u] = row[u]
          BY <1>2, <2>2, CommitUpdateInv
        <5>2. row' \in [Tenants -> [Resources -> QuotaRow]]
          BY <3>1 DEF IInv, TypeOK
        <5> QED
          BY <2>0, <3>1, <5>1, <5>2
      <4> QED
        BY <4>3, <4>4
    <3> HIDE DEF limits
    <3>4. \E l \in [Resources -> PlanLimits] :
             row' = [row EXCEPT ![t] =
                       [res \in Resources |-> [row[t][res] EXCEPT !.limit = l[res]]]]
      BY <3>2, <3>3, Zenon
    <3>5. Ledger!Relimit(t)
      BY <3>1, <3>4, Zenon DEF Ledger!Relimit
    <3> QED
      BY <3>1, <3>5 DEF Ledger!LNext
  <2>3. ASSUME NEW r \in Requests, CommitConsume(r)
        PROVE  Ledger!LNext
    <3>1. /\ call[r].tenant \in Tenants /\ call[r].resource \in Resources
          /\ call[r].amount \in Amounts
      BY <1>2 DEF IInv, TypeOK, Calls
    <3>2. call[r].tenant \in known /\ known' = known
      BY <1>2, <2>3 DEF CommitConsume, IInv, OnlyKnown
    <3>3. /\ ~Overdraws(row[call[r].tenant][call[r].resource], call[r].amount)
          /\ row' = [row EXCEPT ![call[r].tenant][call[r].resource].used
                         = @ + call[r].amount]
      BY <1>2, <2>3, CommitConsumeInv
    <3>4. Ledger!Charge(call[r].tenant, call[r].resource, call[r].amount)
      BY <3>2, <3>3 DEF Ledger!Charge, Ledger!Overdraws, Overdraws, Ledger!Unlimited, Unlimited
    <3> QED
      BY <3>1, <3>4 DEF Ledger!LNext
  <2> QED
    BY <1>2, <2>1, <2>2, <2>3, RowSteps
<1>3. ASSUME UNCHANGED vars
      PROVE  UNCHANGED <<known, row>>
  BY <1>3 DEF vars
<1> QED
  BY <1>1, <1>2, <1>3, Invariance, PTL DEF Spec, LedgerSpec, Ledger!LSpec

-----------------------------------------------------------------------------
(* Sums over finite sets.  MapThenSumSet takes the elements in the order   *)
(* of CHOOSE; that the order does not matter, and so what a new element    *)
(* adds, is shown on its recursive function: a smallest set for which it   *)
(* failed would contain a smaller one.                                     *)

(* What MapThenSumSet recurses with. *)
Pick(s) == CHOOSE x \in s : TRUE

Sums(f, S, g) ==
    g = [s \in SUBSET S |-> IF s = {} THEN 0 ELSE f[Pick(s)] + g[s \ {Pick(s)}]]

Total(f, S) == (CHOOSE g : Sums(f, S, g))[S]

(* A collection of subsets of a finite set has one that contains no other. *)
LEMMA SmallestSet ==
    ASSUME NEW S, IsFiniteSet(S), NEW B \in SUBSET SUBSET S, B # {}
    PROVE  \E s \in B : \A u \in B : u \subseteq s => u = s
<1>1. FiniteSubsetsOf(S) = SUBSET S
  BY FS_FiniteSubsetsOfFinite
<1>2. IsWellFoundedOn(StrictSubsetOrdering(S), SUBSET S)
  BY <1>1, FS_StrictSubsetOrderingWellFounded
<1>3. \E s \in B : \A u \in B : ~(<<u, s>> \in StrictSubsetOrdering(S))
  BY <1>2, WFMin
<1> QED
  BY <1>3 DEF StrictSubsetOrdering

(* The smallest of some numbers. *)
LEMMA SmallestNat ==
    ASSUME NEW N \in SUBSET Nat, N # {}
    PROVE  \E n \in N : \A m \in N : m >= n
<1>1. IsWellFoundedOn(OpToRel(<, Nat), Nat)
  BY NatLessThanWellFounded
<1>2. \E n \in N : \A m \in N : ~(<<m, n>> \in OpToRel(<, Nat))
  BY <1>1, WFMin
<1>3. OpToRel(<, Nat) = {p \in Nat \X Nat : p[1] < p[2]}
  BY Zenon DEF OpToRel
<1>4. \E n \in N : \A m \in N : ~(<<m, n>> \in {p \in Nat \X Nat : p[1] < p[2]})
  BY <1>2, <1>3, Zenon
<1>5. \A m, n \in Nat : m < n => <<m, n>> \in {p \in Nat \X Nat : p[1] < p[2]}
  OBVIOUS
<1>6. \A m, n \in N : ~(m < n) => m >= n
  OBVIOUS
<1> QED
  BY <1>4, <1>5, <1>6


(* The recursion has one solution at most. *)
LEMMA SumsUnique ==
    ASSUME NEW f, NEW S, IsFiniteSet(S), NEW g, NEW h, Sums(f, S, g), Sums(f, S, h)
    PROVE  g = h
<1> DEFINE B == {s \in SUBSET S : g[s] # h[s]}
<1>0. B \in SUBSET SUBSET S
  OBVIOUS
<1> HIDE DEF B
<1>1. ASSUME B # {} PROVE FALSE
  <2>1. PICK s \in B : \A u \in B : u \subseteq s => u = s
    BY <1>0, <1>1, SmallestSet
  <2>2. s # {} => Pick(s) \in s
    BY DEF Pick
  <2>3. s # {} => g[s \ {Pick(s)}] = h[s \ {Pick(s)}]
    BY <1>0, <2>1, <2>2 DEF B
  <2> QED
    BY <1>0, <2>1, <2>3 DEF Sums, B
<1>2. \A s \in SUBSET S : g[s] = h[s]
  BY <1>1 DEF B
<1> QED
  BY <1>2 DEF Sums

(* It has one, by as many unfoldings as the set has elements. *)
LEMMA SumsExist ==
    ASSUME NEW R, NEW f \in [R -> Int], NEW S \in SUBSET R, IsFiniteSet(S)
    PROVE  \E g \in [SUBSET S -> Int] : Sums(f, S, g)
<1> DEFINE Small(n) == {s \in SUBSET S : Cardinality(s) <= n}
           Solves(n, g) == \A s \in Small(n) :
               g[s] = IF s = {} THEN 0 ELSE f[Pick(s)] + g[s \ {Pick(s)}]
           N == {n \in Nat : ~\E g \in [SUBSET S -> Int] : Solves(n, g)}
<1>1. \A s \in SUBSET S : /\ Cardinality(s) \in Nat
                          /\ Cardinality(s) = 0 <=> s = {}
                          /\ Cardinality(s) <= Cardinality(S)
  BY FS_Subset, FS_CardinalityType, FS_EmptySet
<1>2. \A s \in SUBSET S : s # {} =>
         /\ Pick(s) \in s /\ f[Pick(s)] \in Int
         /\ s \ {Pick(s)} \in SUBSET S
         /\ Cardinality(s \ {Pick(s)}) = Cardinality(s) - 1
  <2> SUFFICES ASSUME NEW s \in SUBSET S, s # {}
               PROVE  /\ Pick(s) \in s /\ f[Pick(s)] \in Int
                      /\ Cardinality(s \ {Pick(s)}) = Cardinality(s) - 1
    OBVIOUS
  <2>1. Pick(s) \in s
    BY DEF Pick
  <2>2. IsFiniteSet(s)
    BY FS_Subset
  <2>3. Cardinality(s \ {Pick(s)}) = IF Pick(s) \in s THEN Cardinality(s) - 1
                                                      ELSE Cardinality(s)
    BY <2>2, FS_RemoveElement, Zenon
  <2> QED
    BY <2>1, <2>3
<1>3. N = {}
  <2> SUFFICES ASSUME N # {} PROVE FALSE
    OBVIOUS
  <2>0. N \in SUBSET Nat
    OBVIOUS
  <2> HIDE DEF N
  <2>1. PICK n \in N : \A m \in N : m >= n
    BY <2>0, SmallestNat
  <2>2. CASE n = 0
    <3> DEFINE g == [s \in SUBSET S |-> 0]
    <3>1. g \in [SUBSET S -> Int] /\ Solves(0, g)
      BY <1>1
    <3> QED
      BY <2>1, <2>2, <3>1 DEF N
  <2>3. CASE n # 0
    <3>1. n - 1 \in Nat /\ n - 1 \notin N
      BY <2>0, <2>1, <2>3
    <3>2. PICK g \in [SUBSET S -> Int] : Solves(n - 1, g)
      BY <3>1 DEF N
    <3> DEFINE h == [s \in SUBSET S |-> IF s = {} THEN 0 ELSE f[Pick(s)] + g[s \ {Pick(s)}]]
    <3>3. h \in [SUBSET S -> Int]
      <4>1. ASSUME NEW s \in SUBSET S, s # {} PROVE f[Pick(s)] + g[s \ {Pick(s)}] \in Int
        <5>1. f[Pick(s)] \in Int /\ g[s \ {Pick(s)}] \in Int
          BY <1>2, <3>2, <4>1
        <5> QED
          BY <5>1
      <4> QED
        BY <4>1
    <3>4. \A s \in Small(n - 1) : h[s] = g[s]
      BY <3>2
    <3>5. ASSUME NEW s \in Small(n), s # {} PROVE s \ {Pick(s)} \in Small(n - 1)
      <4>1. s \in SUBSET S /\ Cardinality(s) <= n /\ Cardinality(s) \in Nat /\ n \in Nat
        BY <1>1, <2>0, <3>5
      <4>2. s \ {Pick(s)} \in SUBSET S /\ Cardinality(s \ {Pick(s)}) = Cardinality(s) - 1
        BY <1>2, <3>5, <4>1
      <4> QED
        BY <4>1, <4>2
    <3>6. Solves(n, h)
      BY <3>4, <3>5
    <3> QED
      BY <2>1, <3>3, <3>6 DEF N
  <2> QED
    BY <2>2, <2>3
<1>4. Cardinality(S) \in Nat /\ Small(Cardinality(S)) = SUBSET S
  BY <1>1
<1>5. PICK g \in [SUBSET S -> Int] : Solves(Cardinality(S), g)
  BY <1>3, <1>4
<1>6. Sums(f, S, g)
  BY <1>4, <1>5 DEF Sums
<1> QED
  BY <1>6

(* The solution is a function to the integers, and the total its value.    *)
LEMMA SumsType ==
    ASSUME NEW R, NEW f \in [R -> Int], NEW S \in SUBSET R, IsFiniteSet(S),
           NEW g, Sums(f, S, g)
    PROVE  g \in [SUBSET S -> Int]
<1>1. PICK h \in [SUBSET S -> Int] : Sums(f, S, h)
  BY SumsExist
<1>2. h = g
  BY <1>1, SumsUnique
<1> QED
  BY <1>1, <1>2

(* The same for its value. *)
LEMMA TotalIs ==
    ASSUME NEW f, NEW S, IsFiniteSet(S), NEW g, Sums(f, S, g)
    PROVE  Total(f, S) = g[S]
<1>1. \A k : Sums(f, S, k) => k = g
  BY SumsUnique
<1>2. (CHOOSE k : Sums(f, S, k)) = g
  BY <1>1
<1> QED
  BY <1>2 DEF Total

(* Nothing amounts to nothing. *)
LEMMA TotalEmpty ==
    ASSUME NEW R, NEW f \in [R -> Int]
    PROVE  Total(f, {}) = 0
<1>1. IsFiniteSet({}) /\ {} \in SUBSET R
  BY FS_EmptySet
<1>2. PICK g \in [SUBSET {} -> Int] : Sums(f, {}, g)
  BY <1>1, SumsExist
<1>3. g[{}] = 0
  BY <1>2 DEF Sums
<1> QED
  BY <1>1, <1>2, <1>3, TotalIs

(* Any element may be taken out first. *)
LEMMA SumsAny ==
    ASSUME NEW R, NEW f \in [R -> Int], NEW S \in SUBSET R, IsFiniteSet(S),
           NEW g, Sums(f, S, g), NEW x \in S
    PROVE  g[S] = f[x] + g[S \ {x}]
<1> DEFINE B == {s \in SUBSET S : \E y \in s : g[s] # f[y] + g[s \ {y}]}
<1>1. g \in [SUBSET S -> Int]
  BY SumsType
<1>2. \A s \in SUBSET S : g[s] = IF s = {} THEN 0 ELSE f[Pick(s)] + g[s \ {Pick(s)}]
  BY DEF Sums
<1>0. B \in SUBSET SUBSET S
  OBVIOUS
<1> HIDE DEF B
<1>3. ASSUME B # {} PROVE FALSE
  <2>1. PICK s \in B : \A u \in B : u \subseteq s => u = s
    BY <1>0, <1>3, SmallestSet
  <2>2. PICK y \in s : g[s] # f[y] + g[s \ {y}]
    BY <2>1 DEF B
  <2>3. PICK c \in s : c = Pick(s)
    BY <2>2 DEF Pick
  <2>4. g[s] = f[c] + g[s \ {c}] /\ c # y
    BY <1>0, <1>2, <2>2, <2>3
  <2> DEFINE rest == s \ {c, y}
  <2>5. g[s \ {c}] = f[y] + g[rest]
    <3>1. s \ {c} \notin B /\ s \ {c} \in SUBSET S /\ y \in s \ {c}
      BY <1>0, <2>1, <2>2, <2>4
    <3>2. (s \ {c}) \ {y} = rest
      OBVIOUS
    <3> QED
      BY <3>1, <3>2 DEF B
  <2>6. g[s \ {y}] = f[c] + g[rest]
    <3>1. s \ {y} \notin B /\ s \ {y} \in SUBSET S /\ c \in s \ {y}
      BY <1>0, <2>1, <2>2, <2>4
    <3>2. (s \ {y}) \ {c} = rest
      OBVIOUS
    <3> QED
      BY <3>1, <3>2 DEF B
  <2>7. f[c] \in Int /\ f[y] \in Int /\ g[rest] \in Int
    BY <1>0, <1>1, <2>1
  <2>8. PICK n \in Int : n = g[rest]
    BY <2>7
  <2> QED
    BY <2>2, <2>4, <2>5, <2>6, <2>7, <2>8
<1> QED
  BY <1>3 DEF B

(* A new element adds its own. *)
LEMMA TotalAdd ==
    ASSUME NEW R, NEW f \in [R -> Int], NEW S \in SUBSET R, IsFiniteSet(S),
           NEW x \in R \ S
    PROVE  Total(f, S \cup {x}) = Total(f, S) + f[x]
<1> DEFINE T == S \cup {x}
<1>1. IsFiniteSet(T) /\ T \in SUBSET R /\ T \ {x} = S
  BY FS_AddElement
<1>2. PICK g \in [SUBSET T -> Int] : Sums(f, T, g)
  BY <1>1, SumsExist
<1>3. Total(f, T) = g[T]
  BY <1>1, <1>2, TotalIs
<1>4. g[T] = f[x] + g[S]
  BY <1>1, <1>2, SumsAny
<1> DEFINE h == [s \in SUBSET S |-> g[s]]
<1>5. Sums(f, S, h)
  <2>1. \A s \in SUBSET S : s # {} => s \ {Pick(s)} \in SUBSET S
    OBVIOUS
  <2>2. \A s \in SUBSET S : h[s] = IF s = {} THEN 0 ELSE f[Pick(s)] + h[s \ {Pick(s)}]
    BY <1>2, <2>1 DEF Sums
  <2> QED
    BY <2>2 DEF Sums
<1>6. h[S] = g[S]
  OBVIOUS
<1> HIDE DEF h
<1>7. Total(f, S) = h[S]
  BY <1>5, TotalIs
<1> QED
  BY <1>3, <1>4, <1>6, <1>7

(* The sum is the total of the amounts. *)
Amount == [r \in Requests |-> call[r].amount]

(* MapThenSumSet, unfolded once. *)
LEMMA SumIsTotal ==
    ASSUME TypeOK, NEW S \in SUBSET Requests, IsFiniteSet(S)
    PROVE  MapThenSumSet(LAMBDA r : call[r].amount, S) = Total(Amount, S)
<1>1. PICK f \in [Requests -> Int] : f = Amount
  BY CallType DEF Amount
<1> DEFINE Unfolds(g) == g = [s \in SUBSET S |->
              IF s = {} THEN 0 ELSE call[Pick(s)].amount + g[s \ {Pick(s)}]]
<1>2. MapThenSumSet(LAMBDA r : call[r].amount, S) = (CHOOSE g : Unfolds(g))[S]
  BY Zenon DEF MapThenSumSet, MapThenFoldSet, Pick
<1>3. ASSUME NEW g PROVE Unfolds(g) <=> Sums(f, S, g)
  <2>1. ASSUME NEW s \in SUBSET S, s # {} PROVE call[Pick(s)].amount = f[Pick(s)]
    <3>1. Pick(s) \in s
      BY <2>1 DEF Pick
    <3> QED
      BY <1>1, <3>1 DEF Amount
  <2>2. [s \in SUBSET S |-> IF s = {} THEN 0 ELSE call[Pick(s)].amount + g[s \ {Pick(s)}]]
        = [s \in SUBSET S |-> IF s = {} THEN 0 ELSE f[Pick(s)] + g[s \ {Pick(s)}]]
    BY <2>1
  <2> QED
    BY <2>2 DEF Sums
<1> HIDE DEF Unfolds
<1>4. PICK g : Sums(f, S, g)
  BY SumsExist
<1>5. \A h : Unfolds(h) <=> h = g
  BY <1>3, <1>4, SumsUnique
<1>6. (CHOOSE h : Unfolds(h)) = g
  BY <1>5
<1>7. Total(f, S) = g[S]
  BY <1>4, TotalIs
<1> QED
  BY <1>1, <1>2, <1>6, <1>7

(* Finitely many requests have committed, and every row counts its grants. *)
CountInv ==
    /\ IsFiniteSet(committed)
    /\ \A t \in Tenants, res \in Resources :
          row[t][res].used = Total(Amount, Granted(t, res))

(* A consume is committed by its own commit only. *)
LEMMA GrantSteps ==
    ASSUME TypeOK, LabelsFit, [Next]_vars
    PROVE  \/ \E r \in Requests : CommitConsume(r)
           \/ /\ call' = call
              /\ \/ committed' = committed
                 \/ \E r \in Requests : /\ committed' = committed \cup {r}
                                         /\ call[r].op # "consume"
<1> DEFINE Quiet == /\ call' = call
                    /\ \/ committed' = committed
                       \/ \E r \in Requests : /\ committed' = committed \cup {r}
                                               /\ call[r].op # "consume"
<1>1. ASSUME UNCHANGED <<db, call>> PROVE Quiet
  BY <1>1 DEF db
<1>2. ASSUME NEW r \in Requests, call' = call, call[r].op # "consume",
             committed' = committed \cup {r}
      PROVE  Quiet
  BY <1>2
<1> HIDE DEF Quiet
<1>3. ASSUME NEW r \in Requests, Arrive(r) \/ Abort(r) \/ Respond(r) PROVE Quiet
  BY <1>1, <1>3 DEF Arrive, Abort, Respond
<1>4. ASSUME NEW r \in Requests,
             CheckSlug(r) \/ InsertTenant(r) \/ LoadTenant(r) \/ LoadQuotas(r)
                \/ ReloadQuotas(r) \/ LockRow(r)
      PROVE  Quiet
  <2>1. UNCHANGED <<db, call>>
    BY <1>4, Zenon DEF CheckSlug, InsertTenant, LoadTenant, LoadQuotas, ReloadQuotas, LockRow
  <2> QED
    BY <1>1, <2>1
<1>5. ASSUME NEW r \in Requests, WritePlan(r) \/ \E res \in Resources : WriteRow(r, res)
      PROVE  Quiet
  BY <1>1, <1>5 DEF WritePlan, WriteRow
<1>6. ASSUME NEW r \in Requests, CommitCreate(r) \/ CommitUpdate(r) \/ CommitUnchanged(r)
      PROVE  Quiet
  BY <1>2, <1>6 DEF CommitCreate, CommitUpdate, CommitUnchanged, Commit, LabelsFit
<1>7. CASE Finished \/ UNCHANGED vars
  BY <1>1, <1>7 DEF Finished, vars, db
<1> QED
  BY <1>3, <1>4, <1>5, <1>6, <1>7 DEF Next, Step, Quiet

(* Only a consume's commit changes what is used. *)
LEMMA UsedSteps ==
    ASSUME IInv, [Next]_vars
    PROVE  \/ \E r \in Requests : CommitConsume(r)
           \/ \A t \in Tenants, res \in Resources : row'[t][res].used = row[t][res].used
<1>0. TypeOK
  BY DEF IInv
<1>1. ASSUME NEW r \in Requests, CommitCreate(r), NEW t \in Tenants, NEW res \in Resources
      PROVE  row'[t][res].used = row[t][res].used
  <2>1. /\ call[r].tenant \notin known /\ call[r].plan \in Plans
        /\ row' = [row EXCEPT ![call[r].tenant] = FreshRows(call[r].plan)]
    BY <1>0, <1>1, CallType DEF CommitCreate, IInv, OneInserter
  <2>2. row[call[r].tenant][res].used = 0
    BY <1>0, <2>1, CallType DEF IInv, RowsSound
  <2> QED
    BY <1>0, <2>1, <2>2, FreshRowsValue DEF TypeOK
<1>2. ASSUME NEW r \in Requests, CommitUpdate(r)
      PROVE  \A t \in Tenants, res \in Resources : row'[t][res].used = row[t][res].used
  BY <1>2, CommitUpdateInv
<1>3. CASE UNCHANGED vars
  BY <1>3 DEF vars
<1> QED
  BY <1>1, <1>2, <1>3, RowSteps

(* Every step keeps the count. *)
LEMMA NextCount ==
    ASSUME IInv, AnswersFit, CountInv, [Next]_vars
    PROVE  CountInv'
<1>0. TypeOK /\ LabelsFit /\ committed \in SUBSET Requests
  BY DEF IInv, TypeOK
<1>1. CASE \E r \in Requests : CommitConsume(r)
  <2>1. PICK r \in Requests : CommitConsume(r)
    BY <1>1
  <2>2. /\ call' = call /\ committed' = committed \cup {r}
        /\ r \notin committed /\ call[r].op = "consume"
    BY <2>1 DEF CommitConsume, Commit, AnswersFit
  <2>3. IsFiniteSet(committed')
    BY <2>2, FS_AddElement DEF CountInv
  <2>4. ASSUME NEW t \in Tenants, NEW res \in Resources
        PROVE  row'[t][res].used = Total(Amount, Granted(t, res))'
    <3>1. PICK f \in [Requests -> Int] : f = Amount /\ f = Amount'
      BY <1>0, <2>2, CallType DEF Amount
    <3>2. PICK S \in SUBSET Requests : S = Granted(t, res)
      BY <1>0 DEF Granted
    <3>3. IsFiniteSet(S) /\ r \notin S
      <4>1. S \in SUBSET committed
        BY <3>2 DEF Granted
      <4> QED
        BY <2>2, <4>1, FS_Subset DEF CountInv
    <3>4. row[t][res].used = Total(f, S)
      BY <3>1, <3>2 DEF CountInv
    <3>5. row'[t][res].used =
             IF t = call[r].tenant /\ res = call[r].resource
             THEN row[t][res].used + call[r].amount ELSE row[t][res].used
      BY <2>1, CommitConsumeInv
    <3>6. CASE t = call[r].tenant /\ res = call[r].resource
      <4>1. Granted(t, res)' = S \cup {r}
        BY <2>2, <3>2, <3>6 DEF Granted
      <4>2. Total(f, S \cup {r}) = Total(f, S) + f[r]
        BY <3>3, TotalAdd
      <4>3. f[r] = call[r].amount
        BY <3>1 DEF Amount
      <4> QED
        BY <3>1, <3>4, <3>5, <3>6, <4>1, <4>2, <4>3
    <3>7. CASE ~(t = call[r].tenant /\ res = call[r].resource)
      <4>1. Granted(t, res)' = S
        BY <2>2, <3>2, <3>7 DEF Granted
      <4> QED
        BY <3>1, <3>4, <3>5, <3>7, <4>1
    <3> QED
      BY <3>6, <3>7
  <2> QED
    BY <2>3, <2>4 DEF CountInv
<1>2. CASE ~\E r \in Requests : CommitConsume(r)
  <2>1. /\ call' = call
        /\ \/ committed' = committed
           \/ \E r \in Requests : /\ committed' = committed \cup {r}
                                   /\ call[r].op # "consume"
    BY <1>0, <1>2, GrantSteps
  <2>2. IsFiniteSet(committed')
    BY <2>1, FS_AddElement DEF CountInv
  <2>3. Amount' = Amount
    BY <2>1 DEF Amount
  <2>4. \A t, res : Granted(t, res)' = Granted(t, res)
    BY <2>1 DEF Granted
  <2>5. \A t \in Tenants, res \in Resources : row'[t][res].used = row[t][res].used
    BY <1>2, UsedSteps
  <2> QED
    BY <2>2, <2>3, <2>4, <2>5 DEF CountInv
<1> QED
  BY <1>1, <1>2

(* What a quota row says is used is the sum of the consumes that committed,*)
(* each of which was answered 200, for any number of requests, resources   *)
(* and amounts, cut off or not: no update is lost or applied twice.        *)
THEOREM UseIsWhatWasGranted == Spec => []UsedCountsGrants
<1>1. Init => CountInv
  <2> SUFFICES ASSUME Init PROVE CountInv
    OBVIOUS
  <2>1. committed = {} /\ \A t, res : Granted(t, res) = {}
    BY DEF Init, Granted
  <2>2. Amount \in [Requests -> Int]
    BY PlanQuotasAssumption DEF Init, Calls, Amount
  <2>3. Total(Amount, {}) = 0
    BY <2>2, TotalEmpty
  <2>4. \A t \in Tenants, res \in Resources : row[t][res].used = 0
    BY FreshRowsValue DEF Init
  <2> QED
    BY <2>1, <2>3, <2>4, FS_EmptySet DEF CountInv
<1>2. IInv /\ AnswersFit /\ CountInv /\ [Next]_vars => CountInv'
  BY NextCount
<1>3. IInv /\ AnswersFit /\ CountInv => UsedCountsGrants
  <2> SUFFICES ASSUME IInv, AnswersFit, CountInv, NEW t \in Tenants, NEW res \in Resources
               PROVE  /\ \A r \in Granted(t, res) : answer[r] = 200
                      /\ row[t][res].used =
                            MapThenSumSet(LAMBDA r : call[r].amount, Granted(t, res))
    BY Zenon DEF UsedCountsGrants
  <2>1. IsFiniteSet(Granted(t, res)) /\ Granted(t, res) \in SUBSET Requests
    <3>1. Granted(t, res) \in SUBSET committed /\ committed \in SUBSET Requests
      BY DEF Granted, IInv, TypeOK
    <3> QED
      BY <3>1, FS_Subset DEF CountInv
  <2>2. \A r \in Granted(t, res) : answer[r] = 200
    BY <2>1 DEF Granted, AnswersFit, Success
  <2>3. MapThenSumSet(LAMBDA r : call[r].amount, Granted(t, res))
           = Total(Amount, Granted(t, res))
    <3>1. TypeOK
      BY DEF IInv
    <3> QED
      BY <2>1, <3>1, SumIsTotal
  <2> QED
    BY <2>2, <2>3 DEF CountInv
<1> QED
  BY <1>1, <1>2, <1>3, AnswersAlwaysFit, PTL DEF Spec

-----------------------------------------------------------------------------

(* Who holds which lock: a tenant's row belongs to the one plan change of  *)
(* that tenant that is writing its quota rows; a quota row belongs to that *)
(* plan change or to a consume or a read that is about to commit.          *)
PlanChanger ==
    \A t \in Tenants, r \in Requests :
        planLock[t] = r <=> pc[r] = "rows" /\ call[r].tenant = t

RowHolder ==
    \A t \in Tenants, res \in Resources, r \in Requests :
        rowLock[t][res] = r =>
            /\ call[r].tenant = t
            /\ \/ pc[r] = "rows"
               \/ pc[r] = "commit" /\ call[r].op \in {"consume", "get"}

Holding == PlanChanger /\ RowHolder

(* The end of a transaction frees what it held, and nothing else.          *)
LEMMA EndHolding ==
    ASSUME TypeOK, Holding, NEW r \in Requests, NEW status, End(r, status),
           call' = call
    PROVE  Holding'
<1>1. /\ pc'[r] = "done"
      /\ \A o \in Requests \ {r} : pc'[o] = pc[o]
  BY DEF TypeOK, End
<1>2. \A t \in Tenants, o \in Requests :
         planLock'[t] = o <=> o # r /\ planLock[t] = o
  BY PlanQuotasAssumption DEF End
<1>3. \A t \in Tenants, res \in Resources, o \in Requests :
         rowLock'[t][res] = o <=> o # r /\ rowLock[t][res] = o
  BY PlanQuotasAssumption DEF End
<1>4. PlanChanger'
  BY <1>1, <1>2 DEF Holding, PlanChanger
<1>5. RowHolder'
  BY <1>1, <1>3 DEF Holding, RowHolder
<1> QED
  BY <1>4, <1>5 DEF Holding

(* A request that takes no lock and is not where locks are held keeps      *)
(* everybody's.                                                            *)
LEMMA GotoHolding ==
    ASSUME TypeOK, Holding, NEW r \in Requests, NEW label, Goto(r, label),
           UNCHANGED <<locks, call>>,
           label # "rows", pc[r] # "rows",
           pc[r] = "commit" => call[r].op \notin {"consume", "get"}
    PROVE  Holding'
<1>1. /\ planLock' = planLock /\ rowLock' = rowLock /\ call' = call
      /\ \A o \in Requests : pc'[o] = IF o = r THEN label ELSE pc[o]
  BY DEF Goto, TypeOK, locks
<1>2. PlanChanger'
  BY <1>1 DEF Holding, PlanChanger
<1>3. RowHolder'
  BY <1>1 DEF Holding, RowHolder
<1> QED
  BY <1>2, <1>3 DEF Holding

(* The two statements of a plan change: its first lock is the tenant's     *)
(* row, so it is the only plan change that goes on to the quota rows.      *)
LEMMA WriteHolding ==
    ASSUME TypeOK, Holding, NEW r \in Requests,
           WritePlan(r) \/ \E res \in Resources : WriteRow(r, res)
    PROVE  Holding'
<1>0. call[r].tenant \in Tenants
  BY CallType
<1>1. CASE WritePlan(r)
  <2>1. /\ pc[r] = "write" /\ planLock[call[r].tenant] = NoRequest
        /\ rowLock' = rowLock /\ call' = call
        /\ \A o \in Requests : pc'[o] = IF o = r THEN "rows" ELSE pc[o]
        /\ \A t \in Tenants : planLock'[t] =
              IF t = call[r].tenant THEN r ELSE planLock[t]
    BY <1>1 DEF WritePlan, Goto, TypeOK
  <2>2. PlanChanger'
    BY <1>0, <2>1, PlanQuotasAssumption DEF Holding, PlanChanger
  <2>3. RowHolder'
    BY <2>1 DEF Holding, RowHolder
  <2> QED
    BY <2>2, <2>3 DEF Holding
<1>2. ASSUME NEW res \in Resources, WriteRow(r, res)
      PROVE  Holding'
  <2>1. /\ pc[r] = "rows" /\ pc' = pc /\ planLock' = planLock /\ call' = call
        /\ \A t \in Tenants, s \in Resources : rowLock'[t][s] =
              IF t = call[r].tenant /\ s = res THEN r ELSE rowLock[t][s]
    BY <1>0, <1>2 DEF WriteRow, TypeOK
  <2>2. PlanChanger'
    BY <2>1 DEF Holding, PlanChanger
  <2>3. RowHolder'
    BY <2>1 DEF Holding, RowHolder
  <2> QED
    BY <2>2, <2>3 DEF Holding
<1> QED
  BY <1>1, <1>2

(* SELECT ... FOR UPDATE on one quota row.                                 *)
LEMMA LockHolding ==
    ASSUME TypeOK, LabelsFit, Holding, NEW r \in Requests, LockRow(r)
    PROVE  Holding'
<1>1. pc[r] = "lock" /\ call' = call
  BY Zenon DEF LockRow
<1>2. \/ End(r, 404) \/ End(r, 402)
      \/ /\ call[r].op \in {"consume", "get"}
         /\ rowLock' = [rowLock EXCEPT ![call[r].tenant][call[r].resource] = r]
         /\ Goto(r, "commit") /\ planLock' = planLock
  <2>1. \/ End(r, 404) \/ End(r, 402)
        \/ /\ rowLock' = [rowLock EXCEPT ![call[r].tenant][call[r].resource] = r]
           /\ Goto(r, "commit") /\ planLock' = planLock
    BY Zenon DEF LockRow
  <2> QED
    BY <1>1, <2>1 DEF LabelsFit
<1>3. ASSUME call[r].op \in {"consume", "get"},
             rowLock' = [rowLock EXCEPT ![call[r].tenant][call[r].resource] = r],
             Goto(r, "commit"), planLock' = planLock
      PROVE  Holding'
  <2>1. /\ \A o \in Requests : pc'[o] = IF o = r THEN "commit" ELSE pc[o]
        /\ \A t \in Tenants, s \in Resources : rowLock'[t][s] =
              IF t = call[r].tenant /\ s = call[r].resource THEN r ELSE rowLock[t][s]
    BY <1>3, CallType DEF Goto, TypeOK
  <2>2. PlanChanger'
    BY <1>1, <1>3, <2>1 DEF Holding, PlanChanger
  <2>3. RowHolder'
    BY <1>1, <1>3, <2>1 DEF Holding, RowHolder
  <2> QED
    BY <2>2, <2>3 DEF Holding
<1> QED
  BY <1>1, <1>2, <1>3, EndHolding

(* Every step keeps the locks with those who may hold them.                *)
LEMMA NextHolding ==
    ASSUME TypeOK, LabelsFit, Holding, [Next]_vars
    PROVE  Holding'
<1>1. ASSUME NEW r \in Requests, Arrive(r)
      PROVE  Holding'
  <2>1. /\ pc[r] = "idle" /\ Goto(r, First[call[r].op]) /\ UNCHANGED <<locks, call>>
        /\ call[r].op \in {"create", "consume", "update", "get"}
    BY <1>1, PlanQuotasAssumption DEF Arrive, TypeOK, Calls
  <2>2. First[call[r].op] # "rows"
    BY <2>1 DEF First
  <2> QED
    BY <2>1, <2>2, GotoHolding
<1>2. ASSUME NEW r \in Requests, CheckSlug(r) \/ InsertTenant(r) \/ LoadTenant(r)
      PROVE  Holding'
  <2>1. /\ pc[r] \in {"slug", "insert", "load", "reload"} /\ call' = call
        /\ \/ \E status : End(r, status)
           \/ \E label \in {"insert", "commit", "quotas", "requotas"} :
                 Goto(r, label) /\ UNCHANGED <<locks, call>>
    BY <1>2 DEF CheckSlug, InsertTenant, LoadTenant
  <2> QED
    BY <2>1, EndHolding, GotoHolding
<1>3. ASSUME NEW r \in Requests, LoadQuotas(r)
      PROVE  Holding'
  <2>1. /\ pc[r] = "quotas" /\ call' = call
        /\ \/ End(r, 422)
           \/ Goto(r, "lock") /\ UNCHANGED <<locks, call>>
           \/ Goto(r, "reload") /\ UNCHANGED <<locks, call>>
    BY <1>3, Zenon DEF LoadQuotas
  <2> QED
    BY <2>1, EndHolding, GotoHolding
<1>6. ASSUME NEW r \in Requests, ReloadQuotas(r)
      PROVE  Holding'
  <2>1. /\ pc[r] = "requotas" /\ UNCHANGED <<locks, call>>
        /\ Goto(r, "commit") \/ Goto(r, "write")
    BY <1>6 DEF ReloadQuotas
  <2> QED
    BY <2>1, GotoHolding
<1>7. ASSUME NEW r \in Requests, Respond(r)
      PROVE  Holding'
  BY <1>7 DEF Respond, locks, Holding, PlanChanger, RowHolder
<1>4. ASSUME NEW r \in Requests,
             \/ CommitCreate(r) \/ CommitUpdate(r) \/ CommitConsume(r)
             \/ CommitUnchanged(r) \/ Abort(r)
      PROVE  Holding'
  <2>1. call' = call /\ \E status : End(r, status)
    BY <1>4, Zenon DEF CommitCreate, CommitUpdate, CommitConsume, CommitUnchanged, Commit,
                       Abort
  <2> QED
    BY <2>1, EndHolding
<1>5. CASE Finished \/ UNCHANGED vars
  BY <1>5 DEF Finished, vars, Holding, PlanChanger, RowHolder
<1> QED
  BY <1>1, <1>2, <1>3, <1>4, <1>5, <1>6, <1>7, WriteHolding, LockHolding DEF Next, Step

(* Chains of waiting requests have two links at most, so no set of         *)
(* requests, however many and on however many tenants and resources, waits *)
(* for each other; and nobody waits for a request that is gone.            *)
THEOREM NoDeadlock == Spec => []WaitsEnd
<1>1. Init => Holding
  BY PlanQuotasAssumption DEF Init, Holding, PlanChanger, RowHolder
<1>2. IInv /\ Holding /\ [Next]_vars => Holding'
  BY NextHolding DEF IInv
<1>3. IInv /\ Holding => WaitsEnd
  <2> SUFFICES ASSUME IInv, Holding, NEW r \in Requests, NEW o \in Requests,
                      WaitsFor(r, o)
               PROVE  /\ o \in InFlight
                      /\ \A p, q \in Requests : WaitsFor(o, p) => ~WaitsFor(p, q)
    BY DEF WaitsEnd
  <2>0. /\ call[r].tenant \in Tenants /\ call[r].resource \in Resources
        /\ call[o].tenant \in Tenants /\ call[o].resource \in Resources
    BY CallType DEF IInv
  <2>1. pc[o] \in {"commit", "rows"}
    BY <2>0 DEF WaitsFor, Holding, PlanChanger, RowHolder, Dirty
  <2>2. ASSUME NEW p \in Requests, NEW q \in Requests, WaitsFor(o, p), WaitsFor(p, q)
        PROVE  FALSE
    <3>1. /\ pc[o] = "rows" /\ p # o
          /\ \E res \in Resources : rowLock[call[o].tenant][res] = p
      <4>1. pc[o] \in {"insert", "write", "rows", "lock"}
        BY <2>2 DEF WaitsFor
      <4>2. pc[o] = "rows"
        BY <2>1, <4>1
      <4>3. p # o /\ \E res \in Dirty(o) : rowLock[call[o].tenant][res] = p
        BY <2>2, <4>2 DEF WaitsFor
      <4> QED
        BY <4>2, <4>3 DEF Dirty
    <3>2. planLock[call[o].tenant] = o
      BY <2>0, <3>1 DEF Holding, PlanChanger
    <3>3. call[p].tenant = call[o].tenant /\ pc[p] \in {"rows", "commit"}
      BY <2>0, <3>1 DEF Holding, RowHolder
    <3>4. pc[p] # "rows"
      BY <2>0, <3>1, <3>2, <3>3 DEF Holding, PlanChanger
    <3> QED
      BY <2>2, <3>3, <3>4 DEF WaitsFor
  <2> QED
    BY <2>1, <2>2 DEF InFlight
<1> QED
  BY <1>1, <1>2, <1>3, Invariance, PTL DEF Spec

-----------------------------------------------------------------------------
(* One request at a time: the two promises about plans that races break.   *)

(* One transaction is open at a time (a client that only waits for its     *)
(* answer is not enough: the commit comes after the answer).               *)
Sequential == MaxInFlight = 1

(* Plans limit to a number, or not at all. *)
LimitsSound ==
    \A p \in Plans, res \in Resources : PlanQuotas[p][res] \in Nat \cup {Unlimited}

Alone == \A r, o \in InFlight : r = o

(* A plan change on its way from its validation to its writes. *)
Watched == {"reload", "requotas", "write", "rows"}

(* What a plan change has validated and loaded is still so. *)
Seen(r) ==
    LET t == call[r].tenant IN
    /\ pc[r] \in Watched =>
          \A res \in Resources :
             FitsLimit(row[t][res].used, PlanQuotas[call[r].plan][res])
    /\ pc[r] \in {"write", "rows"} => view[r].row = row[t]

PlanInv == Alone /\ (\A r \in Requests : Seen(r)) /\ UseFitsPlan /\ LimitsFollowPlan

(* A request that arrives finds no other in flight.                        *)
LEMMA ArrivesAlone ==
    ASSUME Sequential, Alone, NEW r \in Requests, Arrive(r)
    PROVE  InFlight = {}
<1>1. Cardinality(InFlight) < 1
  BY DEF Arrive, Sequential
<1>2. ASSUME NEW o \in InFlight PROVE FALSE
  <2>1. InFlight = {o}
    BY <1>2 DEF Alone
  <2>2. Cardinality(InFlight) = 1
    BY <2>1, FS_Singleton
  <2> QED
    BY <1>1, <2>2
<1> QED
  BY <1>2

(* A step moves one request, which is in flight unless it arrives; it      *)
(* comes to the writes of a plan change by the steps that lead there.      *)
LEMMA StepMoves ==
    ASSUME TypeOK, LabelsFit, NEW r \in Requests, Arrive(r) \/ Step(r) \/ Abort(r)
    PROVE  /\ call' = call
           /\ \A o \in Requests \ {r} : pc'[o] = pc[o] /\ view'[o] = view[o]
           /\ r \in InFlight \/ Arrive(r)
           /\ \/ pc'[r] \notin Watched
              \/ LoadQuotas(r) /\ pc'[r] = "reload"
              \/ pc[r] = "reload" /\ pc'[r] = "requotas"
              \/ ReloadQuotas(r) /\ pc[r] \in Watched
              \/ /\ pc[r] \in {"write", "rows"} /\ pc'[r] \in {"write", "rows"}
                 /\ view' = view
<1> DEFINE Moved ==
              /\ call' = call
              /\ \A o \in Requests \ {r} : pc'[o] = pc[o] /\ view'[o] = view[o]
              /\ r \in InFlight \/ Arrive(r)
              /\ \/ pc'[r] \notin Watched
                 \/ LoadQuotas(r) /\ pc'[r] = "reload"
                 \/ pc[r] = "reload" /\ pc'[r] = "requotas"
                 \/ ReloadQuotas(r) /\ pc[r] \in Watched
                 \/ /\ pc[r] \in {"write", "rows"} /\ pc'[r] \in {"write", "rows"}
                    /\ view' = view
<1>1. ASSUME NEW status, End(r, status), call' = call, r \in InFlight PROVE Moved
  BY <1>1 DEF End, TypeOK, Watched
<1>2. ASSUME NEW label, Goto(r, label), call' = call, label \notin Watched,
             \A o \in Requests \ {r} : view'[o] = view[o],
             r \in InFlight \/ Arrive(r)
      PROVE  Moved
  BY <1>2 DEF Goto, TypeOK
<1> SUFFICES Moved
  OBVIOUS
<1>10. pc[r] \notin {"idle", "done"} => r \in InFlight
  BY DEF InFlight
<1>3. CASE Arrive(r)
  <2>1. call[r].op \in {"create", "consume", "update", "get"}
    BY PlanQuotasAssumption DEF TypeOK, Calls
  <2>2. First[call[r].op] \notin Watched
    BY <2>1 DEF First, Watched
  <2> HIDE DEF Moved
  <2> QED
    BY <1>2, <1>3, <2>2 DEF Arrive
<1>4. CASE CheckSlug(r) \/ InsertTenant(r)
  <2>1. /\ call' = call /\ pc[r] \in {"slug", "insert"}
        /\ \/ End(r, 409) \/ End(r, 500)
           \/ view' = view /\ Goto(r, "insert")
           \/ view' = view /\ Goto(r, "commit")
    BY <1>4 DEF CheckSlug, InsertTenant
  <2>2. "insert" \notin Watched /\ "commit" \notin Watched
    BY DEF Watched
  <2> HIDE DEF Moved
  <2> QED
    BY <1>1, <1>2, <1>10, <2>1, <2>2
<1>5. CASE LoadTenant(r)
  <2>1. /\ call' = call /\ pc[r] \in {"load", "reload"}
        /\ \/ End(r, 404)
           \/ Goto(r, "quotas") /\ view' = view
           \/ /\ pc[r] = "reload" /\ Goto(r, "requotas")
              /\ view' = [view EXCEPT ![r].plan = plan[call[r].tenant]]
    BY <1>5, Zenon DEF LoadTenant
  <2>2. r \in InFlight /\ "quotas" \notin Watched
    BY <1>10, <2>1 DEF Watched
  <2>3. CASE /\ pc[r] = "reload" /\ Goto(r, "requotas")
             /\ view' = [view EXCEPT ![r].plan = plan[call[r].tenant]]
    BY <2>1, <2>2, <2>3 DEF Goto, TypeOK
  <2> HIDE DEF Moved
  <2> QED
    BY <1>1, <1>2, <2>1, <2>2, <2>3
<1>6. CASE LoadQuotas(r)
  <2>1. call' = call /\ pc[r] = "quotas"
    BY <1>6, Zenon DEF LoadQuotas
  <2>2. \/ End(r, 422)
        \/ view' = view /\ (Goto(r, "lock") \/ Goto(r, "reload"))
    BY <1>6, Zenon DEF LoadQuotas
  <2>3. r \in InFlight /\ "lock" \notin Watched
    BY <1>10, <2>1 DEF Watched
  <2>4. CASE view' = view /\ Goto(r, "reload")
    BY <1>6, <2>1, <2>3, <2>4 DEF Goto, TypeOK
  <2> HIDE DEF Moved
  <2> QED
    BY <1>1, <1>2, <2>1, <2>2, <2>3, <2>4
<1>7. CASE ReloadQuotas(r)
  <2>1. /\ call' = call /\ pc[r] = "requotas"
        /\ \A o \in Requests \ {r} : view'[o] = view[o] /\ pc'[o] = pc[o]
    BY <1>7 DEF ReloadQuotas, Goto, TypeOK
  <2> QED
    BY <1>7, <1>10, <2>1 DEF Watched
<1>8. CASE \/ WritePlan(r)
           \/ (Respond(r) /\ pc[r] = "write")
           \/ \E res \in Resources : WriteRow(r, res)
  <2>1. /\ call' = call /\ view' = view /\ pc[r] \in {"write", "rows"}
        /\ pc' = pc \/ pc' = [pc EXCEPT ![r] = "rows"]
    BY <1>8 DEF WritePlan, WriteRow, Respond, Goto
  <2> QED
    BY <1>10, <2>1 DEF TypeOK
<1>9. CASE Respond(r) /\ pc[r] = "commit"
  <2>1. call' = call /\ view' = view /\ pc' = pc
    BY <1>9 DEF Respond
  <2> QED
    BY <1>9, <1>10, <2>1 DEF Watched
<1>11. CASE LockRow(r)
  <2>1. call' = call /\ pc[r] = "lock"
    BY <1>11, Zenon DEF LockRow
  <2>2. \/ End(r, 404) \/ End(r, 402)
        \/ /\ Goto(r, "commit")
           /\ view' = [view EXCEPT ![r].row[call[r].resource] =
                             row[call[r].tenant][call[r].resource]]
    BY <1>11, Zenon DEF LockRow
  <2>3. "commit" \notin Watched
    BY DEF Watched
  <2>4. ASSUME view' = [view EXCEPT ![r].row[call[r].resource] =
                             row[call[r].tenant][call[r].resource]]
        PROVE  \A o \in Requests \ {r} : view'[o] = view[o]
    BY <2>4 DEF TypeOK
  <2> HIDE DEF Moved
  <2> QED
    BY <1>1, <1>2, <1>10, <2>1, <2>2, <2>3, <2>4
<1>12. CASE \/ CommitCreate(r) \/ CommitUpdate(r) \/ CommitConsume(r)
            \/ CommitUnchanged(r) \/ Abort(r)
  <2>1. /\ call' = call
        /\ pc[r] = "commit" \/ pc[r] = "rows" \/ r \in InFlight
        /\ \E status : End(r, status)
    BY <1>12, Zenon DEF CommitCreate, CommitUpdate, CommitConsume, CommitUnchanged,
                       Commit, Abort
  <2> HIDE DEF Moved
  <2> QED
    BY <1>1, <1>10, <2>1
<1>13. Respond(r) => pc[r] \in {"commit", "write"}
  BY DEF Respond
<1>14. \/ Arrive(r) \/ Abort(r) \/ CheckSlug(r) \/ InsertTenant(r) \/ CommitCreate(r)
       \/ LoadTenant(r) \/ LoadQuotas(r) \/ ReloadQuotas(r) \/ Respond(r)
       \/ WritePlan(r) \/ (\E res \in Resources : WriteRow(r, res))
       \/ CommitUpdate(r) \/ LockRow(r) \/ CommitConsume(r) \/ CommitUnchanged(r)
  BY Zenon DEF Step
<1>15. \/ ~Respond(r)
       \/ (Respond(r) /\ pc[r] = "commit")
       \/ (Respond(r) /\ pc[r] = "write")
  BY <1>13
<1> HIDE DEF Moved
<1> QED
  BY <1>3, <1>4, <1>5, <1>6, <1>7, <1>8, <1>9, <1>11, <1>12, <1>14, <1>15, Zenon

(* Who is alone stays alone, and for the others nothing is seen.           *)
LEMMA StepAlone ==
    ASSUME Sequential, TypeOK, LabelsFit, PlanInv,
           NEW r \in Requests, Arrive(r) \/ Step(r) \/ Abort(r)
    PROVE  /\ Alone'
           /\ \A o \in Requests \ {r} : pc'[o] \in {"idle", "done"}
<1>1. \A o \in Requests \ {r} : pc[o] \in {"idle", "done"} /\ pc'[o] = pc[o]
  <2>1. CASE Arrive(r)
    BY <2>1, ArrivesAlone, StepMoves DEF PlanInv, InFlight
  <2>2. CASE ~Arrive(r)
    BY <2>2, StepMoves DEF PlanInv, Alone, InFlight
  <2> QED
    BY <2>1, <2>2
<1> QED
  BY <1>1 DEF Alone, InFlight

(* Steps that leave the committed rows and plans as they are.              *)
LEMMA QuietPlans ==
    ASSUME Sequential, TypeOK, LabelsFit, PlanInv,
           NEW r \in Requests, Arrive(r) \/ Step(r) \/ Abort(r),
           known' = known, plan' = plan, row' = row
    PROVE  PlanInv'
<1>0. call' = call /\ Alone' /\ \A o \in Requests \ {r} : Seen(o)'
  BY StepMoves, StepAlone DEF Seen, Watched
<1>1. UseFitsPlan' /\ LimitsFollowPlan'
  BY DEF PlanInv, UseFitsPlan, LimitsFollowPlan
<1>2. Seen(r)'
  <2>1. CASE LoadQuotas(r) /\ pc'[r] = "reload"
    <3>1. \/ End(r, 422) \/ Goto(r, "lock")
          \/ \A res \in Resources : FitsLimit(row[call[r].tenant][res].used,
                                              PlanQuotas[call[r].plan][res])
      BY <2>1, Zenon DEF LoadQuotas
    <3>2. ~End(r, 422) /\ ~Goto(r, "lock")
      BY <2>1 DEF End, Goto, TypeOK
    <3> QED
      BY <1>0, <2>1, <3>1, <3>2 DEF Seen
  <2>2. CASE pc[r] = "reload" /\ pc'[r] = "requotas"
    BY <1>0, <2>2 DEF PlanInv, Seen, Watched
  <2>3. CASE ReloadQuotas(r) /\ pc[r] \in Watched
    <3>1. view'[r].row = row[call[r].tenant]
      BY <2>3 DEF ReloadQuotas, TypeOK, Views
    <3> QED
      BY <1>0, <2>3, <3>1 DEF PlanInv, Seen
  <2>4. CASE /\ pc[r] \in {"write", "rows"} /\ pc'[r] \in {"write", "rows"}
             /\ view' = view
    BY <1>0, <2>4 DEF PlanInv, Seen, Watched
  <2>5. CASE pc'[r] \notin Watched
    BY <2>5 DEF Seen, Watched
  <2> QED
    BY <2>1, <2>2, <2>3, <2>4, <2>5, StepMoves
<1> QED
  BY <1>0, <1>1, <1>2 DEF PlanInv

(* A commit leaves nothing to see; it is enough to look at its tenant.     *)
LEMMA CommitPlans ==
    ASSUME Sequential, TypeOK, LabelsFit, PlanInv, NEW r \in Requests,
           CommitCreate(r) \/ CommitUpdate(r) \/ CommitConsume(r),
           UseFitsPlan', LimitsFollowPlan'
    PROVE  PlanInv'
<1>1. Step(r)
  BY DEF Step
<1>2. Alone' /\ \A o \in Requests \ {r} : Seen(o)'
  BY <1>1, StepAlone DEF Seen, Watched
<1>3. \E status : End(r, status)
  BY Zenon DEF CommitCreate, CommitUpdate, CommitConsume, Commit
<1>4. Seen(r)'
  BY <1>3 DEF End, TypeOK, Seen, Watched
<1> QED
  BY <1>2, <1>4 DEF PlanInv

(* Every step of the only request keeps the plans' promises.               *)
LEMMA NextPlans ==
    ASSUME Sequential, LimitsSound, IInv, PlanInv, [Next]_vars
    PROVE  PlanInv'
<1>0. TypeOK /\ LabelsFit /\ known \in SUBSET Tenants
  BY DEF IInv, TypeOK
<1>1. ASSUME NEW r \in Requests, CommitCreate(r)
      PROVE  PlanInv'
  <2> DEFINE t == call[r].tenant
  <2>1. t \in Tenants /\ call[r].plan \in Plans
    BY <1>0, CallType
  <2>2. /\ known' = known \cup {t}
        /\ plan'[t] = call[r].plan /\ row'[t] = FreshRows(call[r].plan)
        /\ \A u \in Tenants \ {t} : plan'[u] = plan[u] /\ row'[u] = row[u]
    BY <1>0, <1>1, <2>1 DEF CommitCreate, TypeOK
  <2> HIDE DEF t
  <2>3. \A res \in Resources :
           /\ row'[t][res].limit = PlanQuotas[plan'[t]][res]
           /\ FitsLimit(row'[t][res].used, row'[t][res].limit)
    <3> TAKE res \in Resources
    <3>1. /\ row'[t][res].limit = PlanQuotas[plan'[t]][res]
          /\ row'[t][res].used = 0
      BY <2>1, <2>2, FreshRowsValue
    <3> QED
      BY <2>1, <2>2, <3>1 DEF LimitsSound, FitsLimit
  <2>4. UseFitsPlan' /\ LimitsFollowPlan'
    BY <1>0, <2>1, <2>2, <2>3 DEF PlanInv, UseFitsPlan, LimitsFollowPlan
  <2> QED
    BY <1>0, <1>1, <2>4, CommitPlans
<1>2. ASSUME NEW r \in Requests, CommitUpdate(r)
      PROVE  PlanInv'
  <2> DEFINE t == call[r].tenant
             target == PlanQuotas[call[r].plan]
  <2>1. t \in Tenants /\ call[r].plan \in Plans
    BY <1>0, CallType
  <2>2. /\ known' = known /\ pc[r] = "rows"
        /\ plan'[t] = call[r].plan /\ \A u \in Tenants \ {t} : plan'[u] = plan[u]
    BY <1>0, <1>2, <2>1 DEF CommitUpdate, TypeOK
  <2>3. view[r].row = row[t] /\ \A res \in Resources : FitsLimit(row[t][res].used, target[res])
    BY <2>2 DEF PlanInv, Seen, Watched
  <2>4. ASSUME NEW res \in Resources
        PROVE  row'[t][res].limit = target[res] /\ row'[t][res].used = row[t][res].used
    <3>1. res \notin Dirty(r) => row[t][res].limit = target[res]
      BY <2>3 DEF Dirty
    <3> QED
      BY <1>2, <2>1, <3>1, CommitUpdateInv
  <2>5. \A u \in Tenants \ {t} : row'[u] = row[u]
    BY <1>2, CommitUpdateInv
  <2> HIDE DEF t
  <2>6. UseFitsPlan' /\ LimitsFollowPlan'
    BY <1>0, <2>1, <2>2, <2>3, <2>4, <2>5 DEF PlanInv, UseFitsPlan, LimitsFollowPlan
  <2> QED
    BY <1>0, <1>2, <2>6, CommitPlans
<1>3. ASSUME NEW r \in Requests, CommitConsume(r)
      PROVE  PlanInv'
  <2> DEFINE t == call[r].tenant
             s == call[r].resource
  <2>1. t \in Tenants /\ s \in Resources /\ call[r].amount \in Int
    BY <1>0, CallType
  <2>2. known' = known /\ plan' = plan
    BY <1>3 DEF CommitConsume
  <2>3. /\ ~Overdraws(row[t][s], call[r].amount)
        /\ \A u \in Tenants, res \in Resources :
              /\ row'[u][res].limit = row[u][res].limit
              /\ row'[u][res].used = IF u = t /\ res = s
                                     THEN row[u][res].used + call[r].amount
                                     ELSE row[u][res].used
    BY <1>3, CommitConsumeInv
  <2> HIDE DEF t, s
  <2>4. ASSUME NEW u \in known, NEW res \in Resources
        PROVE  /\ FitsLimit(row'[u][res].used, row'[u][res].limit)
               /\ row'[u][res].limit = PlanQuotas[plan[u]][res]
    <3>1. /\ FitsLimit(row[u][res].used, row[u][res].limit)
          /\ row[u][res].limit = PlanQuotas[plan[u]][res]
          /\ row[u][res].limit \in Int /\ row[u][res].used \in Int
      BY <1>0 DEF PlanInv, UseFitsPlan, LimitsFollowPlan, TypeOK, QuotaRow
    <3> QED
      BY <1>0, <2>1, <2>3, <3>1 DEF FitsLimit, Overdraws
  <2>5. UseFitsPlan' /\ LimitsFollowPlan'
    BY <2>2, <2>4 DEF UseFitsPlan, LimitsFollowPlan
  <2> QED
    BY <1>0, <1>3, <2>5, CommitPlans
<1>4. ASSUME NEW r \in Requests, Arrive(r) \/ Step(r) \/ Abort(r),
             known' = known, plan' = plan, row' = row
      PROVE  PlanInv'
  BY <1>0, <1>4, QuietPlans
<1>5. ASSUME NEW r \in Requests, Arrive(r) \/ Step(r) \/ Abort(r)
      PROVE  \/ known' = known /\ plan' = plan /\ row' = row
             \/ CommitCreate(r) \/ CommitUpdate(r) \/ CommitConsume(r)
  <2>1. ASSUME \/ Arrive(r) \/ Abort(r) \/ CheckSlug(r) \/ InsertTenant(r) \/ LoadTenant(r)
               \/ ReloadQuotas(r) \/ Respond(r) \/ WritePlan(r)
               \/ \E res \in Resources : WriteRow(r, res)
        PROVE  known' = known /\ plan' = plan /\ row' = row
    BY <2>1 DEF Arrive, Abort, CheckSlug, InsertTenant, LoadTenant, ReloadQuotas, Respond,
                WritePlan, WriteRow, db
  <2>2. ASSUME LoadQuotas(r) PROVE known' = known /\ plan' = plan /\ row' = row
    BY <2>2, Zenon DEF LoadQuotas, db
  <2>3. ASSUME LockRow(r) \/ CommitUnchanged(r)
        PROVE  known' = known /\ plan' = plan /\ row' = row
    BY <2>3, Zenon DEF LockRow, CommitUnchanged, db
  <2> QED
    BY <1>5, <2>1, <2>2, <2>3 DEF Step
<1>6. CASE UNCHANGED vars
  <2>1. /\ known' = known /\ plan' = plan /\ row' = row
        /\ call' = call /\ pc' = pc /\ view' = view
    BY <1>6 DEF vars
  <2>2. Alone' /\ \A r \in Requests : Seen(r)'
    BY <2>1 DEF PlanInv, Alone, InFlight, Seen
  <2>3. UseFitsPlan' /\ LimitsFollowPlan'
    BY <2>1 DEF PlanInv, UseFitsPlan, LimitsFollowPlan
  <2> QED
    BY <2>2, <2>3 DEF PlanInv
<1>7. UNCHANGED vars \/ \E r \in Requests : Arrive(r) \/ Step(r) \/ Abort(r)
  BY Zenon DEF Next, Finished
<1> QED
  BY <1>1, <1>2, <1>3, <1>4, <1>5, <1>6, <1>7

(* The use of every tenant fits its plan, and its limits are those of its  *)
(* plan, as long as one transaction is open at a time, cut off or not:     *)
(* what the service does about plans is right but for the races.           *)
THEOREM PlansHoldInTurn ==
    ASSUME Sequential, LimitsSound
    PROVE  Spec => [](UseFitsPlan /\ LimitsFollowPlan)
<1>1. Init => PlanInv
  <2> SUFFICES ASSUME Init PROVE PlanInv
    OBVIOUS
  <2>1. Alone /\ \A r \in Requests : Seen(r)
    BY DEF Init, Alone, InFlight, Seen, Watched
  <2>2. ASSUME NEW t \in known, NEW res \in Resources
        PROVE  /\ row[t][res].limit = PlanQuotas[plan[t]][res]
               /\ FitsLimit(row[t][res].used, row[t][res].limit)
    <3>1. t \in Tenants /\ plan[t] \in Plans /\ row[t] = FreshRows(plan[t])
      BY DEF Init
    <3>2. row[t][res].limit = PlanQuotas[plan[t]][res] /\ row[t][res].used = 0
      BY <3>1, FreshRowsValue
    <3> QED
      BY <3>1, <3>2 DEF LimitsSound, FitsLimit
  <2> QED
    BY <2>1, <2>2 DEF PlanInv, UseFitsPlan, LimitsFollowPlan
<1>2. IInv /\ PlanInv /\ [Next]_vars => PlanInv'
  BY NextPlans
<1>3. PlanInv => UseFitsPlan /\ LimitsFollowPlan
  BY DEF PlanInv
<1> QED
  BY <1>1, <1>2, <1>3, Invariance, PTL DEF Spec

=============================================================================
