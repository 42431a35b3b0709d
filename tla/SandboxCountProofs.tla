------------------------- MODULE SandboxCountProofs -------------------------
(***************************************************************************)
(* Proofs about the numbers in SandboxService: what the tenant service     *)
(* counts, and how many live rows there are.  They hold when calls of the  *)
(* tenant service, commits and the process do not fail; the backend may.   *)
(*                                                                         *)
(* A charge precedes the commit that writes the row, so in between a       *)
(* create is counted without a row and a delete's row is not counted.      *)
(* Balance corrects the difference by the creates and deletes that are     *)
(* about to commit.  No interleaving makes it smaller; a refused charge, a *)
(* row deleted twice or brought back make it bigger, and none of these can *)
(* happen to a request that is alone.                                      *)
(***************************************************************************)
EXTENDS SandboxServiceProofs, FiniteSetTheorems

USE DEF backend

(* Only the backend fails. *)
Reliable == Faults \subseteq {"backend"}

(* Requests come one at a time. *)
Sequential == MaxInFlight = 1

(* The creates, or deletes, of a tenant that are about to commit. *)
Closing(op, t) ==
    {r \in Requests : call[r].op = op /\ pc[r] = "commit" /\ call[r].tenant = t}

(* Rows, with the commits that are under way, that are not counted. *)
Balance(t) ==
    Cardinality(LiveRows(t)) + Cardinality(Closing("create", t))
        - Cardinality(Closing("delete", t)) - used[t]

Arrived == {r \in Requests : pc[r] # "idle"}

(* Finitely many requests have come in, no call or command of them has     *)
(* outlived them, and who the tenant service does not know is not counted. *)
CountInv ==
    /\ IsFiniteSet(Arrived)
    /\ \A r \in Requests : pc[r] = "release" => call[r].op = "delete"
    /\ late = {} /\ stray = {}
    /\ \A t \in Tenants \ Registered : used[t] = 0

NeverBelow == \A t \in Registered : Balance(t) >= 0

(* What a request that is alone finds at its next step. *)
Fresh(r) ==
    /\ call[r].op = "create" /\ pc[r] \in {"connect", "insert", "backend", "consume"}
       /\ call[r].tenant \in Registered => ~Exceeded(Quota(call[r].tenant))
    /\ call[r].op # "create" /\ pc[r] \in {"backend", "release", "commit"}
       => Visible(r) /\ ~Refused(r)

SerialInv ==
    /\ \A r, q \in InFlight : r = q
    /\ \A r \in Requests : Fresh(r)
    /\ \A t \in Registered : Balance(t) = 0
    /\ \A t \in Registered : Limits[t] # Unlimited =>
          used[t] + Cardinality(Closing("delete", t)) <= Limits[t]

-----------------------------------------------------------------------------
(* Steps *)

(* A handler's step moves its pc. *)
LEMMA StepMoves ==
    ASSUME TypeOK, NEW r \in Requests, Step(r)
    PROVE  /\ r \in InFlight
           /\ UNCHANGED call
           /\ \E l \in Labels \ {"idle"} : Moves(r, l)
<1>1. r \in InFlight /\ UNCHANGED call
  BY StepShape
<1>2. CASE \E code : End(r, code)
  BY <1>1, <1>2, EndMoves DEF Labels
<1>3. CASE \E label \in {"connect", "insert", "load", "backend", "consume", "release",
                         "commit"} : Goto(r, label)
  BY <1>1, <1>3, GotoMoves DEF Labels
<1> QED
  BY <1>2, <1>3, StepShape

(* Only arrivals and the handlers' own steps remain when only the backend  *)
(* fails.                                                                  *)
LEMMA OnlySteps ==
    ASSUME Reliable, CountInv, [Next]_vars
    PROVE  UNCHANGED vars \/ \E r \in Requests : Arrive(r) \/ Step(r)
<1>1. "http" \notin Faults /\ "db" \notin Faults /\ "crash" \notin Faults
  BY DEF Reliable
<1>2. ASSUME NEW r \in Requests PROVE ~CommitFails(r) /\ ~ServeLate(r) /\ ~CommandActs(r)
  BY <1>1 DEF CommitFails, ServeLate, CommandActs, CountInv
<1>3. ~Crash
  BY <1>1 DEF Crash
<1> QED
  BY <1>2, <1>3 DEF Next, Finished

(* What a handler's step does to the counter. *)
LEMMA StepCharges ==
    ASSUME Reliable, NEW r \in Requests, Step(r)
    PROVE  /\ late' = late /\ stray' = stray
           /\ \/ pc[r] \notin {"consume", "release"} /\ used' = used
              \/ pc[r] = "consume" /\ Charge(call[r].tenant, 1) /\ Goto(r, "commit")
              \/ pc[r] = "release" /\ Charge(call[r].tenant, -1) /\ Goto(r, "commit")
<1>1. ~CallFails(r)
  BY DEF CallFails, Reliable
<1>2. CASE Consume(r)
  BY <1>1, <1>2 DEF Consume
<1>3. CASE Release(r)
  BY <1>1, <1>3 DEF Release
<1>4. CASE Connect(r) \/ PoolTimeout(r) \/ CheckQuota(r) \/ Insert(r) \/ Load(r)
  BY <1>4 DEF Connect, PoolTimeout, CheckQuota, Insert, Load
<1>5. CASE BackendCreate(r) \/ BackendPause(r) \/ BackendDestroy(r) \/ BackendPolicy(r)
  <2>1. pc[r] = "backend" /\ late' = late /\ stray' = stray /\ used' = used
    BY <1>5, Zenon DEF BackendCreate, BackendPause, BackendDestroy, BackendPolicy
  <2> QED
    BY <2>1
<1>6. CASE Commit(r)
  BY <1>6 DEF Commit
<1> QED
  BY <1>2, <1>3, <1>4, <1>5, <1>6, Zenon DEF Step

(* Who can come to the quota calls and to the commit, and from where. *)
LEMMA StepGoes ==
    ASSUME TypeOK, NEW r \in Requests, Step(r)
    PROVE  /\ pc'[r] = "release" => pc[r] \in {"load", "backend"} /\ call[r].op = "delete"
           /\ pc'[r] = "commit" =>
                 \/ pc[r] \in {"consume", "release"}
                 \/ pc[r] = "backend" /\ call[r].op \in {"stop", "start", "policy"}
<1> DEFINE Goal ==
      /\ pc'[r] = "release" => pc[r] \in {"load", "backend"} /\ call[r].op = "delete"
      /\ pc'[r] = "commit" =>
            \/ pc[r] \in {"consume", "release"}
            \/ pc[r] = "backend" /\ call[r].op \in {"stop", "start", "policy"}
<1>1. ASSUME NEW code, End(r, code) PROVE Goal
  BY <1>1 DEF End, TypeOK
<1>2. ASSUME NEW l \in {"connect", "insert", "load", "backend", "consume"}, Goto(r, l)
      PROVE  Goal
  BY <1>2 DEF Goto, TypeOK
<1>3. CASE Connect(r)
  <2>1. Goto(r, "insert") \/ Goto(r, "load")
    BY <1>3 DEF Connect
  <2> QED
    BY <1>2, <2>1
<1>4. CASE PoolTimeout(r) \/ CheckQuota(r) \/ Insert(r) \/ BackendCreate(r) \/ Commit(r)
  <2>1. CASE PoolTimeout(r) \/ CheckQuota(r)
    <3>1. End(r, 402) \/ End(r, 500) \/ Goto(r, "connect")
      BY <2>1, Zenon DEF PoolTimeout, CheckQuota
    <3> QED
      BY <1>1, <1>2, <3>1
  <2>2. CASE Insert(r)
    BY <1>1, <1>2, <2>2 DEF Insert
  <2>3. CASE BackendCreate(r)
    <3>1. End(r, 500) \/ Goto(r, "consume")
      BY <2>3, Zenon DEF BackendCreate
    <3> QED
      BY <1>1, <1>2, <3>1
  <2>4. CASE Commit(r)
    <3>1. End(r, SuccessCode[call[r].op])
      BY <2>4, Zenon DEF Commit
    <3> QED
      BY <1>1, <3>1
  <2> QED
    BY <1>4, <2>1, <2>2, <2>3, <2>4
<1>5. CASE Consume(r) \/ Release(r)
  BY <1>5 DEF Consume, Release, Goto, TypeOK
<1>6. CASE Load(r)
  <2>1. CASE call[r].op = "delete"
    BY <1>6, <2>1 DEF Load, End, Goto, TypeOK
  <2>2. CASE call[r].op # "delete"
    <3>1. Goto(r, "backend") \/ \E code : End(r, code)
      BY <1>6, <2>2 DEF Load
    <3> QED
      BY <1>1, <1>2, <3>1
  <2> QED
    BY <2>1, <2>2
<1>7. CASE BackendPause(r) \/ BackendPolicy(r)
  <2>1. /\ pc[r] = "backend" /\ call[r].op \in {"stop", "start", "policy"}
        /\ Goto(r, "commit") \/ End(r, 500)
    BY <1>7 DEF BackendPause, BackendPolicy
  <2> QED
    BY <2>1 DEF Goto, End, TypeOK
<1>8. CASE BackendDestroy(r)
  <2>1. /\ pc[r] = "backend" /\ call[r].op = "delete"
        /\ Goto(r, "release") \/ End(r, 500)
    BY <1>8, Zenon DEF BackendDestroy
  <2> QED
    BY <2>1 DEF Goto, End, TypeOK
<1> QED
  BY <1>3, <1>4, <1>5, <1>6, <1>7, <1>8, Zenon DEF Step

(* The counter stays an integer, and 0 for an unknown tenant. *)
LEMMA ChargeIs ==
    ASSUME TypeOK, NEW t \in Tenants, NEW n \in Int, Charge(t, n)
    PROVE  /\ \A u \in Tenants \ {t} : used'[u] = used[u]
           /\ used'[t] = used[t] +
                 (IF t \in Registered /\ ~Overdraws(Quota(t), n) THEN n ELSE 0)
<1>1. used[t] \in Int
  BY DEF TypeOK
<1> QED
  BY <1>1 DEF Charge, TypeOK

(* CountInv holds at first. *)
LEMMA InitCount == Init => CountInv
<1> SUFFICES ASSUME Init PROVE CountInv
  OBVIOUS
<1>1. Arrived = {}
  BY DEF Init, Arrived
<1> QED
  BY <1>1, FS_EmptySet DEF Init, CountInv

(* Every step keeps CountInv. *)
LEMMA NextCount ==
    ASSUME TypeOK, Reliable, CountInv, [Next]_vars
    PROVE  CountInv'
<1> USE DEF CountInv
<1>1. CASE UNCHANGED vars
  BY <1>1 DEF vars, Arrived
<1>2. ASSUME NEW r \in Requests, Arrive(r) \/ Step(r),
             \A q \in Requests \ {r} : pc'[q] = pc[q] /\ call'[q] = call[q],
             pc'[r] = "release" => call'[r].op = "delete",
             late' = {}, stray' = {},
             \A t \in Tenants \ Registered : used'[t] = 0
      PROVE  CountInv'
  <2>1. Arrived' \in SUBSET (Arrived \cup {r})
    BY <1>2 DEF Arrived
  <2>2. IsFiniteSet(Arrived')
    BY <2>1, FS_AddElement, FS_Subset
  <2> QED
    BY <1>2, <2>2
<1>3. ASSUME NEW r \in Requests, Arrive(r) PROVE CountInv'
  <2>1. /\ \A q \in Requests \ {r} : pc'[q] = pc[q] /\ call'[q] = call[q]
        /\ pc'[r] # "release" /\ late' = late /\ stray' = stray /\ used' = used
    BY <1>3 DEF Arrive, Goto, TypeOK
  <2> QED
    BY <1>2, <1>3, <2>1
<1>4. ASSUME NEW r \in Requests, Step(r) PROVE CountInv'
  <2>1. \A q \in Requests \ {r} : pc'[q] = pc[q] /\ call'[q] = call[q]
    BY <1>4, StepMoves DEF Moves, TypeOK
  <2>2. pc'[r] = "release" => call'[r].op = "delete"
    BY <1>4, StepGoes, StepShape
  <2>3. call[r].tenant \in Tenants
    BY OutcomeType
  <2>4. late' = {} /\ stray' = {} /\ \A t \in Tenants \ Registered : used'[t] = 0
    <3>1. /\ late' = late /\ stray' = stray
          /\ \/ used' = used
             \/ Charge(call[r].tenant, 1)
             \/ Charge(call[r].tenant, -1)
      BY <1>4, StepCharges
    <3>2. ASSUME NEW n \in Int, Charge(call[r].tenant, n), NEW t \in Tenants \ Registered
          PROVE  used'[t] = used[t]
      BY <2>3, <3>2, ChargeIs DEF TypeOK
    <3> QED
      BY <3>1, <3>2
  <2> QED
    BY <1>2, <1>4, <2>1, <2>2, <2>4
<1> QED
  BY <1>1, <1>3, <1>4, OnlySteps

-----------------------------------------------------------------------------
(* Counting *)

(* The numbers of rows and of commits under way are finite. *)
LEMMA FiniteParts ==
    ASSUME SInv, CountInv, NEW t, NEW op
    PROVE  IsFiniteSet(LiveRows(t)) /\ IsFiniteSet(Closing(op, t))
<1>1. LiveRows(t) \in SUBSET Arrived /\ Closing(op, t) \in SUBSET Arrived
  BY DEF LiveRows, Live, Closing, Arrived, SInv, RowsCommitted
<1> QED
  BY <1>1, FS_Subset DEF CountInv

(* The balance is a number. *)
LEMMA BalanceType ==
    ASSUME TypeOK, SInv, CountInv, NEW t \in Tenants
    PROVE  /\ Cardinality(LiveRows(t)) \in Nat
           /\ \A op : Cardinality(Closing(op, t)) \in Nat
           /\ used[t] \in Int
           /\ Balance(t) \in Int
<1>1. Cardinality(LiveRows(t)) \in Nat /\ \A op : Cardinality(Closing(op, t)) \in Nat
  BY FiniteParts, FS_CardinalityType
<1>2. used[t] \in Int
  BY DEF TypeOK
<1> QED
  BY <1>1, <1>2 DEF Balance

One(c) == IF c THEN 1 ELSE 0

(* A finite set with an element put in or taken out. *)
LEMMA SetCounts ==
    ASSUME NEW S, IsFiniteSet(S), NEW x
    PROVE  /\ Cardinality(S \cup {x}) = Cardinality(S) + One(x \notin S)
           /\ Cardinality(S \ {x}) = Cardinality(S) - One(x \in S)
<1>1. Cardinality(S) \in Nat
  BY FS_CardinalityType
<1>2. Cardinality(S \cup {x}) = IF x \in S THEN Cardinality(S) ELSE Cardinality(S) + 1
  BY FS_AddElement, Zenon
<1>3. Cardinality(S \ {x}) = IF x \in S THEN Cardinality(S) - 1 ELSE Cardinality(S)
  BY FS_RemoveElement, Zenon
<1> QED
  BY <1>1, <1>2, <1>3 DEF One

(* A request that comes to its commit is one more; one that leaves it is   *)
(* one less.                                                               *)
LEMMA ClosingCounts ==
    ASSUME TypeOK, SInv, CountInv, NEW r \in Requests, NEW l \in Labels, Moves(r, l),
           UNCHANGED call, NEW t, NEW op
    PROVE  Cardinality(Closing(op, t)') =
              Cardinality(Closing(op, t))
                 + One(call[r].op = op /\ call[r].tenant = t /\ l = "commit")
                 - One(call[r].op = op /\ call[r].tenant = t /\ pc[r] = "commit")
<1> DEFINE S == Closing(op, t)
           ours == call[r].op = op /\ call[r].tenant = t
<1>0. IsFiniteSet(S) /\ Cardinality(S) \in Nat
  BY FiniteParts, FS_CardinalityType
<1>1. r \in S <=> ours /\ pc[r] = "commit"
  BY DEF Closing
<1>2. S' = IF ours /\ l = "commit" THEN S \cup {r} ELSE S \ {r}
  BY DEF Closing, Moves, TypeOK
<1> HIDE DEF S
<1>3. /\ Cardinality(S \cup {r}) = Cardinality(S) + One(r \notin S)
      /\ Cardinality(S \ {r}) = Cardinality(S) - One(r \in S)
  BY <1>0, SetCounts
<1> QED
  BY <1>0, <1>1, <1>2, <1>3 DEF One, S

(* A row that is written counts by its new status instead of its old one.  *)
LEMMA LiveCounts ==
    ASSUME TypeOK, SInv, CountInv, NEW id \in Requests, NEW s,
           status' = [status EXCEPT ![id] = s], UNCHANGED call, NEW t
    PROVE  Cardinality(LiveRows(t)') =
              Cardinality(LiveRows(t)) + One(call[id].tenant = t /\ s \in Live)
                 - One(call[id].tenant = t /\ status[id] \in Live)
<1> DEFINE S == LiveRows(t)
           ours == call[id].tenant = t
<1>0. IsFiniteSet(S) /\ Cardinality(S) \in Nat
  BY FiniteParts, FS_CardinalityType
<1>1. id \in S <=> ours /\ status[id] \in Live
  BY DEF LiveRows
<1>2. S' = IF ours /\ s \in Live THEN S \cup {id} ELSE S \ {id}
  BY DEF LiveRows, TypeOK
<1> HIDE DEF S
<1>3. /\ Cardinality(S \cup {id}) = Cardinality(S) + One(id \notin S)
      /\ Cardinality(S \ {id}) = Cardinality(S) - One(id \in S)
  BY <1>0, SetCounts
<1> QED
  BY <1>0, <1>1, <1>2, <1>3 DEF One, S

(* The step of a request that finds things as it left them: its charge     *)
(* fits, and the row it writes is live.                                    *)
Smooth(r) ==
    /\ pc[r] = "consume" /\ call[r].tenant \in Registered
          => ~Overdraws(Quota(call[r].tenant), 1)
    /\ pc[r] = "commit" /\ call[r].op # "create" => status[Id(r)] \in Live

(* No step of a handler makes a balance smaller, and a smooth one leaves   *)
(* it as it is.                                                            *)
LEMMA BalanceStep ==
    ASSUME TypeOK, SInv, Reliable, CountInv, NEW r \in Requests, Step(r),
           NEW t \in Registered
    PROVE  /\ Balance(t)' \in Int /\ Balance(t)' >= Balance(t)
           /\ Smooth(r) => Balance(t)' = Balance(t)
<1> DEFINE ours == call[r].tenant = t
           op == call[r].op
           live == Cardinality(LiveRows(t))
           creates == Cardinality(Closing("create", t))
           deletes == Cardinality(Closing("delete", t))
<1>0. /\ t \in Tenants /\ call[r].tenant \in Tenants
      /\ op \in {"create", "stop", "start", "delete", "policy"}
  BY OutcomeType, SandboxAssumption
<1>1. /\ live \in Nat /\ creates \in Nat /\ deletes \in Nat /\ used[t] \in Int
      /\ Balance(t) = live + creates - deletes - used[t]
      /\ Balance(t)' = live' + creates' - deletes' - used'[t]
  BY <1>0, BalanceType DEF Balance
<1>2. PICK l \in Labels : Moves(r, l)
  BY StepMoves
<1>3. UNCHANGED call /\ pc'[r] = l
  BY <1>2, StepMoves DEF Moves, TypeOK
<1>4. creates' = creates + One(op = "create" /\ ours /\ l = "commit")
                   - One(op = "create" /\ ours /\ pc[r] = "commit")
  BY <1>2, <1>3, ClosingCounts
<1>5. deletes' = deletes + One(op = "delete" /\ ours /\ l = "commit")
                   - One(op = "delete" /\ ours /\ pc[r] = "commit")
  BY <1>2, <1>3, ClosingCounts
<1>6. pc[r] # "commit" => live' = live
  <2>1. pc[r] # "commit" => UNCHANGED status
    BY Zenon DEF Step, Connect, PoolTimeout, CheckQuota, Insert, BackendCreate, Consume,
         Load, BackendPause, BackendDestroy, Release, BackendPolicy, Commit
  <2> QED
    BY <1>3, <2>1 DEF LiveRows
<1> HIDE DEF live, creates, deletes
<1>7. CASE pc[r] \notin {"consume", "release", "commit"}
  <2>1. used' = used
    BY <1>7, StepCharges
  <2>2. l = "commit" => op \notin {"create", "delete"}
    BY <1>3, <1>7, StepGoes
  <2> QED
    BY <1>1, <1>4, <1>5, <1>6, <1>7, <2>1, <2>2 DEF One
<1>8. CASE pc[r] = "consume"
  <2>1. op = "create" /\ l = "commit" /\ Charge(call[r].tenant, 1)
    BY <1>3, <1>8, StepCharges DEF SInv, LabelsFit, Goto, TypeOK
  <2>2. used'[t] = used[t] + One(ours /\ ~Overdraws(Quota(t), 1))
    BY <1>0, <1>1, <2>1, ChargeIs DEF One
  <2> QED
    BY <1>1, <1>4, <1>5, <1>6, <1>8, <2>1, <2>2 DEF One, Smooth
<1>9. CASE pc[r] = "release"
  <2>1. op = "delete" /\ l = "commit" /\ Charge(call[r].tenant, -1)
    BY <1>3, <1>9, StepCharges DEF CountInv, Goto, TypeOK
  <2>2. ~Overdraws(Quota(t), -1)
    BY DEF Overdraws
  <2>3. used'[t] = used[t] - One(ours)
    BY <1>0, <1>1, <2>1, <2>2, ChargeIs DEF One
  <2> QED
    BY <1>1, <1>4, <1>5, <1>6, <1>9, <2>1, <2>3 DEF One
<1>10. CASE pc[r] = "commit"
  <2>1. Commit(r) /\ l = "done" /\ used' = used
    <3>1. Commit(r)
      BY <1>10, Zenon DEF Step, Connect, PoolTimeout, CheckQuota, Insert, BackendCreate,
           Consume, Load, BackendPause, BackendDestroy, Release, BackendPolicy
    <3> QED
      BY <1>3, <3>1 DEF Commit, End, TypeOK
  <2>2. Id(r) \in Requests /\ call[Id(r)].tenant = call[r].tenant
    BY <1>10 DEF Id, SInv, TargetsKnown
  <2>3. op = "create" => status[Id(r)] = "none"
    BY <1>10 DEF Id, SInv, RowsCommitted
  <2>4. CASE op = "policy" \/ (Reenters(r) /\ NameTaken(Slot(Id(r))))
    <3>1. status' = status /\ op \notin {"create", "delete"}
      BY <2>1, <2>4 DEF Commit, Reenters
    <3>2. live' = live
      BY <1>3, <3>1 DEF live, LiveRows
    <3> QED
      BY <1>1, <1>4, <1>5, <1>10, <2>1, <3>1, <3>2 DEF One
  <2>5. CASE op # "policy" /\ ~(Reenters(r) /\ NameTaken(Slot(Id(r))))
    <3> DEFINE id == Id(r)
               s == NewStatus[op]
    <3>1. status' = [status EXCEPT ![id] = s]
      BY <2>1, <2>5, Zenon DEF Commit
    <3>2. op = "create" => s \in Live /\ status[id] \notin Live
      BY <2>3 DEF NewStatus, Live
    <3>3. op = "delete" => s \notin Live
      BY DEF NewStatus, Live
    <3>4. op \notin {"create", "delete"} => s \in Live
      BY <1>0, <2>5 DEF NewStatus, Live
    <3> HIDE DEF id, s
    <3>5. id \in Requests /\ call[id].tenant = call[r].tenant
      BY <2>2 DEF id
    <3>6. live' = live + One(call[id].tenant = t /\ s \in Live)
                    - One(call[id].tenant = t /\ status[id] \in Live)
      BY <1>3, <3>1, <3>5, LiveCounts DEF live
    <3>7. Smooth(r) /\ op # "create" => status[id] \in Live
      BY <1>10 DEF Smooth, id
    <3> QED
      BY <1>0, <1>1, <1>4, <1>5, <1>10, <2>1, <3>2, <3>3, <3>4, <3>5, <3>6, <3>7 DEF One
  <2> QED
    BY <2>4, <2>5
<1> QED
  BY <1>7, <1>8, <1>9, <1>10

(* An arrival changes no number. *)
LEMMA ArriveKeeps ==
    ASSUME TypeOK, SInv, NEW r \in Requests, Arrive(r), NEW t, NEW op
    PROVE  /\ LiveRows(t)' = LiveRows(t)
           /\ Closing(op, t)' = Closing(op, t)
           /\ used' = used
<1>1. /\ pc[r] = "idle" /\ pc'[r] \in {"check", "connect"}
      /\ status' = status /\ used' = used
      /\ \A q \in Requests \ {r} : pc'[q] = pc[q] /\ call'[q] = call[q]
  BY DEF Arrive, Goto, TypeOK
<1>2. status[r] = "none"
  BY <1>1 DEF SInv, RowsCommitted
<1> QED
  BY <1>1, <1>2 DEF LiveRows, Live, Closing

(* No step makes a balance negative. *)
LEMMA NextBelow ==
    ASSUME TypeOK, SInv, Reliable, CountInv, NeverBelow, [Next]_vars
    PROVE  NeverBelow'
<1> SUFFICES ASSUME NEW t \in Registered PROVE Balance(t)' >= 0
  BY DEF NeverBelow
<1>0. t \in Tenants /\ Balance(t) \in Int /\ Balance(t) >= 0
  BY SandboxAssumption, BalanceType DEF NeverBelow
<1>1. CASE UNCHANGED vars
  BY <1>0, <1>1 DEF vars, Balance, LiveRows, Closing
<1>2. ASSUME NEW r \in Requests, Arrive(r) PROVE Balance(t)' >= 0
  BY <1>0, <1>2, ArriveKeeps DEF Balance
<1>3. ASSUME NEW r \in Requests, Step(r) PROVE Balance(t)' >= 0
  BY <1>0, <1>3, BalanceStep
<1> QED
  BY <1>1, <1>2, <1>3, OnlySteps

(* At first nothing is counted and nothing is there. *)
LEMMA InitBalance ==
    ASSUME Init, NEW t \in Tenants
    PROVE  Balance(t) = 0 /\ used[t] = 0 /\ Cardinality(Closing("delete", t)) = 0
<1>1. LiveRows(t) = {} /\ \A op : Closing(op, t) = {}
  BY DEF Init, LiveRows, Live, Closing
<1>2. used[t] = 0
  BY DEF Init
<1> QED
  BY <1>1, <1>2, FS_EmptySet DEF Balance

(* A tenant is never charged for a sandbox that it does not have and is    *)
(* not about to get, in any interleaving of any number of requests, as     *)
(* long as only the backend fails.                                         *)
THEOREM NobodyOvercharged ==
    ASSUME Reliable
    PROVE  Spec => []NeverOvercharged
<1> DEFINE I == TypeOK /\ SInv /\ CountInv /\ NeverBelow
<1>1. Init => I
  BY InitType, InitInv, InitCount, InitBalance, SandboxAssumption DEF NeverBelow
<1>2. I /\ [Next]_vars => I'
  BY NextType, NextInv, NextCount, NextBelow
<1>3. I => NeverOvercharged
  <2> SUFFICES ASSUME I, NEW t \in Tenants
               PROVE  used[t] <= Cardinality(LiveRows(t)) + Cardinality(
                         {r \in Inserted : pc[r] = "commit" /\ call[r].tenant = t})
    BY DEF NeverOvercharged
  <2> DEFINE about == {r \in Inserted : pc[r] = "commit" /\ call[r].tenant = t}
             live == Cardinality(LiveRows(t))
             creates == Cardinality(Closing("create", t))
             deletes == Cardinality(Closing("delete", t))
  <2>1. about = Closing("create", t)
    BY DEF Inserted, Closing
  <2>2. live \in Nat /\ creates \in Nat /\ deletes \in Nat /\ used[t] \in Int
    BY BalanceType
  <2>3. used[t] = 0 \/ live + creates - deletes - used[t] >= 0
    BY DEF CountInv, NeverBelow, Balance
  <2> HIDE DEF about, live, creates, deletes
  <2>4. used[t] <= live + creates
    BY <2>2, <2>3
  <2> QED
    BY <2>1, <2>4 DEF about, live, creates
<1> QED
  BY <1>1, <1>2, <1>3, PTL DEF Spec

-----------------------------------------------------------------------------
(* One request at a time *)

(* A new request finds no other. *)
LEMMA ArrivesAlone ==
    ASSUME Sequential, CountInv, NEW r \in Requests, Arrive(r)
    PROVE  InFlight = {}
<1>1. IsFiniteSet(InFlight)
  <2>1. InFlight \in SUBSET Arrived
    BY DEF InFlight, Arrived
  <2> QED
    BY <2>1, FS_Subset DEF CountInv
<1>2. Cardinality(InFlight) < 1
  BY DEF Arrive, Sequential
<1>3. Cardinality(InFlight) \in Nat
  BY <1>1, FS_CardinalityType
<1>4. Cardinality(InFlight) = 0
  BY <1>2, <1>3
<1> QED
  BY <1>1, <1>4, FS_EmptySet

(* A step of the only request leaves the others at rest. *)
LEMMA StepsAlone ==
    ASSUME TypeOK, SerialInv, NEW r \in Requests, Step(r)
    PROVE  /\ \A q \in Requests \ {r} : pc[q] \in {"idle", "done"} /\ pc'[q] = pc[q]
           /\ InFlight' \subseteq {r}
<1>1. r \in InFlight /\ \A q \in InFlight : q = r
  BY StepMoves DEF SerialInv
<1>2. \A q \in Requests \ {r} : pc'[q] = pc[q]
  BY StepMoves DEF Moves, TypeOK
<1> QED
  BY <1>1, <1>2 DEF InFlight

(* Who is alone finds at each step what it found before. *)
LEMMA StepFresh ==
    ASSUME TypeOK, SInv, Reliable, SerialInv, NEW r \in Requests, Step(r)
    PROVE  Fresh(r)'
<1>1. UNCHANGED call /\ Fresh(r)
  BY StepMoves DEF SerialInv
<1>2. CASE pc[r] = "commit"
  <2>1. Commit(r)
    BY <1>2, Zenon DEF Step, Connect, PoolTimeout, CheckQuota, Insert, BackendCreate,
         Consume, Load, BackendPause, BackendDestroy, Release, BackendPolicy
  <2>2. pc'[r] = "done"
    BY <2>1 DEF Commit, End, TypeOK
  <2> QED
    BY <2>2 DEF Fresh
<1>3. CASE pc[r] # "commit"
  <2>1. status' = status
    BY <1>3, Zenon DEF Step, Connect, PoolTimeout, CheckQuota, Insert, BackendCreate,
         Consume, Load, BackendPause, BackendDestroy, Release, BackendPolicy, Commit
  <2>2. CASE call[r].op = "create"
    <3>1. CASE pc[r] = "consume"
      BY <1>1, <2>2, <3>1, StepCharges DEF Fresh, Goto, TypeOK
    <3>2. CASE pc[r] = "check"
      <4>1. CheckQuota(r)
        BY <3>2, Zenon DEF Step, Connect, PoolTimeout, Commit, Insert, BackendCreate,
             Consume, Load, BackendPause, BackendDestroy, Release, BackendPolicy
      <4> QED
        BY <1>1, <2>2, <4>1 DEF CheckQuota, Fresh, Quota, End, TypeOK
    <3>3. CASE pc[r] \notin {"consume", "check"}
      <4>1. used' = used
        BY <2>2, <3>3, StepCharges DEF SInv, LabelsFit
      <4>2. pc[r] \in {"connect", "insert", "backend"}
        BY <1>3, <2>2, <3>3, StepMoves DEF InFlight, TypeOK, Labels, SInv, LabelsFit
      <4> QED
        BY <1>1, <2>2, <4>1, <4>2 DEF Fresh, Quota
    <3> QED
      BY <3>1, <3>2, <3>3
  <2>3. CASE call[r].op # "create"
    <3>1. CASE pc[r] = "load"
      <4>1. Load(r)
        BY <3>1, Zenon DEF Step, Connect, PoolTimeout, Commit, Insert, BackendCreate,
             Consume, CheckQuota, BackendPause, BackendDestroy, Release, BackendPolicy
      <4>2. CASE Visible(r) /\ ~Refused(r)
        BY <1>1, <2>1, <2>3, <4>2 DEF Fresh, Visible, Refused, Id
      <4>3. CASE ~(Visible(r) /\ ~Refused(r))
        BY <4>1, <4>3 DEF Load, Fresh, End, TypeOK
      <4> QED
        BY <4>2, <4>3
    <3>2. CASE pc[r] \in {"backend", "release"}
      <4>1. Visible(r) /\ ~Refused(r)
        BY <1>1, <2>3, <3>2 DEF Fresh
      <4> QED
        BY <1>1, <2>1, <2>3, <4>1 DEF Fresh, Visible, Refused, Id
    <3>3. CASE pc[r] \notin {"load", "backend", "release"}
      <4>1. pc[r] \notin {"consume", "check", "insert"}
        BY <2>3 DEF SInv, LabelsFit
      <4>2. Connect(r) \/ PoolTimeout(r)
        BY <1>3, <3>3, <4>1, Zenon DEF Step, CheckQuota, Commit, Insert, BackendCreate,
             Consume, Load, BackendPause, BackendDestroy, Release, BackendPolicy
      <4>3. pc'[r] \in {"load", "done"}
        BY <2>3, <4>2 DEF Connect, PoolTimeout, Goto, End, TypeOK
      <4> QED
        BY <1>1, <2>3, <4>3 DEF Fresh
    <3> QED
      BY <3>1, <3>2, <3>3
  <2> QED
    BY <2>2, <2>3
<1> QED
  BY <1>2, <1>3

(* So its step is smooth. *)
LEMMA FreshIsSmooth ==
    ASSUME TypeOK, SInv, NEW r \in Requests, Fresh(r)
    PROVE  Smooth(r)
<1>1. pc[r] = "consume" => call[r].op = "create"
  BY DEF SInv, LabelsFit
<1>2. ASSUME NEW t \in Registered, ~Exceeded(Quota(t)) PROVE ~Overdraws(Quota(t), 1)
  <2>1. used[t] \in Int /\ Limits[t] \in Int
    BY SandboxAssumption DEF TypeOK, Unlimited
  <2> QED
    BY <1>2, <2>1 DEF Exceeded, Overdraws, Quota
<1> QED
  BY <1>1, <1>2 DEF Fresh, Smooth, Visible

(* Every step keeps the invariant of one request at a time. *)
LEMMA NextSerial ==
    ASSUME TypeOK, SInv, Reliable, Sequential, CountInv, SerialInv, [Next]_vars
    PROVE  SerialInv'
<1> DEFINE InLimit(t) == Limits[t] # Unlimited =>
                            used[t] + Cardinality(Closing("delete", t)) <= Limits[t]
<1>0. ASSUME NEW t \in Registered
      PROVE  /\ t \in Tenants /\ used[t] \in Int /\ Limits[t] \in Int
             /\ Cardinality(Closing("delete", t)) \in Nat
             /\ Balance(t) = 0 /\ InLimit(t)
  BY <1>0, SandboxAssumption, BalanceType DEF SerialInv, Unlimited
<1>1. CASE UNCHANGED vars
  BY <1>1 DEF vars, SerialInv, InFlight, Fresh, Visible, Refused, Quota, Id, Balance,
     LiveRows, Closing
<1>2. ASSUME NEW r \in Requests, Arrive(r) PROVE SerialInv'
  <2>1. \A q \in Requests : pc[q] \in {"idle", "done"}
    BY <1>2, ArrivesAlone DEF InFlight
  <2>2. /\ pc'[r] = IF call'[r].op = "create" THEN "check" ELSE "connect"
        /\ \A q \in Requests \ {r} : pc'[q] = pc[q]
    BY <1>2 DEF Arrive, Goto, TypeOK
  <2>3. \A q, o \in InFlight' : q = o
    BY <2>1, <2>2 DEF InFlight
  <2>4. \A q \in Requests : Fresh(q)'
    BY <2>1, <2>2 DEF Fresh
  <2>5. ASSUME NEW t \in Registered PROVE Balance(t)' = 0 /\ InLimit(t)'
    BY <1>0, <1>2, ArriveKeeps DEF Balance
  <2> QED
    BY <2>3, <2>4, <2>5 DEF SerialInv
<1>3. ASSUME NEW r \in Requests, Step(r) PROVE SerialInv'
  <2>1. /\ \A q \in Requests \ {r} : pc[q] \in {"idle", "done"} /\ pc'[q] = pc[q]
        /\ InFlight' \subseteq {r}
    BY <1>3, StepsAlone
  <2>2. \A q \in Requests : Fresh(q)'
    BY <1>3, <2>1, StepFresh DEF Fresh
  <2>3. Smooth(r) /\ Fresh(r)
    BY FreshIsSmooth DEF SerialInv
  <2>4. ASSUME NEW t \in Registered PROVE Balance(t)' = 0
    BY <1>0, <1>3, <2>3, BalanceStep
  <2>5. ASSUME NEW t \in Registered PROVE InLimit(t)'
    <3> DEFINE deletes == Cardinality(Closing("delete", t))
               ours == call[r].op = "delete" /\ call[r].tenant = t
    <3>1. PICK l \in Labels : Moves(r, l)
      BY <1>3, StepMoves
    <3>2. UNCHANGED call /\ pc'[r] = l /\ call[r].tenant \in Tenants
      BY <1>3, <3>1, StepMoves, OutcomeType DEF Moves, TypeOK
    <3>3. deletes' = deletes + One(ours /\ l = "commit") - One(ours /\ pc[r] = "commit")
      <4>1. SInv /\ CountInv /\ TypeOK
        OBVIOUS
      <4> QED
        BY <3>1, <3>2, <4>1, ClosingCounts
    <3>4. /\ deletes \in Nat /\ used[t] \in Int /\ Limits[t] \in Int
          /\ InLimit(t) /\ t \in Tenants
      BY <1>0
    <3> HIDE DEF deletes
    <3>5. CASE pc[r] \notin {"consume", "release"}
      <4>1. used' = used
        BY <1>3, <3>5, StepCharges
      <4>2. l = "commit" => ~ours
        BY <1>3, <3>2, <3>5, StepGoes
      <4> QED
        BY <3>3, <3>4, <4>1, <4>2 DEF One, deletes
    <3>6. CASE pc[r] = "consume"
      <4>1. call[r].op = "create" /\ Charge(call[r].tenant, 1)
        BY <1>3, <3>6, StepCharges DEF SInv, LabelsFit
      <4>2. /\ used'[t] \in {used[t], used[t] + 1}
            /\ used'[t] # used[t] => ~Overdraws(Quota(t), 1)
        BY <3>2, <3>4, <4>1, ChargeIs
      <4>3. deletes = 0
        <5>1. Closing("delete", t) = {}
          BY <2>1, <4>1 DEF Closing
        <5> QED
          BY <5>1, FS_EmptySet DEF deletes
      <4>4. deletes' = 0
        BY <3>3, <4>1, <4>3 DEF One
      <4> QED
        BY <3>4, <4>2, <4>3, <4>4 DEF Overdraws, Quota, deletes
    <3>7. CASE pc[r] = "release"
      <4>1. call[r].op = "delete" /\ Charge(call[r].tenant, -1)
        BY <1>3, <3>7, StepCharges DEF CountInv
      <4>2. used'[t] = used[t] - One(call[r].tenant = t)
        BY <3>2, <3>4, <4>1, ChargeIs DEF Overdraws, One
      <4> QED
        BY <3>3, <3>4, <3>7, <4>1, <4>2 DEF One, deletes
    <3> QED
      BY <3>5, <3>6, <3>7
  <2> QED
    BY <2>1, <2>2, <2>4, <2>5 DEF SerialInv
<1> QED
  BY <1>1, <1>2, <1>3, OnlySteps

(* The numbers and the only request, in every reachable state. *)
THEOREM SerialInvariance ==
    ASSUME Reliable, Sequential
    PROVE  Spec => [](TypeOK /\ SInv /\ CountInv /\ SerialInv)
<1> DEFINE I == TypeOK /\ SInv /\ CountInv /\ SerialInv
<1>1. Init => I
  <2> SUFFICES ASSUME Init PROVE SerialInv
    BY InitType, InitInv, InitCount
  <2>1. InFlight = {} /\ \A r \in Requests : Fresh(r)
    BY DEF Init, InFlight, Fresh
  <2>2. ASSUME NEW t \in Registered
        PROVE  /\ Balance(t) = 0
               /\ Limits[t] # Unlimited =>
                     used[t] + Cardinality(Closing("delete", t)) <= Limits[t]
    BY InitBalance, SandboxAssumption
  <2> QED
    BY <2>1, <2>2 DEF SerialInv
<1>2. I /\ [Next]_vars => I'
  BY NextType, NextInv, NextCount, NextSerial
<1> QED
  BY <1>1, <1>2, PTL DEF Spec

(* Between requests that come one at a time, the tenant service's count is *)
(* the number of live rows.                                                *)
THEOREM CountsAreExact ==
    ASSUME Reliable, Sequential
    PROVE  Spec => []CountExact
<1>1. TypeOK /\ SInv /\ CountInv /\ SerialInv => CountExact
  <2> SUFFICES ASSUME TypeOK, SInv, CountInv, SerialInv, Quiet, NEW t \in Registered
               PROVE  used[t] = Cardinality(LiveRows(t))
    BY DEF CountExact
  <2>1. \A op : Closing(op, t) = {}
    BY DEF Quiet, InFlight, Closing
  <2>2. t \in Tenants /\ Balance(t) = 0
    BY SandboxAssumption DEF SerialInv
  <2> QED
    BY <2>1, <2>2, FS_EmptySet, BalanceType DEF Balance
<1> QED
  BY <1>1, SerialInvariance, PTL

(* Requests that come one at a time never make a tenant have more live     *)
(* sandboxes than its plan allows.                                         *)
THEOREM LimitsAreKept ==
    ASSUME Reliable, Sequential
    PROVE  Spec => []LiveWithinLimit
<1>1. TypeOK /\ SInv /\ CountInv /\ SerialInv => LiveWithinLimit
  <2> SUFFICES ASSUME TypeOK, SInv, CountInv, SerialInv, NEW t \in Registered,
                      Limits[t] # Unlimited
               PROVE  Cardinality(LiveRows(t)) <= Limits[t]
    BY DEF LiveWithinLimit
  <2>1. /\ t \in Tenants /\ Balance(t) = 0 /\ Limits[t] \in Int
        /\ used[t] + Cardinality(Closing("delete", t)) <= Limits[t]
    BY SandboxAssumption DEF SerialInv, Unlimited
  <2> QED
    BY <2>1, BalanceType DEF Balance
<1> QED
  BY <1>1, SerialInvariance, PTL

=============================================================================
