------------------------ MODULE SandboxServiceProofs ------------------------
(***************************************************************************)
(* Proofs about SandboxService, for every set of requests, tenants and     *)
(* names, every adapter and every combination of faults.  The argument: a  *)
(* name is freed and taken only by commits and flushed inserts; an insert  *)
(* keeps its name to itself until its transaction ends, and a row that a   *)
(* lost race brings back must find its name neither taken nor claimed.     *)
(***************************************************************************)
EXTENDS SandboxService, TLAPS

USE DEF backend

(* Where in the handlers each operation can be. *)
LabelsFit ==
    \A r \in Requests :
        /\ pc[r] \in {"check", "insert", "consume"} => call[r].op = "create"
        /\ pc[r] \in {"load", "release"} => call[r].op # "create"

(* A request other than a create is about a sandbox that once was, and of  *)
(* its own tenant once it has passed repo.get.                             *)
TargetsKnown ==
    \A r \in Requests : pc[r] # "idle" /\ call[r].op # "create" =>
        /\ call[r].target \in Requests
        /\ status[call[r].target] # "none"
        /\ pc[r] \in {"backend", "release", "commit"} =>
              call[call[r].target].tenant = call[r].tenant

(* Only a create that was answered 201 has a row. *)
RowsCommitted ==
    \A id \in Requests : status[id] # "none" =>
        pc[id] = "done" /\ call[id].op = "create" /\ answer[id] = 201

(* An insert that is not committed yet has its name to itself. *)
InsertsAlone ==
    \A r \in Inserted :
        /\ ~NameTaken(Slot(r))
        /\ \A o \in Inserted : Slot(o) = Slot(r) => o = r

SInv == LabelsFit /\ TargetsKnown /\ RowsCommitted /\ InsertsAlone /\ NameUnique

-----------------------------------------------------------------------------
(* Types *)

(* There is a call for the requests that have not arrived. *)
LEMMA UnsetType == Unset \in Calls
<1>1. PICK o \in Ops : TRUE
  BY SandboxAssumption
<1>2. PICK t \in Tenants : TRUE
  BY SandboxAssumption
<1>3. PICK n \in Names : TRUE
  BY SandboxAssumption
<1> DEFINE c == [op |-> o, tenant |-> t, name |-> n, target |-> Nobody, force |-> FALSE]
<1>4. c \in Calls /\ c.target = Nobody /\ ~c.force
  BY DEF Calls
<1> QED
  BY <1>4 DEF Unset

(* The pieces every action moves keep their types. *)
LEMMA EndType ==
    ASSUME TypeOK, NEW r \in Requests, NEW code \in Answers, End(r, code)
    PROVE  pc' \in [Requests -> Labels] /\ answer' \in [Requests -> Answers]
BY DEF TypeOK, End, Labels

(* The same when the handler goes on. *)
LEMMA GotoType ==
    ASSUME TypeOK, NEW r \in Requests, NEW label \in Labels, Goto(r, label)
    PROVE  pc' \in [Requests -> Labels] /\ answer' \in [Requests -> Answers]
BY DEF TypeOK, Goto

(* A charge leaves integers. *)
LEMMA ChargeType ==
    ASSUME TypeOK, NEW r \in Requests, NEW t \in Tenants, NEW n \in Int,
           Charge(t, n) \/ CallFails(r)
    PROVE  used' \in [Tenants -> Int]
BY DEF TypeOK, Charge, CallFails

(* The adapter's key of a sandbox gets a pod. *)
LEMMA PodType ==
    ASSUME TypeOK, NEW k, NEW p \in Pods
    PROVE  [pods EXCEPT ![k] = p] \in [Keys -> Pods]
BY DEF TypeOK

(* What the backend does to the pods, and the history of it. *)
LEMMA MakeType ==
    ASSUME TypeOK, NEW r \in Requests, MakePod(r)
    PROVE  pods' \in [Keys -> Pods] /\ UNCHANGED taken
<1>1. [owner |-> r, phase |-> "running"] \in Pods
  BY DEF Pods
<1> QED
  BY <1>1, PodType DEF MakePod

(* The same for a destroyed pod. *)
LEMMA TakeType ==
    ASSUME TypeOK, NEW r \in Requests, TakePod(r)
    PROVE  /\ pods' \in [Keys -> Pods]
           /\ taken' \in [Requests -> Requests \cup {Nobody}]
<1>1. NoPod \in Pods
  BY DEF NoPod, Pods
<1>2. /\ pods' = [pods EXCEPT ![Key(Id(r))] = NoPod]
      /\ taken' = [id \in Requests |-> IF id = pods[Key(Id(r))].owner THEN r ELSE taken[id]]
  BY DEF TakePod
<1>3. \A id \in Requests : taken[id] \in Requests \cup {Nobody}
  BY DEF TypeOK
<1> QED
  BY <1>1, <1>2, <1>3, PodType

(* Codes and statuses an operation ends with. *)
LEMMA OutcomeType ==
    ASSUME TypeOK, NEW r \in Requests
    PROVE  /\ call[r].op \in {"create", "stop", "start", "delete", "policy"}
           /\ call[r].tenant \in Tenants
           /\ call[r].target \in Requests \cup {Nobody}
           /\ SuccessCode[call[r].op] \in Success
           /\ call[r].op # "policy" => NewStatus[call[r].op] \in Statuses \ {"none"}
<1>1. call[r] \in Calls
  BY DEF TypeOK
<1>2. call[r].op \in {"create", "stop", "start", "delete", "policy"}
  BY <1>1, SandboxAssumption DEF Calls
<1>3. SuccessCode[call[r].op] \in Success
  BY <1>2 DEF SuccessCode, Success
<1>4. call[r].op # "policy" => NewStatus[call[r].op] \in Statuses \ {"none"}
  BY <1>2 DEF NewStatus, Statuses, Live
<1> QED
  BY <1>1, <1>2, <1>3, <1>4 DEF Calls

(* Types hold at first. *)
LEMMA InitType == Init => TypeOK
BY UnsetType DEF Init, TypeOK, Statuses, Live, NoPod, Pods, Labels, Answers, Success

(* Every step keeps the types. *)
LEMMA NextType == TypeOK /\ [Next]_vars => TypeOK'
<1> SUFFICES ASSUME TypeOK, [Next]_vars PROVE TypeOK'
  OBVIOUS
<1> USE DEF Labels, Answers, Success
<1>1. ASSUME NEW r \in Requests, Arrive(r) PROVE TypeOK'
  <2>1. PICK c \in Calls :
          /\ call' = [call EXCEPT ![r] = c]
          /\ Goto(r, IF c.op = "create" THEN "check" ELSE "connect")
    BY <1>1 DEF Arrive
  <2>2. pc' \in [Requests -> Labels] /\ answer' \in [Requests -> Answers]
    BY <2>1, GotoType
  <2>3. call' \in [Requests -> Calls]
    BY <2>1 DEF TypeOK
  <2>4. UNCHANGED <<status, saved, backend, used, late>>
    BY <1>1 DEF Arrive
  <2> QED
    BY <2>2, <2>3, <2>4 DEF TypeOK
<1>2. ASSUME NEW r \in Requests, Connect(r) \/ PoolTimeout(r) PROVE TypeOK'
  <2>1. pc' \in [Requests -> Labels] /\ answer' \in [Requests -> Answers]
    BY <1>2, GotoType, EndType DEF Connect, PoolTimeout
  <2> QED
    BY <1>2, <2>1 DEF Connect, PoolTimeout, TypeOK
<1>3. ASSUME NEW r \in Requests, CheckQuota(r) PROVE TypeOK'
  <2>1. End(r, 402) \/ Goto(r, "connect") \/ End(r, 500)
    BY <1>3, Zenon DEF CheckQuota
  <2>2. pc' \in [Requests -> Labels] /\ answer' \in [Requests -> Answers]
    BY <2>1, GotoType, EndType
  <2> QED
    BY <1>3, <2>2 DEF CheckQuota, TypeOK
<1>4. ASSUME NEW r \in Requests, Insert(r) PROVE TypeOK'
  <2>1. End(r, 409) \/ Goto(r, "backend")
    BY <1>4 DEF Insert
  <2>2. pc' \in [Requests -> Labels] /\ answer' \in [Requests -> Answers]
    BY <2>1, GotoType, EndType
  <2> QED
    BY <1>4, <2>2 DEF Insert, TypeOK
<1>5. ASSUME NEW r \in Requests, BackendCreate(r) PROVE TypeOK'
  <2>1. End(r, 500) \/ Goto(r, "consume")
    BY <1>5, Zenon DEF BackendCreate
  <2>2. pc' \in [Requests -> Labels] /\ answer' \in [Requests -> Answers]
    BY <2>1, GotoType, EndType
  <2>4. pods' \in [Keys -> Pods] /\ UNCHANGED taken
    <3>1. UNCHANGED <<pods, taken>> \/ MakePod(r)
      BY <1>5, Zenon DEF BackendCreate
    <3> QED
      BY <3>1, MakeType DEF TypeOK
  <2> QED
    BY <1>5, <2>2, <2>4 DEF BackendCreate, TypeOK
<1>6. ASSUME NEW r \in Requests, Consume(r) \/ Release(r) PROVE TypeOK'
  <2>1. pc' \in [Requests -> Labels] /\ answer' \in [Requests -> Answers]
    BY <1>6, GotoType DEF Consume, Release
  <2>2. used' \in [Tenants -> Int]
    BY <1>6, ChargeType, OutcomeType DEF Consume, Release
  <2>3. late' \in SUBSET Requests
    BY <1>6 DEF Consume, Release, CallFails, TypeOK
  <2> QED
    BY <1>6, <2>1, <2>2, <2>3 DEF Consume, Release, TypeOK
<1>7. ASSUME NEW r \in Requests, Load(r) PROVE TypeOK'
  <2>1. \/ End(r, 404)
        \/ End(r, 422)
        \/ Goto(r, IF call[r].op = "delete" /\ status[Id(r)] # "running"
                   THEN "release" ELSE "backend")
    BY <1>7, Zenon DEF Load
  <2>2. pc' \in [Requests -> Labels] /\ answer' \in [Requests -> Answers]
    BY <2>1, GotoType, EndType
  <2> QED
    BY <1>7, <2>2 DEF Load, TypeOK
<1>8. ASSUME NEW r \in Requests, BackendPause(r) PROVE TypeOK'
  <2>1. pc' \in [Requests -> Labels] /\ answer' \in [Requests -> Answers]
    BY <1>8, GotoType DEF BackendPause
  <2> DEFINE p == [owner |-> Id(r),
                   phase |-> IF call[r].op = "stop" THEN "stopped" ELSE "running"]
  <2>2. p \in Pods
    BY OutcomeType DEF Pods, Id
  <2>3. pods' \in [Keys -> Pods]
    <3>1. pods' = pods \/ pods' = [pods EXCEPT ![Key(Id(r))] = p]
      BY <1>8 DEF BackendPause
    <3> QED
      BY <3>1, <2>2, PodType DEF TypeOK
  <2> QED
    BY <1>8, <2>1, <2>3 DEF BackendPause, TypeOK
<1>9. ASSUME NEW r \in Requests, BackendDestroy(r) PROVE TypeOK'
  <2>1. End(r, 500) \/ Goto(r, "release")
    BY <1>9, Zenon DEF BackendDestroy
  <2>2. pc' \in [Requests -> Labels] /\ answer' \in [Requests -> Answers]
    BY <2>1, GotoType, EndType
  <2>4. pods' \in [Keys -> Pods] /\ taken' \in [Requests -> Requests \cup {Nobody}]
    <3>1. UNCHANGED <<pods, taken>> \/ TakePod(r)
      BY <1>9, Zenon DEF BackendDestroy
    <3> QED
      BY <3>1, TakeType DEF TypeOK
  <2> QED
    BY <1>9, <2>2, <2>4 DEF BackendDestroy, TypeOK
<1>10. ASSUME NEW r \in Requests, BackendPolicy(r) PROVE TypeOK'
  <2>1. End(r, 500) \/ Goto(r, "commit")
    BY <1>10 DEF BackendPolicy
  <2>2. pc' \in [Requests -> Labels] /\ answer' \in [Requests -> Answers]
    BY <2>1, GotoType, EndType
  <2> QED
    BY <1>10, <2>2 DEF BackendPolicy, TypeOK
<1>11. ASSUME NEW r \in Requests, Commit(r) PROVE TypeOK'
  <2>1. End(r, SuccessCode[call[r].op])
    BY <1>11, Zenon DEF Commit
  <2>2. pc' \in [Requests -> Labels] /\ answer' \in [Requests -> Answers]
    BY <2>1, EndType, OutcomeType
  <2>3. \/ UNCHANGED <<status, saved>>
        \/ call[r].op = "policy" /\ saved' = [saved EXCEPT ![Id(r)] = r] /\ UNCHANGED status
        \/ /\ call[r].op # "policy"
           /\ status' = [status EXCEPT ![Id(r)] = NewStatus[call[r].op]]
           /\ UNCHANGED saved
    BY <1>11 DEF Commit
  <2>4. status' \in [Requests -> Statuses] /\ saved' \in [Requests -> Requests \cup {Nobody}]
    BY <2>3, OutcomeType DEF TypeOK
  <2> QED
    BY <1>11, <2>2, <2>4 DEF Commit, TypeOK
<1>12. ASSUME NEW r \in Requests, CommitFails(r) PROVE TypeOK'
  <2>1. pc' \in [Requests -> Labels] /\ answer' \in [Requests -> Answers]
    BY <1>12, EndType, OutcomeType DEF CommitFails
  <2> QED
    BY <1>12, <2>1 DEF CommitFails, TypeOK
<1>13. ASSUME NEW r \in Requests, ServeLate(r) PROVE TypeOK'
  <2>1. Delta(r) \in Int
    BY DEF Delta
  <2>2. used' \in [Tenants -> Int]
    BY <1>13, <2>1, ChargeType, OutcomeType DEF ServeLate
  <2> QED
    BY <1>13, <2>2 DEF ServeLate, TypeOK
<1>14. ASSUME Crash PROVE TypeOK'
  <2>1. [k \in Keys |-> NoPod] \in [Keys -> Pods]
    BY DEF NoPod, Pods
  <2>2. answer' \in [Requests -> Answers]
    <3>1. \A r \in Requests : SuccessCode[call[r].op] \in Answers /\ answer[r] \in Answers
      BY OutcomeType DEF TypeOK
    <3> QED
      BY <1>14, <3>1 DEF Crash
  <2> QED
    BY <1>14, <2>1, <2>2 DEF Crash, Commands, TypeOK
<1>16. ASSUME NEW r \in Requests, CommandActs(r) PROVE TypeOK'
  <2>1. MakePod(r) \/ TakePod(r)
    BY <1>16, Zenon DEF CommandActs
  <2>2. pods' \in [Keys -> Pods] /\ taken' \in [Requests -> Requests \cup {Nobody}]
    BY <2>1, MakeType, TakeType DEF TypeOK
  <2> QED
    BY <1>16, <2>2 DEF CommandActs, TypeOK
<1>15. CASE Finished \/ UNCHANGED vars
  BY <1>15 DEF Finished, vars, TypeOK
<1> QED
  BY <1>1, <1>2, <1>3, <1>4, <1>5, <1>6, <1>7, <1>8, <1>9, <1>10, <1>11, <1>12, <1>13,
     <1>14, <1>15, <1>16, Zenon DEF Next, Step

(* Type correctness (the type invariant of SandboxService). *)
THEOREM Typing == Spec => []TypeOK
BY InitType, NextType, PTL DEF Spec

-----------------------------------------------------------------------------
(* Names *)

(* The ways a step moves a request: Goto and End, seen alike. *)
Moves(r, label) ==
    /\ pc' = [pc EXCEPT ![r] = label]
    /\ \A o \in Requests \ {r} : answer'[o] = answer[o]

(* Goto and End are moves. *)
LEMMA GotoMoves ==
    ASSUME TypeOK, NEW r \in Requests, NEW label, Goto(r, label)
    PROVE  Moves(r, label)
BY DEF Goto, Moves, TypeOK

(* The same for the end of a handler. *)
LEMMA EndMoves ==
    ASSUME TypeOK, NEW r \in Requests, NEW code, End(r, code)
    PROVE  Moves(r, "done")
BY DEF End, Moves, TypeOK

(* A handler that moves to a label that fits its operation, and that does  *)
(* not come to hold an insert unless its name is free, keeps the invariant.*)
LEMMA MoveInv ==
    ASSUME TypeOK, SInv, NEW r \in Requests, NEW label \in Labels,
           Moves(r, label), UNCHANGED <<status, call>>,
           pc[r] \notin {"idle", "done"},
           label \in {"check", "insert", "consume"} => call[r].op = "create",
           label \in {"load", "release"} => call[r].op # "create",
           label \in {"backend", "release", "commit"} /\ call[r].op # "create" =>
               call[call[r].target].tenant = call[r].tenant,
           label \in {"backend", "consume", "commit"} /\ call[r].op = "create" =>
               \/ r \in Inserted
               \/ ~NameTaken(Slot(r)) /\ ~NameClaimed(Slot(r))
    PROVE  SInv'
<1>1. pc'[r] = label /\ \A o \in Requests \ {r} : pc'[o] = pc[o] /\ answer'[o] = answer[o]
  BY DEF Moves, TypeOK
<1>2. LabelsFit'
  BY <1>1 DEF SInv, LabelsFit
<1>3. TargetsKnown'
  BY <1>1 DEF SInv, TargetsKnown
<1>4. RowsCommitted'
  BY <1>1 DEF SInv, RowsCommitted
<1>5. \A slot : NameTaken(slot)' = NameTaken(slot)
  BY DEF NameTaken, Slot
<1>6. \A id : Slot(id)' = Slot(id)
  BY DEF Slot
<1>7. Inserted' \subseteq Inserted \cup {r}
  BY <1>1 DEF Inserted
<1>8. r \in Inserted' => \/ r \in Inserted
                         \/ ~NameTaken(Slot(r)) /\ ~NameClaimed(Slot(r))
  BY <1>1 DEF Inserted
<1>9. InsertsAlone'
  BY <1>5, <1>6, <1>7, <1>8 DEF SInv, InsertsAlone, NameClaimed
<1>10. NameUnique'
  BY DEF SInv, NameUnique, Slot
<1> QED
  BY <1>2, <1>3, <1>4, <1>9, <1>10 DEF SInv

(* A handler that ends without writing keeps the invariant. *)
LEMMA EndInv ==
    ASSUME TypeOK, SInv, NEW r \in Requests, NEW code, End(r, code),
           UNCHANGED <<status, call>>, pc[r] \notin {"idle", "done"}
    PROVE  SInv'
BY EndMoves, MoveInv DEF Labels

(* A create that goes on after its insert keeps its name. *)
LEMMA CreateGoesOn ==
    ASSUME TypeOK, SInv, NEW r \in Requests, NEW label \in {"consume", "commit"},
           Goto(r, label), UNCHANGED <<status, call>>, r \in Inserted
    PROVE  SInv'
<1>1. Moves(r, label)
  BY GotoMoves
<1>2. call[r].op = "create" /\ pc[r] \notin {"idle", "done"}
  BY DEF Inserted
<1> QED
  BY <1>1, <1>2, MoveInv DEF Labels

(* Any other operation that goes on within its own tenant. *)
LEMMA OtherGoesOn ==
    ASSUME TypeOK, SInv, NEW r \in Requests, NEW label \in {"backend", "release", "commit"},
           Goto(r, label), UNCHANGED <<status, call>>,
           pc[r] \in {"load", "backend", "release"}, call[r].op # "create",
           call[call[r].target].tenant = call[r].tenant
    PROVE  SInv'
<1>1. Moves(r, label)
  BY GotoMoves
<1> QED
  BY <1>1, MoveInv DEF Labels

(* Initially there are no rows and no handlers. *)
LEMMA InitInv == Init => SInv
BY DEF Init, SInv, LabelsFit, TargetsKnown, RowsCommitted, InsertsAlone, Inserted, NameUnique, Live

(* A request arrives: only its own call is new. *)
LEMMA ArriveInv ==
    ASSUME TypeOK, SInv, NEW r \in Requests, Arrive(r)
    PROVE  SInv'
<1>1. PICK c \in Calls :
        /\ Relevant(c)
        /\ c.target # Nobody => status[c.target] # "none"
        /\ call' = [call EXCEPT ![r] = c]
        /\ Goto(r, IF c.op = "create" THEN "check" ELSE "connect")
  BY DEF Arrive
<1>2. pc[r] = "idle" /\ UNCHANGED <<status, answer>>
  BY <1>1 DEF Arrive, Goto
<1>3. /\ call'[r] = c
      /\ \A o \in Requests \ {r} : call'[o] = call[o]
      /\ pc'[r] = IF c.op = "create" THEN "check" ELSE "connect"
      /\ \A o \in Requests \ {r} : pc'[o] = pc[o]
  BY <1>1 DEF Goto, TypeOK
<1>4. \A id \in Requests : status[id] # "none" => id # r
  BY <1>2 DEF SInv, RowsCommitted
<1>5. \A id \in Requests : id # r => Slot(id)' = Slot(id)
  BY <1>3 DEF Slot
<1>6. LabelsFit'
  BY <1>3 DEF SInv, LabelsFit
<1>7. TargetsKnown'
  <2>1. c.target \in Requests \cup {Nobody}
    BY DEF Calls
  <2>2. c.op # "create" => c.target \in Requests /\ status[c.target] # "none"
    BY <1>1, <2>1 DEF Relevant
  <2>3. \A o \in Requests \ {r} : pc[o] # "idle" /\ call[o].op # "create" =>
           /\ call[o].target \in Requests \ {r}
           /\ call'[call[o].target] = call[call[o].target]
    BY <1>3, <1>4 DEF SInv, TargetsKnown
  <2> QED
    BY <1>2, <1>3, <2>2, <2>3 DEF SInv, TargetsKnown
<1>8. RowsCommitted'
  BY <1>2, <1>3, <1>4 DEF SInv, RowsCommitted
<1>9. Inserted' \subseteq Inserted \ {r}
  BY <1>3 DEF Inserted
<1>10. \A slot : NameTaken(slot)' => NameTaken(slot)
  BY <1>2, <1>4, <1>5 DEF NameTaken, Live
<1>11. InsertsAlone'
  BY <1>5, <1>9, <1>10 DEF SInv, InsertsAlone, Inserted
<1>12. NameUnique'
  BY <1>2, <1>4, <1>5 DEF SInv, NameUnique, Live
<1> QED
  BY <1>6, <1>7, <1>8, <1>11, <1>12 DEF SInv

(* A commit that writes a status. *)
LEMMA WriteInv ==
    ASSUME TypeOK, SInv, NEW r \in Requests, Commit(r), call[r].op # "policy",
           ~(Reenters(r) /\ NameTaken(Slot(Id(r))))
    PROVE  SInv'
<1> DEFINE id == Id(r)
<1> DEFINE op == call[r].op
<1>1. /\ pc[r] = "commit"
      /\ Reenters(r) => ~NameClaimed(Slot(id))
      /\ status' = [status EXCEPT ![id] = NewStatus[op]]
      /\ End(r, SuccessCode[op])
      /\ UNCHANGED call
  BY Zenon DEF Commit
<1>2. /\ pc'[r] = "done" /\ answer'[r] = SuccessCode[op]
      /\ \A o \in Requests \ {r} : pc'[o] = pc[o] /\ answer'[o] = answer[o]
  BY <1>1 DEF End, TypeOK
<1>3. op \in {"create", "stop", "start", "delete"}
  BY OutcomeType
<1>4. id \in Requests
  BY <1>1, <1>3 DEF Id, SInv, TargetsKnown
<1>5. /\ status'[id] = NewStatus[op]
      /\ NewStatus[op] # "none"
      /\ \A o \in Requests \ {id} : status'[o] = status[o]
  BY <1>1, <1>4, OutcomeType DEF TypeOK
<1>6. op # "create" => status[id] # "none"
  BY <1>1 DEF Id, SInv, TargetsKnown
<1>7. op = "create" => id = r /\ r \in Inserted
  BY <1>1 DEF Id, Inserted
<1>8. \A x : Slot(x)' = Slot(x)
  BY <1>1 DEF Slot
<1>9. Inserted' = Inserted \ {r}
  BY <1>1, <1>2 DEF Inserted
<1>10. LabelsFit'
  BY <1>1, <1>2 DEF SInv, LabelsFit
<1>11. TargetsKnown'
  BY <1>1, <1>2, <1>5 DEF SInv, TargetsKnown
<1>12. RowsCommitted'
  <2>1. CASE op = "create"
    BY <1>1, <1>2, <1>5, <1>7, <2>1 DEF SInv, RowsCommitted, SuccessCode
  <2>2. CASE op # "create"
    <3>1. id # r
      BY <1>1, <1>6, <2>2 DEF SInv, RowsCommitted
    <3> QED
      BY <1>1, <1>2, <1>4, <1>5, <1>6, <2>2, <3>1 DEF SInv, RowsCommitted
  <2> QED
    BY <2>1, <2>2
<1>13. status'[id] \in Live /\ status[id] \notin Live =>
          /\ ~NameTaken(Slot(id))
          /\ \A o \in Inserted' : Slot(o) # Slot(id)
  <2> SUFFICES ASSUME status'[id] \in Live, status[id] \notin Live
               PROVE  /\ ~NameTaken(Slot(id))
                      /\ \A o \in Inserted' : Slot(o) # Slot(id)
    OBVIOUS
  <2>1. CASE op = "create"
    BY <1>7, <1>9, <2>1 DEF SInv, InsertsAlone
  <2>2. CASE op # "create"
    <3>1. op \in {"stop", "start"}
      BY <1>3, <1>5, <2>2 DEF NewStatus, Live
    <3>2. status[id] = "deleted"
      BY <1>4, <1>6, <2>2 DEF TypeOK, Statuses
    <3>3. Reenters(r)
      BY <3>1, <3>2 DEF Reenters
    <3> QED
      BY <1>1, <1>9, <3>3 DEF NameClaimed
  <2> QED
    BY <2>1, <2>2
<1>14. \A slot : NameTaken(slot)' => NameTaken(slot) \/ (slot = Slot(id) /\ status'[id] \in Live)
  BY <1>5, <1>8 DEF NameTaken
<1>15. InsertsAlone'
  <2>1. ASSUME NEW o \in Inserted' PROVE ~NameTaken(Slot(o))'
    <3>1. o \in Inserted /\ ~NameTaken(Slot(o))
      BY <1>9, <2>1 DEF SInv, InsertsAlone
    <3>2. ~(Slot(o) = Slot(id) /\ status'[id] \in Live)
      <4>1. CASE status[id] \in Live
        BY <1>4, <3>1, <4>1 DEF NameTaken
      <4>2. CASE status[id] \notin Live
        BY <1>13, <2>1, <4>2
      <4> QED
        BY <4>1, <4>2
    <3> QED
      BY <1>8, <1>14, <3>1, <3>2
  <2> QED
    BY <1>8, <1>9, <2>1 DEF SInv, InsertsAlone
<1>16. NameUnique'
  <2> SUFFICES ASSUME NEW a \in Requests, NEW b \in Requests,
                      status'[a] \in Live, status'[b] \in Live, Slot(a) = Slot(b)
               PROVE  a = b
    BY <1>8 DEF NameUnique
  <2>1. CASE status[id] \in Live \/ status'[id] \notin Live
    BY <1>5, <2>1 DEF SInv, NameUnique
  <2>2. CASE status[id] \notin Live /\ status'[id] \in Live
    BY <1>5, <1>13, <2>2 DEF SInv, NameUnique, NameTaken
  <2> QED
    BY <2>1, <2>2
<1> QED
  BY <1>10, <1>11, <1>12, <1>15, <1>16 DEF SInv

(* Every commit keeps the invariant. *)
LEMMA CommitInv ==
    ASSUME TypeOK, SInv, NEW r \in Requests, Commit(r)
    PROVE  SInv'
<1>1. CASE Reenters(r) /\ NameTaken(Slot(Id(r)))
  BY <1>1, EndInv DEF Commit
<1>2. CASE ~(Reenters(r) /\ NameTaken(Slot(Id(r)))) /\ call[r].op = "policy"
  BY <1>2, EndInv DEF Commit
<1>3. CASE ~(Reenters(r) /\ NameTaken(Slot(Id(r)))) /\ call[r].op # "policy"
  BY <1>3, WriteInv
<1> QED
  BY <1>1, <1>2, <1>3

(* Every other step keeps the invariant. *)
LEMMA NextInv == TypeOK /\ SInv /\ [Next]_vars => SInv'
<1> SUFFICES ASSUME TypeOK, SInv, [Next]_vars PROVE SInv'
  OBVIOUS
<1>1. ASSUME NEW r \in Requests, Connect(r) PROVE SInv'
  <2> DEFINE label == IF call[r].op = "create" THEN "insert" ELSE "load"
  <2>1. pc[r] = "connect" /\ Moves(r, label) /\ UNCHANGED <<status, call>>
    BY <1>1, GotoMoves DEF Connect
  <2> QED
    BY <2>1, MoveInv DEF Labels
<1>2. ASSUME NEW r \in Requests, PoolTimeout(r) PROVE SInv'
  BY <1>2, EndInv DEF PoolTimeout
<1>3. ASSUME NEW r \in Requests, CheckQuota(r) PROVE SInv'
  <2>1. pc[r] = "check" /\ UNCHANGED <<status, call>>
    BY <1>3 DEF CheckQuota
  <2>2. Goto(r, "connect") \/ End(r, 402) \/ End(r, 500)
    BY <1>3, Zenon DEF CheckQuota
  <2>3. CASE Goto(r, "connect")
    BY <2>1, <2>3, GotoMoves, MoveInv DEF Labels
  <2> QED
    BY <2>1, <2>2, <2>3, EndInv
<1>4. ASSUME NEW r \in Requests, Insert(r) PROVE SInv'
  <2>1. pc[r] = "insert" /\ UNCHANGED <<status, call>> /\ ~NameClaimed(Slot(r))
    BY <1>4 DEF Insert
  <2>2. \/ End(r, 409)
        \/ ~NameTaken(Slot(r)) /\ Goto(r, "backend")
    BY <1>4 DEF Insert
  <2>3. call[r].op = "create"
    BY <2>1 DEF SInv, LabelsFit
  <2>4. CASE ~NameTaken(Slot(r)) /\ Goto(r, "backend")
    <3>1. Moves(r, "backend")
      BY <2>4, GotoMoves
    <3> QED
      BY <2>1, <2>3, <2>4, <3>1, MoveInv DEF Labels
  <2> QED
    BY <2>1, <2>2, <2>4, EndInv
<1>5. ASSUME NEW r \in Requests, BackendCreate(r) PROVE SInv'
  <2>1. pc[r] = "backend" /\ call[r].op = "create" /\ UNCHANGED <<status, call>>
    BY <1>5, Zenon DEF BackendCreate
  <2>2. End(r, 500) \/ Goto(r, "consume")
    BY <1>5, Zenon DEF BackendCreate
  <2>3. r \in Inserted
    BY <2>1 DEF Inserted
  <2> QED
    BY <2>1, <2>2, <2>3, EndInv, CreateGoesOn
<1>6. ASSUME NEW r \in Requests, Consume(r) PROVE SInv'
  <2>1. pc[r] = "consume" /\ Goto(r, "commit") /\ UNCHANGED <<status, call>>
    BY <1>6 DEF Consume
  <2>2. r \in Inserted
    BY <2>1 DEF Inserted, SInv, LabelsFit
  <2> QED
    BY <2>1, <2>2, CreateGoesOn
<1>7. ASSUME NEW r \in Requests, Load(r) PROVE SInv'
  <2> DEFINE label == IF call[r].op = "delete" /\ status[Id(r)] # "running"
                      THEN "release" ELSE "backend"
  <2>1. pc[r] = "load" /\ UNCHANGED <<status, call>>
    BY <1>7 DEF Load
  <2>2. End(r, 404) \/ End(r, 422) \/ (Visible(r) /\ Goto(r, label))
    BY <1>7, Zenon DEF Load
  <2>3. call[r].op # "create"
    BY <2>1 DEF SInv, LabelsFit
  <2>4. Visible(r) => call[call[r].target].tenant = call[r].tenant
    BY <2>3 DEF Visible, Id
  <2> QED
    BY <2>1, <2>2, <2>3, <2>4, EndInv, OtherGoesOn
<1>8. ASSUME NEW r \in Requests, BackendPause(r) PROVE SInv'
  <2>1. /\ pc[r] = "backend" /\ call[r].op # "create"
        /\ Goto(r, "commit") /\ UNCHANGED <<status, call>>
    BY <1>8 DEF BackendPause
  <2>2. call[call[r].target].tenant = call[r].tenant
    BY <2>1 DEF SInv, TargetsKnown
  <2> QED
    BY <2>1, <2>2, OtherGoesOn
<1>9. ASSUME NEW r \in Requests, BackendDestroy(r) PROVE SInv'
  <2>1. pc[r] = "backend" /\ call[r].op # "create" /\ UNCHANGED <<status, call>>
    BY <1>9 DEF BackendDestroy
  <2>2. End(r, 500) \/ Goto(r, "release")
    BY <1>9, Zenon DEF BackendDestroy
  <2>3. call[call[r].target].tenant = call[r].tenant
    BY <2>1 DEF SInv, TargetsKnown
  <2> QED
    BY <2>1, <2>2, <2>3, EndInv, OtherGoesOn
<1>10. ASSUME NEW r \in Requests, Release(r) PROVE SInv'
  <2>1. pc[r] = "release" /\ Goto(r, "commit") /\ UNCHANGED <<status, call>>
    BY <1>10 DEF Release
  <2>2. call[r].op # "create"
    BY <2>1 DEF SInv, LabelsFit
  <2>3. call[call[r].target].tenant = call[r].tenant
    BY <2>1, <2>2 DEF SInv, TargetsKnown
  <2> QED
    BY <2>1, <2>2, <2>3, OtherGoesOn
<1>11. ASSUME NEW r \in Requests, BackendPolicy(r) PROVE SInv'
  <2>1. pc[r] = "backend" /\ call[r].op # "create" /\ UNCHANGED <<status, call>>
    BY <1>11 DEF BackendPolicy
  <2>2. End(r, 500) \/ Goto(r, "commit")
    BY <1>11 DEF BackendPolicy
  <2>3. call[call[r].target].tenant = call[r].tenant
    BY <2>1 DEF SInv, TargetsKnown
  <2> QED
    BY <2>1, <2>2, <2>3, EndInv, OtherGoesOn
<1>12. ASSUME NEW r \in Requests, CommitFails(r) PROVE SInv'
  BY <1>12, EndInv DEF CommitFails
<1>13. ASSUME NEW r \in Requests, ServeLate(r) PROVE SInv'
  BY <1>13 DEF ServeLate, SInv, LabelsFit, TargetsKnown, RowsCommitted, InsertsAlone, Inserted,
              NameTaken, NameUnique, Slot
<1>14. ASSUME Crash PROVE SInv'
  <2>1. /\ UNCHANGED <<status, call>>
        /\ \A r \in Requests : pc'[r] = pc[r] \/ (pc'[r] = "done" /\ pc[r] # "idle")
        /\ \A r \in Requests : pc'[r] # pc[r] => pc[r] # "done"
        /\ \A r \in Requests : pc[r] # "commit" => answer'[r] = answer[r]
    BY <1>14 DEF Crash, InFlight
  <2>2. Inserted' = {}
    BY <1>14 DEF Crash, Inserted, InFlight
  <2>3. InsertsAlone'
    BY <2>2 DEF InsertsAlone
  <2> QED
    BY <2>1, <2>3 DEF SInv, LabelsFit, TargetsKnown, RowsCommitted, NameUnique, Slot
<1>16. ASSUME NEW r \in Requests, CommandActs(r) PROVE SInv'
  BY <1>16 DEF CommandActs, SInv, LabelsFit, TargetsKnown, RowsCommitted, InsertsAlone, Inserted,
              NameTaken, NameUnique, Slot
<1>15. CASE Finished \/ UNCHANGED vars
  BY <1>15 DEF Finished, vars, SInv, LabelsFit, TargetsKnown, RowsCommitted, InsertsAlone, Inserted,
              NameTaken, NameUnique, Slot
<1> QED
  BY <1>1, <1>2, <1>3, <1>4, <1>5, <1>6, <1>7, <1>8, <1>9, <1>10, <1>11, <1>12, <1>13,
     <1>14, <1>15, <1>16, ArriveInv, CommitInv, Zenon DEF Next, Step

(* The inductive invariant holds always. *)
THEOREM Invariance == Spec => [](TypeOK /\ SInv)
<1>1. Init => TypeOK /\ SInv
  BY InitType, InitInv
<1>2. TypeOK /\ SInv /\ [Next]_vars => (TypeOK /\ SInv)'
  BY NextType, NextInv
<1> QED
  BY <1>1, <1>2, PTL DEF Spec

(* No two live sandboxes of a tenant have the same name, whatever races    *)
(* and whatever fails.                                                     *)
THEOREM NamesStayUnique == Spec => []NameUnique
<1>1. SInv => NameUnique
  BY DEF SInv
<1> QED
  BY <1>1, Invariance, PTL

(* A create that was answered with an error or died unanswered leaves no   *)
(* row.                                                                    *)
THEOREM FailuresLeaveNoRow == Spec => []FailedCreateLeavesNoRow
<1>1. SInv => FailedCreateLeavesNoRow
  BY DEF SInv, RowsCommitted, FailedCreateLeavesNoRow, Success
<1> QED
  BY <1>1, Invariance, PTL

(* Rows change only for requests of their tenant that end in success. *)
THEOREM RowsChangeForOwner == Spec => OwnRowsOnly
<1> DEFINE A == \A id \in Requests : status'[id] # status[id] =>
                  \E r \in Requests :
                      /\ pc[r] = "commit"
                      /\ Id(r) = id
                      /\ call[r].tenant = call[id].tenant
                      /\ answer'[r] \in Success
<1>1. ASSUME TypeOK, SInv, [Next]_vars PROVE A \/ UNCHANGED vars
  <2>1. ASSUME NEW r \in Requests, Commit(r) PROVE A
    <3>1. CASE UNCHANGED status
      BY <3>1
    <3>2. CASE status' # status
      <4>1. /\ pc[r] = "commit"
            /\ status' = [status EXCEPT ![Id(r)] = NewStatus[call[r].op]]
            /\ End(r, SuccessCode[call[r].op])
        BY <2>1, <3>2, Zenon DEF Commit
      <4>2. answer'[r] \in Success
        BY <1>1, <4>1, OutcomeType DEF End, TypeOK
      <4>3. call[r].tenant = call[Id(r)].tenant
        BY <1>1, <4>1 DEF Id, SInv, TargetsKnown
      <4>4. \A id \in Requests : status'[id] # status[id] => id = Id(r)
        BY <1>1, <4>1 DEF TypeOK
      <4> QED
        BY <4>1, <4>2, <4>3, <4>4
    <3> QED
      BY <3>1, <3>2
  <2>2. CASE Next
    <3>1. UNCHANGED status \/ \E r \in Requests : Commit(r)
      <4>1. ASSUME NEW r \in Requests, Arrive(r) \/ CommitFails(r) \/ ServeLate(r) \/ CommandActs(r)
            PROVE  UNCHANGED status
        BY <4>1, Zenon DEF Arrive, CommitFails, ServeLate, CommandActs
      <4>2. ASSUME NEW r \in Requests, Step(r), ~Commit(r) PROVE UNCHANGED status
        <5>1. CASE Connect(r) \/ PoolTimeout(r) \/ CheckQuota(r) \/ Insert(r) \/ Load(r)
          BY <5>1, Zenon DEF Connect, PoolTimeout, CheckQuota, Insert, Load
        <5>2. CASE BackendCreate(r) \/ BackendPause(r) \/ BackendDestroy(r) \/ BackendPolicy(r)
          BY <5>2, Zenon DEF BackendCreate, BackendPause, BackendDestroy, BackendPolicy
        <5>3. CASE Consume(r) \/ Release(r)
          BY <5>3, Zenon DEF Consume, Release
        <5> QED
          BY <4>2, <5>1, <5>2, <5>3 DEF Step
      <4>3. Crash \/ Finished => UNCHANGED status
        BY Zenon DEF Crash, Finished, vars
      <4> QED
        BY <2>2, <4>1, <4>2, <4>3 DEF Next
    <3> QED
      BY <2>1, <3>1
  <2> QED
    BY <1>1, <2>2
<1> QED
  BY <1>1, Invariance, PTL DEF Spec, OwnRowsOnly

-----------------------------------------------------------------------------
(* The backend's sandboxes *)

(* A pod belongs to a create that came in, and is kept under its key.      *)
Owns(o, k) == o \in Requests /\ pc[o] # "idle" /\ call[o].op = "create" /\ Key(o) = k

PodsOwned == \A k \in Keys : pods[k].owner # Nobody => Owns(pods[k].owner, k)

(* What has come in stays in, and asks for what it asked for. *)
Forward == \A o \in Requests : pc[o] # "idle" => pc'[o] # "idle" /\ call'[o] = call[o]

(* A command that outlives the service is of a request that had come in,   *)
(* and is about a sandbox of its own tenant.                               *)
StraysKnown ==
    \A r \in stray :
        /\ pc[r] # "idle"
        /\ call[r].op # "create" => call[call[r].target].tenant = call[r].tenant

(* The backend's call of a request, or its command on its own.             *)
Acts(r) == (pc[r] = "backend" /\ pc'[r] # "backend") \/ r \in stray \ stray'

(* It changes at most the pod of its key.                                  *)
TouchesPod(r) ==
    /\ Acts(r)
    /\ \E p \in Pods : /\ p.owner \in {Nobody, Id(r)}
                       /\ pods' = [pods EXCEPT ![Key(Id(r))] = p]

(* The backend lets two tenants' sandboxes never have one name.            *)
TenantsSeparate ==
    \A s, t \in Slots : MakeName[s] = MakeName[t] => s[1] = t[1]

(* A step of a handler in flight ends it or moves it on, and leaves every  *)
(* call as it is.                                                          *)
LEMMA StepShape ==
    ASSUME NEW r \in Requests, Step(r)
    PROVE  /\ r \in InFlight
           /\ UNCHANGED call
           /\ \/ \E code : End(r, code)
              \/ \E label \in {"connect", "insert", "load", "backend", "consume",
                                "release", "commit"} : Goto(r, label)
<1>1. UNCHANGED call
  BY Zenon DEF Step, Connect, PoolTimeout, CheckQuota, Insert, BackendCreate, Consume,
       Load, BackendPause, BackendDestroy, Release, BackendPolicy, Commit
<1>2. \/ \E code : End(r, code)
      \/ \E label \in {"connect", "insert", "load", "backend", "consume", "release",
                       "commit"} : Goto(r, label)
  <2>1. CASE Connect(r)
    BY <2>1 DEF Connect
  <2>2. CASE PoolTimeout(r) \/ Consume(r) \/ Release(r)
    <3>1. End(r, 500) \/ Goto(r, "commit")
      BY <2>2, Zenon DEF PoolTimeout, Consume, Release
    <3> QED
      BY <3>1
  <2>3. CASE CheckQuota(r) \/ Insert(r) \/ BackendCreate(r)
    <3>1. CASE CheckQuota(r)
      <4>1. End(r, 402) \/ End(r, 500) \/ Goto(r, "connect")
        BY <3>1, Zenon DEF CheckQuota
      <4> QED
        BY <4>1
    <3>2. CASE Insert(r)
      BY <3>2 DEF Insert
    <3>3. CASE BackendCreate(r)
      <4>1. End(r, 500) \/ Goto(r, "consume")
        BY <3>3, Zenon DEF BackendCreate
      <4> QED
        BY <4>1
    <3> QED
      BY <2>3, <3>1, <3>2, <3>3
  <2>4. CASE Load(r)
    BY <2>4 DEF Load
  <2>5. CASE BackendPause(r) \/ BackendDestroy(r) \/ Commit(r)
    BY <2>5, Zenon DEF BackendPause, BackendDestroy, Commit
  <2>6. CASE BackendPolicy(r)
    BY <2>6 DEF BackendPolicy
  <2> QED
    BY <2>1, <2>2, <2>3, <2>4, <2>5, <2>6, Zenon DEF Step
<1>3. pc[r] \notin {"idle", "done"}
  BY Zenon DEF Step, Connect, PoolTimeout, CheckQuota, Insert, BackendCreate, Consume,
       Load, BackendPause, BackendDestroy, Release, BackendPolicy, Commit
<1> QED
  BY <1>1, <1>2, <1>3 DEF InFlight

(* No step takes a request back. *)
LEMMA NextForward == TypeOK /\ [Next]_vars => Forward
<1> SUFFICES ASSUME TypeOK, [Next]_vars PROVE Forward
  OBVIOUS
<1>1. ASSUME NEW r \in Requests, NEW label \in Labels \ {"idle"},
             Moves(r, label), UNCHANGED call
      PROVE  Forward
  BY <1>1 DEF Moves, Forward, TypeOK
<1>2. ASSUME NEW r \in Requests, NEW code, End(r, code), UNCHANGED call PROVE Forward
  BY <1>1, <1>2, EndMoves DEF Labels
<1>3. ASSUME NEW r \in Requests, NEW label \in Labels \ {"idle"},
             Goto(r, label), UNCHANGED call
      PROVE  Forward
  BY <1>1, <1>3, GotoMoves
<1>4. ASSUME NEW r \in Requests, Arrive(r) PROVE Forward
  BY <1>4 DEF Arrive, Goto, Forward, TypeOK
<1>5. ASSUME NEW r \in Requests, Step(r) PROVE Forward
  BY <1>2, <1>3, <1>5, StepShape DEF Labels
<1>6. ASSUME NEW r \in Requests, CommitFails(r) PROVE Forward
  BY <1>2, <1>6 DEF CommitFails
<1>7. ASSUME NEW r \in Requests, ServeLate(r) \/ CommandActs(r) PROVE Forward
  BY <1>7 DEF ServeLate, CommandActs, Forward
<1>8. ASSUME Crash PROVE Forward
  BY <1>8 DEF Crash, Forward
<1>9. CASE Finished \/ UNCHANGED vars
  BY <1>9 DEF Finished, vars, Forward
<1> QED
  BY <1>4, <1>5, <1>6, <1>7, <1>8, <1>9 DEF Next

(* What the backend makes or takes for a request is the pod of its key.    *)
LEMMA PodMoves ==
    ASSUME TypeOK, NEW r \in Requests, (MakePod(r) /\ Id(r) = r) \/ TakePod(r)
    PROVE  \E p \in Pods : /\ p.owner \in {Nobody, Id(r)}
                          /\ pods' = [pods EXCEPT ![Key(Id(r))] = p]
<1> DEFINE new == [owner |-> r, phase |-> "running"]
<1>1. new \in Pods /\ new.owner = r /\ NoPod \in Pods /\ NoPod.owner = Nobody
  BY DEF Pods, NoPod
<1>2. \/ pods' = [pods EXCEPT ![Key(Id(r))] = new] /\ Id(r) = r
      \/ pods' = [pods EXCEPT ![Key(Id(r))] = NoPod]
  BY DEF MakePod, TakePod
<1> HIDE DEF new
<1> QED
  BY <1>1, <1>2

(* Pods change by the backend's calls and by commands that outlived their  *)
(* callers, and all at once when the mock's process dies.                  *)
LEMMA NextPods ==
    ASSUME TypeOK, SInv, [Next]_vars
    PROVE  \/ UNCHANGED pods
           \/ Adapter = "mock" /\ pods' = [k \in Keys |-> NoPod]
           \/ \E r \in Requests : TouchesPod(r)
<1> DEFINE Goal == \/ UNCHANGED pods
                   \/ Adapter = "mock" /\ pods' = [k \in Keys |-> NoPod]
                   \/ \E r \in Requests : TouchesPod(r)
<1>1. ASSUME NEW r \in Requests, pc[r] = "backend",
             \/ \E code : End(r, code)
             \/ \E label \in Labels \ {"backend"} : Goto(r, label)
      PROVE  Acts(r)
  BY <1>1 DEF Acts, End, Goto, TypeOK
<1>3. ASSUME NEW r \in Requests, BackendCreate(r) PROVE Goal
  <2>1. /\ pc[r] = "backend" /\ Id(r) = r
        /\ End(r, 500) \/ Goto(r, "consume")
        /\ UNCHANGED pods \/ MakePod(r)
    BY <1>3, Zenon DEF BackendCreate, Id
  <2>2. Acts(r)
    BY <1>1, <2>1 DEF Labels
  <2> QED
    BY <2>1, <2>2, PodMoves DEF TouchesPod
<1>4. ASSUME NEW r \in Requests, BackendPause(r) PROVE Goal
  <2> DEFINE p == [owner |-> Id(r),
                   phase |-> IF call[r].op = "stop" THEN "stopped" ELSE "running"]
  <2>1. /\ pc[r] = "backend" /\ Goto(r, "commit")
        /\ UNCHANGED pods \/ pods' = [pods EXCEPT ![Key(Id(r))] = p]
    BY <1>4 DEF BackendPause
  <2>2. Id(r) \in Requests
    BY <1>4 DEF BackendPause, Id, SInv, TargetsKnown
  <2>3. p \in Pods /\ p.owner = Id(r)
    BY <2>2 DEF Pods
  <2>4. Acts(r)
    BY <1>1, <2>1 DEF Labels
  <2> HIDE DEF p
  <2> QED
    BY <2>1, <2>3, <2>4 DEF TouchesPod
<1>5. ASSUME NEW r \in Requests, BackendDestroy(r) PROVE Goal
  <2>1. /\ pc[r] = "backend"
        /\ End(r, 500) \/ Goto(r, "release")
        /\ UNCHANGED pods \/ TakePod(r)
    BY <1>5, Zenon DEF BackendDestroy
  <2>2. Acts(r)
    BY <1>1, <2>1 DEF Labels
  <2> QED
    BY <2>1, <2>2, PodMoves DEF TouchesPod
<1>6. ASSUME NEW r \in Requests,
             Step(r), ~BackendCreate(r), ~BackendPause(r), ~BackendDestroy(r)
      PROVE  UNCHANGED pods
  BY <1>6, Zenon DEF Step, Connect, PoolTimeout, CheckQuota, Insert, Consume, Load, Release,
       BackendPolicy, Commit
<1>7. ASSUME NEW r \in Requests, Arrive(r) \/ CommitFails(r) \/ ServeLate(r)
      PROVE  UNCHANGED pods
  BY <1>7, Zenon DEF Arrive, CommitFails, ServeLate
<1>8. Crash \/ Finished \/ UNCHANGED vars => Goal
  BY DEF Crash, Finished, vars
<1>9. ASSUME NEW r \in Requests, CommandActs(r) PROVE Goal
  <2>1. /\ r \in stray \ stray'
        /\ (MakePod(r) /\ Id(r) = r) \/ TakePod(r)
    BY <1>9 DEF CommandActs, Id
  <2> QED
    BY <2>1, PodMoves DEF TouchesPod, Acts
<1> QED
  BY <1>3, <1>4, <1>5, <1>6, <1>7, <1>8, <1>9 DEF Next

(* Commands outlive the service only when it dies. *)
LEMMA StraysGrow ==
    ASSUME [Next]_vars
    PROVE  stray' \subseteq stray \cup Commands
<1>1. ASSUME NEW r \in Requests, Step(r) PROVE UNCHANGED stray
  BY <1>1, Zenon DEF Step, Connect, PoolTimeout, CheckQuota, Insert, BackendCreate, Consume,
       Load, BackendPause, BackendDestroy, Release, BackendPolicy, Commit
<1>2. ASSUME NEW r \in Requests, Arrive(r) \/ CommitFails(r) \/ ServeLate(r)
      PROVE  UNCHANGED stray
  BY <1>2, Zenon DEF Arrive, CommitFails, ServeLate
<1>3. Finished \/ UNCHANGED vars => UNCHANGED stray
  BY DEF Finished, vars
<1> QED
  BY <1>1, <1>2, <1>3 DEF Next, Crash, CommandActs

(* What outlives the service stays known. *)
LEMMA NextStrays == TypeOK /\ SInv /\ StraysKnown /\ [Next]_vars => StraysKnown'
<1> SUFFICES ASSUME TypeOK, SInv, StraysKnown, [Next]_vars, NEW r \in stray'
             PROVE  /\ pc'[r] # "idle"
                    /\ call'[r].op # "create" =>
                          call'[call'[r].target].tenant = call'[r].tenant
  BY DEF StraysKnown
<1>1. r \in stray \/ (r \in Requests /\ pc[r] = "backend")
  BY StraysGrow DEF Commands
<1>2. r \in Requests /\ pc[r] # "idle"
  BY <1>1 DEF TypeOK, StraysKnown
<1>3. call[r].op # "create" =>
          /\ call[r].target \in Requests /\ pc[call[r].target] # "idle"
          /\ call[call[r].target].tenant = call[r].tenant
  BY <1>1, <1>2 DEF SInv, TargetsKnown, RowsCommitted, StraysKnown
<1> QED
  BY <1>2, <1>3, NextForward DEF Forward

(* Pods stay with their creates. *)
LEMMA NextOwned ==
    TypeOK /\ SInv /\ StraysKnown /\ PodsOwned /\ [Next]_vars => PodsOwned'
<1> SUFFICES ASSUME TypeOK, SInv, StraysKnown, PodsOwned, [Next]_vars PROVE PodsOwned'
  OBVIOUS
<1>1. Forward
  BY NextForward
<1>2. ASSUME NEW o, NEW k, Owns(o, k) PROVE Owns(o, k)'
  BY <1>1, <1>2 DEF Forward, Owns, Key, Slot
<1>3. CASE UNCHANGED pods
  BY <1>2, <1>3 DEF PodsOwned
<1>4. CASE pods' = [k \in Keys |-> NoPod]
  BY <1>4 DEF PodsOwned, NoPod
<1>5. ASSUME NEW r \in Requests, TouchesPod(r) PROVE PodsOwned'
  <2>1. PICK p \in Pods : /\ p.owner \in {Nobody, Id(r)}
                          /\ pods' = [pods EXCEPT ![Key(Id(r))] = p]
    BY <1>5 DEF TouchesPod
  <2>2. pc[r] # "idle"
    BY <1>5 DEF TouchesPod, Acts, StraysKnown
  <2>3. Id(r) \in Requests /\ pc[Id(r)] # "idle" /\ call[Id(r)].op = "create"
    BY <2>2 DEF Id, SInv, TargetsKnown, RowsCommitted
  <2>4. \A k \in Keys : pods'[k] = IF k = Key(Id(r)) THEN p ELSE pods[k]
    BY <2>1 DEF TypeOK
  <2>5. ASSUME NEW k \in Keys, pods'[k].owner # Nobody
        PROVE  Owns(pods'[k].owner, k)
    <3>1. CASE k = Key(Id(r))
      <4>1. pods'[k].owner = Id(r)
        BY <2>1, <2>4, <2>5, <3>1
      <4> QED
        BY <2>3, <3>1, <4>1 DEF Owns
    <3>2. CASE k # Key(Id(r))
      <4>1. pods'[k] = pods[k]
        BY <2>4, <3>2
      <4> QED
        BY <2>5, <4>1 DEF PodsOwned
    <3> QED
      BY <3>1, <3>2
  <2> QED
    BY <1>2, <2>5 DEF PodsOwned
<1> QED
  BY <1>3, <1>4, <1>5, NextPods

(* The owners of the pods and the commands that outlive the service are    *)
(* what they seem, in every reachable state.                               *)
LEMMA PodsAreOwned == Spec => [](PodsOwned /\ StraysKnown)
<1>1. Init => PodsOwned /\ StraysKnown
  BY DEF Init, PodsOwned, StraysKnown, NoPod
<1> QED
  BY <1>1, Invariance, NextOwned, NextStrays, PTL DEF Spec

(* No tenant's request touches another tenant's pod, nor does a command    *)
(* that has outlived one, with any faults and in any interleaving, on a    *)
(* backend whose names tell tenants apart; with the names of _make_name    *)
(* this is so for tenant ids that differ in their first characters         *)
(* (BackendNamesProofs).                                                   *)
THEOREM PodsChangeForOwner ==
    ASSUME TenantsSeparate
    PROVE  Spec => OwnPodsOnly
<1> DEFINE A == \A k \in Keys : pods'[k] # pods[k] /\ pods[k].owner # Nobody =>
                  \/ \E r \in Requests :
                         /\ \/ pc[r] = "backend" /\ pc'[r] # "backend"
                            \/ r \in stray \ stray'
                         /\ Key(Id(r)) = k
                         /\ call[r].tenant = call[pods[k].owner].tenant
                  \/ Adapter = "mock" /\ pods' = [key \in Keys |-> NoPod]
<1>2. ASSUME TypeOK, SInv, StraysKnown, PodsOwned, [Next]_vars PROVE A
  <2>1. ASSUME NEW r \in Requests, TouchesPod(r), NEW k \in Keys,
               pods'[k] # pods[k], pods[k].owner # Nobody
        PROVE  Key(Id(r)) = k /\ call[r].tenant = call[pods[k].owner].tenant
    <3> DEFINE o == pods[k].owner
    <3>1. k = Key(Id(r)) /\ (pc[r] = "backend" \/ r \in stray)
      BY <1>2, <2>1 DEF TouchesPod, Acts, TypeOK
    <3>2. o \in Requests /\ Key(o) = k
      BY <1>2, <2>1 DEF PodsOwned, Owns
    <3>3. Id(r) \in Requests /\ call[Id(r)].tenant = call[r].tenant
      <4>1. pc[r] # "idle"
        BY <1>2, <3>1 DEF StraysKnown
      <4>2. call[r].op # "create" => /\ call[r].target \in Requests
                                     /\ call[call[r].target].tenant = call[r].tenant
        BY <1>2, <3>1, <4>1 DEF SInv, TargetsKnown, StraysKnown
      <4> QED
        BY <4>2 DEF Id
    <3>4. CASE Adapter = "mock"
      BY <3>1, <3>2, <3>3, <3>4 DEF Key
    <3>5. CASE Adapter # "mock"
      <4>1. MakeName[Slot(o)] = MakeName[Slot(Id(r))]
        BY <3>1, <3>2, <3>5 DEF Key
      <4>2. Slot(o) \in Slots /\ Slot(Id(r)) \in Slots
        BY <1>2, <3>2, <3>3 DEF TypeOK, Calls, Slot, Slots
      <4>3. Slot(o)[1] = Slot(Id(r))[1]
        BY <4>1, <4>2, TenantsSeparate DEF TenantsSeparate
      <4> QED
        BY <3>1, <3>3, <4>3 DEF Slot
    <3> QED
      BY <3>4, <3>5
  <2>2. ASSUME NEW r \in Requests, TouchesPod(r) PROVE A
    <3>1. \/ pc[r] = "backend" /\ pc'[r] # "backend"
          \/ r \in stray \ stray'
      BY <2>2 DEF TouchesPod, Acts
    <3> QED
      BY <2>1, <2>2, <3>1
  <2> QED
    BY <1>2, <2>2, NextPods
<1> QED
  BY <1>2, PodsAreOwned, Invariance, PTL DEF Spec, OwnPodsOnly

=============================================================================
