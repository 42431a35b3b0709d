------------------------ MODULE SandboxSerialProofs -------------------------
(***************************************************************************)
(* Proofs about SandboxService when requests come one at a time and only   *)
(* the backend fails: a row that shows as running has its pod, and the     *)
(* service implements SandboxRegistry.  The argument rests on SerialInv of *)
(* SandboxCountProofs: what a request has read is still so at its commit.  *)
(***************************************************************************)
EXTENDS SandboxCountProofs, FunctionTheorems

USE DEF backend

(* The backend's sandbox of a row, or the delete that took it and is to    *)
(* blame: a failed one of the sandbox itself, or one of a namesake in the  *)
(* backend that had lost its own before.                                   *)
Own(id) == pods[Key(id)] = [owner |-> id, phase |-> "running"]

Excused(id) ==
    \E r \in Requests :
        /\ taken[id] = r
        /\ \/ Id(r) = id /\ answer[r] = 500
           \/ Slot(Id(r)) # Slot(id) /\ taken[Id(r)] # Nobody

(* Only deletes take pods, of creates that have ended; and none takes the  *)
(* pod of a sandbox twice, as none makes it twice (the mock does).         *)
TakenInv ==
    \A id \in Requests : taken[id] # Nobody =>
        /\ pc[id] = "done"
        /\ taken[id] \in Requests
        /\ call[taken[id]].op = "delete"
        /\ pc[taken[id]] \in {"release", "commit", "done"}
        /\ Adapter # "mock" => pods[Key(id)].owner # id

(* A request that is about to write what it has done to the pod. *)
Leaving(r, id) ==
    /\ Id(r) = id
    /\ \/ call[r].op = "delete" /\ pc[r] \in {"release", "commit"}
       \/ call[r].op = "stop" /\ pc[r] = "commit" /\ Adapter = "mock"

(* Rows whose pod should be running: only the mock stops pods. *)
Running(id) == status[id] = "running" \/ (status[id] = "stopped" /\ Adapter # "mock")

PodsHeld ==
    \A id \in Requests :
        Running(id) => Own(id) \/ Excused(id) \/ \E r \in Requests : Leaving(r, id)

(* What a request that is alone knows of its pod. *)
Holds(r) ==
    /\ call[r].op = "create" /\ pc[r] \in {"consume", "commit"} => Own(r)
    /\ call[r].op = "start" /\ pc[r] = "commit" => Own(Id(r)) \/ Excused(Id(r))
    /\ call[r].op = "delete" /\ pc[r] = "backend" => status[Id(r)] = "running"

PodInv ==
    /\ \A r \in Requests : pc[r] # "done" => answer[r] = 0
    /\ PodsHeld
    /\ \A r \in Requests : Holds(r)

-----------------------------------------------------------------------------
(* Pods *)

(* What a handler's step does to the pods and their history. *)
LEMMA StepTakes ==
    ASSUME NEW r \in Requests, Step(r)
    PROVE  \/ UNCHANGED <<pods, taken>>
           \/ pc[r] = "backend" /\ call[r].op = "create" /\ MakePod(r)
           \/ Adapter = "mock" /\ UNCHANGED taken
           \/ pc[r] = "backend" /\ call[r].op = "delete" /\ TakePod(r)
<1>1. CASE \/ Connect(r) \/ PoolTimeout(r) \/ CheckQuota(r) \/ Insert(r) \/ Consume(r)
           \/ Load(r) \/ Release(r) \/ BackendPolicy(r) \/ Commit(r)
  BY <1>1, Zenon DEF Connect, PoolTimeout, CheckQuota, Insert, Consume, Load, Release,
       BackendPolicy, Commit
<1>2. CASE BackendCreate(r)
  BY <1>2, Zenon DEF BackendCreate
<1>3. CASE BackendPause(r)
  BY <1>3 DEF BackendPause
<1>4. CASE BackendDestroy(r)
  BY <1>4, Zenon DEF BackendDestroy
<1> QED
  BY <1>1, <1>2, <1>3, <1>4, Zenon DEF Step

(* What a step of the only request leaves alone. *)
LEMMA StepLeaves ==
    ASSUME TypeOK, SInv, SerialInv, TakenInv, PodInv, NEW r \in Requests, Step(r)
    PROVE  /\ UNCHANGED call
           /\ answer[r] = 0
           /\ pc'[r] # "done" => answer'[r] = 0
           /\ \A q \in Requests \ {r} : pc[q] \in {"idle", "done"} /\ pc'[q] = pc[q]
           /\ \A q \in Requests \ {r} : answer'[q] = answer[q]
           /\ \A id \in Requests :
                 taken'[id] = taken[id] /\ Excused(id) => Excused(id)'
<1>1. UNCHANGED call /\ r \in InFlight
  BY StepShape
<1>2. answer[r] = 0 /\ \A q \in Requests \ {r} : answer'[q] = answer[q]
  BY <1>1, StepMoves DEF PodInv, InFlight, Moves
<1>3. pc'[r] # "done" => answer'[r] = 0
  <2>1. CASE \E code : End(r, code)
    BY <2>1 DEF End, TypeOK
  <2>2. CASE \E label \in {"connect", "insert", "load", "backend", "consume", "release",
                           "commit"} : Goto(r, label)
    BY <1>2, <2>2 DEF Goto
  <2> QED
    BY <2>1, <2>2, StepShape
<1>4. ASSUME NEW id \in Requests, taken[id] # Nobody PROVE taken'[id] # Nobody
  BY <1>4, StepTakes, SandboxAssumption DEF MakePod, TakePod
<1>5. ASSUME NEW id \in Requests, taken'[id] = taken[id], Excused(id)
      PROVE  Excused(id)'
  <2>1. PICK q \in Requests :
          /\ taken[id] = q
          /\ \/ Id(q) = id /\ answer[q] = 500
             \/ Slot(Id(q)) # Slot(id) /\ taken[Id(q)] # Nobody
    BY <1>5 DEF Excused
  <2>2. call[q].op = "delete" /\ pc[q] \in {"release", "commit", "done"}
    BY <2>1, SandboxAssumption DEF TakenInv
  <2>3. /\ Id(q) \in Requests /\ Id(q)' = Id(q)
        /\ Slot(id)' = Slot(id) /\ Slot(Id(q))' = Slot(Id(q))
    BY <1>1, <2>2 DEF Id, Slot, SInv, TargetsKnown
  <2>4. CASE Id(q) = id /\ answer[q] = 500
    <3>1. answer'[q] = 500
      BY <1>2, <2>4
    <3> QED
      BY <1>5, <2>1, <2>3, <2>4, <3>1 DEF Excused
  <2>5. CASE Slot(Id(q)) # Slot(id) /\ taken[Id(q)] # Nobody
    <3>1. taken'[Id(q)] # Nobody
      BY <1>4, <2>3, <2>5
    <3> QED
      BY <1>5, <2>1, <2>3, <2>5, <3>1 DEF Excused
  <2> QED
    BY <2>1, <2>4, <2>5
<1> QED
  BY <1>1, <1>2, <1>3, <1>5, StepsAlone

(* It is enough to look at the row and the pod of the request itself.      *)
LEMMA PodFrame ==
    ASSUME TypeOK, SInv, SerialInv, TakenInv, PodInv, NEW r \in Requests, Step(r),
           Holds(r)',
           \A id \in Requests : Running(id)' =>
              Own(id)' \/ Excused(id)' \/ Leaving(r, id)'
    PROVE  PodInv'
<1>1. \A q \in Requests : pc'[q] # "done" => answer'[q] = 0
  BY StepLeaves DEF PodInv
<1>2. PodsHeld'
  BY DEF PodsHeld
<1>3. ASSUME NEW q \in Requests PROVE Holds(q)'
  <2>1. CASE q # r
    BY <2>1, StepLeaves DEF Holds
  <2> QED
    BY <2>1
<1> QED
  BY <1>1, <1>2, <1>3 DEF PodInv

(* A step that changes neither rows nor pods. *)
LEMMA PodsRest ==
    ASSUME TypeOK, SInv, SerialInv, TakenInv, PodInv, NEW r \in Requests, Step(r),
           UNCHANGED <<status, pods, taken>>, Holds(r)',
           \A id \in Requests : Leaving(r, id) => Leaving(r, id)' \/ ~Running(id)
    PROVE  PodInv'
<1>1. ASSUME NEW id \in Requests, Running(id)'
      PROVE  Own(id)' \/ Excused(id)' \/ Leaving(r, id)'
  <2>1. Running(id)
    BY <1>1 DEF Running
  <2>2. CASE Own(id)
    BY <2>2, StepLeaves DEF Own, Key, Slot
  <2>3. CASE Excused(id)
    BY <2>3, StepLeaves
  <2>4. CASE \E q \in Requests : Leaving(q, id)
    <3>1. PICK q \in Requests : Leaving(q, id)
      BY <2>4
    <3>2. q = r
      BY <3>1, StepLeaves DEF Leaving
    <3> QED
      BY <2>1, <3>1, <3>2
  <2> QED
    BY <2>1, <2>2, <2>3, <2>4 DEF PodInv, PodsHeld
<1> QED
  BY <1>1, PodFrame

(* A new sandbox takes a key that no row with a pod of its own has.        *)
LEMMA CreateTakesFree ==
    ASSUME TypeOK, SInv, NEW r \in Requests, pc[r] = "backend",
           Adapter = "mock" \/ pods[Key(r)] = NoPod,
           NEW id \in Requests, status[id] # "none", Own(id)
    PROVE  Key(id) # Key(r)
<1>1. id # r
  BY DEF SInv, RowsCommitted
<1>2. CASE Adapter = "mock"
  BY <1>1, <1>2 DEF Key
<1>3. CASE pods[Key(r)] = NoPod
  BY <1>3, SandboxAssumption DEF Own, NoPod
<1> QED
  BY <1>2, <1>3

(* Every step keeps PodInv. *)
LEMMA StepPods ==
    ASSUME TypeOK, SInv, PodsOwned, CountInv, SerialInv, TakenInv, PodInv, NEW r \in Requests, Step(r)
    PROVE  PodInv'
<1>0. /\ UNCHANGED call /\ Fresh(r) /\ Holds(r)
      /\ \A id : Key(id)' = Key(id) /\ Id(r)' = Id(r)
      /\ call[r].op \in {"create", "stop", "start", "delete", "policy"}
  BY StepShape, OutcomeType DEF SerialInv, PodInv, Key, Slot, Id
<1>1. \A id \in Requests : Running(id) =>
         Own(id) \/ Excused(id) \/ Leaving(r, id)
  BY StepLeaves DEF PodInv, PodsHeld, Leaving
<1>2. \A id \in Requests : taken'[id] = taken[id] /\ Excused(id) => Excused(id)'
  BY StepLeaves
<1>3. \A id \in Requests : pods'[Key(id)] = pods[Key(id)] /\ Own(id) => Own(id)'
  BY <1>0 DEF Own
<1>4. ASSUME Connect(r) \/ PoolTimeout(r) \/ CheckQuota(r) \/ Insert(r) PROVE PodInv'
  <2>1. /\ UNCHANGED <<status, pods, taken>> /\ pc[r] \notin {"release", "commit"}
        /\ \/ pc'[r] \in {"connect", "insert", "load", "done"}
           \/ pc'[r] = "backend" /\ call[r].op = "create"
    <3>1. CASE Connect(r) \/ PoolTimeout(r)
      BY <3>1 DEF Connect, PoolTimeout, Goto, End, TypeOK
    <3>2. CASE CheckQuota(r)
      BY <3>2 DEF CheckQuota, Goto, End, TypeOK
    <3>3. CASE Insert(r)
      BY <3>3 DEF Insert, Goto, End, TypeOK, SInv, LabelsFit
    <3> QED
      BY <1>4, <3>1, <3>2, <3>3
  <2>2. Holds(r)'
    BY <1>0, <2>1 DEF Holds
  <2> QED
    BY <2>1, <2>2, PodsRest DEF Leaving
<1>5. ASSUME Load(r) PROVE PodInv'
  <2>1. /\ UNCHANGED <<status, pods, taken>> /\ pc[r] = "load" /\ call[r].op # "create"
        /\ \/ pc'[r] \in {"release", "done"}
           \/ /\ pc'[r] = "backend"
              /\ call[r].op = "delete" => status[Id(r)] = "running"
    BY <1>5 DEF Load, Goto, End, TypeOK, SInv, LabelsFit
  <2>2. Holds(r)'
    BY <1>0, <2>1 DEF Holds
  <2> QED
    BY <2>1, <2>2, PodsRest DEF Leaving
<1>6. ASSUME BackendCreate(r) PROVE PodInv'
  <2> DEFINE p == [owner |-> r, phase |-> "running"]
  <2>1. /\ pc[r] = "backend" /\ call[r].op = "create" /\ UNCHANGED <<status, taken>>
        /\ \/ End(r, 500) /\ UNCHANGED pods
           \/ /\ Adapter = "mock" \/ pods[Key(r)] = NoPod
              /\ pods' = [pods EXCEPT ![Key(r)] = p]
              /\ End(r, 500) \/ Goto(r, "consume")
    BY <1>6, Zenon DEF BackendCreate, MakePod
  <2>2. pc'[r] \in {"done", "consume"} /\ ~\E id : Leaving(r, id)
    BY <2>1 DEF End, Goto, TypeOK, Leaving
  <2>3. CASE End(r, 500) /\ UNCHANGED pods
    <3>1. Holds(r)'
      BY <2>3 DEF Holds, End, TypeOK
    <3> QED
      BY <2>1, <2>2, <2>3, <3>1, PodsRest
  <2>4. CASE /\ Adapter = "mock" \/ pods[Key(r)] = NoPod
             /\ pods' = [pods EXCEPT ![Key(r)] = p]
    <3>1. Own(r)'
      <4>1. Key(r) \in DOMAIN pods
        BY OutcomeType DEF TypeOK, Keys, Key, Slots, Slot, Calls
      <4> QED
        BY <1>0, <2>4, <4>1 DEF Own
    <3>2. Holds(r)'
      BY <1>0, <2>1, <2>2, <3>1 DEF Holds
    <3>3. ASSUME NEW id \in Requests, Running(id)' PROVE Own(id)' \/ Excused(id)'
      <4>1. Running(id) /\ status[id] # "none"
        BY <2>1, <3>3 DEF Running
      <4>2. CASE Own(id)
        <5>1. Key(id) # Key(r)
          BY <2>1, <2>4, <4>1, <4>2, CreateTakesFree
        <5>2. pods'[Key(id)] = pods[Key(id)]
          BY <2>4, <5>1 DEF TypeOK
        <5> QED
          BY <1>3, <4>2, <5>2
      <4> QED
        BY <1>1, <1>2, <2>1, <2>2, <4>1, <4>2
    <3> QED
      BY <3>2, <3>3, PodFrame
  <2> QED
    BY <2>1, <2>3, <2>4
<1>7. ASSUME Consume(r) \/ Release(r) PROVE PodInv'
  <2>1. /\ UNCHANGED <<status, pods, taken>> /\ pc'[r] = "commit"
        /\ \/ pc[r] = "consume" /\ call[r].op = "create"
           \/ pc[r] = "release" /\ call[r].op # "create"
    BY <1>7 DEF Consume, Release, Goto, TypeOK, SInv, LabelsFit
  <2>2. call[r].op # "create" => call[r].op = "delete"
    BY <2>1 DEF CountInv
  <2>3. Holds(r)'
    BY <1>0, <2>1, <2>2 DEF Holds, Own
  <2> QED
    BY <1>0, <2>1, <2>3, PodsRest DEF Leaving
<1>8. ASSUME BackendPolicy(r) PROVE PodInv'
  <2>1. /\ UNCHANGED <<status, pods, taken>> /\ call[r].op = "policy"
    BY <1>8 DEF BackendPolicy
  <2>2. Holds(r)'
    BY <1>0, <2>1 DEF Holds
  <2> QED
    BY <2>1, <2>2, PodsRest DEF Leaving
<1>9. ASSUME BackendPause(r) PROVE PodInv'
  <2>1. /\ pc[r] = "backend" /\ pc'[r] = "commit" /\ UNCHANGED <<status, taken>>
        /\ call[r].op \in {"stop", "start"}
        /\ Id(r) \in Requests /\ status[Id(r)] \in Live
        /\ call[r].op = "start" => status[Id(r)] = "stopped"
    BY <1>0, <1>9 DEF BackendPause, Goto, TypeOK, Fresh, Visible, Refused
  <2>2. CASE Adapter # "mock"
    <3>1. UNCHANGED pods /\ ~\E id : Leaving(r, id)
      BY <1>9, <2>1, <2>2 DEF BackendPause, Leaving
    <3>2. call[r].op = "start" => Own(Id(r))' \/ Excused(Id(r))'
      <4>1. PICK id \in Requests : id = Id(r) /\ id = Id(r)'
        BY <1>0, <2>1
      <4>2. call[r].op = "start" => Own(id) \/ Excused(id)
        BY <1>1, <2>1, <2>2, <3>1, <4>1 DEF Running
      <4>3. call[r].op = "start" => Own(id)' \/ Excused(id)'
        BY <1>2, <1>3, <2>1, <3>1, <4>2
      <4> QED
        BY <4>1, <4>3
    <3>3. Holds(r)'
      BY <1>0, <2>1, <3>2 DEF Holds
    <3> QED
      BY <2>1, <3>1, <3>3, PodsRest
  <2>3. CASE Adapter = "mock"
    <3>0. PICK id \in Requests : id = Id(r) /\ id = Id(r)'
      BY <1>0, <2>1
    <3> DEFINE p == [owner |-> id,
                     phase |-> IF call[r].op = "stop" THEN "stopped" ELSE "running"]
    <3>1. pods' = [pods EXCEPT ![id] = p]
      BY <1>9, <2>3, <3>0 DEF BackendPause, Key
    <3>2. pods'[id] = p /\ \A q \in Requests \ {id} : pods'[q] = pods[q]
      BY <2>1, <2>3, <3>1 DEF TypeOK, Keys
    <3>3. call[r].op = "start" => Own(id)'
      BY <1>0, <2>3, <3>2 DEF Own, Key
    <3>4. call[r].op = "stop" => Leaving(r, id)'
      BY <1>0, <2>1, <2>3, <3>0 DEF Leaving
    <3>5. Holds(r)'
      BY <1>0, <2>1, <3>0, <3>3 DEF Holds
    <3>6. ASSUME NEW q \in Requests, Running(q)'
          PROVE  Own(q)' \/ Excused(q)' \/ Leaving(r, q)'
      <4>1. CASE q = id
        BY <1>0, <2>1, <3>3, <3>4, <4>1
      <4>2. CASE q # id
        <5>1. Running(q) /\ ~Leaving(r, q)
          BY <2>1, <3>0, <3>6, <4>2 DEF Running, Leaving
        <5>2. pods'[Key(q)] = pods[Key(q)]
          BY <2>3, <3>2, <4>2 DEF Key
        <5> QED
          BY <1>1, <1>2, <1>3, <2>1, <5>1, <5>2
      <4> QED
        BY <4>1, <4>2
    <3> QED
      BY <3>5, <3>6, PodFrame
  <2> QED
    BY <2>2, <2>3
<1>10. ASSUME BackendDestroy(r) PROVE PodInv'
  <2> DEFINE k == Key(Id(r))
  <2>1. /\ pc[r] = "backend" /\ call[r].op = "delete" /\ UNCHANGED status
        /\ UNCHANGED <<pods, taken>> \/ TakePod(r)
        /\ Goto(r, "release") \/ (End(r, 500) /\ Adapter # "mock")
    BY <1>10, Zenon DEF BackendDestroy
  <2>2. PICK mine \in Requests : mine = Id(r) /\ mine = Id(r)'
    BY <1>0, <2>1 DEF Fresh, Visible
  <2>3. /\ status[mine] = "running" /\ Running(mine) /\ ~\E id : Leaving(r, id)
        /\ Own(mine) \/ Excused(mine)
    BY <1>0, <1>1, <2>1, <2>2 DEF Holds, Running, Leaving
  <2>4. pc'[r] \in {"release", "done"}
    BY <2>1 DEF Goto, End, TypeOK
  <2>5. Holds(r)'
    BY <1>0, <2>1, <2>4 DEF Holds
  <2>6. Leaving(r, mine)' \/ (answer'[r] = 500 /\ Adapter # "mock")
    BY <1>0, <2>1, <2>2 DEF Leaving, Goto, End, TypeOK
  <2>7. ASSUME TakePod(r), NEW id \in Requests, Running(id)
        PROVE  Own(id)' \/ Excused(id)' \/ Leaving(r, id)'
    <3> DEFINE o == pods[k].owner
    <3>0. /\ pods' = [pods EXCEPT ![k] = NoPod]
          /\ \A q \in Requests : taken'[q] = IF q = o THEN r ELSE taken[q]
          /\ Own(id) \/ Excused(id)
          /\ pods \in [Keys -> Pods] /\ Key(id) \in Keys /\ k \in Keys
      <4>1. \A q \in Requests : Key(q) \in Keys
        BY OutcomeType DEF TypeOK, Keys, Key, Slots, Slot, Calls
      <4> QED
        BY <1>1, <2>2, <2>3, <2>7, <4>1 DEF TakePod, TypeOK
    <3>1. o = id => Key(id) = k
      BY <3>0, SandboxAssumption DEF PodsOwned, Owns
    <3>2. CASE o # id
      <4>1. taken'[id] = taken[id]
        BY <3>0, <3>2
      <4>2. Own(id) => Own(id)'
        <5> SUFFICES ASSUME Own(id) PROVE Own(id)'
          OBVIOUS
        <5>1. Key(id) # k
          BY <3>2 DEF Own
        <5> HIDE DEF k
        <5>2. pods'[Key(id)] = pods[Key(id)]
          BY <3>0, <5>1
        <5> QED
          BY <1>3, <5>2
      <4> QED
        BY <1>2, <3>0, <4>1, <4>2
    <3>3. CASE o = id /\ id = mine
      <4>1. taken'[id] = r /\ Id(r)' = id
        BY <2>2, <3>0, <3>3
      <4> QED
        BY <2>6, <3>3, <4>1 DEF Excused
    <3>4. CASE o = id /\ id # mine
      <4>1. Adapter # "mock"
        BY <2>2, <3>1, <3>4 DEF Key
      <4>2. taken[mine] # Nobody
        <5>1. ~Own(mine)
          BY <2>2, <3>4 DEF Own
        <5> QED
          BY <2>3, <5>1, SandboxAssumption DEF Excused
      <4>3. Own(id)
        <5>1. pods[Key(id)].owner = id
          BY <3>1, <3>4
        <5>2. taken[id] = Nobody
          BY <4>1, <5>1 DEF TakenInv
        <5> QED
          BY <3>0, <5>2, SandboxAssumption DEF Excused
      <4>4. Slot(mine) # Slot(id)
        <5>1. status[id] \in Live /\ status[mine] \in Live
          BY <2>3, <2>7 DEF Running, Live
        <5> QED
          BY <3>4, <5>1 DEF SInv, NameUnique
      <4>5. taken'[id] = r /\ taken'[mine] # Nobody
        BY <3>0, <3>4, <4>2
      <4>6. Slot(mine)' # Slot(id)'
        BY <1>0, <4>4 DEF Slot
      <4> QED
        BY <2>2, <4>5, <4>6 DEF Excused
    <3> QED
      BY <3>2, <3>3, <3>4
  <2>8. ASSUME NEW id \in Requests, Running(id)'
        PROVE  Own(id)' \/ Excused(id)' \/ Leaving(r, id)'
    <3>1. Running(id)
      BY <2>1, <2>8 DEF Running
    <3>2. CASE UNCHANGED <<pods, taken>>
      BY <1>1, <1>2, <1>3, <2>3, <3>1, <3>2
    <3> QED
      BY <2>1, <2>7, <3>1, <3>2
  <2> QED
    BY <2>5, <2>8, PodFrame
<1>11. ASSUME Commit(r) PROVE PodInv'
  <2> DEFINE id == Id(r)
  <2>1. pc[r] = "commit" /\ UNCHANGED <<pods, taken>> /\ pc'[r] = "done"
    BY <1>11 DEF Commit, End, TypeOK
  <2>2. Holds(r)'
    BY <2>1 DEF Holds
  <2>3. call[r].op # "create" => status[id] \in Live /\ ~Refused(r)
    BY <1>0, <2>1 DEF Fresh, Visible
  <2>4. \/ call[r].op = "policy" /\ UNCHANGED status
        \/ /\ call[r].op # "policy"
           /\ status' = [status EXCEPT ![id] = NewStatus[call[r].op]]
    <3>1. ~Reenters(r)
      BY <2>3 DEF Reenters, Live
    <3> QED
      BY <1>11, <3>1, Zenon DEF Commit
  <2>5. ASSUME NEW q \in Requests, Running(q)' PROVE Own(q)' \/ Excused(q)'
    <3>1. CASE status'[q] = status[q] /\ ~Leaving(r, q)
      <4>1. Running(q)
        BY <2>5, <3>1 DEF Running
      <4> QED
        BY <1>1, <1>2, <1>3, <2>1, <3>1, <4>1
    <3>2. CASE q = id /\ call[r].op # "policy"
      <4>1. status'[q] = NewStatus[call[r].op]
        BY <2>4, <3>2 DEF TypeOK
      <4>2. call[r].op # "delete"
        BY <2>5, <4>1 DEF NewStatus, Running
      <4>3. CASE call[r].op = "create"
        BY <1>0, <1>3, <2>1, <3>2, <4>3 DEF Holds, Id
      <4>4. CASE call[r].op = "start"
        BY <1>0, <1>2, <1>3, <2>1, <3>2, <4>4 DEF Holds
      <4>5. CASE call[r].op = "stop"
        <5>1. status[id] = "running" /\ Adapter # "mock"
          BY <2>3, <2>5, <4>1, <4>5 DEF Refused, NewStatus, Running
        <5>2. Running(q) /\ ~Leaving(r, q)
          BY <3>2, <4>5, <5>1 DEF Running, Leaving
        <5> QED
          BY <1>1, <1>2, <1>3, <2>1, <5>2
      <4> QED
        BY <1>0, <3>2, <4>2, <4>3, <4>4, <4>5
    <3>3. q # id \/ call[r].op = "policy" => status'[q] = status[q] /\ ~Leaving(r, q)
      BY <2>4 DEF TypeOK, Leaving
    <3> QED
      BY <3>1, <3>2, <3>3
  <2> QED
    BY <2>2, <2>5, PodFrame
<1> QED
  BY <1>4, <1>5, <1>6, <1>7, <1>8, <1>9, <1>10, <1>11, Zenon DEF Step

(* Every step keeps PodInv. *)
LEMMA NextPodInv ==
    ASSUME TypeOK, SInv, PodsOwned, Reliable, Sequential, CountInv, SerialInv, TakenInv,
           PodInv, [Next]_vars
    PROVE  PodInv'
<1>1. CASE UNCHANGED vars
  <2>1. UNCHANGED <<status, pods, taken, call, pc, answer>>
    BY <1>1 DEF vars
  <2>2. \A id : /\ Key(id)' = Key(id) /\ Id(id)' = Id(id) /\ Slot(id)' = Slot(id)
                /\ Own(id)' = Own(id) /\ Running(id)' = Running(id)
    BY <2>1 DEF Own, Running, Key, Id, Slot
  <2>3. \A id : Excused(id)' = Excused(id)
    BY <2>1, <2>2 DEF Excused
  <2>4. \A r, id : Leaving(r, id)' = Leaving(r, id)
    BY <2>1, <2>2 DEF Leaving
  <2>5. \A r \in Requests : Holds(r)' = Holds(r)
    <3> SUFFICES ASSUME NEW r \in Requests PROVE Holds(r)' = Holds(r)
      OBVIOUS
    <3>1. Own(Id(r))' = Own(Id(r)) /\ Excused(Id(r))' = Excused(Id(r))
      BY <2>2, <2>3
    <3> QED
      BY <2>1, <2>2, <3>1 DEF Holds
  <2> QED
    BY <2>1, <2>2, <2>3, <2>4, <2>5 DEF PodInv, PodsHeld
<1>2. ASSUME NEW r \in Requests, Arrive(r) PROVE PodInv'
  <2>1. /\ UNCHANGED <<status, pods, taken, answer>>
        /\ pc[r] = "idle" /\ pc'[r] \in {"check", "connect"}
        /\ \A q \in Requests \ {r} : pc'[q] = pc[q] /\ call'[q] = call[q]
    BY <1>2 DEF Arrive, Goto, TypeOK
  <2>2. \A q \in Requests : pc[q] \in {"idle", "done"}
    BY <1>2, ArrivesAlone DEF InFlight
  <2>3. \A q \in Requests : Holds(q)'
    BY <2>1, <2>2 DEF Holds
  <2>4. \A q \in Requests : pc'[q] # "done" => answer'[q] = 0
    BY <2>1 DEF PodInv
  <2>5. ASSUME NEW id \in Requests, Running(id)' PROVE Own(id)' \/ Excused(id)'
    <3>1. Running(id)
      BY <2>1, <2>5 DEF Running
    <3>2. \A q \in Requests : status[q] # "none" => q # r
      BY <2>1 DEF SInv, RowsCommitted
    <3>3. \A q \in Requests : status[q] # "none" => Key(q)' = Key(q) /\ Slot(q)' = Slot(q)
      BY <2>1, <3>2 DEF Key, Slot
    <3>4. status[id] # "none"
      BY <3>1 DEF Running
    <3>5. Own(id) => Own(id)'
      BY <2>1, <3>3, <3>4 DEF Own
    <3>6. ASSUME Excused(id) PROVE Excused(id)'
      <4>1. PICK q \in Requests :
              /\ taken[id] = q
              /\ \/ Id(q) = id /\ answer[q] = 500
                 \/ Slot(Id(q)) # Slot(id) /\ taken[Id(q)] # Nobody
        BY <3>6 DEF Excused
      <4>2. call[q].op = "delete" /\ pc[q] # "idle"
        BY <4>1, SandboxAssumption DEF TakenInv
      <4>3. Id(q) \in Requests /\ status[Id(q)] # "none" /\ Id(q)' = Id(q)
        BY <2>1, <4>2 DEF SInv, TargetsKnown, Id
      <4>4. Slot(Id(q))' = Slot(Id(q)) /\ Slot(id)' = Slot(id)
        BY <3>3, <3>4, <4>3
      <4> QED
        BY <2>1, <4>1, <4>3, <4>4 DEF Excused
    <3>7. ~\E q \in Requests : Leaving(q, id)
      BY <2>2 DEF Leaving
    <3> QED
      BY <3>1, <3>5, <3>6, <3>7 DEF PodInv, PodsHeld
  <2> QED
    BY <2>3, <2>4, <2>5 DEF PodInv, PodsHeld
<1>3. ASSUME NEW r \in Requests, Step(r) PROVE PodInv'
  BY <1>3, StepPods
<1> QED
  BY <1>1, <1>2, <1>3, OnlySteps

(* Every step keeps TakenInv. *)
LEMMA NextTaken ==
    ASSUME TypeOK, SInv, PodsOwned, Reliable, CountInv, SerialInv, TakenInv, [Next]_vars
    PROVE  TakenInv'
<1>1. CASE UNCHANGED vars
  BY <1>1 DEF vars, TakenInv, Key, Slot
<1>2. ASSUME NEW r \in Requests, Arrive(r) PROVE TakenInv'
  <2>1. /\ UNCHANGED <<pods, taken>> /\ pc[r] = "idle"
        /\ \A q \in Requests \ {r} : pc'[q] = pc[q] /\ call'[q] = call[q]
    BY <1>2 DEF Arrive, Goto, TypeOK
  <2>2. ASSUME NEW id \in Requests, taken[id] # Nobody
        PROVE  id # r /\ taken[id] # r
    BY <2>1, <2>2 DEF TakenInv
  <2> QED
    BY <2>1, <2>2 DEF TakenInv, Key, Slot
<1>3. ASSUME NEW r \in Requests, Step(r) PROVE TakenInv'
  <2>1. /\ UNCHANGED call /\ pc[r] \notin {"idle", "done"}
        /\ \A q \in Requests \ {r} : pc[q] \in {"idle", "done"} /\ pc'[q] = pc[q]
        /\ \A id : Key(id)' = Key(id)
    BY <1>3, StepShape, StepsAlone DEF InFlight, Key, Slot
  <2>2. pc[r] \in {"release", "commit"} => pc'[r] \in {"commit", "done"}
    <3>1. pc[r] \in {"release", "commit"} => Release(r) \/ Commit(r)
      BY <1>3, Zenon DEF Step, Connect, PoolTimeout, CheckQuota, Insert, BackendCreate,
           Consume, Load, BackendPause, BackendDestroy, BackendPolicy
    <3>2. Release(r) => pc'[r] = "commit"
      BY DEF Release, Goto, TypeOK
    <3>3. Commit(r) => pc'[r] = "done"
      BY DEF Commit, End, TypeOK
    <3> QED
      BY <3>1, <3>2, <3>3
  <2>3. ASSUME NEW id \in Requests, taken[id] # Nobody
        PROVE  /\ id # r /\ pc'[id] = "done" /\ taken[id] \in Requests
               /\ call[taken[id]].op = "delete"
               /\ pc'[taken[id]] \in {"release", "commit", "done"}
               /\ Adapter # "mock" => pods[Key(id)].owner # id
    BY <2>1, <2>2, <2>3 DEF TakenInv
  <2>4. CASE UNCHANGED <<pods, taken>>
    BY <2>1, <2>3, <2>4 DEF TakenInv
  <2>5. CASE Adapter = "mock" /\ UNCHANGED taken
    BY <2>1, <2>3, <2>5 DEF TakenInv
  <2>6. CASE MakePod(r)
    <3>1. UNCHANGED taken /\ pods' = [pods EXCEPT ![Key(r)] = [owner |-> r, phase |-> "running"]]
      BY <2>6 DEF MakePod
    <3>2. ASSUME NEW id \in Requests, id # r, pods[Key(id)].owner # id
          PROVE  pods'[Key(id)].owner # id
      BY <3>1, <3>2 DEF TypeOK
    <3> QED
      BY <2>1, <2>3, <3>1, <3>2 DEF TakenInv
  <2>7. CASE pc[r] = "backend" /\ call[r].op = "delete" /\ TakePod(r)
    <3> DEFINE k == Key(Id(r))
               o == pods[k].owner
    <3>1. /\ pods' = [pods EXCEPT ![k] = NoPod]
          /\ \A q \in Requests : taken'[q] = IF q = o THEN r ELSE taken[q]
          /\ pods \in [Keys -> Pods]
      BY <2>7 DEF TakePod, TypeOK
    <3>2. pc'[r] \in {"release", "done"}
      <4>1. BackendDestroy(r)
        BY <1>3, <2>7, Zenon DEF Step, Connect, PoolTimeout, CheckQuota, Insert,
           BackendCreate, Consume, Load, BackendPause, Release, BackendPolicy, Commit
      <4>2. End(r, 500) \/ Goto(r, "release")
        BY <4>1, Zenon DEF BackendDestroy
      <4> QED
        BY <4>2 DEF End, Goto, TypeOK
    <3>3. ASSUME NEW id \in Requests, pods[Key(id)].owner # id \/ Key(id) = k
          PROVE  pods'[Key(id)].owner # id
      <4>1. NoPod.owner # id
        BY SandboxAssumption DEF NoPod
      <4>2. Key(id) \in Keys
        BY OutcomeType DEF TypeOK, Keys, Key, Slots, Slot, Calls
      <4> HIDE DEF k
      <4> QED
        BY <3>1, <3>3, <4>1, <4>2
    <3>4. ASSUME NEW id \in Requests, id = o
          PROVE  Key(id) = k /\ pc'[id] = "done"
      <4>1. k \in Keys
        <5>1. Id(r) \in Requests
          BY <2>7 DEF Id, SInv, TargetsKnown
        <5> QED
          BY <5>1, OutcomeType DEF TypeOK, Keys, Key, Slots, Slot, Calls
      <4>2. Owns(id, k)
        BY <3>4, <4>1, SandboxAssumption DEF PodsOwned
      <4> QED
        BY <2>1, <2>7, <4>2 DEF Owns
    <3>5. ASSUME NEW id \in Requests, taken'[id] # Nobody
          PROVE  /\ pc'[id] = "done" /\ taken'[id] \in Requests
                 /\ call[taken'[id]].op = "delete"
                 /\ pc'[taken'[id]] \in {"release", "commit", "done"}
                 /\ Adapter # "mock" => pods'[Key(id)].owner # id
      <4>1. CASE id = o
        <5>1. taken'[id] = r
          BY <3>1, <4>1
        <5> QED
          BY <2>7, <3>2, <3>3, <3>4, <4>1, <5>1
      <4>2. CASE id # o
        <5>1. taken'[id] = taken[id]
          BY <3>1, <4>2
        <5> QED
          BY <2>3, <3>3, <3>5, <5>1
      <4> QED
        BY <4>1, <4>2
    <3> QED
      BY <2>1, <3>5 DEF TakenInv
  <2> QED
    BY <1>3, <2>4, <2>5, <2>6, <2>7, StepTakes
<1> QED
  BY <1>1, <1>2, <1>3, OnlySteps

(* A sandbox that shows as running between requests has its own pod, for   *)
(* every adapter and every naming, however often the backend's commands    *)
(* fail, unless it was lost to a delete of the sandbox itself that was     *)
(* answered 500, or to the delete of a namesake in the backend that had    *)
(* lost its own.                                                           *)
THEOREM RunningRowsHavePods ==
    ASSUME Reliable, Sequential
    PROVE  Spec => []RunningHasPod
<1> DEFINE J == TypeOK /\ SInv /\ CountInv /\ SerialInv
           I == J /\ TakenInv /\ PodInv
<1>1. Init => TakenInv /\ PodInv
  BY DEF Init, TakenInv, PodInv, PodsHeld, Holds, Running
<1>2. J /\ PodsOwned /\ TakenInv /\ PodInv /\ [Next]_vars => TakenInv' /\ PodInv'
  BY NextTaken, NextPodInv
<1>3. I => RunningHasPod
  <2> SUFFICES ASSUME I, Quiet, NEW id \in Requests, status[id] = "running"
               PROVE  Own(id) \/ Excused(id)
    BY DEF RunningHasPod, Own, Excused
  <2>1. ~\E r \in Requests : Leaving(r, id)
    BY DEF Quiet, InFlight, Leaving
  <2> QED
    BY <2>1 DEF PodInv, PodsHeld, Running
<1>4. Spec => []J
  BY SerialInvariance
<1> QED
  BY <1>1, <1>2, <1>3, <1>4, PodsAreOwned, PTL DEF Spec

-----------------------------------------------------------------------------
(* The registry *)

(* The entry of a row, and the registry's variables.                       *)
Entry(id) == [id |-> id, slot |-> Slot(id), phase |-> status[id]]
Rows      == {Entry(id) : id \in LiveIds}
Gone      == {id \in Requests : status[id] = "deleted"}

(* What the service leaves alone, the registry keeps. *)
LEMMA EntriesStay ==
    ASSUME UNCHANGED status,
           \A id \in Requests : status[id] # "none" => call'[id] = call[id]
    PROVE  UNCHANGED <<Rows, Gone>>
<1>1. LiveIds' = LiveIds /\ Gone' = Gone
  BY DEF LiveIds, Gone
<1>2. \A id \in LiveIds : Entry(id)' = Entry(id)
  BY DEF LiveIds, Live, Entry, Slot
<1> QED
  BY <1>1, <1>2 DEF Rows

(* A row that is written replaces its entry. *)
LEMMA EntryChanges ==
    ASSUME TypeOK, NEW id \in Requests, NEW s,
           status' = [status EXCEPT ![id] = s], UNCHANGED call
    PROVE  /\ Rows' = {w \in Rows : w.id # id} \cup
                      (IF s \in Live THEN {[id |-> id, slot |-> Slot(id), phase |-> s]} ELSE {})
           /\ Gone' = IF s = "deleted" THEN Gone \cup {id} ELSE Gone \ {id}
<1>1. status'[id] = s /\ \A o \in Requests \ {id} : status'[o] = status[o]
  BY DEF TypeOK
<1>2. \A o : /\ Entry(o).id = o
             /\ Slot(o)' = Slot(o)
             /\ o \in Requests \ {id} => Entry(o)' = Entry(o)
  BY <1>1 DEF Entry, Slot
<1>3. {w \in Rows : w.id # id} = {Entry(o) : o \in LiveIds \ {id}}
  BY <1>2 DEF Rows
<1>4. LiveIds' = (LiveIds \ {id}) \cup IF s \in Live THEN {id} ELSE {}
  BY <1>1 DEF LiveIds
<1>5. Rows' = {Entry(o) : o \in LiveIds \ {id}} \cup
              (IF s \in Live THEN {[id |-> id, slot |-> Slot(id), phase |-> s]} ELSE {})
  <2>1. Entry(id)' = [id |-> id, slot |-> Slot(id), phase |-> s]
    BY <1>1, <1>2 DEF Entry
  <2>2. \A o \in LiveIds \ {id} : Entry(o)' = Entry(o)
    BY <1>2 DEF LiveIds
  <2> QED
    BY <1>4, <2>1, <2>2 DEF Rows
<1>6. Gone' = IF s = "deleted" THEN Gone \cup {id} ELSE Gone \ {id}
  BY <1>1 DEF Gone
<1> QED
  BY <1>3, <1>5, <1>6

(* A tenant has as many entries as live rows. *)
LEMMA EntriesCount ==
    ASSUME SInv, CountInv, NEW t
    PROVE  Cardinality({w \in Rows : w.slot[1] = t}) = Cardinality(LiveRows(t))
<1> DEFINE S == LiveRows(t)
           T == {w \in Rows : w.slot[1] = t}
           f == [id \in S |-> Entry(id)]
<1>1. IsFiniteSet(S)
  BY FiniteParts
<1>2. \A id : Entry(id).id = id /\ Entry(id).slot[1] = call[id].tenant
  BY DEF Entry, Slot
<1>3. T = {Entry(id) : id \in S}
  BY <1>2 DEF Rows, LiveIds, LiveRows
<1> HIDE DEF S, T
<1>4. f \in [S -> T] /\ \A a, b \in S : f[a] = f[b] => a = b
  BY <1>2, <1>3
<1>5. \A w \in T : \E id \in S : f[id] = w
  BY <1>3
<1>6. ExistsBijection(S, T)
  BY <1>4, <1>5, Fun_IsBij DEF ExistsBijection
<1> QED
  BY <1>1, <1>6, FS_Bijection DEF S, T

(* A create that commits was within the limit. *)
LEMMA CreateFits ==
    ASSUME TypeOK, SInv, CountInv, SerialInv, NEW r \in Requests,
           call[r].op = "create", pc[r] = "commit",
           NEW t \in Registered, call[r].tenant = t
    PROVE  Limits[t] # Unlimited => Cardinality(LiveRows(t)) < Limits[t]
<1>1. Closing("create", t) = {r} /\ Closing("delete", t) = {}
  BY DEF Closing, SerialInv, InFlight
<1>2. Cardinality({r}) = 1 /\ Cardinality({}) = 0
  BY FS_Singleton, FS_EmptySet
<1>3. /\ Balance(t) = 0
      /\ Limits[t] # Unlimited => used[t] + Cardinality(Closing("delete", t)) <= Limits[t]
      /\ t \in Tenants
  BY SandboxAssumption DEF SerialInv
<1>4. Cardinality(LiveRows(t)) \in Nat /\ used[t] \in Int /\ Limits[t] \in Int
  BY <1>3, BalanceType, SandboxAssumption DEF Unlimited
<1> DEFINE live == Cardinality(LiveRows(t))
<1>5. live + 1 - 0 - used[t] = 0 /\ (Limits[t] # Unlimited => used[t] + 0 <= Limits[t])
  BY <1>1, <1>2, <1>3 DEF Balance
<1> HIDE DEF live
<1>6. Limits[t] # Unlimited => live < Limits[t]
  BY <1>4, <1>5 DEF live
<1> QED
  BY <1>6 DEF live

(* The registry's steps, said of Rows and Gone. *)
LEMMA RegistrySteps ==
    /\ \A id, t, n : Registry!Register(id, t, n) <=>
          /\ id \notin Gone
          /\ \A w \in Rows : w.id # id /\ w.slot # <<t, n>>
          /\ t \in Registered =>
                ~Registry!Exceeded([limit |-> Limits[t],
                                    used |-> Cardinality({w \in Rows : w.slot[1] = t})])
          /\ Rows' = Rows \cup {[id |-> id, slot |-> <<t, n>>, phase |-> "running"]}
          /\ UNCHANGED Gone
    /\ \A w : Registry!Turn(w) <=>
          /\ Rows' = (Rows \ {w})
                \cup {[w EXCEPT !.phase = IF @ = "running" THEN "stopped" ELSE "running"]}
          /\ UNCHANGED Gone
    /\ \A w : Registry!Remove(w) <=> Rows' = Rows \ {w} /\ Gone' = Gone \cup {w.id}
    /\ Registry!RNext <=>
          \/ \E id \in Requests, t \in Tenants, n \in Names : Registry!Register(id, t, n)
          \/ \E w \in Rows : Registry!Turn(w) \/ Registry!Remove(w)
<1> USE DEF Rows, Gone, Entry
<1>0. \A S : Registry!Cardinality(S) = Cardinality(S)
  BY DEF Registry!Cardinality, Cardinality
<1>1. \A id, t, n : Registry!Register(id, t, n) <=>
          /\ id \notin Gone
          /\ \A w \in Rows : w.id # id /\ w.slot # <<t, n>>
          /\ t \in Registered =>
                ~Registry!Exceeded([limit |-> Limits[t],
                                    used |-> Cardinality({w \in Rows : w.slot[1] = t})])
          /\ Rows' = Rows \cup {[id |-> id, slot |-> <<t, n>>, phase |-> "running"]}
          /\ UNCHANGED Gone
  BY <1>0, Zenon DEF Registry!Register
<1>2. \A w : Registry!Turn(w) <=>
          /\ Rows' = (Rows \ {w})
                \cup {[w EXCEPT !.phase = IF @ = "running" THEN "stopped" ELSE "running"]}
          /\ UNCHANGED Gone
  BY Zenon DEF Registry!Turn
<1>3. \A w : Registry!Remove(w) <=> Rows' = Rows \ {w} /\ Gone' = Gone \cup {w.id}
  BY Zenon DEF Registry!Remove
<1>4. Registry!RNext <=>
          \/ \E id \in Requests, t \in Tenants, n \in Names : Registry!Register(id, t, n)
          \/ \E w \in Rows : Registry!Turn(w) \/ Registry!Remove(w)
  BY Zenon DEF Registry!RNext
<1> QED
  BY <1>1, <1>2, <1>3, <1>4, Zenon

(* The service is the registry when requests come one at a time: a create  *)
(* that commits registers a free name within the limit, a stop or a start  *)
(* turns the phase it found, a delete removes a sandbox that was live, and *)
(* nothing else shows.                                                     *)
THEOREM ImplementsRegistry ==
    ASSUME Reliable, Sequential
    PROVE  Spec => RegistrySpec
<1> DEFINE I == TypeOK /\ SInv /\ CountInv /\ SerialInv
           rnext == [Registry!RNext]_<<Rows, Gone>>
<1>1. Init => Rows = {} /\ Gone = {}
  BY DEF Init, Rows, Gone, LiveIds, Live
<1>2. ASSUME I, NEW r \in Requests, Commit(r) PROVE rnext
  <2> DEFINE op == call[r].op
  <2>1. pc[r] = "commit" /\ UNCHANGED call /\ Fresh(r)
    BY <1>2 DEF Commit, SerialInv
  <2>2. PICK id \in Requests : id = Id(r)
    BY <1>2, <2>1 DEF Id, SInv, TargetsKnown
  <2>3. op # "create" => status[id] \in Live /\ ~Refused(r)
    BY <2>1, <2>2 DEF Fresh, Visible
  <2>4. CASE op = "policy"
    BY <1>2, <2>1, <2>4, EntriesStay DEF Commit, Reenters
  <2>5. CASE op # "policy"
    <3>1. status' = [status EXCEPT ![id] = NewStatus[op]]
      <4>1. ~Reenters(r)
        BY <2>2, <2>3 DEF Reenters, Live
      <4> QED
        BY <1>2, <2>2, <2>5, <4>1, Zenon DEF Commit
    <3> DEFINE s == NewStatus[op]
               new == [id |-> id, slot |-> Slot(id), phase |-> s]
               others == {w \in Rows : w.id # id}
    <3>2. /\ Rows' = others \cup (IF s \in Live THEN {new} ELSE {})
          /\ Gone' = IF s = "deleted" THEN Gone \cup {id} ELSE Gone \ {id}
      <4>1. TypeOK
        BY <1>2
      <4> QED
        BY <2>1, <3>1, <4>1, EntryChanges
    <3>3. op \in {"create", "stop", "start", "delete"}
      BY <1>2, <2>5, OutcomeType
    <3>4. \A o : Entry(o).id = o /\ Entry(o).slot = Slot(o) /\ Entry(o).phase = status[o]
      BY DEF Entry
    <3>5. CASE op = "create"
      <4>0. PICK t, n : t = call[r].tenant /\ n = call[r].name
        OBVIOUS
      <4> DEFINE used_t == Cardinality({w \in Rows : w.slot[1] = t})
      <4>1. id = r /\ s = "running" /\ status[id] = "none" /\ Slot(id) = <<t, n>>
        BY <1>2, <2>1, <2>2, <3>5, <4>0 DEF Id, NewStatus, SInv, RowsCommitted, Slot
      <4>2. t \in Tenants /\ n \in Names
        BY <1>2, <4>0 DEF TypeOK, Calls
      <4>3. id \notin Gone /\ \A w \in Rows : w.id # id /\ w.slot # <<t, n>>
        <5>1. ~NameTaken(Slot(r))
          BY <1>2, <2>1, <3>5 DEF SInv, InsertsAlone, Inserted
        <5> QED
          BY <3>4, <4>1, <5>1 DEF Rows, Gone, LiveIds, Live, NameTaken
      <4>4. Rows' = Rows \cup {new} /\ UNCHANGED Gone
        BY <3>2, <4>1, <4>3 DEF Live, Gone
      <4>5. t \in Registered => ~Registry!Exceeded([limit |-> Limits[t], used |-> used_t])
        <5> SUFFICES ASSUME t \in Registered, Limits[t] # Unlimited
                     PROVE  ~(used_t >= Limits[t])
          BY DEF Registry!Exceeded, Registry!Unlimited, Unlimited
        <5>1. used_t = Cardinality(LiveRows(t))
          BY <1>2, EntriesCount
        <5>2. Cardinality(LiveRows(t)) < Limits[t]
          BY <1>2, <2>1, <3>5, <4>0, CreateFits
        <5>3. Cardinality(LiveRows(t)) \in Nat /\ Limits[t] \in Int
          BY <1>2, <4>2, BalanceType, SandboxAssumption DEF Unlimited
        <5> QED
          BY <5>1, <5>2, <5>3
      <4>6. Registry!Register(id, t, n)
        <5>1. Rows' = Rows \cup {[id |-> id, slot |-> <<t, n>>, phase |-> "running"]}
          BY <4>1, <4>4
        <5> QED
          BY <4>3, <4>4, <4>5, <5>1, RegistrySteps, Zenon
      <4> QED
        BY <4>2, <4>6, RegistrySteps, Zenon
    <3>6. CASE op # "create"
      <4>1. status[id] \in Live /\ ~Refused(r)
        BY <2>3, <3>6
      <4>0. PICK w \in Rows : w = Entry(id)
        BY <4>1 DEF LiveIds, Rows
      <4>2. others = Rows \ {w}
        BY <3>4, <4>0 DEF Rows
      <4>3. CASE op = "delete"
        <5>1. Rows' = Rows \ {w} /\ Gone' = Gone \cup {w.id}
          BY <3>2, <3>4, <4>0, <4>2, <4>3 DEF NewStatus, Live
        <5>2. Registry!Remove(w)
          BY <5>1, RegistrySteps, Zenon
        <5> QED
          BY <5>2, RegistrySteps, Zenon
      <4>4. CASE op \in {"stop", "start"}
        <5>1. /\ status[id] = IF op = "stop" THEN "running" ELSE "stopped"
              /\ s = IF op = "stop" THEN "stopped" ELSE "running"
          BY <2>2, <4>1, <4>4 DEF Refused, NewStatus
        <5>2. UNCHANGED Gone
          BY <3>2, <4>1, <5>1 DEF Gone, Live
        <5>3. new = [w EXCEPT !.phase = IF @ = "running" THEN "stopped" ELSE "running"]
          BY <4>0, <4>4, <5>1 DEF Entry
        <5>4. Rows' = (Rows \ {w}) \cup {new}
          BY <3>2, <4>2, <5>1 DEF Live
        <5>5. Registry!Turn(w)
          BY <5>2, <5>3, <5>4, RegistrySteps, Zenon
        <5> QED
          BY <5>5, RegistrySteps, Zenon
      <4> QED
        BY <3>3, <3>6, <4>3, <4>4
    <3> QED
      BY <3>5, <3>6
  <2> QED
    BY <2>4, <2>5
<1>3. ASSUME I, [Next]_vars PROVE rnext
  <2>1. CASE UNCHANGED vars
    BY <2>1, EntriesStay DEF vars
  <2>2. ASSUME NEW r \in Requests, Arrive(r) PROVE rnext
    <3>1. UNCHANGED status /\ \A id \in Requests \ {r} : call'[id] = call[id]
      BY <1>3, <2>2 DEF Arrive, TypeOK
    <3>2. status[r] = "none"
      BY <1>3, <2>2 DEF Arrive, SInv, RowsCommitted
    <3> QED
      BY <3>1, <3>2, EntriesStay
  <2>3. ASSUME NEW r \in Requests, Step(r) PROVE rnext
    <3>1. UNCHANGED call
      BY <2>3, StepShape
    <3>2. CASE Commit(r)
      BY <1>2, <1>3, <3>2
    <3>3. CASE ~Commit(r)
      <4>1. UNCHANGED status
        BY <2>3, <3>3, Zenon DEF Step, Connect, PoolTimeout, CheckQuota, Insert,
           BackendCreate, Consume, Load, BackendPause, BackendDestroy, Release,
           BackendPolicy
      <4> QED
        BY <3>1, <4>1, EntriesStay
    <3> QED
      BY <3>2, <3>3
  <2> QED
    BY <1>3, <2>1, <2>2, <2>3, OnlySteps
<1>4. I /\ [Next]_vars => rnext
  BY <1>3
<1> QED
  BY <1>1, <1>4, SerialInvariance, PTL
  DEF Spec, RegistrySpec, Registry!RSpec, Registry!RInit, Rows, Gone, Entry

(* Among requests that come one at a time a deleted sandbox stays deleted; *)
(* the registry never takes back what is gone.                             *)
THEOREM DeletedStaysInTurn ==
    ASSUME Reliable, Sequential
    PROVE  Spec => DeletedStaysDeleted
<1> DEFINE A == \A id \in Requests : status[id] = "deleted" => status'[id] = "deleted"
           rnext == [Registry!RNext]_<<Rows, Gone>>
<1>1. ASSUME rnext PROVE A
  <2>1. CASE UNCHANGED <<Rows, Gone>>
    BY <2>1 DEF Gone
  <2>2. ASSUME NEW id, NEW t, NEW n, Registry!Register(id, t, n) PROVE UNCHANGED Gone
    BY <2>2, RegistrySteps, Zenon
  <2>3. ASSUME NEW w, Registry!Turn(w) PROVE UNCHANGED Gone
    BY <2>3, RegistrySteps, Zenon
  <2>4. ASSUME NEW w, Registry!Remove(w) PROVE Gone' = Gone \cup {w.id}
    BY <2>4, RegistrySteps, Zenon
  <2>5. CASE Registry!RNext
    <3>1. \/ \E id, t, n : Registry!Register(id, t, n)
          \/ \E w : Registry!Turn(w) \/ Registry!Remove(w)
      BY <2>5, RegistrySteps, Zenon
    <3> QED
      BY <2>2, <2>3, <2>4, <3>1 DEF Gone
  <2> QED
    BY <1>1, <2>1, <2>5
<1>2. rnext => [A]_vars
  BY <1>1
<1> QED
  BY <1>2, ImplementsRegistry, PTL
  DEF RegistrySpec, Registry!RSpec, Rows, Gone, Entry, DeletedStaysDeleted

=============================================================================
