-------------------------- MODULE K8sBackendProofs --------------------------
(***************************************************************************)
(* Proofs about K8sBackend, for every set of calls and names and every     *)
(* combination of faults.  The argument: the process of a call moves on    *)
(* its own, but a coroutine gets past its command only when that process   *)
(* has acted and exited with 0; so whatever a call answers, its effect is  *)
(* behind it, and a process that is still running belongs to a call that   *)
(* has answered nothing.                                                   *)
(***************************************************************************)
EXTENDS K8sBackend, TLAPS

USE DEF list

(* Where a call is, what its process has done and what it has answered.    *)
CallFits(c) ==
    /\ pc[c] = "idle" => proc[c] = "none"
    /\ pc[c] # "done" => result[c] = "none"
    /\ pc[c] \in Polling => call[c].op = "create" /\ proc[c] = "ok"
    /\ proc[c] \in {"running", "acted"} => pc[c] \in {"command", "dead"}
    /\ proc[c] # "none" => call[c].op \in {"create", "destroy"}
    /\ result[c] = "ok" => proc[c] = "ok" \/ call[c].op \in {"stop", "start"}

CallsFit == \A c \in Calls : CallFits(c)

(* A create that has acted has its sandbox, or a destroy has acted.        *)
BoxFits(c) ==
    call[c].op = "create" /\ proc[c] \in Acted =>
        \/ box[call[c].name].by = c
        \/ \E d \in Calls : /\ call[d] = [op |-> "destroy", name |-> call[c].name]
                            /\ proc[d] \in Acted

BoxesFit == \A c \in Calls : BoxFits(c)

(* What a list has shown is there, or was destroyed since. *)
ListFits(c) == shown[c] = "ready" => box[call[c].name].by # Nobody \/ c \in stale

ListsFit == \A c \in Calls : ListFits(c)

IInv == TypeOK /\ CallsFit /\ BoxesFit /\ ListsFit

-----------------------------------------------------------------------------
(* The invariant holds at first. *)
LEMMA InitInv == Init => IInv
BY DEF Init, IInv, TypeOK, CallsFit, CallFits, BoxesFit, BoxFits, ListsFit, ListFits,
       Boxes, NoBox, Polling, Acted, Exited

(* A step of the coroutine leaves processes that act and the gateway as    *)
(* they are.                                                               *)
LEMMA StepTouches ==
    ASSUME TypeOK, CallsFit, NEW c \in Calls, Step(c)
    PROVE  /\ UNCHANGED <<call, box>>
           /\ \A d \in Calls : proc'[d] \in Acted <=> proc[d] \in Acted
           /\ \A d \in Calls \ {c} : proc'[d] = proc[d] /\ pc'[d] = pc[d]
                                     /\ result'[d] = result[d]
<1>1. CASE Call(c)
  <2>1. call' = call /\ box' = box
    BY <1>1 DEF Call, RunCommand, Pause, ApplyPolicy
  <2>2. \E l \in {"command", "done"} : pc' = [pc EXCEPT ![c] = l]
    BY <1>1 DEF Call, RunCommand, Pause, ApplyPolicy, Goto, Return
  <2>3. \E o \in {"ok", "error"} : result' \in {result, [result EXCEPT ![c] = o]}
    BY <1>1 DEF Call, RunCommand, Pause, ApplyPolicy, Goto, Return
  <2>4. proc' = proc \/ proc' = [proc EXCEPT ![c] = "running"]
    BY <1>1 DEF Call, RunCommand, Pause, ApplyPolicy
  <2>5. proc[c] = "none"
    BY <1>1 DEF Call, RunCommand, Pause, ApplyPolicy, CallsFit, CallFits
  <2> QED
    BY <2>1, <2>2, <2>3, <2>4, <2>5 DEF TypeOK, Acted
<1>2. CASE CommandEnds(c) \/ Poll(c) \/ List(c) \/ Sleep(c)
  BY <1>2 DEF TypeOK, CommandEnds, Poll, List, Sleep, Goto, Return
<1> QED
  BY <1>1, <1>2 DEF Step

(* It answers nothing, or returns. *)
LEMMA StepAnswers ==
    ASSUME NEW c \in Calls, Step(c)
    PROVE  UNCHANGED result \/ \E outcome \in {"ok", "error"} : Return(c, outcome)
<1>1. CASE Call(c)
  BY <1>1 DEF Call, RunCommand, Pause, ApplyPolicy, Goto
<1>2. CASE CommandEnds(c)
  BY <1>2 DEF CommandEnds, Goto
<1>3. CASE Poll(c) \/ List(c) \/ Sleep(c)
  BY <1>3 DEF Poll, List, Sleep, Goto
<1> QED
  BY <1>1, <1>2, <1>3 DEF Step

(* Types are kept. *)
LEMMA NextType == TypeOK /\ [Next]_vars => TypeOK'
<1> SUFFICES ASSUME TypeOK, [Next]_vars PROVE TypeOK'
  OBVIOUS
<1> USE DEF TypeOK, Polling, Acted, Exited
<1>1. ASSUME NEW c \in Calls, Step(c) PROVE TypeOK'
  <2>1. CASE Call(c)
    BY <2>1 DEF Call, RunCommand, Pause, ApplyPolicy, Goto, Return
  <2>2. CASE CommandEnds(c) \/ Poll(c) \/ Sleep(c)
    BY <2>2 DEF CommandEnds, Poll, Sleep, Goto, Return
  <2>3. CASE List(c)
    BY <2>3 DEF List, Goto, Return
  <2> QED
    BY <1>1, <2>1, <2>2, <2>3 DEF Step
<1>2. ASSUME NEW c \in Calls, Act(c) PROVE TypeOK'
  <2>1. call[c].name \in Names
    BY DEF Kinds
  <2>2. [by |-> c, ready |-> FALSE] \in Boxes /\ NoBox \in Boxes
    BY DEF Boxes, NoBox
  <2> QED
    BY <1>2, <2>1, <2>2 DEF Act
<1>8. ASSUME NEW c \in Calls, Show(c) PROVE TypeOK'
  BY <1>8 DEF Show
<1>3. ASSUME NEW c \in Calls, Exit(c) PROVE TypeOK'
  BY <1>3 DEF Exit
<1>4. ASSUME NEW c \in Calls, Expire(c) PROVE TypeOK'
  BY <1>4 DEF Expire
<1>5. ASSUME NEW n \in Names, Turn(n) PROVE TypeOK'
  <2>1. [box[n] EXCEPT !.ready = ~@] \in Boxes
    <3>1. PICK b \in Boxes : b = box[n]
      OBVIOUS
    <3>2. [b EXCEPT !.ready = ~@] \in Boxes
      BY DEF Boxes
    <3> QED
      BY <3>1, <3>2
  <2>2. /\ box' = [box EXCEPT ![n] = [box[n] EXCEPT !.ready = ~@]]
        /\ UNCHANGED <<call, pc, proc, list, overdue, result>>
    BY <1>5 DEF Turn
  <2> QED
    BY <2>1, <2>2
<1>6. CASE Crash
  BY <1>6 DEF Crash, Waiting
<1>7. CASE UNCHANGED vars
  BY <1>7 DEF vars
<1> QED
  BY <1>1, <1>2, <1>3, <1>4, <1>5, <1>6, <1>7, <1>8 DEF Next, Finished

(* Every step keeps what a call has done in line with what it answers. *)
LEMMA NextCalls == TypeOK /\ CallsFit /\ [Next]_vars => CallsFit'
<1> SUFFICES ASSUME TypeOK, CallsFit, [Next]_vars, NEW d \in Calls PROVE CallFits(d)'
  BY DEF CallsFit
<1>0. CallFits(d)
  BY DEF CallsFit
<1> USE DEF TypeOK, CallFits, Polling, Acted, Exited
<1>1. ASSUME NEW c \in Calls, Step(c), c # d PROVE CallFits(d)'
  <2> HIDE DEF TypeOK, CallFits, Polling, Acted, Exited
  <2>1. UNCHANGED <<call[d], pc[d], proc[d], result[d]>>
    BY <1>1, StepTouches
  <2> USE DEF CallFits
  <2> QED
    BY <1>0, <2>1
<1>2. CASE Step(d)
  <2>1. CASE Call(d)
    BY <1>0, <2>1 DEF Call, RunCommand, Pause, ApplyPolicy, Goto, Return
  <2>2. CASE CommandEnds(d)
    <3>1. proc[d] # "none" /\ proc' = proc /\ call' = call
      BY <2>2 DEF CommandEnds
    <3>2. CASE ~Succeeded(d) /\ Return(d, "error")
      BY <1>0, <2>2, <3>1, <3>2 DEF CommandEnds, Return
    <3>3. CASE Succeeded(d) /\ call[d].op = "create" /\ Goto(d, "poll")
      BY <1>0, <2>2, <3>1, <3>3 DEF CommandEnds, Succeeded, Goto
    <3>4. CASE Succeeded(d) /\ call[d].op # "create" /\ Return(d, "ok")
      BY <1>0, <2>2, <3>1, <3>4 DEF CommandEnds, Succeeded, Return
    <3> QED
      BY <2>2, <3>2, <3>3, <3>4 DEF CommandEnds
  <2>3. CASE Poll(d) \/ List(d) \/ Sleep(d)
    BY <1>0, <2>3 DEF Poll, List, Sleep, Goto, Return
  <2> QED
    BY <1>2, <2>1, <2>2, <2>3 DEF Step
<1>3. ASSUME NEW c \in Calls, Act(c) PROVE CallFits(d)'
  BY <1>0, <1>3 DEF Act
<1>4. ASSUME NEW c \in Calls, Exit(c) PROVE CallFits(d)'
  BY <1>0, <1>4 DEF Exit
<1>5. CASE \/ \E c \in Calls : Expire(c) \/ Show(c)
           \/ \E n \in Names : Turn(n)
           \/ UNCHANGED vars
  BY <1>0, <1>5 DEF Expire, Show, Turn, vars
<1>6. CASE Crash
  BY <1>0, <1>6 DEF Crash, Waiting
<1> QED
  BY <1>1, <1>2, <1>3, <1>4, <1>5, <1>6 DEF Next, Finished

(* A sandbox disappears only by a destroy that has then acted. *)
LEMMA NextBoxes == TypeOK /\ CallsFit /\ BoxesFit /\ [Next]_vars => BoxesFit'
<1> SUFFICES ASSUME TypeOK, CallsFit, BoxesFit, [Next]_vars, NEW e \in Calls PROVE
   BoxFits(e)'
  BY DEF BoxesFit
<1>0. BoxFits(e)
  BY DEF BoxesFit
<1>1. ASSUME NEW c \in Calls, Step(c) PROVE BoxFits(e)'
  BY <1>0, <1>1, StepTouches DEF BoxFits
<1>2. ASSUME NEW c \in Calls, Act(c) PROVE BoxFits(e)'
  <2> DEFINE n == call[c].name
  <2>1. /\ call' = call /\ proc' = [proc EXCEPT ![c] = "acted"] /\ proc[c] = "running"
        /\ n \in Names
    BY <1>2 DEF Act, TypeOK, Kinds
  <2>2. \A d \in Calls : proc[d] \in Acted => proc'[d] \in Acted
    BY <2>1 DEF TypeOK, Acted
  <2>3. CASE call[c].op = "create" /\ box[n].by = Nobody
             /\ box' = [box EXCEPT ![n] = [by |-> c, ready |-> FALSE]]
    <3>1. CASE e = c
      BY <2>1, <2>3, <3>1 DEF BoxFits, TypeOK
    <3>2. CASE e # c /\ call[e].op = "create" /\ proc'[e] \in Acted
      <4>1. proc[e] \in Acted
        BY <2>1, <3>2 DEF TypeOK
      <4>2. CASE box[call[e].name].by = e
        <5>1. call[e].name # n
          BY <2>3, <4>2, BackendAssumption
        <5> QED
          BY <2>1, <2>3, <4>2, <5>1 DEF BoxFits, TypeOK, Kinds
      <4>3. CASE \E d \in Calls : /\ call[d] = [op |-> "destroy", name |-> call[e].name]
                                  /\ proc[d] \in Acted
        BY <2>1, <2>2, <4>3 DEF BoxFits
      <4> QED
        BY <1>0, <3>2, <4>1, <4>2, <4>3 DEF BoxFits
    <3> QED
      BY <2>1, <3>1, <3>2 DEF BoxFits
  <2>4. CASE call[c].op = "destroy" /\ box' = [box EXCEPT ![n] = NoBox]
    <3>1. call[c] = [op |-> "destroy", name |-> n] /\ proc'[c] \in Acted
      BY <2>1, <2>4 DEF TypeOK, Kinds, Acted
    <3>2. CASE call[e].op = "create" /\ proc'[e] \in Acted
      <4>1. proc[e] \in Acted
        BY <2>1, <2>4, <3>2 DEF TypeOK
      <4>2. CASE call[e].name = n
        BY <2>1, <3>1, <4>2 DEF BoxFits
      <4>3. CASE call[e].name # n
        BY <1>0, <2>1, <2>2, <2>4, <3>2, <4>1, <4>3 DEF BoxFits, TypeOK, Kinds
      <4> QED
        BY <4>2, <4>3
    <3> QED
      BY <2>1, <3>2 DEF BoxFits
  <2> QED
    BY <1>2, <2>3, <2>4 DEF Act
<1>3. ASSUME NEW c \in Calls, Exit(c) PROVE BoxFits(e)'
  <2>1. UNCHANGED <<call, box>>
    BY <1>3 DEF Exit
  <2>2. \A d \in Calls : proc'[d] \in Acted <=> proc[d] \in Acted
    BY <1>3 DEF Exit, TypeOK, Acted
  <2> QED
    BY <1>0, <2>1, <2>2 DEF BoxFits
<1>4. ASSUME NEW n \in Names, Turn(n) PROVE BoxFits(e)'
  <2>1. UNCHANGED <<call, proc>> /\ \A k \in Names : box'[k].by = box[k].by
    BY <1>4 DEF Turn, TypeOK, Boxes
  <2>2. call[e].name \in Names
    BY DEF TypeOK, Kinds
  <2> QED
    BY <1>0, <2>1, <2>2 DEF BoxFits
<1>5. CASE (\E c \in Calls : Expire(c) \/ Show(c)) \/ Crash \/ UNCHANGED vars
  <2>1. UNCHANGED <<call, proc, box>>
    BY <1>5 DEF Expire, Show, Crash, vars
  <2> QED
    BY <1>0, <2>1 DEF BoxFits
<1> QED
  BY <1>1, <1>2, <1>3, <1>4, <1>5 DEF Next, Finished

(* A list that shows a sandbox becomes stale when the sandbox goes. *)
LEMMA NextLists == TypeOK /\ ListsFit /\ [Next]_vars => ListsFit'
<1> SUFFICES ASSUME TypeOK, ListsFit, [Next]_vars, NEW d \in Calls PROVE ListFits(d)'
  BY DEF ListsFit
<1>0. ListFits(d) /\ call[d].name \in Names
  BY DEF ListsFit, TypeOK, Kinds
<1>1. ASSUME NEW c \in Calls, Step(c) PROVE ListFits(d)'
  <2>1. CASE List(c)
    BY <1>0, <2>1 DEF List, ListFits, TypeOK
  <2>2. CASE ~List(c)
    <3>1. UNCHANGED <<call, list, box>>
      BY <1>1, <2>2 DEF Step, Call, RunCommand, Pause, ApplyPolicy, CommandEnds, Poll, Sleep
    <3> QED
      BY <1>0, <3>1 DEF ListFits
  <2> QED
    BY <2>1, <2>2
<1>2. ASSUME NEW c \in Calls, Act(c) PROVE ListFits(d)'
  <2> DEFINE n == call[c].name
  <2>1. call' = call /\ shown' = shown /\ n \in Names
    BY <1>2 DEF Act, TypeOK, Kinds
  <2>2. CASE /\ box' = [box EXCEPT ![n] = [by |-> c, ready |-> FALSE]]
             /\ UNCHANGED stale
    BY <1>0, <2>1, <2>2, BackendAssumption DEF ListFits, TypeOK
  <2>3. CASE /\ box' = [box EXCEPT ![n] = NoBox]
             /\ stale' = stale \cup {e \in Calls : call[e].name = n /\ shown[e] = "ready"}
    BY <1>0, <2>1, <2>3 DEF ListFits, TypeOK
  <2> QED
    BY <1>2, <2>2, <2>3 DEF Act
<1>3. ASSUME NEW c \in Calls, Show(c) PROVE ListFits(d)'
  BY <1>0, <1>3 DEF Show, ListFits, Listed, TypeOK
<1>4. ASSUME NEW n \in Names, Turn(n) PROVE ListFits(d)'
  <2>1. UNCHANGED <<call, list>> /\ \A k \in Names : box'[k].by = box[k].by
    BY <1>4 DEF Turn, TypeOK, Boxes
  <2> QED
    BY <1>0, <2>1 DEF ListFits
<1>5. CASE (\E c \in Calls : Expire(c) \/ Exit(c)) \/ Crash \/ UNCHANGED vars
  <2>1. UNCHANGED <<call, list, box>>
    BY <1>5 DEF Expire, Exit, Crash, vars
  <2> QED
    BY <1>0, <2>1 DEF ListFits
<1> QED
  BY <1>1, <1>2, <1>3, <1>4, <1>5 DEF Next, Finished

-----------------------------------------------------------------------------
(* Types, what calls know of their processes, and what became of the       *)
(* sandboxes, in every reachable state.                                    *)
THEOREM Invariance == Spec => []IInv
<1>1. Init => IInv
  BY InitInv
<1>2. IInv /\ [Next]_vars => IInv'
  BY NextType, NextCalls, NextBoxes, NextLists DEF IInv
<1> QED
  BY <1>1, <1>2, PTL DEF Spec

(* Every variable keeps its type, for all calls and names. *)
THEOREM Typing == Spec => []TypeOK
<1>1. IInv => TypeOK
  BY DEF IInv
<1> QED
  BY <1>1, Invariance, PTL

(* A create that returned has its sandbox in the gateway, unless a destroy *)
(* of its name has acted (K8sAdapter.create).                              *)
THEOREM CreatedStaysInGateway == Spec => []CreatedHasBox
<1>1. IInv => CreatedHasBox
  BY DEF IInv, CallsFit, CallFits, BoxesFit, BoxFits, CreatedHasBox, Acted
<1> QED
  BY <1>1, Invariance, PTL

(* A create that returns before its deadline has its name in the gateway,  *)
(* or a destroy has removed it since the last list showed it               *)
(* (_wait_openshell_ready).                                                *)
THEOREM EarlyReturnsSeeBox == Spec => EarlyReturnHasBox
<1> DEFINE A == \A c \in Calls :
                  /\ call[c].op = "create"
                  /\ result[c] = "none" /\ result'[c] = "ok"
                  /\ ~overdue[c]
                  => box'[call[c].name].by # Nobody \/ c \in stale
<1>1. IInv /\ [Next]_vars => [A]_vars
  <2> SUFFICES ASSUME IInv, Next, NEW c \in Calls,
                      call[c].op = "create", result[c] = "none", result'[c] = "ok",
                      ~overdue[c]
               PROVE  box'[call[c].name].by # Nobody \/ c \in stale
    OBVIOUS
  <2>0. TypeOK /\ CallsFit /\ ListsFit
    BY DEF IInv
  <2>1. PICK d \in Calls : Step(d)
    BY <2>0 DEF Next, Show, Act, Exit, Expire, Turn, Crash, Finished, vars
  <2>2. d = c
    BY <2>0, <2>1, StepTouches
  <2>3. ~Call(c) /\ ~CommandEnds(c) /\ ~Poll(c) /\ ~Sleep(c)
    BY <2>0 DEF TypeOK, Call, RunCommand, Pause, ApplyPolicy, CommandEnds, Poll,
       Sleep, Goto, Return
  <2>4. List(c)
    BY <2>1, <2>2, <2>3 DEF Step
  <2>5. shown[c] = "ready"
    BY <2>4 DEF List, Goto
  <2> QED
    BY <2>0, <2>4, <2>5 DEF List, ListsFit, ListFits
<1>2. IInv /\ [Next]_vars => [A]_vars
  BY <1>1
<1> QED
  BY <1>2, Invariance, PTL DEF Spec, EarlyReturnHasBox

-----------------------------------------------------------------------------
(* The adapter implements the port that SandboxService takes its backend   *)
(* to be: each call acts at one instant, before it returns.                *)
THEOREM ImplementsPort == Spec => PortSpec
<1> USE DEF Port!PInit, Port!pvars
<1>1. Init => Port!PInit
  BY DEF Init, NoBox, Acted, Exited
<1>2. IInv /\ [Next]_vars => [Port!PNext]_(Port!pvars)
  <2> SUFFICES ASSUME IInv, [Next]_vars PROVE [Port!PNext]_(Port!pvars)
    OBVIOUS
  <2> DEFINE boxes == [n \in Names |-> box[n].by]
             took  == {c \in Calls : proc[c] \in Acted}
  <2>0. TypeOK /\ CallsFit
    BY DEF IInv
  <2>1. ASSUME NEW c \in Calls, Step(c) PROVE [Port!PNext]_(Port!pvars)
    <3>1. boxes' = boxes /\ took' = took /\ call' = call
      BY <2>0, <2>1, StepTouches
    <3>2. CASE UNCHANGED result
      BY <3>1, <3>2
    <3>3. ASSUME NEW outcome \in {"ok", "error"}, Return(c, outcome)
          PROVE  [Port!PNext]_(Port!pvars)
      <4>2. result[c] = "none" /\ result' = [result EXCEPT ![c] = outcome]
        <5>1. pc[c] # "done"
          BY <2>1 DEF Step, Call, RunCommand, Pause, ApplyPolicy, CommandEnds,
             Poll, List, Sleep
        <5> QED
          BY <2>0, <3>3, <5>1 DEF CallsFit, CallFits, Return
      <4>3. outcome = "ok" => c \in took \/ call[c].op \in {"stop", "start"}
        <5>1. CallFits(c)'
          BY <2>0, NextCalls DEF CallsFit
        <5>2. result'[c] = outcome
          BY <2>0, <4>2 DEF TypeOK
        <5>3. outcome = "ok" => proc'[c] = "ok" \/ call'[c].op \in {"stop", "start"}
          BY <5>1, <5>2 DEF CallFits
        <5> QED
          BY <3>1, <5>3 DEF Acted
      <4>4. Port!Answer(c)
        BY <3>1, <4>2, <4>3 DEF Port!Answer, Port!NoEffect
      <4> QED
        BY <4>4 DEF Port!PNext
    <3> QED
      BY <2>1, <3>2, <3>3, StepAnswers
  <2>2. ASSUME NEW c \in Calls, Act(c) PROVE [Port!PNext]_(Port!pvars)
    <3>1. c \notin took /\ took' = took \cup {c} /\ result[c] = "none"
      <4>1. proc[c] = "running" /\ proc' = [proc EXCEPT ![c] = "acted"]
        BY <2>2 DEF Act
      <4>2. proc \in [Calls -> {"none", "running"} \cup Acted \cup Exited]
        BY <2>0 DEF TypeOK
      <4>3. result[c] = "none"
        BY <2>0, <4>1 DEF CallsFit, CallFits
      <4> QED
        BY <4>1, <4>2, <4>3 DEF Acted
    <3>2. call[c].name \in Names
      BY <2>0 DEF TypeOK, Kinds
    <3>3. call' = call /\ result' = result
      BY <2>2 DEF Act
    <3>6. \A x : box' = [box EXCEPT ![call[c].name] = x]
                    => boxes' = [boxes EXCEPT ![call[c].name] = x.by]
      BY <2>0, <3>2 DEF TypeOK
    <3>4. CASE call[c].op = "create"
      <4>1. /\ boxes[call[c].name] = Nobody
            /\ boxes' = [boxes EXCEPT ![call[c].name] = c]
        <5> DEFINE x == [by |-> c, ready |-> FALSE]
        <5>1. box[call[c].name].by = Nobody /\ box' = [box EXCEPT ![call[c].name] = x]
          BY <2>2, <3>4 DEF Act
        <5>2. x.by = c
          OBVIOUS
        <5> HIDE DEF x
        <5> QED
          BY <3>2, <3>6, <5>1, <5>2
      <4>2. Port!TakeEffect(c)
        BY <3>1, <3>3, <3>4, <4>1 DEF Port!TakeEffect
      <4> QED
        BY <4>2 DEF Port!PNext
    <3>5. CASE call[c].op = "destroy"
      <4>1. /\ boxes[call[c].name] # Nobody
            /\ boxes' = [boxes EXCEPT ![call[c].name] = Nobody]
        <5>1. box[call[c].name].by # Nobody /\ box' = [box EXCEPT ![call[c].name] = NoBox]
          BY <2>2, <3>5 DEF Act
        <5>2. NoBox.by = Nobody
          BY DEF NoBox
        <5> QED
          BY <3>2, <3>6, <5>1, <5>2
      <4>2. Port!TakeEffect(c)
        BY <3>1, <3>3, <3>5, <4>1 DEF Port!TakeEffect
      <4> QED
        BY <4>2 DEF Port!PNext
    <3> QED
      BY <2>2, <3>4, <3>5 DEF Act
  <2>3. ASSUME NEW c \in Calls, Exit(c) PROVE UNCHANGED Port!pvars
    <3>1. took' = took
      BY <2>0, <2>3 DEF Exit, TypeOK, Acted
    <3> QED
      BY <2>3, <3>1 DEF Exit
  <2>4. ASSUME NEW n \in Names, Turn(n) PROVE UNCHANGED Port!pvars
    <3>1. boxes' = boxes
      BY <2>0, <2>4 DEF Turn, TypeOK, Boxes
    <3> QED
      BY <2>4, <3>1 DEF Turn
  <2>5. CASE (\E c \in Calls : Expire(c) \/ Show(c)) \/ Crash \/ UNCHANGED vars
    BY <2>5 DEF Expire, Show, Crash, vars
  <2> QED
    BY <2>1, <2>2, <2>3, <2>4, <2>5 DEF Next, Finished
<1> QED
  BY <1>1, <1>2, Invariance, PTL DEF Spec, PortSpec, Port!PSpec

=============================================================================
