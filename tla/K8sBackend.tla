----------------------------- MODULE K8sBackend -----------------------------
(***************************************************************************)
(* The Kubernetes adapter, K8sAdapter: its calls run the openshell command *)
(* on the host.  The command is a process of its own, which acts on the    *)
(* gateway at some moment before it exits, may be cut off from it before   *)
(* or after, and lives on when the service dies.  create then polls the    *)
(* list of sandboxes for up to 120 seconds, at intervals of 5; each list   *)
(* is a process too, and has been overtaken, maybe, when it is read.       *)
(*                                                                         *)
(* The gateway, its controller and the clock are the environment.          *)
(***************************************************************************)
EXTENDS Naturals

CONSTANTS Calls,    \* calls of the adapter, each made once
          Names,    \* backend names (_make_crd_name)
          Faults,   \* what may fail: "command", "list", "service"
          Nobody    \* the maker of a sandbox that does not exist

ASSUME BackendAssumption ==
    /\ Faults \subseteq {"command", "list", "service"}
    /\ Nobody \notin Calls

VARIABLES call,     \* the operation and the name of each call
          pc,       \* where the coroutine is
          proc,     \* the process of its command
          shown,    \* what the list a create waits for has shown it
          stale,    \* history: creates shown a sandbox that is gone since
          overdue,  \* whether the 120 seconds are over
          result,   \* whether the call has returned or raised
          box       \* the gateway's sandbox of each name

list == <<shown, stale>>
vars == <<call, pc, proc, shown, stale, overdue, result, box>>

-----------------------------------------------------------------------------
Ops   == {"create", "destroy", "stop", "start", "policy"}
Kinds == [op : Ops, name : Names]
Boxes == [by : Calls \cup {Nobody}, ready : BOOLEAN]

NoBox == [by |-> Nobody, ready |-> FALSE]

(* A process runs, acts on the gateway and exits: with 0, or with an error *)
(* without ("refused") or in spite of ("broken") having acted.             *)
Exited  == {"ok", "refused", "broken"}
Acted   == {"acted", "ok", "broken"}
Polling == {"poll", "list", "sleep"}
Waiting == {"command"} \cup Polling

TypeOK ==
    /\ call \in [Calls -> Kinds]
    /\ pc \in [Calls -> {"idle", "command", "done", "dead"} \cup Polling]
    /\ proc \in [Calls -> {"none", "running"} \cup Acted \cup Exited]
    /\ shown \in [Calls -> {"nothing", "ready", "not ready"}]
    /\ stale \in SUBSET Calls
    /\ overdue \in [Calls -> BOOLEAN]
    /\ result \in [Calls -> {"none", "ok", "error"}]
    /\ box \in [Names -> Boxes]

Init ==
    /\ call \in [Calls -> Kinds]
    /\ pc = [c \in Calls |-> "idle"]
    /\ proc = [c \in Calls |-> "none"]
    /\ shown = [c \in Calls |-> "nothing"]
    /\ stale = {}
    /\ overdue = [c \in Calls |-> FALSE]
    /\ result = [c \in Calls |-> "none"]
    /\ box = [n \in Names |-> NoBox]

Goto(c, label) ==
    /\ pc' = [pc EXCEPT ![c] = label]
    /\ UNCHANGED result

Return(c, outcome) ==
    /\ pc' = [pc EXCEPT ![c] = "done"]
    /\ result' = [result EXCEPT ![c] = outcome]

-----------------------------------------------------------------------------
(* The coroutine *)

(* create and destroy run their command. *)
RunCommand(c) ==
    /\ pc[c] = "idle"
    /\ call[c].op \in {"create", "destroy"}
    /\ proc' = [proc EXCEPT ![c] = "running"]
    /\ Goto(c, "command")
    /\ UNCHANGED <<call, list, overdue, box>>

(* stop and start only log. *)
Pause(c) ==
    /\ pc[c] = "idle"
    /\ call[c].op \in {"stop", "start"}
    /\ Return(c, "ok")
    /\ UNCHANGED <<call, list, proc, overdue, box>>

(* apply_network_policy raises in _handle_namespace: the service never     *)
(* sets the handle's namespace.                                            *)
ApplyPolicy(c) ==
    /\ pc[c] = "idle"
    /\ call[c].op = "policy"
    /\ Return(c, "error")
    /\ UNCHANGED <<call, list, proc, overdue, box>>

Call(c) == RunCommand(c) \/ Pause(c) \/ ApplyPolicy(c)

(* Mutant: the command is run with check=False. *)
Unchecked(c) == TRUE

(* _run_host raises when the command's exit code is not 0. *)
Succeeded(c) == proc[c] = "ok"

(* communicate() has seen the end of the process. *)
CommandEnds(c) ==
    /\ pc[c] = "command"
    /\ proc[c] \in Exited
    /\ \/ /\ ~Succeeded(c)
          /\ Return(c, "error")
       \/ /\ Succeeded(c)
          /\ IF call[c].op = "create" THEN Goto(c, "poll") ELSE Return(c, "ok")
    /\ UNCHANGED <<call, list, proc, overdue, box>>

(* Mutant: the deadline is not looked at. *)
PollForEver(c) ==
    /\ pc[c] = "poll"
    /\ Goto(c, "list")
    /\ UNCHANGED <<call, list, proc, overdue, box>>

(* Mutant: a create that is not ready in time returns no handle. *)
PollWithoutHandle(c) ==
    /\ pc[c] = "poll"
    /\ IF overdue[c] THEN Return(c, "no handle") ELSE Goto(c, "list")
    /\ UNCHANGED <<call, list, proc, overdue, box>>

(* The head of _wait_openshell_ready's loop.  A sandbox that is not ready  *)
(* in time is logged and create returns its handle all the same.           *)
Poll(c) ==
    /\ pc[c] = "poll"
    /\ IF overdue[c] THEN Return(c, "ok") ELSE Goto(c, "list")
    /\ UNCHANGED <<call, list, proc, overdue, box>>

(* Mutant: the list is searched for the word Ready only. *)
ReadyListed(c, others) == others \/ \E n \in Names : box[n].ready

(* The name is in the list, and the word Ready: of any sandbox, among them *)
(* those that this service has not made.                                   *)
Listed(c, others) ==
    /\ box[call[c].name].by # Nobody
    /\ others \/ \E n \in Names : box[n].ready

(* The list's process has ended, and the coroutine reads what it printed.  *)
(* A list that failed, by its exit code or an exception, is like one       *)
(* without the name.                                                       *)
List(c) ==
    /\ pc[c] = "list"
    /\ shown[c] # "nothing"
    /\ IF shown[c] = "ready" THEN Return(c, "ok") ELSE Goto(c, "sleep")
    /\ shown' = [shown EXCEPT ![c] = "nothing"]
    /\ stale' = stale \ {c}
    /\ UNCHANGED <<call, proc, overdue, box>>

Sleep(c) ==
    /\ pc[c] = "sleep"
    /\ Goto(c, "poll")
    /\ UNCHANGED <<call, list, proc, overdue, box>>

Step(c) == Call(c) \/ CommandEnds(c) \/ Poll(c) \/ List(c) \/ Sleep(c)

-----------------------------------------------------------------------------
(* The environment *)

(* The gateway answers the process of a list, or the process fails. *)
Show(c) ==
    /\ pc[c] = "list"
    /\ shown[c] = "nothing"
    /\ \E others \in BOOLEAN :
          \/ /\ Listed(c, others)
             /\ shown' = [shown EXCEPT ![c] = "ready"]
          \/ /\ ~Listed(c, others) \/ "list" \in Faults
             /\ shown' = [shown EXCEPT ![c] = "not ready"]
    /\ UNCHANGED <<call, pc, proc, stale, overdue, result, box>>

(* The gateway registers, or removes, the sandbox. *)
Act(c) ==
    LET n == call[c].name IN
    /\ proc[c] = "running"
    /\ \/ /\ call[c].op = "create"
          /\ box[n].by = Nobody
          /\ box' = [box EXCEPT ![n] = [by |-> c, ready |-> FALSE]]
          /\ UNCHANGED stale
       \/ /\ call[c].op = "destroy"
          /\ box[n].by # Nobody
          /\ box' = [box EXCEPT ![n] = NoBox]
          /\ stale' = stale \cup {d \in Calls : call[d].name = n /\ shown[d] = "ready"}
    /\ proc' = [proc EXCEPT ![c] = "acted"]
    /\ UNCHANGED <<call, pc, shown, overdue, result>>

(* A create of a taken name and a delete of a free one are refused.        *)
Exit(c) ==
    LET taken == box[call[c].name].by # Nobody IN
    /\ \/ /\ proc[c] = "running"
          /\ (call[c].op = "create") = taken \/ "command" \in Faults
          /\ proc' = [proc EXCEPT ![c] = "refused"]
       \/ /\ proc[c] = "acted"
          /\ proc' = [proc EXCEPT ![c] = "ok"]
       \/ /\ proc[c] = "acted"
          /\ "command" \in Faults
          /\ proc' = [proc EXCEPT ![c] = "broken"]
    /\ UNCHANGED <<call, list, pc, overdue, result, box>>

(* The controller starts a sandbox's pod, or the pod fails. *)
Turn(n) ==
    /\ box[n].by # Nobody
    /\ box' = [box EXCEPT ![n].ready = ~@]
    /\ UNCHANGED <<call, list, pc, proc, overdue, result>>

Expire(c) ==
    /\ pc[c] \in Polling
    /\ ~overdue[c]
    /\ overdue' = [overdue EXCEPT ![c] = TRUE]
    /\ UNCHANGED <<call, list, pc, proc, result, box>>

(* The service dies; the processes it has started go on. *)
Crash ==
    /\ "service" \in Faults
    /\ \E c \in Calls : pc[c] \in Waiting
    /\ pc' = [c \in Calls |-> IF pc[c] \in Waiting THEN "dead" ELSE pc[c]]
    /\ UNCHANGED <<call, list, proc, overdue, result, box>>

Finished ==
    /\ \A c \in Calls : pc[c] \in {"done", "dead"} /\ proc[c] \notin {"running", "acted"}
    /\ UNCHANGED vars

Next ==
    \/ \E c \in Calls : Step(c) \/ Show(c) \/ Act(c) \/ Exit(c) \/ Expire(c)
    \/ \E n \in Names : Turn(n)
    \/ Crash
    \/ Finished

Spec == Init /\ [][Next]_vars

(* The event loop runs every coroutine that can go on, and time passes.    *)
(* That a command ends is assumed: nothing in the adapter bounds it.       *)
FairSpec ==
    /\ Spec
    /\ \A c \in Calls :
          /\ WF_vars(Step(c))
          /\ WF_vars(Show(c) \/ Act(c) \/ Exit(c))
          /\ WF_vars(Expire(c))

-----------------------------------------------------------------------------
(* Properties *)

(* A sandbox whose create returned is in the gateway, made by that very    *)
(* create, until a destroy of its name acts: though the process and the    *)
(* coroutine end at different times, other calls use the same name, and    *)
(* the wait for Ready gives up silently (create's docstring: registers the *)
(* sandbox with the gateway).                                              *)
CreatedHasBox ==
    \A c \in Calls :
        call[c].op = "create" /\ result[c] = "ok" =>
            \/ box[call[c].name].by = c
            \/ \E d \in Calls : /\ call[d] = [op |-> "destroy", name |-> call[c].name]
                                /\ proc[d] \in Acted

(* What an early return tells is no older than one list: a create that     *)
(* returns before its 120 seconds are over has its name in the gateway,    *)
(* or its last list showed it and a destroy came between that list and the *)
(* return (_wait_openshell_ready).  A sandbox that is destroyed earlier in *)
(* the wait is not reported as created, unless another has its name.       *)
EarlyReturnHasBox ==
    [][\A c \in Calls :
          /\ call[c].op = "create"
          /\ result[c] = "none" /\ result'[c] = "ok"
          /\ ~overdue[c]
          => box'[call[c].name].by # Nobody \/ c \in stale]_vars

(* The adapter implements the port: one instant of effect for each call,   *)
(* which is before it returns and may come after its caller's death.       *)
Port == INSTANCE SandboxPort WITH
    boxes <- [n \in Names |-> box[n].by],
    took  <- {c \in Calls : proc[c] \in Acted}
PortSpec == Port!PSpec

(* No call waits for ever for a sandbox that does not get ready. *)
EveryCallReturns ==
    \A c \in Calls : pc[c] \in Waiting ~> pc[c] \in {"done", "dead"}

=============================================================================
