----------------------------- MODULE CompatCheck -----------------------------
(***************************************************************************)
(* GET /admin/compatibility/full: the quick checks, then one test sandbox  *)
(* created, waited for and deleted with the openshell command line.        *)
(*                                                                         *)
(* A command is a process of its own.  asyncio.wait_for gives up waiting   *)
(* for it and does not kill it, so it may still do its work afterwards.    *)
(* Several administrators may run the check at once; they share nothing    *)
(* but the gateway's sandboxes, whose test names are the second of the     *)
(* clock.                                                                  *)
(***************************************************************************)
EXTENDS Naturals

CONSTANTS Requests,    \* calls of the endpoint; each runs once
          Checks,      \* how many quick checks there are
          MaxClock,    \* bound: the seconds the model distinguishes
          OtherReady   \* whether a sandbox that is not a test's is Ready

ASSUME CompatAssumption ==
    /\ Checks \in Nat \ {0}
    /\ MaxClock \in Nat
    /\ OtherReady \in BOOLEAN

VARIABLES clock,    \* int(time.time())
          box,      \* the gateway's test sandboxes by name
          pc,       \* where each request is
          test,     \* test_name
          creator,  \* the process of "sandbox create"; "broken" is one that
                    \* registered its sandbox and then failed
          deleter,  \* the process of "sandbox delete"
          created,  \* the local variable of that name
          expired,  \* the 60 seconds are over
          status,   \* of the lifecycle check
          report    \* what is answered: the summary and the overall verdict

vars == <<clock, box, pc, test, creator, deleter, created, expired, status, report>>

Names == 0 .. MaxClock
Statuses == {"unknown", "ok", "warn", "fail"}
Process == {"none", "running", "ok", "failed", "broken"}
Reports == [ok : Nat, warn : Nat, fail : Nat, overall : Statuses \cup {"degraded"}]

TypeOK ==
    /\ clock \in Names
    /\ box \in [Names -> {"absent", "pending", "ready"}]
    /\ pc \in [Requests -> {"idle", "quick", "launch", "create", "poll", "list", "cleanup",
                            "delete", "finish", "done"}]
    /\ test \in [Requests -> Names]
    /\ creator \in [Requests -> Process]
    /\ deleter \in [Requests -> Process \ {"broken"}]
    /\ created \in [Requests -> BOOLEAN]
    /\ expired \in [Requests -> BOOLEAN]
    /\ status \in [Requests -> Statuses]
    /\ report \in [Requests -> Reports]
    /\ \A r \in Requests : pc[r] = "done" => report[r].overall # "unknown"

Init ==
    /\ clock = 0
    /\ box = [n \in Names |-> "absent"]
    /\ pc = [r \in Requests |-> "idle"]
    /\ test = [r \in Requests |-> 0]
    /\ creator = [r \in Requests |-> "none"]
    /\ deleter = [r \in Requests |-> "none"]
    /\ created = [r \in Requests |-> FALSE]
    /\ expired = [r \in Requests |-> FALSE]
    /\ status = [r \in Requests |-> "unknown"]
    /\ report = [r \in Requests |-> [ok |-> 0, warn |-> 0, fail |-> 0, overall |-> "unknown"]]

Goto(r, label) == pc' = [pc EXCEPT ![r] = label]
Conclude(r, verdict) == status' = [status EXCEPT ![r] = verdict]

-----------------------------------------------------------------------------
(* The gateway, its processes and time *)

Tick ==
    /\ clock < MaxClock
    /\ clock' = clock + 1
    /\ UNCHANGED <<box, pc, test, creator, deleter, created, expired, status, report>>

(* A name in use is refused.  Anything else may go wrong as well, before   *)
(* the sandbox is registered or after.                                     *)
CreateRuns(r) ==
    /\ creator[r] = "running"
    /\ \/ /\ box[test[r]] = "absent"
          /\ box' = [box EXCEPT ![test[r]] = "pending"]
          /\ \E result \in {"ok", "broken"} : creator' = [creator EXCEPT ![r] = result]
       \/ /\ creator' = [creator EXCEPT ![r] = "failed"]
          /\ UNCHANGED box
    /\ UNCHANGED <<clock, pc, test, deleter, created, expired, status, report>>

DeleteRuns(r) ==
    /\ deleter[r] = "running"
    /\ \/ /\ box' = [box EXCEPT ![test[r]] = "absent"]
          /\ \E result \in {"ok", "failed"} : deleter' = [deleter EXCEPT ![r] = result]
       \/ /\ deleter' = [deleter EXCEPT ![r] = "failed"]
          /\ UNCHANGED box
    /\ UNCHANGED <<clock, pc, test, creator, created, expired, status, report>>

BecomesReady(n) ==
    /\ box[n] = "pending"
    /\ box' = [box EXCEPT ![n] = "ready"]
    /\ UNCHANGED <<clock, pc, test, creator, deleter, created, expired, status, report>>

-----------------------------------------------------------------------------
(* The endpoint *)

(* The verdict on the quick checks: "fail" needs a failure and no success. *)
Overall(passed, failed) ==
    IF failed = 0 THEN "ok" ELSE IF passed > 0 THEN "degraded" ELSE "fail"

Start(r) ==
    /\ pc[r] = "idle"
    /\ Goto(r, "quick")
    /\ UNCHANGED <<clock, box, test, creator, deleter, created, expired, status, report>>

Counted(s) == s.ok + s.warn + s.fail

(* One more quick check ends; an exception is a failure.  They run one by  *)
(* one, and one of them waits for "sandbox list" without a timeout.        *)
QuickCheck(r) ==
    /\ pc[r] = "quick"
    /\ Counted(report[r]) < Checks
    /\ \E verdict \in {"ok", "warn", "fail"} :
          report' = [report EXCEPT ![r][verdict] = @ + 1]
    /\ UNCHANGED <<clock, box, pc, test, creator, deleter, created, expired, status>>

(* Only a "fail" over all of them ends the request here. *)
QuickDone(r) ==
    /\ pc[r] = "quick"
    /\ Counted(report[r]) = Checks
    /\ LET overall == Overall(report[r].ok, report[r].fail)
       IN  /\ report' = [report EXCEPT ![r].overall = overall]
           /\ Goto(r, IF overall = "fail" THEN "done" ELSE "launch")
    /\ UNCHANGED <<clock, box, test, creator, deleter, created, expired, status>>

Launch(r) ==
    /\ pc[r] = "launch"
    /\ test' = [test EXCEPT ![r] = clock]
    /\ creator' = [creator EXCEPT ![r] = "running"]
    /\ Goto(r, "create")
    /\ UNCHANGED <<clock, box, deleter, created, expired, status, report>>

(* Mutant: no timeout. *)
CreateWaits(r) ==
    /\ pc[r] = "create"
    /\ creator[r] # "running"
    /\ IF creator[r] = "ok"
       THEN created' = [created EXCEPT ![r] = TRUE] /\ Goto(r, "poll") /\ UNCHANGED status
       ELSE Conclude(r, "fail") /\ Goto(r, "cleanup") /\ UNCHANGED created
    /\ UNCHANGED <<clock, box, test, creator, deleter, expired, report>>

(* The process has ended, or the 90 seconds: the TimeoutError passes the   *)
(* finally clause, with created still False, and becomes a failure.        *)
CreateReturns(r) ==
    /\ pc[r] = "create"
    /\ \/ /\ creator[r] = "ok"
          /\ created' = [created EXCEPT ![r] = TRUE]
          /\ Goto(r, "poll")
          /\ UNCHANGED status
       \/ /\ creator[r] # "ok"
          /\ Conclude(r, "fail")
          /\ Goto(r, "cleanup")
          /\ UNCHANGED created
    /\ UNCHANGED <<clock, box, test, creator, deleter, expired, report>>

Expire(r) ==
    /\ pc[r] \in {"poll", "list"}
    /\ ~expired[r]
    /\ expired' = [expired EXCEPT ![r] = TRUE]
    /\ UNCHANGED <<clock, box, pc, test, creator, deleter, created, status, report>>

(* The head of the loop. *)
Poll(r) ==
    /\ pc[r] = "poll"
    /\ IF expired[r]
       THEN Conclude(r, "warn") /\ Goto(r, "cleanup")
       ELSE Goto(r, "list") /\ UNCHANGED status
    /\ UNCHANGED <<clock, box, test, creator, deleter, created, expired, report>>

(* "sandbox list" lists everybody's sandboxes: the test's name must be in  *)
(* the output and so must the word Ready, wherever it stands.  A list that *)
(* fails has shown nothing, and the loop goes on; an exception (the process*)
(* cannot be started) leaves it through the finally clause, as a failure.  *)
ListReturns(r) ==
    /\ pc[r] = "list"
    /\ \/ /\ box[test[r]] # "absent"
          /\ OtherReady \/ \E n \in Names : box[n] = "ready"
          /\ Conclude(r, "ok")
          /\ Goto(r, "cleanup")
       \/ /\ Goto(r, "poll")
          /\ UNCHANGED status
       \/ /\ Conclude(r, "fail")
          /\ Goto(r, "cleanup")
    /\ UNCHANGED <<clock, box, test, creator, deleter, created, expired, report>>

(* Mutant: only a sandbox that became Ready is deleted. *)
CleanupWhenReady(r) ==
    /\ pc[r] = "cleanup"
    /\ IF status[r] = "ok"
       THEN deleter' = [deleter EXCEPT ![r] = "running"] /\ Goto(r, "delete")
       ELSE Goto(r, "finish") /\ UNCHANGED deleter
    /\ UNCHANGED <<clock, box, test, creator, created, expired, status, report>>

(* The finally clause. *)
Cleanup(r) ==
    /\ pc[r] = "cleanup"
    /\ IF created[r]
       THEN deleter' = [deleter EXCEPT ![r] = "running"] /\ Goto(r, "delete")
       ELSE Goto(r, "finish") /\ UNCHANGED deleter
    /\ UNCHANGED <<clock, box, test, creator, created, expired, status, report>>

(* The process has ended, well or not, or the 30 seconds have: all ignored.*)
DeleteReturns(r) ==
    /\ pc[r] = "delete"
    /\ Goto(r, "finish")
    /\ UNCHANGED <<clock, box, test, creator, deleter, created, expired, status, report>>

(* Mutant: a failed lifecycle check leaves the verdict as it was. *)
FailureNotJoined(quick, verdict) == [quick EXCEPT ![verdict] = @ + 1]

(* Mutant: the verdict is worked out by the caller. *)
VerdictForgotten(quick, verdict) == [quick EXCEPT ![verdict] = @ + 1, !.overall = "unknown"]

(* The lifecycle check joins the report. *)
Joined(quick, verdict) ==
    [quick EXCEPT ![verdict] = @ + 1,
                  !.overall = IF verdict = "fail" THEN "degraded" ELSE @]

Finish(r) ==
    /\ pc[r] = "finish"
    /\ report' = [report EXCEPT ![r] = Joined(@, status[r])]
    /\ Goto(r, "done")
    /\ UNCHANGED <<clock, box, test, creator, deleter, created, expired, status>>

-----------------------------------------------------------------------------
Step(r) ==
    \/ QuickDone(r)
    \/ Launch(r)
    \/ CreateReturns(r)
    \/ Poll(r)
    \/ Cleanup(r)
    \/ DeleteReturns(r)
    \/ Finish(r)

Quiet(r) ==
    /\ pc[r] = "done"
    /\ creator[r] # "running"
    /\ deleter[r] # "running"

Finished ==
    /\ \A r \in Requests : Quiet(r)
    /\ UNCHANGED vars

Next ==
    \/ \E r \in Requests :
          \/ Start(r) \/ QuickCheck(r) \/ Step(r) \/ Expire(r) \/ ListReturns(r)
          \/ CreateRuns(r) \/ DeleteRuns(r)
    \/ \E n \in Names : BecomesReady(n)
    \/ Tick
    \/ Finished

Spec == Init /\ [][Next]_vars

(* The event loop runs the handler, time passes, and "sandbox list" ends,  *)
(* in the quick checks as in the loop; "create" and "delete" may hang.     *)
Fairness ==
    \A r \in Requests :
        WF_vars(Step(r)) /\ WF_vars(Expire(r)) /\ WF_vars(QuickCheck(r) \/ ListReturns(r))

FairSpec == Spec /\ Fairness

-----------------------------------------------------------------------------
(* Properties *)

(* When no check is running, a test sandbox is left in the gateway only    *)
(* where its creation failed after it had registered it, or was given up   *)
(* and succeeded after all, or where its deletion failed                   *)
(* (check_sandbox_lifecycle's finally clause), also when two checks of the *)
(* same second share a name.                                               *)
LeftoverExplained ==
    (\A r \in Requests : pc[r] = "idle" \/ Quiet(r)) =>
        \A n \in Names : box[n] # "absent" =>
            \E r \in Requests :
                /\ test[r] = n
                /\ \/ creator[r] = "broken"
                   \/ creator[r] = "ok" /\ ~created[r]
                   \/ deleter[r] = "failed"

(* The answer's verdict and counts agree: every check is counted once, and *)
(* the verdict is "ok" exactly when none failed (compatibility_full).      *)
ReportConsistent ==
    \A r \in Requests : pc[r] = "done" =>
        LET s == report[r] IN
        /\ Counted(s) = Checks + (IF status[r] = "unknown" THEN 0 ELSE 1)
        /\ s.overall = "ok" <=> s.fail = 0

(* The check comes to an end, from its first quick check on, although the  *)
(* creation and the deletion may hang (wait_for's 90 and 30 seconds).      *)
EveryCheckEnds == \A r \in Requests : pc[r] # "idle" ~> pc[r] = "done"

=============================================================================
