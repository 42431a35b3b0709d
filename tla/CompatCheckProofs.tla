------------------------- MODULE CompatCheckProofs -------------------------
(***************************************************************************)
(* Proofs about CompatCheck, for any number of checks at once, any number  *)
(* of seconds and quick checks.  The argument: a sandbox in the gateway is *)
(* there through a creation that made it and whose own deletion, if it    *)
(* was started at all, has not undone it; the handler starts it whenever   *)
(* it knows of the creation.                                               *)
(***************************************************************************)
EXTENDS CompatCheck, TLAPS

(* What the handler knows of its processes, at each of its points. *)
ProcessesFit(r) ==
    /\ pc[r] \in {"idle", "quick", "launch"} => creator[r] = "none"
    /\ pc[r] \in {"idle", "quick", "launch", "create"} => ~created[r]
    /\ pc[r] \in {"poll", "list"} => created[r]
    /\ created[r] => creator[r] = "ok"
    /\ deleter[r] # "none" => created[r]
    /\ created[r] /\ pc[r] \in {"delete", "finish", "done"} => deleter[r] # "none"

(* A test sandbox has a creator that has not undone its work. *)
BoxHeld(n) ==
    box[n] # "absent" =>
        \E r \in Requests :
            test[r] = n /\ creator[r] \in {"ok", "broken"} /\ deleter[r] # "ok"

Early == {"idle", "quick", "launch", "create", "poll", "list"}

(* The report so far: the quick checks, as they end, until the lifecycle   *)
(* check joins.                                                            *)
ReportFits(r) ==
    /\ pc[r] \in Early => status[r] = "unknown"
    /\ pc[r] \in {"cleanup", "delete", "finish"} => status[r] # "unknown"
    /\ pc[r] \in {"idle", "quick"} => report[r].overall = "unknown"
    /\ pc[r] = "idle" => Counted(report[r]) = 0
    /\ pc[r] \notin {"idle", "quick"} =>
          /\ Counted(report[r]) = Checks + (IF pc[r] = "done" /\ status[r] # "unknown" THEN 1 ELSE 0)
          /\ report[r].overall = "ok" <=> report[r].fail = 0
          /\ report[r].overall # "unknown"

IInv ==
    /\ TypeOK
    /\ \A r \in Requests : ProcessesFit(r) /\ ReportFits(r)
    /\ \A n \in Names : BoxHeld(n)

-----------------------------------------------------------------------------
(* The verdicts and counts of one answer. *)

(* The quick checks give a verdict, which is "ok" exactly without failure. *)
LEMMA OverallIs ==
    ASSUME NEW passed \in Nat, NEW failed \in Nat
    PROVE  /\ Overall(passed, failed) \in {"ok", "degraded", "fail"}
           /\ Overall(passed, failed) = "ok" <=> failed = 0
BY DEF Overall

(* The lifecycle check is counted once, and only its failure changes the   *)
(* verdict.                                                                *)
LEMMA JoinedIs ==
    ASSUME NEW s \in Reports, NEW verdict \in Statuses \ {"unknown"}
    PROVE  /\ Joined(s, verdict) \in Reports
           /\ Joined(s, verdict).ok + Joined(s, verdict).warn + Joined(s, verdict).fail
                = s.ok + s.warn + s.fail + 1
           /\ Joined(s, verdict).fail = s.fail + (IF verdict = "fail" THEN 1 ELSE 0)
           /\ Joined(s, verdict).overall
                = IF verdict = "fail" THEN "degraded" ELSE s.overall
<1> DEFINE o == IF verdict = "fail" THEN "degraded" ELSE s.overall
           n == s[verdict] + 1
           j == Joined(s, verdict)
<1>1. verdict \in {"ok", "warn", "fail"}
  BY DEF Statuses
<1>2. j \in Reports
  <2>1. n \in Nat
    BY <1>1 DEF Reports
  <2>2. o \in Statuses \cup {"degraded"}
    BY DEF Reports
  <2>3. j = [[s EXCEPT ![verdict] = n] EXCEPT !.overall = o]
    BY DEF Joined
  <2> HIDE DEF o, n, j
  <2> QED
    BY <1>1, <2>1, <2>2, <2>3 DEF Reports
<1>3. /\ j.ok = s.ok + (IF verdict = "ok" THEN 1 ELSE 0)
      /\ j.warn = s.warn + (IF verdict = "warn" THEN 1 ELSE 0)
      /\ j.fail = s.fail + (IF verdict = "fail" THEN 1 ELSE 0)
      /\ j.overall = o
  <2>1. CASE verdict = "ok"
    BY <2>1 DEF Joined, Reports
  <2>2. CASE verdict = "warn"
    BY <2>2 DEF Joined, Reports
  <2>3. CASE verdict = "fail"
    BY <2>3 DEF Joined, Reports
  <2> QED
    BY <1>1, <2>1, <2>2, <2>3
<1> HIDE DEF j
<1> QED
  <2>1. s.ok \in Nat /\ s.warn \in Nat /\ s.fail \in Nat
    BY DEF Reports
  <2>2. j.ok + j.warn + j.fail = s.ok + s.warn + s.fail + 1
    BY <1>1, <1>3, <2>1
  <2> QED
    BY <1>2, <1>3, <2>2 DEF j

-----------------------------------------------------------------------------
(* The invariant *)

(* It holds at first. *)
LEMMA InitInv == Init => IInv
<1> SUFFICES ASSUME Init PROVE IInv
  OBVIOUS
<1>1. TypeOK
  BY CompatAssumption DEF Init, TypeOK, Names, Process, Statuses, Reports
<1>2. ASSUME NEW r \in Requests PROVE ProcessesFit(r) /\ ReportFits(r)
  BY DEF Init, ProcessesFit, ReportFits, Early, Counted
<1>3. ASSUME NEW n \in Names PROVE BoxHeld(n)
  BY DEF Init, BoxHeld
<1> QED
  BY <1>1, <1>2, <1>3 DEF IInv

(* A quick check that ends is counted once. *)
LEMMA QuickCounts ==
    ASSUME NEW r \in Requests, QuickCheck(r), TypeOK
    PROVE  \E s \in Reports :
              /\ report' = [report EXCEPT ![r] = s]
              /\ s.overall = report[r].overall
<1>1. PICK verdict \in {"ok", "warn", "fail"} :
        report' = [report EXCEPT ![r][verdict] = report[r][verdict] + 1]
  BY DEF QuickCheck
<1> DEFINE n == report[r][verdict] + 1
           s == [report[r] EXCEPT ![verdict] = n]
<1>2. report[r] \in Reports
  BY DEF TypeOK
<1>3. n \in Nat
  BY <1>1, <1>2 DEF Reports
<1> HIDE DEF n
<1>4. s \in Reports /\ s.overall = report[r].overall
  BY <1>1, <1>2, <1>3 DEF Reports
<1>5. report' = [report EXCEPT ![r] = s]
  BY <1>1, <1>2 DEF n, TypeOK
<1> HIDE DEF s
<1> QED
  BY <1>4, <1>5

(* When all have ended, the counts stay and the verdict fits them. *)
LEMMA QuickReport ==
    ASSUME NEW r \in Requests, QuickDone(r), TypeOK
    PROVE  \E s \in Reports :
              /\ report' = [report EXCEPT ![r] = s]
              /\ Counted(s) = Checks
              /\ s.overall = "ok" <=> s.fail = 0
              /\ s.overall # "unknown"
              /\ pc' = [pc EXCEPT ![r] = IF s.overall = "fail" THEN "done" ELSE "launch"]
<1> DEFINE overall == Overall(report[r].ok, report[r].fail)
           s == [report[r] EXCEPT !.overall = overall]
<1>1. report[r] \in Reports /\ Counted(report[r]) = Checks
  BY DEF TypeOK, QuickDone
<1>2. overall \in {"ok", "degraded", "fail"} /\ (overall = "ok" <=> report[r].fail = 0)
  BY <1>1, OverallIs DEF Reports
<1>3. /\ report' = [report EXCEPT ![r].overall = overall]
      /\ pc' = [pc EXCEPT ![r] = IF overall = "fail" THEN "done" ELSE "launch"]
  BY DEF QuickDone, Goto
<1> HIDE DEF overall
<1>4. /\ s \in Reports /\ s.overall = overall
      /\ s.ok = report[r].ok /\ s.warn = report[r].warn /\ s.fail = report[r].fail
  BY <1>1, <1>2 DEF Reports, Statuses
<1>5. report' = [report EXCEPT ![r] = s]
  BY <1>3 DEF TypeOK
<1>6. Counted(s) = Checks
  BY <1>1, <1>4 DEF Counted
<1> HIDE DEF s
<1> QED
  BY <1>2, <1>3, <1>4, <1>5, <1>6

(* Every step keeps the types. *)
LEMMA NextType == IInv /\ [Next]_vars => TypeOK'
<1> SUFFICES ASSUME IInv, [Next]_vars PROVE TypeOK'
  OBVIOUS
<1> USE DEF TypeOK
<1>0. TypeOK /\ \A r \in Requests : ProcessesFit(r) /\ ReportFits(r)
  BY DEF IInv
<1>10. ASSUME NEW r \in Requests, Start(r) PROVE TypeOK'
  BY <1>0, <1>10 DEF Start, Goto
<1>11. ASSUME NEW r \in Requests, QuickCheck(r) PROVE TypeOK'
  <2>1. PICK s \in Reports : report' = [report EXCEPT ![r] = s]
    BY <1>0, <1>11, QuickCounts
  <2>2. pc' = pc /\ pc[r] = "quick"
    BY <1>11 DEF QuickCheck
  <2>3. report' \in [Requests -> Reports]
    BY <1>0, <2>1
  <2>4. \A q \in Requests : pc'[q] = "done" => report'[q].overall # "unknown"
    BY <1>0, <2>1, <2>2
  <2> QED
    BY <1>0, <1>11, <2>2, <2>3, <2>4 DEF QuickCheck
<1>1. ASSUME NEW r \in Requests, QuickDone(r) PROVE TypeOK'
  <2>1. PICK s \in Reports :
          /\ report' = [report EXCEPT ![r] = s]
          /\ s.overall # "unknown"
          /\ pc' = [pc EXCEPT ![r] = IF s.overall = "fail" THEN "done" ELSE "launch"]
    BY <1>0, <1>1, QuickReport
  <2> QED
    BY <1>0, <1>1, <2>1 DEF QuickDone
<1>2. ASSUME NEW r \in Requests, Finish(r) PROVE TypeOK'
  <2>1. status[r] \in Statuses \ {"unknown"} /\ report[r] \in Reports
    BY <1>0, <1>2 DEF Finish, ReportFits
  <2>2. /\ report' = [report EXCEPT ![r] = Joined(report[r], status[r])]
        /\ pc' = [pc EXCEPT ![r] = "done"]
    BY <1>2 DEF Finish, Goto
  <2>3. report[r].overall # "unknown"
    BY <1>0, <1>2 DEF Finish, ReportFits
  <2>4. /\ Joined(report[r], status[r]) \in Reports
        /\ Joined(report[r], status[r]).overall # "unknown"
    BY <2>1, <2>3, JoinedIs
  <2> QED
    BY <1>0, <1>2, <2>2, <2>4 DEF Finish
<1>3. ASSUME NEW r \in Requests, Launch(r) \/ Expire(r) PROVE TypeOK'
  <2>1. pc' \in {pc, [pc EXCEPT ![r] = "create"]}
    BY <1>3 DEF Launch, Expire, Goto
  <2>2. test' \in {test, [test EXCEPT ![r] = clock]}
    BY <1>3 DEF Launch, Expire
  <2>3. creator' \in {creator, [creator EXCEPT ![r] = "running"]}
    BY <1>3 DEF Launch, Expire
  <2>4. expired' = expired \/ expired' = [expired EXCEPT ![r] = TRUE]
    BY <1>3 DEF Launch, Expire
  <2>5. UNCHANGED <<clock, box, deleter, created, status, report>>
    BY <1>3 DEF Launch, Expire
  <2>6. \A q \in Requests : pc'[q] = "done" => pc[q] = "done"
    BY <1>0, <2>1
  <2>7. test' \in [Requests -> Names]
    BY <1>0, <2>2
  <2>9. expired' \in [Requests -> BOOLEAN]
    BY <1>0, <2>4
  <2>8. creator' \in [Requests -> Process]
    BY <1>0, <2>3 DEF Process
  <2> QED
    BY <1>0, <2>1, <2>5, <2>6, <2>7, <2>8, <2>9
<1>9. ASSUME NEW r \in Requests, CreateReturns(r) \/ Poll(r) \/ ListReturns(r)
      PROVE  TypeOK'
  <2>1. \E l \in {"poll", "cleanup", "list"} : pc' = [pc EXCEPT ![r] = l]
    BY <1>9, Zenon DEF CreateReturns, Poll, ListReturns, Goto
  <2>2. \/ status' = status
        \/ \E v \in {"ok", "warn", "fail"} : status' = [status EXCEPT ![r] = v]
    BY <1>9, Zenon DEF CreateReturns, Poll, ListReturns, Conclude
  <2>3. created' = created \/ created' = [created EXCEPT ![r] = TRUE]
    BY <1>9 DEF CreateReturns, Poll, ListReturns
  <2>4. UNCHANGED <<clock, box, test, creator, deleter, expired, report>>
    BY <1>9 DEF CreateReturns, Poll, ListReturns
  <2>5. \A q \in Requests : pc'[q] = "done" => pc[q] = "done"
    BY <1>0, <2>1
  <2>6. status' \in [Requests -> Statuses]
    BY <1>0, <2>2 DEF Statuses
  <2>7. created' \in [Requests -> BOOLEAN]
    BY <1>0, <2>3
  <2> QED
    BY <1>0, <2>1, <2>4, <2>5, <2>6, <2>7
<1>4. ASSUME NEW r \in Requests, Cleanup(r) \/ DeleteReturns(r) PROVE TypeOK'
  BY <1>0, <1>4 DEF Cleanup, DeleteReturns, Goto, Process
<1>5. ASSUME NEW r \in Requests, CreateRuns(r) \/ DeleteRuns(r) PROVE TypeOK'
  BY <1>0, <1>5 DEF CreateRuns, DeleteRuns, Process
<1>6. ASSUME NEW n \in Names, BecomesReady(n) PROVE TypeOK'
  BY <1>0, <1>6 DEF BecomesReady
<1>7. CASE Tick
  BY <1>0, <1>7, CompatAssumption DEF Tick, Names
<1>8. CASE UNCHANGED vars
  BY <1>0, <1>8 DEF vars
<1> QED
  BY <1>1, <1>2, <1>3, <1>4, <1>5, <1>6, <1>7, <1>8, <1>9, <1>10, <1>11
     DEF Next, Step, Finished

(* Every step keeps what the handlers know of their processes. *)
LEMMA NextProcesses ==
    ASSUME IInv, [Next]_vars, NEW q \in Requests PROVE ProcessesFit(q)'
<1> USE DEF ProcessesFit
<1>0. TypeOK /\ ProcessesFit(q) /\ \A r \in Requests : ProcessesFit(r)
  BY DEF IInv
<1>8. ASSUME NEW r \in Requests, Start(r) \/ QuickCheck(r) PROVE ProcessesFit(q)'
  BY <1>0, <1>8 DEF Start, QuickCheck, Goto, TypeOK
<1>1. ASSUME NEW r \in Requests, QuickDone(r) PROVE ProcessesFit(q)'
  <2>1. PICK s \in Reports :
          pc' = [pc EXCEPT ![r] = IF s.overall = "fail" THEN "done" ELSE "launch"]
    BY <1>0, <1>1, QuickReport
  <2> QED
    BY <1>0, <1>1, <2>1 DEF QuickDone, TypeOK
<1>2. ASSUME NEW r \in Requests, Finish(r) \/ Launch(r) \/ CreateReturns(r)
      PROVE  ProcessesFit(q)'
  BY <1>0, <1>2 DEF Finish, Launch, CreateReturns, Goto, Conclude, TypeOK
<1>3. ASSUME NEW r \in Requests, Poll(r) \/ ListReturns(r) \/ Expire(r)
      PROVE  ProcessesFit(q)'
  BY <1>0, <1>3 DEF Poll, ListReturns, Expire, Goto, Conclude, TypeOK
<1>4. ASSUME NEW r \in Requests, Cleanup(r) \/ DeleteReturns(r) PROVE ProcessesFit(q)'
  BY <1>0, <1>4 DEF Cleanup, DeleteReturns, Goto, TypeOK
<1>5. ASSUME NEW r \in Requests, CreateRuns(r) \/ DeleteRuns(r) PROVE ProcessesFit(q)'
  BY <1>0, <1>5 DEF CreateRuns, DeleteRuns, TypeOK
<1>6. ASSUME NEW n \in Names, BecomesReady(n) PROVE ProcessesFit(q)'
  BY <1>0, <1>6 DEF BecomesReady
<1>7. CASE Tick \/ UNCHANGED vars
  BY <1>0, <1>7 DEF Tick, vars
<1> QED
  BY <1>1, <1>2, <1>3, <1>4, <1>5, <1>6, <1>7, <1>8 DEF Next, Step, Finished

(* Every step keeps the reports in line with where the handlers are. *)
LEMMA NextReports ==
    ASSUME IInv, [Next]_vars, NEW q \in Requests PROVE ReportFits(q)'
<1> USE DEF ReportFits, Early
<1>0. TypeOK /\ ReportFits(q) /\ \A r \in Requests : ReportFits(r)
  BY DEF IInv
<1>9. ASSUME NEW r \in Requests, Start(r) PROVE ReportFits(q)'
  BY <1>0, <1>9 DEF Start, Goto, TypeOK
<1>10. ASSUME NEW r \in Requests, QuickCheck(r) PROVE ReportFits(q)'
  <2>1. PICK s \in Reports :
          /\ report' = [report EXCEPT ![r] = s]
          /\ s.overall = report[r].overall
    BY <1>0, <1>10, QuickCounts
  <2>2. pc[r] = "quick" /\ UNCHANGED <<pc, status>>
    BY <1>10 DEF QuickCheck
  <2>3. report[r].overall = "unknown"
    BY <1>0, <2>2
  <2>4. CASE q = r
    BY <1>0, <2>1, <2>2, <2>3, <2>4 DEF TypeOK
  <2>5. CASE q # r
    BY <1>0, <2>1, <2>2, <2>5 DEF TypeOK
  <2> QED
    BY <2>4, <2>5
<1>1. ASSUME NEW r \in Requests, QuickDone(r) PROVE ReportFits(q)'
  <2>1. PICK s \in Reports :
          /\ report' = [report EXCEPT ![r] = s]
          /\ Counted(s) = Checks
          /\ s.overall = "ok" <=> s.fail = 0
          /\ s.overall # "unknown"
          /\ pc' = [pc EXCEPT ![r] = IF s.overall = "fail" THEN "done" ELSE "launch"]
    BY <1>0, <1>1, QuickReport
  <2>2. pc[r] = "quick" /\ UNCHANGED status
    BY <1>1 DEF QuickDone
  <2>3. CASE q = r
    BY <1>0, <2>1, <2>2, <2>3, CompatAssumption DEF TypeOK
  <2>4. CASE q # r
    BY <1>0, <2>1, <2>2, <2>4 DEF TypeOK
  <2> QED
    BY <2>3, <2>4
<1>2. ASSUME NEW r \in Requests, Finish(r) PROVE ReportFits(q)'
  <2>1. status[r] \in Statuses \ {"unknown"} /\ report[r] \in Reports /\ pc[r] = "finish"
    BY <1>0, <1>2 DEF Finish, TypeOK
  <2>2. /\ report' = [report EXCEPT ![r] = Joined(report[r], status[r])]
        /\ pc' = [pc EXCEPT ![r] = "done"]
        /\ status' = status
    BY <1>2 DEF Finish, Goto
  <2>3. CASE q = r
    <3> DEFINE s == report[r]
               j == Joined(s, status[r])
    <3>1. report'[q] = j /\ pc'[q] = "done"
      BY <2>2, <2>3, <1>0 DEF TypeOK
    <3>2. /\ Counted(j) = Counted(s) + 1
          /\ j.fail = s.fail + (IF status[r] = "fail" THEN 1 ELSE 0)
          /\ j.overall = IF status[r] = "fail" THEN "degraded" ELSE s.overall
      BY <2>1, JoinedIs DEF Counted
    <3>3. /\ Counted(s) = Checks
          /\ s.overall = "ok" <=> s.fail = 0
          /\ s.overall # "unknown"
          /\ s.fail \in Nat
      BY <1>0, <2>1, CompatAssumption DEF Reports
    <3> HIDE DEF s, j
    <3> QED
      BY <3>1, <3>2, <3>3, <2>1, <2>2, <2>3, CompatAssumption
  <2>4. CASE q # r
    BY <1>0, <2>2, <2>4 DEF TypeOK
  <2> QED
    BY <2>3, <2>4
<1>3. ASSUME NEW r \in Requests, Launch(r) \/ Expire(r) PROVE ReportFits(q)'
  BY <1>0, <1>3 DEF Launch, Expire, Goto, TypeOK
<1>8. ASSUME NEW r \in Requests, CreateReturns(r) \/ Poll(r) \/ ListReturns(r)
      PROVE  ReportFits(q)'
  <2>1. \/ /\ pc' \in {[pc EXCEPT ![r] = "poll"], [pc EXCEPT ![r] = "list"]}
           /\ status' = status
        \/ /\ pc' = [pc EXCEPT ![r] = "cleanup"]
           /\ \E v \in {"ok", "warn", "fail"} : status' = [status EXCEPT ![r] = v]
    BY <1>8, Zenon DEF CreateReturns, Poll, ListReturns, Goto, Conclude
  <2>2. report' = report /\ pc[r] \in {"create", "poll", "list"}
    BY <1>8 DEF CreateReturns, Poll, ListReturns
  <2> QED
    BY <1>0, <2>1, <2>2 DEF TypeOK
<1>4. ASSUME NEW r \in Requests, Cleanup(r) \/ DeleteReturns(r) PROVE ReportFits(q)'
  BY <1>0, <1>4 DEF Cleanup, DeleteReturns, Goto, TypeOK
<1>5. ASSUME NEW r \in Requests, CreateRuns(r) \/ DeleteRuns(r) PROVE ReportFits(q)'
  BY <1>0, <1>5 DEF CreateRuns, DeleteRuns
<1>6. ASSUME NEW n \in Names, BecomesReady(n) PROVE ReportFits(q)'
  BY <1>0, <1>6 DEF BecomesReady
<1>7. CASE Tick \/ UNCHANGED vars
  BY <1>0, <1>7 DEF Tick, vars
<1> QED
  BY <1>1, <1>2, <1>3, <1>4, <1>5, <1>6, <1>7, <1>8, <1>9, <1>10 DEF Next, Step, Finished

(* Every step leaves the sandboxes that remain a creator of theirs. *)
LEMMA NextBoxes ==
    ASSUME IInv, [Next]_vars, NEW n \in Names PROVE BoxHeld(n)'
<1> USE DEF BoxHeld
<1>0. TypeOK /\ BoxHeld(n) /\ \A r \in Requests : ProcessesFit(r)
  BY DEF IInv
<1>1. ASSUME NEW r \in Requests, Start(r) \/ QuickCheck(r) \/ QuickDone(r) \/ Finish(r)
                                 \/ CreateReturns(r) \/ Poll(r)
                                 \/ ListReturns(r) \/ Expire(r) \/ DeleteReturns(r)
      PROVE  BoxHeld(n)'
  BY <1>0, <1>1 DEF Start, QuickCheck, QuickDone, Finish, CreateReturns, Poll,
                      ListReturns, Expire, DeleteReturns
<1>2. ASSUME NEW r \in Requests, Launch(r) PROVE BoxHeld(n)'
  BY <1>0, <1>2 DEF Launch, ProcessesFit, TypeOK
<1>3. ASSUME NEW r \in Requests, Cleanup(r) PROVE BoxHeld(n)'
  BY <1>0, <1>3 DEF Cleanup, TypeOK
<1>4. ASSUME NEW r \in Requests, CreateRuns(r) PROVE BoxHeld(n)'
  <2>1. deleter[r] # "ok"
    BY <1>0, <1>4 DEF CreateRuns, ProcessesFit
  <2> QED
    BY <1>0, <1>4, <2>1 DEF CreateRuns, TypeOK
<1>5. ASSUME NEW r \in Requests, DeleteRuns(r) PROVE BoxHeld(n)'
  BY <1>0, <1>5 DEF DeleteRuns, TypeOK
<1>6. ASSUME NEW m \in Names, BecomesReady(m) PROVE BoxHeld(n)'
  BY <1>0, <1>6 DEF BecomesReady, TypeOK
<1>7. CASE Tick \/ UNCHANGED vars
  BY <1>0, <1>7 DEF Tick, vars
<1> QED
  BY <1>1, <1>2, <1>3, <1>4, <1>5, <1>6, <1>7 DEF Next, Step, Finished

-----------------------------------------------------------------------------
(* The results *)

(* Types are kept, what the handlers know of their processes is true, and  *)
(* a test sandbox in the gateway has a creator that did not undo its work. *)
THEOREM Invariance == Spec => []IInv
<1>1. IInv /\ [Next]_vars => IInv'
  BY NextType, NextProcesses, NextReports, NextBoxes DEF IInv, Names
<1> QED
  BY InitInv, <1>1, PTL DEF Spec

(* Every variable keeps its type, and every answer has a verdict. *)
THEOREM Typing == Spec => []TypeOK
<1>1. IInv => TypeOK
  BY DEF IInv
<1> QED
  BY <1>1, Invariance, PTL

(* A test sandbox that nobody is working on any more is left over from a   *)
(* creation that failed or was given up and made it all the same, or its   *)
(* deletion failed.                                                        *)
THEOREM LeftoversExplained == Spec => []LeftoverExplained
<1>1. IInv => LeftoverExplained
  <2> SUFFICES ASSUME IInv,
                      \A r \in Requests : pc[r] = "idle" \/ Quiet(r),
                      NEW n \in Names, box[n] # "absent"
               PROVE  \E r \in Requests :
                         /\ test[r] = n
                         /\ \/ creator[r] = "broken"
                            \/ creator[r] = "ok" /\ ~created[r]
                            \/ deleter[r] = "failed"
    BY DEF LeftoverExplained
  <2>1. PICK r \in Requests :
          test[r] = n /\ creator[r] \in {"ok", "broken"} /\ deleter[r] # "ok"
    BY DEF IInv, BoxHeld
  <2>2. ProcessesFit(r) /\ deleter[r] \in Process \ {"broken"}
    BY DEF IInv, TypeOK
  <2>3. created[r] => deleter[r] = "failed"
    BY <2>1, <2>2 DEF ProcessesFit, Quiet, Process
  <2> QED
    BY <2>1, <2>3
<1> QED
  BY <1>1, Invariance, PTL

(* The answer counts every check once, and says "ok" exactly when none of  *)
(* them failed.                                                            *)
THEOREM ReportsAgree == Spec => []ReportConsistent
<1>1. IInv => ReportConsistent
  BY DEF IInv, ReportFits, ReportConsistent
<1> QED
  BY <1>1, Invariance, PTL

=============================================================================
