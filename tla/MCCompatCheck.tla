---------------------------- MODULE MCCompatCheck ----------------------------
(* The instance of CompatCheck for TLC: two checks, the first two seconds. *)
EXTENDS CompatCheck

CONSTANT Observed   \* the request whose quick checks may end in any way

(* A report is its own request's only, and a request that the quick checks *)
(* end is like one that never starts: the others' quick checks all pass.   *)
NextObserved ==
    /\ Next
    /\ \A r \in Requests \ {Observed} :
          pc'[r] = "quick" => report'[r].warn = 0 /\ report'[r].fail = 0

SpecObserved ==
    /\ Init
    /\ [][NextObserved]_vars
    /\ Fairness

=============================================================================
