----------------------------- MODULE MCSandbox -----------------------------
(* Instances of SandboxService for TLC, on a backend whose names are made  *)
(* as BackendNames has it, with prefixes of two characters.                *)
EXTENDS SandboxService, BackendNames, TLC

PlanLimits == [globex |-> 1, initech |-> 1, glob2 |-> 2]

(* globex and Glob-2 have one prefix. *)
TenantId ==
    [globex |-> <<"g", "l", "o">>, initech |-> <<"i", "n", "i">>, glob2 |-> <<"G", "l", "2">>]

SandboxName ==
    [dev |-> <<"d", "e", "v">>, ops |-> <<"o", "p", "s">>]

ThirteenPlain == {"b", "d", "e", "g", "i", "l", "n", "o", "p", "s", "t", "v", "2"}
SomeCharacters == ThirteenPlain \cup {"G", "_", "-"}
LowerCase == [ch \in SomeCharacters |-> IF ch = "G" THEN "g" ELSE ch]

MadeNames ==
    [slot \in Tenants \X Names |-> BackendName(TenantId[slot[1]], SandboxName[slot[2]])]

(* Requests are interchangeable until they arrive: every behaviour is, but *)
(* for the numbers of its requests, one in which they arrive in order.     *)
InOrder == \A r, s \in Requests : r < s /\ pc[s] # "idle" => pc[r] # "idle"

NextInOrder == Next /\ InOrder'

FairSpecInOrder == Init /\ [][NextInOrder]_vars /\ Fairness

RequestSymmetry == Permutations(Requests)

=============================================================================
