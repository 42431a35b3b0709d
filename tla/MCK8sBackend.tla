---------------------------- MODULE MCK8sBackend ----------------------------
(* Instances of K8sBackend for TLC. *)
EXTENDS K8sBackend

(* Calls differ in their number only: see MCTenantQuota.InitInOrder. *)
OpRank == [create |-> 1, destroy |-> 2, stop |-> 3, start |-> 4, policy |-> 5]

Rank(k) == 2 * OpRank[k.op] + (IF k.name = "dev" THEN 0 ELSE 1)

InitInOrder ==
    /\ Init
    /\ \A c, d \in Calls : c < d => Rank(call[c]) <= Rank(call[d])

SpecInOrder ==
    /\ InitInOrder
    /\ [][Next]_vars
    /\ \A c \in Calls : WF_vars(Step(c)) /\ WF_vars(Show(c) \/ Act(c) \/ Exit(c)) /\ WF_vars(Expire(c))

=============================================================================
