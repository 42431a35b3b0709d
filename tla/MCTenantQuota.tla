--------------------------- MODULE MCTenantQuota ---------------------------
(* Instances of TenantQuota for TLC. *)
EXTENDS TenantQuota

(* Plan limits shrunk, in the order of the code's: each plan differs from  *)
(* the others, enterprise is unlimited.                                    *)
OneRowQuotas ==
    [free |-> [sandboxes |-> 1], pro |-> [sandboxes |-> 2], enterprise |-> [sandboxes |-> -1]]

TwoRowQuotas ==
    [free |-> [sandboxes |-> 1, tokens |-> 1], pro |-> [sandboxes |-> 2, tokens |-> -1]]

UpAndDown  == {1, -1}
JustOne    == {1}

(* Requests differ in their number only, so a behaviour whose calls come   *)
(* in another order is this one renumbered.  (TLC's own symmetry reduction *)
(* does not go with liveness.)  Nobody reads the plan of a tenant that     *)
(* does not exist.  A GET only holds a lock for a while: one is enough.    *)
OpRank == [create |-> 0, consume |-> 8, update |-> 16, get |-> 24]

Rank(c) == OpRank[c.op] + (IF c.plan = "free" THEN 0 ELSE 4)
                        + (IF c.resource = "tokens" THEN 0 ELSE 2)
                        + (IF c.amount = 1 THEN 0 ELSE 1)

InitInOrder ==
    /\ Init
    /\ \A r, o \in Requests : r < o => Rank(call[r]) <= Rank(call[o])
    /\ \A t \in Tenants \ known : plan[t] = "free"
    /\ Cardinality({r \in Requests : call[r].op = "get"}) <= 1

SpecInOrder == InitInOrder /\ [][Next]_vars /\ \A r \in Requests : WF_vars(Step(r))

=============================================================================
