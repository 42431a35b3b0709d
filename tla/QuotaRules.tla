----------------------------- MODULE QuotaRules -----------------------------
(***************************************************************************)
(* The arithmetic of one quota row (limit, used), as the tenant service    *)
(* and its client decide it.  A limit of Unlimited (-1) is the enterprise  *)
(* plan's "no limit".                                                      *)
(***************************************************************************)
EXTENDS Integers

Unlimited == -1

(* A quota row: the two columns the decisions read. *)
QuotaRow == [limit : Int, used : Int]

(* Mutant: one too many passes the pre-check. *)
ExceededPast(q) == q.limit # Unlimited /\ q.used > q.limit

(* The client's pre-check refuses when the row is already full. *)
Exceeded(q) == q.limit # Unlimited /\ q.used >= q.limit

(* Mutant: the amount asked for is not added before the comparison. *)
OverdrawsBefore(q, amount) ==
    amount > 0 /\ q.limit # Unlimited /\ q.used > q.limit

(* consume_quota refuses a positive amount that would pass the limit; a    *)
(* release (negative amount) is never refused.                             *)
Overdraws(q, amount) ==
    amount > 0 /\ q.limit # Unlimited /\ q.used + amount > q.limit

(* A plan can be taken only when the present use fits its limit. *)
FitsLimit(used, limit) == limit = Unlimited \/ used <= limit

=============================================================================
