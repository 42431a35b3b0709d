---------------------------- MODULE QuotaLedger ----------------------------
(***************************************************************************)
(* What the tenant service promises about its quota rows: each row changes *)
(* in single atomic steps.  A grant adds to "used" only when the row's own *)
(* limit allows it at that instant, a release subtracts, and a plan change *)
(* replaces the limit and leaves "used" alone.  No grant is lost and none  *)
(* is applied twice, however many requests run at once.                    *)
(***************************************************************************)
EXTENDS QuotaRules

CONSTANTS Tenants,    \* tenants, each named by its slug
          Resources,  \* "tokens", "sandboxes"
          Amounts,    \* the amounts a consume call may carry
          Limits      \* the limits a plan may give

VARIABLES known,      \* the tenants that exist
          row         \* row[t][res]: the quota row of a tenant and resource

LInit ==
    /\ known \in SUBSET Tenants
    /\ row \in [Tenants -> [Resources -> QuotaRow]]

(* A tenant and its rows appear together, unused. *)
Open(t) ==
    /\ t \notin known
    /\ known' = known \cup {t}
    /\ \E limits \in [Resources -> Limits] :
          row' = [row EXCEPT ![t] =
                    [res \in Resources |-> [limit |-> limits[res], used |-> 0]]]

(* One consume call takes effect, on the row as it is now. *)
Charge(t, res, amount) ==
    /\ t \in known
    /\ ~Overdraws(row[t][res], amount)
    /\ row' = [row EXCEPT ![t][res].used = @ + amount]
    /\ UNCHANGED known

(* A plan change replaces limits; what is used stays. *)
Relimit(t) ==
    /\ t \in known
    /\ \E limits \in [Resources -> Limits] :
          row' = [row EXCEPT ![t] =
                    [res \in Resources |-> [@[res] EXCEPT !.limit = limits[res]]]]
    /\ UNCHANGED known

LNext ==
    \E t \in Tenants :
        \/ Open(t)
        \/ \E res \in Resources, amount \in Amounts : Charge(t, res, amount)
        \/ Relimit(t)

LSpec == LInit /\ [][LNext]_<<known, row>>

=============================================================================
