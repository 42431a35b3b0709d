-------------------------- MODULE SandboxRegistry --------------------------
(***************************************************************************)
(* What the sandbox service promises a tenant: a registry of sandboxes.    *)
(* Live sandboxes of a tenant have different names and, when the tenant is *)
(* registered, are within its limit; they pause and resume; a removed one  *)
(* is gone for ever.                                                       *)
(***************************************************************************)
EXTENDS QuotaRules, FiniteSets

CONSTANTS Ids, Tenants, Names, Registered, Limits

VARIABLES rows,   \* the live sandboxes
          gone    \* the ids of the removed ones

Row == [id : Ids, slot : Tenants \X Names, phase : {"running", "stopped"}]

RInit == rows = {} /\ gone = {}

(* A new sandbox, under a name its tenant does not use. *)
Register(id, t, n) ==
    /\ id \notin gone
    /\ \A w \in rows : w.id # id /\ w.slot # <<t, n>>
    /\ t \in Registered =>
          ~Exceeded([limit |-> Limits[t],
                     used  |-> Cardinality({w \in rows : w.slot[1] = t})])
    /\ rows' = rows \cup {[id |-> id, slot |-> <<t, n>>, phase |-> "running"]}
    /\ UNCHANGED gone

(* A running sandbox stops, a stopped one starts. *)
Turn(w) ==
    /\ rows' = (rows \ {w})
                 \cup {[w EXCEPT !.phase = IF @ = "running" THEN "stopped" ELSE "running"]}
    /\ UNCHANGED gone

Remove(w) ==
    /\ rows' = rows \ {w}
    /\ gone' = gone \cup {w.id}

RNext ==
    \/ \E id \in Ids, t \in Tenants, n \in Names : Register(id, t, n)
    \/ \E w \in rows : Turn(w) \/ Remove(w)

RSpec == RInit /\ [][RNext]_<<rows, gone>>

=============================================================================
