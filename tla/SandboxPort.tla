----------------------------- MODULE SandboxPort -----------------------------
(***************************************************************************)
(* What the port SandboxBackend lets its callers rely on: a call takes     *)
(* effect at one instant and at most once; when it returns, it has taken   *)
(* effect; when it raises, nobody knows.  A call whose caller has died may *)
(* still take effect.                                                      *)
(***************************************************************************)
CONSTANTS Calls, Names, Nobody

VARIABLES call,    \* [op, name] of each call
          boxes,   \* boxes[n]: the create that made the sandbox named n
          took,    \* the calls that have taken effect
          result   \* "none" until a call returns ("ok") or raises ("error")

pvars == <<call, boxes, took, result>>

(* Operations that change nothing in the backend. *)
NoEffect == {"stop", "start"}

PInit ==
    /\ boxes = [n \in Names |-> Nobody]
    /\ took = {}
    /\ result = [c \in Calls |-> "none"]

(* create makes a sandbox under a free name, destroy removes the one that  *)
(* has the name by then.                                                   *)
TakeEffect(c) ==
    LET n == call[c].name IN
    /\ c \notin took
    /\ result[c] = "none"
    /\ \/ /\ call[c].op = "create"
          /\ boxes[n] = Nobody
          /\ boxes' = [boxes EXCEPT ![n] = c]
       \/ /\ call[c].op = "destroy"
          /\ boxes[n] # Nobody
          /\ boxes' = [boxes EXCEPT ![n] = Nobody]
    /\ took' = took \cup {c}
    /\ UNCHANGED <<call, result>>

Answer(c) ==
    /\ result[c] = "none"
    /\ \/ /\ c \in took \/ call[c].op \in NoEffect
          /\ result' = [result EXCEPT ![c] = "ok"]
       \/ result' = [result EXCEPT ![c] = "error"]
    /\ UNCHANGED <<call, boxes, took>>

PNext == \E c \in Calls : TakeEffect(c) \/ Answer(c)

PSpec == PInit /\ [][PNext]_pvars

=============================================================================
