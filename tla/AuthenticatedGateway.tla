------------------------ MODULE AuthenticatedGateway ------------------------
(***************************************************************************)
(* The inference gateway behind require_auth: POST /v1/chat/completions,   *)
(* whose handler runs once its caller has been admitted, and GET           *)
(* /v1/models, which answers from the catalogue.  Their callers fill and   *)
(* use the one key cache of the process.                                   *)
(***************************************************************************)
EXTENDS InferenceGateway, TokenAuth

(* The callers that are not requests for a chat query the models. *)
ASSUME CallersAssumption == Requests \subseteq Callers

gvars == <<vars, avars>>

GTypeOK == TypeOK /\ ATypeOK

GInit == Init /\ AInit

(* Mutant: the endpoint does not depend on require_auth. *)
AnyoneMayChat(r) == TRUE

(* The dependencies of an endpoint are resolved before its handler runs. *)
MayChat(r) == verdict[r] = "in"

Chat(r) ==
    /\ MayChat(r)
    /\ Arrive(r)
    /\ UNCHANGED avars

Handle(r) == (Step(r) \/ Disconnect(r)) /\ UNCHANGED avars

Authenticate == ANext /\ UNCHANGED vars

GFinished ==
    /\ \A c \in Callers : at[c] = "decided"
    /\ \A r \in Requests : verdict[r] = "in" => pc[r] \in {"done", "gone"}
    /\ UNCHANGED gvars

GNext ==
    \/ Authenticate
    \/ \E r \in Requests : Chat(r) \/ Handle(r)
    \/ GFinished

GSpec == GInit /\ [][GNext]_gvars

(* The event loop runs every coroutine that can go on; a fetch ends by its *)
(* timeout of 10 seconds, a provider's call by its client's.               *)
GFairness ==
    /\ \A c \in Callers : WF_gvars(AStep(c) /\ UNCHANGED vars)
    /\ \A r \in Requests : WF_gvars(Chat(r)) /\ WF_gvars(Step(r) /\ UNCHANGED avars)

GFairSpec == GSpec /\ GFairness

-----------------------------------------------------------------------------
(* Properties *)

(* A provider is called only for a caller whom the issuer vouches for, in  *)
(* every order of fetches, failures and rotations (require_auth; "the      *)
(* tenant_id of the JWT", chat.py's docstring).                            *)
ChatsAreAuthenticated ==
    \A r \in Requests : pc[r] # "idle" /\ mode # "mock" => Vouched(r)

(* Every caller is decided, and every chat that is let in comes to its end *)
(* or is given up by its client.                                           *)
EveryCallerServed ==
    /\ \A c \in Callers : at[c] # "idle" ~> at[c] = "decided"
    /\ \A r \in Requests : verdict[r] = "in" ~> pc[r] \in {"done", "gone"}

=============================================================================
