------------------------- MODULE MCInferenceGateway -------------------------
(* Instances of AuthenticatedGateway for TLC. *)
EXTENDS AuthenticatedGateway

(* One listed model for every provider, and one that is not listed. *)
FiveModels ==
    [nemotron |-> "nvidia", gpt |-> "openai", claude |-> "anthropic",
     llama |-> "ollama", other |-> NoProvider]

(* All providers; all but NVIDIA, the default; and no router yet. *)
ThreeRouters == {Providers, Providers \ {"nvidia"}, NoRouter}

(* The issuer replaces one of its keys and withdraws the old one. *)
OneRotation == <<{"old", "kept"}, {"new", "kept"}>>

CONSTANT Observed   \* the caller that may come with any token

(* Nobody looks at another caller's token: the others come without one or  *)
(* with a good one.                                                        *)
GNextObserved ==
    /\ GNext
    /\ \A c \in Callers \ {Observed} :
          token'[c] \in {NoToken, [key |-> "kept", current |-> TRUE, sub |-> TRUE]}

GSpecObserved ==
    /\ GInit
    /\ [][GNextObserved]_gvars
    /\ GFairness

=============================================================================
