---------------------------- MODULE BackendNames ----------------------------
(***************************************************************************)
(* The name that OpenShell and Kubernetes know a sandbox by:               *)
(* t-{first characters of the tenant id}-{sandbox name}, made of lower     *)
(* case letters, digits and dashes, cut at 63 characters, with no dash at  *)
(* its end.  A string is the sequence of its characters.                   *)
(***************************************************************************)
EXTENDS Naturals, Sequences

CONSTANTS Characters,    \* the characters of tenant ids and sandbox names
          Plain,         \* a-z and 0-9
          Lower,         \* str.lower(), by character
          PrefixLength,  \* 8 characters of the tenant id
          MaxLength      \* 63 characters in all

Dash == "-"

ASSUME NamesAssumption ==
    /\ "t" \in Plain /\ Plain \subseteq Characters
    /\ Dash \in Characters \ Plain
    /\ Lower \in [Characters -> Characters]
    /\ \A ch \in Plain \cup {Dash} : Lower[ch] = ch
    /\ PrefixLength \in Nat \ {0}
    /\ MaxLength \in Nat
    /\ MaxLength >= PrefixLength + 4

(* _sanitize: whatever is not allowed becomes a dash. *)
Sanitize(s) ==
    [i \in 1 .. Len(s) |-> IF Lower[s[i]] \in Plain THEN Lower[s[i]] ELSE Dash]

(* s[:n] *)
Take(s, n) == SubSeq(s, 1, IF Len(s) < n THEN Len(s) ELSE n)

(* s.rstrip("-"): the characters up to the last that is not a dash.        *)
RStrip(s) ==
    [i \in {j \in 1 .. Len(s) : \E k \in j .. Len(s) : s[k] # Dash} |-> s[i]]

(* The name before it is cut. *)
FullName(tenant, name) ==
    <<"t", Dash>> \o Sanitize(Take(tenant, PrefixLength)) \o <<Dash>> \o Sanitize(name)

(* Mutant: the tenant is left out. *)
NameWithoutTenant(tenant, name) == RStrip(Take(Sanitize(name), MaxLength))

(* _make_name, _make_crd_name *)
BackendName(tenant, name) == RStrip(Take(FullName(tenant, name), MaxLength))

(* The names SandboxCreate lets pass: no dash at either end.               *)
ValidNames ==
    {s \in Seq(Plain \cup {Dash}) : Len(s) >= 2 /\ s[1] \in Plain /\ s[Len(s)] \in Plain}

=============================================================================
