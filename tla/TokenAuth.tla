------------------------------ MODULE TokenAuth ------------------------------
(***************************************************************************)
(* shared.auth, as one service process runs it: require_auth admits a      *)
(* caller or refuses it.  The issuer's public keys are fetched by callers  *)
(* that find the cache empty and kept for ever.  Callers are coroutines:   *)
(* several may fetch at once, the answers arrive in any order, and between *)
(* storing an answer and reading the cache the client is closed, which is  *)
(* an await of its own.                                                    *)
(***************************************************************************)
EXTENDS Naturals, Sequences

CONSTANTS Callers,   \* HTTP requests that depend on require_auth
          Keys,      \* signing keys
          NoKey,     \* the key of a caller without credentials
          KeySets,   \* the sets of keys the issuer publishes, in turn
          Modes,     \* AUTH_MODE: "mock" or anything else
          AuthFaults \* "fetch" if the issuer may fail to answer

ASSUME AuthAssumption ==
    /\ KeySets \in Seq(SUBSET Keys)
    /\ KeySets # <<>>
    /\ NoKey \notin Keys

VARIABLES mode,       \* AUTH_MODE of the process
          published,  \* index of the set that the issuer serves now
          cache,      \* _jwks_cache: index of the set it holds, 0 when empty
          at,         \* where each caller is
          body,       \* index of the set in the answer to each caller's fetch
          token,      \* the token each caller was decided on, NoToken if none
          verdict     \* "in", or the HTTP status of a refusal; "" at first

avars == <<mode, published, cache, at, body, token, verdict>>

-----------------------------------------------------------------------------
Versions == 1 .. Len(KeySets)

(* A token: its signing key, whether issuer and expiry are right, and      *)
(* whether it has the claim "sub", the one that is read without a default. *)
Tokens  == [key : Keys, current : BOOLEAN, sub : BOOLEAN]
NoToken == [key |-> NoKey, current |-> FALSE, sub |-> FALSE]

ATypeOK ==
    /\ mode \in Modes
    /\ published \in Versions
    /\ cache \in 0 .. published
    /\ at \in [Callers -> {"idle", "fetch", "body", "closing", "decided"}]
    /\ body \in [Callers -> 0 .. published]
    /\ token \in [Callers -> Tokens \cup {NoToken}]
    /\ verdict \in [Callers -> {"", "in", "401", "500"}]

AInit ==
    /\ mode \in Modes
    /\ published = 1
    /\ cache = 0
    /\ at = [c \in Callers |-> "idle"]
    /\ body = [c \in Callers |-> 0]
    /\ token = [c \in Callers |-> NoToken]
    /\ verdict = [c \in Callers |-> ""]

Move(c, label) ==
    /\ at' = [at EXCEPT ![c] = label]
    /\ UNCHANGED <<token, verdict>>

Decide(c, t, v) ==
    /\ at' = [at EXCEPT ![c] = "decided"]
    /\ token' = [token EXCEPT ![c] = t]
    /\ verdict' = [verdict EXCEPT ![c] = v]

(* jwt.decode tries every key of the set, of which an empty cache has none;*)
(* it checks issuer and expiry too.                                        *)
Decodes(t, v) == t.current /\ v # 0 /\ t.key \in KeySets[v]

(* A token that does not decode is answered 401, one without "sub" ends in *)
(* a KeyError that nobody catches.  The token is not looked at before.     *)
Verify(c) ==
    \E t \in Tokens :
        Decide(c, t, CASE ~Decodes(t, cache)          -> "401"
                       [] Decodes(t, cache) /\ t.sub  -> "in"
                       [] Decodes(t, cache) /\ ~t.sub -> "500")

Cached == cache # 0

(* require_auth: no credentials; mock mode, which does not read the token; *)
(* and _get_jwks, whose cache is used at once when there is one.           *)
Enter(c) ==
    /\ at[c] = "idle"
    /\ \/ Decide(c, NoToken, "401")
       \/ /\ mode = "mock"
          /\ Decide(c, NoToken, "in")
       \/ /\ mode # "mock"
          /\ Cached
          /\ Verify(c)
       \/ /\ mode # "mock"
          /\ ~Cached
          /\ Move(c, "fetch")
    /\ UNCHANGED <<mode, published, cache, body>>

(* The issuer answers with the set it then publishes. *)
Serve(c) ==
    /\ at[c] = "fetch"
    /\ body' = [body EXCEPT ![c] = published]
    /\ Move(c, "body")
    /\ UNCHANGED <<mode, published, cache>>

(* The answer is stored, over whatever another caller has stored since.    *)
Store(c) ==
    /\ at[c] = "body"
    /\ cache' = body[c]
    /\ body' = [body EXCEPT ![c] = 0]
    /\ Move(c, "closing")
    /\ UNCHANGED <<mode, published>>

(* Mutant: a failure empties the cache. *)
FailureEmpties(c) ==
    /\ "fetch" \in AuthFaults
    /\ at[c] \in {"fetch", "body"}
    /\ cache' = 0
    /\ body' = [body EXCEPT ![c] = 0]
    /\ Decide(c, token[c], "500")
    /\ UNCHANGED <<mode, published>>

(* A timeout, an error status or an answer that is not JSON: none of them  *)
(* is a JWTError, so the caller gets 500; the cache stays as it is.        *)
FetchFails(c) ==
    /\ "fetch" \in AuthFaults
    /\ at[c] \in {"fetch", "body"}
    /\ body' = [body EXCEPT ![c] = 0]
    /\ Decide(c, token[c], "500")
    /\ UNCHANGED <<mode, published, cache>>

(* The client is closed; _get_jwks returns the cache as it is by now.      *)
Close(c) ==
    /\ at[c] = "closing"
    /\ Verify(c)
    /\ UNCHANGED <<mode, published, cache, body>>

(* The issuer rotates its keys. *)
Rotate ==
    /\ published < Len(KeySets)
    /\ published' = published + 1
    /\ UNCHANGED <<mode, cache, at, body, token, verdict>>

AStep(c) == Enter(c) \/ Serve(c) \/ Store(c) \/ FetchFails(c) \/ Close(c)

ANext == Rotate \/ \E c \in Callers : AStep(c)

ASpec == AInit /\ [][ANext]_avars

-----------------------------------------------------------------------------
(* Properties *)

(* Nobody is refused with a good token whose key has been in every set of  *)
(* keys that the issuer has published: not because fetches overlap, not    *)
(* because an older answer is stored over a newer one, and not because     *)
(* another caller's fetch failed before the cache is read (_get_jwks).     *)
KeptKeysAdmit ==
    \A c \in Callers :
        mode # "mock" /\ token[c].current
                      /\ (\A v \in 1 .. published : token[c].key \in KeySets[v]) =>
            verdict[c] # "401"

(* The caller's token is of the issuer: not expired, with a subject, and   *)
(* signed by a key that the issuer published at some time.                 *)
Vouched(c) ==
    /\ token[c].current /\ token[c].sub
    /\ \E v \in 1 .. published : token[c].key \in KeySets[v]

(* Whoever is admitted outside mock mode is vouched for by the issuer,     *)
(* whatever fetches failed or overtook each other.                         *)
AdmittedByIssuer ==
    \A c \in Callers : verdict[c] = "in" /\ mode # "mock" => Vouched(c)

=============================================================================
