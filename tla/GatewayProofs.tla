--------------------------- MODULE GatewayProofs ---------------------------
(***************************************************************************)
(* Proofs about AuthenticatedGateway, for every set of callers, models,    *)
(* providers, keys and rotations.  Its steps are steps of TokenAuth or of  *)
(* InferenceGateway, so each part is proved by itself and the results are  *)
(* put together.                                                           *)
(***************************************************************************)
EXTENDS AuthenticatedGateway, SequenceTheorems, TLAPS

-----------------------------------------------------------------------------
(* Authentication *)

(* An answer that is stored is one of the issuer's, and whoever decides by *)
(* the cache finds it filled; who has a verdict is done.                   *)
KeysHeld ==
    \A c \in Callers :
        /\ at[c] = "body" => body[c] # 0
        /\ at[c] = "closing" => cache # 0
        /\ verdict[c] # "" => at[c] = "decided"

AInv == ATypeOK /\ KeysHeld /\ AdmittedByIssuer /\ KeptKeysAdmit

(* The issuer publishes at least one set of keys. *)
LEMMA VersionsType == Versions \subseteq Nat \ {0} /\ 1 \in Versions
<1>1. Len(KeySets) \in Nat \ {0}
  BY AuthAssumption, EmptySeq
<1> QED
  BY <1>1 DEF Versions

(* At first nobody has a verdict. *)
LEMMA AuthInit == AInit => AInv
<1> SUFFICES ASSUME AInit PROVE AInv
  OBVIOUS
<1>1. ATypeOK
  <2>1. published \in Versions
    BY VersionsType DEF AInit
  <2>2. 0 \in 0 .. 1
    OBVIOUS
  <2> HIDE DEF Versions
  <2> QED
    BY <2>1, <2>2 DEF AInit, ATypeOK
<1> QED
  BY <1>1 DEF AInit, AInv, KeysHeld, AdmittedByIssuer, KeptKeysAdmit

(* Moving and deciding keep the types. *)
LEMMA MoveType ==
    ASSUME ATypeOK, NEW c \in Callers,
           NEW label \in {"fetch", "body", "closing"}, Move(c, label)
    PROVE  /\ at' \in [Callers -> {"idle", "fetch", "body", "closing", "decided"}]
           /\ token' \in [Callers -> Tokens \cup {NoToken}]
           /\ verdict' \in [Callers -> {"", "in", "401", "500"}]
BY DEF ATypeOK, Move

(* The same for a verdict. *)
LEMMA DecideType ==
    ASSUME ATypeOK, NEW c \in Callers, NEW t \in Tokens \cup {NoToken},
           NEW v \in {"", "in", "401", "500"}, Decide(c, t, v)
    PROVE  /\ at' \in [Callers -> {"idle", "fetch", "body", "closing", "decided"}]
           /\ token' \in [Callers -> Tokens \cup {NoToken}]
           /\ verdict' \in [Callers -> {"", "in", "401", "500"}]
BY DEF ATypeOK, Decide

(* A verification ends in a verdict, and the verdict is "in" only for a    *)
(* token that decodes with the keys of the cache and has a subject, "401"  *)
(* only for one that does not decode.                                      *)
LEMMA VerifyDecides ==
    ASSUME NEW c \in Callers, Verify(c)
    PROVE  \E t \in Tokens, v \in {"in", "401", "500"} :
              /\ Decide(c, t, v)
              /\ v = "in" => Decodes(t, cache) /\ t.sub
              /\ v = "401" => ~Decodes(t, cache)
<1>1. PICK t \in Tokens :
        Decide(c, t, CASE ~Decodes(t, cache)          -> "401"
                       [] Decodes(t, cache) /\ t.sub  -> "in"
                       [] Decodes(t, cache) /\ ~t.sub -> "500")
  BY DEF Verify
<1>2. CASE ~Decodes(t, cache)
  BY <1>1, <1>2
<1>3. CASE Decodes(t, cache) /\ t.sub
  BY <1>1, <1>3
<1>4. CASE Decodes(t, cache) /\ ~t.sub
  BY <1>1, <1>4
<1> QED
  BY <1>2, <1>3, <1>4

(* A decision keeps the invariant when it admits only vouched-for callers  *)
(* and refuses no good token of a key that was published throughout.       *)
LEMMA DecideInv ==
    ASSUME AInv, NEW c \in Callers, NEW t \in Tokens \cup {NoToken},
           NEW v \in {"", "in", "401", "500"}, Decide(c, t, v),
           UNCHANGED <<mode, published, cache>>,
           body' \in [Callers -> 0 .. published],
           \A d \in Callers \ {c} : body'[d] = body[d],
           v = "in" /\ mode # "mock" =>
               /\ t.current /\ t.sub
               /\ \E i \in 1 .. published : t.key \in KeySets[i],
           v = "401" /\ t.current =>
               \E i \in 1 .. published : t.key \notin KeySets[i]
    PROVE  AInv'
<1>0. ATypeOK
  BY DEF AInv
<1>1. ATypeOK'
  <2>1. /\ at' \in [Callers -> {"idle", "fetch", "body", "closing", "decided"}]
        /\ token' \in [Callers -> Tokens \cup {NoToken}]
        /\ verdict' \in [Callers -> {"", "in", "401", "500"}]
    BY <1>0, DecideType
  <2> QED
    BY <1>0, <2>1 DEF ATypeOK, Versions
<1>2. /\ at'[c] = "decided" /\ token'[c] = t /\ verdict'[c] = v
      /\ \A d \in Callers \ {c} : /\ at'[d] = at[d]
                                  /\ token'[d] = token[d]
                                  /\ verdict'[d] = verdict[d]
  <2>1. /\ at' = [at EXCEPT ![c] = "decided"]
        /\ token' = [token EXCEPT ![c] = t]
        /\ verdict' = [verdict EXCEPT ![c] = v]
    BY DEF Decide
  <2>2. DOMAIN at = Callers /\ DOMAIN token = Callers /\ DOMAIN verdict = Callers
    BY <1>0 DEF ATypeOK
  <2> QED
    BY <2>1, <2>2
<1>3. KeysHeld'
  <2>1. KeysHeld /\ cache' = cache /\ \A d \in Callers \ {c} : body'[d] = body[d]
    BY DEF AInv
  <2>2. ASSUME NEW d \in Callers
        PROVE  /\ at'[d] = "body" => body'[d] # 0
               /\ at'[d] = "closing" => cache' # 0
               /\ verdict'[d] # "" => at'[d] = "decided"
    <3>1. CASE d = c
      BY <1>2, <3>1
    <3>2. CASE d # c
      BY <1>2, <2>1, <3>2 DEF KeysHeld
    <3> QED
      BY <3>1, <3>2
  <2> QED
    BY <2>2 DEF KeysHeld
<1>4. AdmittedByIssuer'
  BY <1>2 DEF AInv, AdmittedByIssuer, Vouched
<1>5. KeptKeysAdmit'
  BY <1>2 DEF AInv, KeptKeysAdmit
<1> QED
  BY <1>1, <1>3, <1>4, <1>5 DEF AInv

(* So does a move. *)
LEMMA MoveInvariant ==
    ASSUME AInv, NEW c \in Callers,
           NEW label \in {"fetch", "body", "closing"}, Move(c, label),
           at[c] # "decided",
           UNCHANGED <<mode, published>>,
           cache' \in 0 .. published, cache # 0 => cache' # 0,
           body' \in [Callers -> 0 .. published],
           \A d \in Callers \ {c} : body'[d] = body[d],
           label = "body" => body'[c] # 0,
           label = "closing" => cache' # 0
    PROVE  AInv'
<1>1. ATypeOK'
  BY MoveType DEF AInv, ATypeOK, Versions
<1>2. /\ at'[c] = label /\ UNCHANGED <<token, verdict>>
      /\ \A d \in Callers \ {c} : at'[d] = at[d]
  BY DEF Move, AInv, ATypeOK
<1>3. KeysHeld'
  BY <1>2 DEF AInv, KeysHeld
<1>4. AdmittedByIssuer'
  BY <1>2 DEF AInv, AdmittedByIssuer, Vouched
<1>5. KeptKeysAdmit'
  BY <1>2 DEF AInv, KeptKeysAdmit
<1> QED
  BY <1>1, <1>3, <1>4, <1>5 DEF AInv

(* Verifying with a filled cache keeps the invariant. *)
LEMMA VerifyInv ==
    ASSUME AInv, NEW c \in Callers, Verify(c), cache # 0,
           UNCHANGED <<mode, published, cache, body>>
    PROVE  AInv'
<1>1. PICK t \in Tokens, v \in {"in", "401", "500"} :
        /\ Decide(c, t, v)
        /\ v = "in" => Decodes(t, cache) /\ t.sub
        /\ v = "401" => ~Decodes(t, cache)
  BY VerifyDecides
<1>2. cache \in 1 .. published
  <2>1. cache \in 0 .. published /\ published \in Nat
    BY VersionsType DEF AInv, ATypeOK
  <2> QED
    BY <2>1
<1>3. v = "in" => /\ t.current /\ t.sub
                  /\ \E i \in 1 .. published : t.key \in KeySets[i]
  BY <1>1, <1>2 DEF Decodes
<1>5. v = "401" /\ t.current => \E i \in 1 .. published : t.key \notin KeySets[i]
  BY <1>1, <1>2 DEF Decodes
<1>4. body' \in [Callers -> 0 .. published]
  BY DEF AInv, ATypeOK
<1> QED
  BY <1>1, <1>3, <1>4, <1>5, DecideInv

(* Every step of the authentication keeps its invariant. *)
LEMMA AuthNext == AInv /\ [ANext]_avars => AInv'
<1> SUFFICES ASSUME AInv, [ANext]_avars PROVE AInv'
  OBVIOUS
<1>0. /\ published \in Nat \ {0}
      /\ cache \in 0 .. published
      /\ body \in [Callers -> 0 .. published]
  BY VersionsType DEF AInv, ATypeOK
<1>1. ASSUME NEW c \in Callers, Enter(c) PROVE AInv'
  <2>1. UNCHANGED <<mode, published, cache, body>> /\ at[c] = "idle"
    BY <1>1 DEF Enter
  <2>2. CASE Decide(c, NoToken, "401")
    BY <1>0, <2>1, <2>2, DecideInv DEF NoToken
  <2>3. CASE mode = "mock" /\ Decide(c, NoToken, "in")
    BY <1>0, <2>1, <2>3, DecideInv
  <2>4. CASE Cached /\ Verify(c)
    BY <2>1, <2>4, VerifyInv DEF Cached
  <2>5. CASE Move(c, "fetch")
    BY <1>0, <2>1, <2>5, MoveInvariant
  <2> QED
    BY <1>1, <2>2, <2>3, <2>4, <2>5 DEF Enter
<1>2. ASSUME NEW c \in Callers, Serve(c) PROVE AInv'
  BY <1>0, <1>2, MoveInvariant DEF Serve
<1>3. ASSUME NEW c \in Callers, Store(c) PROVE AInv'
  <2>1. /\ at[c] = "body" /\ Move(c, "closing") /\ UNCHANGED <<mode, published>>
        /\ cache' = body[c]
        /\ body' = [body EXCEPT ![c] = 0]
    BY <1>3 DEF Store
  <2>2. body[c] # 0 /\ body[c] \in 0 .. published
    BY <1>0, <2>1 DEF AInv, KeysHeld
  <2>3. /\ body' \in [Callers -> 0 .. published]
        /\ \A d \in Callers \ {c} : body'[d] = body[d]
    BY <1>0, <2>1
  <2> QED
    BY <2>1, <2>2, <2>3, MoveInvariant
<1>4. ASSUME NEW c \in Callers, FetchFails(c) PROVE AInv'
  <2>1. token[c] \in Tokens \cup {NoToken}
    BY DEF AInv, ATypeOK
  <2>2. /\ Decide(c, token[c], "500") /\ UNCHANGED <<mode, published, cache>>
        /\ body' = [body EXCEPT ![c] = 0]
    BY <1>4 DEF FetchFails
  <2>3. /\ body' \in [Callers -> 0 .. published]
        /\ \A d \in Callers \ {c} : body'[d] = body[d]
    BY <1>0, <2>2
  <2> QED
    BY <2>1, <2>2, <2>3, DecideInv
<1>5. ASSUME NEW c \in Callers, Close(c) PROVE AInv'
  <2>1. cache # 0
    BY <1>5 DEF Close, AInv, KeysHeld
  <2> QED
    BY <1>5, <2>1, VerifyInv DEF Close
<1>6. CASE Rotate
  <2>1. published' = published + 1 /\ UNCHANGED <<mode, cache, at, body, token, verdict>>
    BY <1>6 DEF Rotate
  <2>2. 1 .. published \subseteq 1 .. published' /\ 0 .. published \subseteq 0 .. published'
    BY <1>0, <2>1
  <2>3. published' \in Versions
    BY <1>0, <1>6, AuthAssumption DEF Rotate, Versions
  <2>4. ATypeOK'
    BY <1>0, <2>1, <2>2, <2>3 DEF AInv, ATypeOK, Versions
  <2>5. AdmittedByIssuer'
    BY <2>1, <2>2 DEF AInv, AdmittedByIssuer, Vouched
  <2>6. KeptKeysAdmit'
    BY <2>1, <2>2 DEF AInv, KeptKeysAdmit
  <2> QED
    BY <2>1, <2>4, <2>5, <2>6 DEF AInv, KeysHeld
<1>7. CASE UNCHANGED avars
  BY <1>7 DEF avars, AInv, ATypeOK, KeysHeld, AdmittedByIssuer, KeptKeysAdmit, Vouched
<1> QED
  BY <1>1, <1>2, <1>3, <1>4, <1>5, <1>6, <1>7 DEF ANext, AStep

(* Typing, and the rest of the invariant, hold always. *)
THEOREM AuthInvariance == ASpec => []AInv
<1> QED
  BY AuthInit, AuthNext, PTL DEF ASpec

(* Whoever is admitted outside mock mode is vouched for by the issuer.     *)
THEOREM IssuerAdmits == ASpec => []AdmittedByIssuer
<1>1. AInv => AdmittedByIssuer
  BY DEF AInv
<1> QED
  BY <1>1, AuthInvariance, PTL

(* No good token is refused whose key the issuer has published throughout. *)
THEOREM KeptKeysAlwaysAdmit == ASpec => []KeptKeysAdmit
<1>1. AInv => KeptKeysAdmit
  BY DEF AInv
<1> QED
  BY <1>1, AuthInvariance, PTL

-----------------------------------------------------------------------------
(* The gateway *)

(* The events of a stream. *)
RoleEvent == Event("role", "")
ContentEvent == Event("content", "")
FinalEvent(e) == Event("final", Finish(e))
DoneEvent == Event("done", "")
ErrorEvent == Event("error", "")

(* What has been sent with the role, when the provider has answered e, and *)
(* at the end.                                                             *)
Started == Append(<<>>, RoleEvent)
Opened(e) == IF e.text THEN Append(Started, ContentEvent) ELSE Started
Closed(e) == Append(Opened(e), FinalEvent(e))
Whole(e) == Append(Closed(e), DoneEvent)
Failed == Append(Started, ErrorEvent)

(* What the client of r has read, by the point where its handler is. *)
Read(r) ==
    LET s == sent[r]
        e == reply[r]
    IN  /\ pc[r] \in {"idle", "route", "complete", "role"} => s = <<>>
        /\ pc[r] \in {"upstream", "content"} => s = Started
        /\ pc[r] = "content" => e.text
        /\ pc[r] = "final" => s = Opened(e)
        /\ pc[r] = "end" => s = Closed(e)
        /\ pc[r] = "done" => s \in {<<>>, Failed, Whole(e)}
        /\ pc[r] = "gone" => s \in {<<>>, Started, Opened(e), Closed(e)}

(* A request without an answer has no provider; only a stream that is over *)
(* has sent something.                                                     *)
Answered(r) ==
    /\ pc[r] \in {"idle", "route"} => provider[r] = NoProvider /\ answer[r] = 0
    /\ pc[r] = "complete" => ~call[r].stream
    /\ pc[r] = "done" /\ call[r].stream /\ answer[r] = 200 => sent[r] # <<>>

(* What the adapter made of its provider's reason, as FinishIsProviders    *)
(* wants it told.                                                          *)
Meant(e) ==
    LET told == Finish(e)
    IN  /\ told = "stop" <=> e.own \in {"stop", "end_turn", ""}
        /\ told = "tool_calls" <=> e.own = "tool_calls"
        /\ told = "length" <=> e.own \in {"length", "max_tokens", "refusal"}

Point(r) == Read(r) /\ Answered(r) /\ Meant(reply[r])

Inv == TypeOK /\ \A r \in Requests : Point(r)

(* The events are what they are meant to be, in every reply.               *)
LEMMA EventTypes ==
    /\ {RoleEvent, ContentEvent, DoneEvent, ErrorEvent} \subseteq Events
    /\ \A e \in Replies : Finish(e) \in Reasons /\ FinalEvent(e) \in Events
<1>1. \A k \in {"role", "content", "final", "done", "error"}, f \in Reasons \cup {""} :
        Event(k, f) \in Events
  BY DEF Event, Events
<1>2. \A e \in Replies : Finish(e) \in Reasons
  BY DEF Replies, Reasons, Finish
<1>3. {RoleEvent, ContentEvent, DoneEvent, ErrorEvent} \subseteq Events
  BY <1>1 DEF RoleEvent, ContentEvent, DoneEvent, ErrorEvent
<1>4. \A e \in Replies : FinalEvent(e) \in Events
  BY <1>1, <1>2 DEF FinalEvent
<1> QED
  BY <1>2, <1>3, <1>4

(* A request is routed to a provider or to none. *)
LEMMA RouteType ==
    ASSUME NEW m \in Models
    PROVE  Route(NoProvider, NoProvider, m) \in Providers \cup {NoProvider}
BY GatewayAssumption DEF Route

(* Every answer that an adapter reports keeps its provider's meaning. *)
LEMMA ReportedType ==
    ASSUME NEW r \in Requests, NEW e \in Reported(r)
    PROVE  e \in Replies /\ Meant(e)
<1>1. e \in AnthropicReplies \cup OpenAIReplies \cup PlainReplies
  BY Zenon DEF Reported
<1>2. e \in Replies
  BY <1>1 DEF AnthropicReplies, OpenAIReplies, PlainReplies
<1>3. CASE e \in AnthropicReplies
  BY <1>3 DEF AnthropicReplies, AnthropicReasons, Meant, Finish
<1>4. CASE e \in OpenAIReplies
  BY <1>4 DEF OpenAIReplies, ChatReasons, Meant, Finish
<1>5. CASE e \in PlainReplies
  BY <1>5 DEF PlainReplies, ChatReasons, Meant, Finish
<1> QED
  BY <1>1, <1>2, <1>3, <1>4, <1>5

(* There are calls and replies to begin with. *)
LEMMA UnsetType == Unset \in Calls /\ NoReply \in Replies /\ Meant(NoReply)
<1>1. PICK m \in Models : TRUE
  BY GatewayAssumption
<1> DEFINE u == [model |-> m, roles |-> {}, odd |-> FALSE, stream |-> FALSE]
<1>2. u \in Calls /\ u.roles = {} /\ ~u.odd /\ ~u.stream
  BY DEF Calls
<1> HIDE DEF u
<1>3. \E c \in Calls : c.roles = {} /\ ~c.odd /\ ~c.stream
  BY <1>2
<1>4. Unset \in Calls
  BY <1>3 DEF Unset
<1> QED
  BY <1>4 DEF NoReply, Replies, ChatReasons, Meant, Finish

(* Before it arrives a request has nothing.                                *)
LEMMA GatewayInit == Init => Inv
<1> SUFFICES ASSUME Init PROVE Inv
  OBVIOUS
<1>1. TypeOK
  BY UnsetType, EmptySeq DEF Init, TypeOK, Labels
<1>2. ASSUME NEW r \in Requests PROVE Point(r)
  <2>1. /\ pc[r] = "idle" /\ sent[r] = <<>>
        /\ provider[r] = NoProvider /\ answer[r] = 0 /\ reply[r] = NoReply
    BY DEF Init
  <2> QED
    BY <2>1, UnsetType DEF Point, Read, Answered
<1> QED
  BY <1>1, <1>2 DEF Inv

(* A request that no step touches stays where it was. *)
LEMMA Untouched ==
    ASSUME NEW d, Point(d),
           call'[d] = call[d], pc'[d] = pc[d], provider'[d] = provider[d],
           reply'[d] = reply[d], answer'[d] = answer[d], sent'[d] = sent[d]
    PROVE  Point(d)'
<1>1. Read(d)' /\ Answered(d)'
  BY DEF Point, Read, Answered
<1>2. Meant(reply[d])'
  BY DEF Point, Meant, Finish
<1> QED
  BY <1>1, <1>2 DEF Point

(* Every stage of a stream is a sequence of events. *)
LEMMA StagesType ==
    /\ Started \in Seq(Events) /\ Failed \in Seq(Events)
    /\ \A e \in Replies :
          Opened(e) \in Seq(Events) /\ Closed(e) \in Seq(Events) /\ Whole(e) \in Seq(Events)
<1>0. /\ RoleEvent \in Events /\ ContentEvent \in Events /\ DoneEvent \in Events
      /\ ErrorEvent \in Events
  BY EventTypes
<1>1. Started \in Seq(Events)
  BY <1>0, EmptySeq, AppendProperties DEF Started
<1>2. Failed \in Seq(Events) /\ Append(Started, ContentEvent) \in Seq(Events)
  BY <1>0, <1>1, AppendProperties DEF Failed
<1>3. ASSUME NEW e \in Replies
      PROVE  /\ Opened(e) \in Seq(Events) /\ Closed(e) \in Seq(Events)
             /\ Whole(e) \in Seq(Events)
  <2>1. Opened(e) \in Seq(Events)
    BY <1>1, <1>2 DEF Opened
  <2>2. FinalEvent(e) \in Events
    BY EventTypes
  <2>3. Closed(e) \in Seq(Events)
    BY <2>1, <2>2, AppendProperties DEF Closed
  <2>4. Whole(e) \in Seq(Events)
    BY <1>0, <2>3, AppendProperties DEF Whole
  <2> QED
    BY <2>1, <2>3, <2>4
<1> QED
  BY <1>1, <1>2, <1>3

(* A step of one request keeps the invariant when it keeps the types and   *)
(* leaves that request at a point it may be at.                            *)
LEMMA OneStep ==
    ASSUME Inv, NEW r \in Requests, TypeOK', Point(r)',
           \A d \in Requests : d # r =>
               /\ call'[d] = call[d] /\ pc'[d] = pc[d] /\ provider'[d] = provider[d]
               /\ reply'[d] = reply[d] /\ answer'[d] = answer[d] /\ sent'[d] = sent[d]
    PROVE  Inv'
<1>1. ASSUME NEW d \in Requests, d # r PROVE Point(d)'
  BY <1>1, Untouched DEF Inv
<1> QED
  BY <1>1 DEF Inv

(* A request arrives once, with nothing sent.                              *)
LEMMA ArriveInv == ASSUME Inv, NEW r \in Requests, Arrive(r) PROVE Inv'
<1>1. PICK c \in Calls : call' = [call EXCEPT ![r] = c]
  BY DEF Arrive
<1>2. /\ pc[r] = "idle" /\ pc' = [pc EXCEPT ![r] = "route"]
      /\ UNCHANGED <<router, provider, reply, answer, sent>>
  BY DEF Arrive, Goto
<1>3. TypeOK'
  BY <1>1, <1>2 DEF Inv, TypeOK, Labels
<1>4. /\ pc'[r] = "route" /\ sent[r] = <<>> /\ provider[r] = NoProvider /\ answer[r] = 0
      /\ Meant(reply[r])
  BY <1>2 DEF Inv, TypeOK, Point, Read, Answered
<1>5. Point(r)'
  BY <1>2, <1>4 DEF Point, Read, Answered
<1>6. \A d \in Requests : d # r => call'[d] = call[d] /\ pc'[d] = pc[d]
  BY <1>1, <1>2 DEF Inv, TypeOK
<1> QED
  BY <1>2, <1>3, <1>5, <1>6, OneStep

(* The router chooses a provider or none.                                  *)
LEMMA ChooseInv == ASSUME Inv, NEW r \in Requests, Choose(r) PROVE Inv'
<1>0. /\ pc[r] = "route" /\ sent[r] = <<>> /\ provider[r] = NoProvider /\ answer[r] = 0
      /\ Meant(reply[r])
  BY DEF Choose, Inv, Point, Read, Answered
<1>1. Routed(r) \in Providers \cup {NoProvider} \/ router = NoRouter
  BY RouteType DEF Inv, TypeOK, Calls, Routed
<1>2. UNCHANGED <<router, call, reply, sent>>
  BY DEF Choose
<1>3. \/ \E code \in {422, 500, 503} :
            /\ answer' = [answer EXCEPT ![r] = code] /\ pc' = [pc EXCEPT ![r] = "done"]
            /\ UNCHANGED provider
      \/ \E p \in Providers :
            /\ provider' = [provider EXCEPT ![r] = p]
            /\ answer' = [answer EXCEPT ![r] = IF call[r].stream THEN 200 ELSE 0]
            /\ pc' = [pc EXCEPT ![r] = IF call[r].stream THEN "role" ELSE "complete"]
  BY <1>1 DEF Choose, Reject, Goto
<1>4. ASSUME NEW code \in {422, 500, 503},
             answer' = [answer EXCEPT ![r] = code], pc' = [pc EXCEPT ![r] = "done"],
             UNCHANGED provider
      PROVE  Inv'
  <2>2. TypeOK'
    BY <1>2, <1>4 DEF Inv, TypeOK, Labels
  <2>3. answer'[r] = code /\ pc'[r] = "done"
    BY <1>4 DEF Inv, TypeOK
  <2>4. Point(r)'
    BY <1>0, <1>2, <1>4, <2>3 DEF Point, Read, Answered
  <2>5. \A d \in Requests : d # r => answer'[d] = answer[d] /\ pc'[d] = pc[d]
    BY <1>4 DEF Inv, TypeOK
  <2> QED
    BY <1>2, <1>4, <2>2, <2>4, <2>5, OneStep
<1>5. ASSUME NEW p \in Providers,
             provider' = [provider EXCEPT ![r] = p],
             answer' = [answer EXCEPT ![r] = IF call[r].stream THEN 200 ELSE 0],
             pc' = [pc EXCEPT ![r] = IF call[r].stream THEN "role" ELSE "complete"]
      PROVE  Inv'
  <2>2. TypeOK'
    BY <1>2, <1>5 DEF Inv, TypeOK, Labels
  <2>3. /\ answer'[r] \in {0, 200}
        /\ pc'[r] = IF call[r].stream THEN "role" ELSE "complete"
    BY <1>5 DEF Inv, TypeOK
  <2>4. Point(r)'
    BY <1>0, <1>2, <2>3 DEF Point, Read, Answered
  <2>5. \A d \in Requests : d # r =>
            answer'[d] = answer[d] /\ pc'[d] = pc[d] /\ provider'[d] = provider[d]
    BY <1>5 DEF Inv, TypeOK
  <2> QED
    BY <1>2, <2>2, <2>4, <2>5, OneStep
<1> QED
  BY <1>3, <1>4, <1>5

(* An answer that is not streamed is one status.                           *)
LEMMA CompleteInv == ASSUME Inv, NEW r \in Requests, Complete(r) PROVE Inv'
<1>1. /\ pc[r] = "complete" /\ pc' = [pc EXCEPT ![r] = "done"]
      /\ UNCHANGED <<router, call, provider, sent>>
  BY DEF Complete, Goto
<1>2. PICK a \in {200, 502} : answer' = [answer EXCEPT ![r] = a]
  BY DEF Complete
<1>9. PICK e \in Replies : reply' = [reply EXCEPT ![r] = e] /\ Meant(e)
  <2>1. CASE UNCHANGED reply
    <3> DEFINE f == reply[r]
    <3>1. reply' = [reply EXCEPT ![r] = f] /\ f \in Replies /\ Meant(f)
      BY <2>1 DEF Inv, TypeOK, Point
    <3> HIDE DEF f
    <3> QED
      BY <3>1
  <2>2. CASE \E e \in Reported(r) : reply' = [reply EXCEPT ![r] = e]
    BY <2>2, ReportedType, Zenon
  <2> QED
    BY <2>1, <2>2 DEF Complete
<1>3. TypeOK'
  BY <1>1, <1>2, <1>9 DEF Inv, TypeOK, Labels
<1>4. pc'[r] = "done" /\ answer'[r] \in {200, 502} /\ reply'[r] = e
  BY <1>1, <1>2, <1>9 DEF Inv, TypeOK
<1>5. Point(r)
  BY DEF Inv
<1>6. sent[r] = <<>> /\ ~call[r].stream
  BY <1>1, <1>5 DEF Point, Read, Answered
<1>7. Point(r)'
  BY <1>1, <1>4, <1>6, <1>9 DEF Point, Read, Answered
<1>8. \A d \in Requests : d # r =>
        pc'[d] = pc[d] /\ answer'[d] = answer[d] /\ reply'[d] = reply[d]
  BY <1>1, <1>2, <1>9 DEF Inv, TypeOK
<1> QED
  BY <1>1, <1>3, <1>7, <1>8, OneStep

(* A step that sends an event or none, and goes on. *)
LEMMA SendInv ==
    ASSUME Inv, NEW r \in Requests, NEW label \in Labels, NEW e \in Replies,
           NEW s \in Seq(Events), Meant(e),
           pc' = [pc EXCEPT ![r] = label],
           sent' = [sent EXCEPT ![r] = s],
           reply' = [reply EXCEPT ![r] = e],
           UNCHANGED <<router, call, provider, answer>>,
           label \notin {"idle", "route", "complete", "role"},
           label \in {"upstream", "content"} => s = Started,
           label = "content" => e.text,
           label = "final" => s = Opened(e),
           label = "end" => s = Closed(e),
           label = "done" => s \in {Failed, Whole(e)},
           label = "gone" => s \in {<<>>, Started, Opened(e), Closed(e)}
    PROVE  Inv'
<1>1. TypeOK'
  BY DEF Inv, TypeOK
<1>2. pc'[r] = label /\ sent'[r] = s /\ reply'[r] = e
  BY DEF Inv, TypeOK
<1>3. Read(r)'
  BY <1>2 DEF Read
<1>4. label = "done" => s # <<>>
  <2>1. RoleEvent \in Events /\ ErrorEvent \in Events /\ DoneEvent \in Events
    BY EventTypes
  <2>2. Started \in Seq(Events) /\ Closed(e) \in Seq(Events)
    BY StagesType
  <2>3. Append(Started, ErrorEvent) # <<>> /\ Append(Closed(e), DoneEvent) # <<>>
    BY <2>1, <2>2, AppendProperties
  <2> QED
    BY <2>3 DEF Failed, Whole
<1>5. Answered(r)'
  BY <1>2, <1>4 DEF Answered
<1>6. Meant(reply[r])'
  BY <1>2 DEF Meant
<1>7. \A d \in Requests : d # r =>
        pc'[d] = pc[d] /\ sent'[d] = sent[d] /\ reply'[d] = reply[d]
  BY DEF Inv, TypeOK
<1> QED
  BY <1>1, <1>3, <1>5, <1>6, <1>7, OneStep DEF Point

(* Every await and every yield of a handler.                               *)
LEMMA StepInv == ASSUME Inv, NEW r \in Requests, Step(r) \/ Disconnect(r) PROVE Inv'
<1>0. /\ reply[r] \in Replies /\ sent[r] \in Seq(Events) /\ Point(r) /\ Meant(reply[r])
      /\ reply = [reply EXCEPT ![r] = reply[r]]
      /\ sent = [sent EXCEPT ![r] = sent[r]]
  BY DEF Inv, TypeOK, Point
<1>1. CASE Choose(r)
  BY <1>1, ChooseInv
<1>2. CASE Complete(r)
  BY <1>2, CompleteInv
<1>3. CASE SendRole(r)
  <2>1. pc[r] = "role" /\ sent[r] = <<>>
    BY <1>0, <1>3 DEF SendRole, Point, Read
  <2>2. /\ pc' = [pc EXCEPT ![r] = "upstream"]
        /\ sent' = [sent EXCEPT ![r] = Started]
        /\ reply' = [reply EXCEPT ![r] = reply[r]]
        /\ UNCHANGED <<router, call, provider, answer>>
    BY <1>0, <1>3, <2>1 DEF SendRole, Send, Goto, Started, RoleEvent
  <2> QED
    BY <1>0, <2>2, StagesType, SendInv DEF Labels
<1>4. CASE Upstream(r)
  <2>1. pc[r] = "upstream" /\ sent[r] = Started /\ UNCHANGED <<router, call, provider, answer>>
    BY <1>0, <1>4 DEF Upstream, Point, Read
  <2>2. CASE Send(r, ErrorEvent) /\ Goto(r, "done") /\ UNCHANGED reply
    <3>1. /\ pc' = [pc EXCEPT ![r] = "done"]
          /\ sent' = [sent EXCEPT ![r] = Failed]
          /\ reply' = [reply EXCEPT ![r] = reply[r]]
      BY <1>0, <2>1, <2>2 DEF Send, Goto, Failed
    <3> QED
      BY <1>0, <2>1, <3>1, StagesType, SendInv DEF Labels
  <2>3. CASE ~(Send(r, ErrorEvent) /\ Goto(r, "done") /\ UNCHANGED reply)
    <3>1. PICK e \in Reported(r) :
            /\ reply' = [reply EXCEPT ![r] = e]
            /\ Goto(r, IF e.text THEN "content" ELSE "final")
            /\ UNCHANGED sent
      BY <1>4, <2>3 DEF Upstream, ErrorEvent
    <3>2. e \in Replies /\ Meant(e)
      BY ReportedType
    <3>3. sent' = [sent EXCEPT ![r] = Started]
      BY <1>0, <2>1, <3>1
    <3>4. CASE e.text
      BY <2>1, <3>1, <3>2, <3>3, <3>4, StagesType, SendInv DEF Goto, Labels
    <3>5. CASE ~e.text
      BY <2>1, <3>1, <3>2, <3>3, <3>5, StagesType, SendInv DEF Goto, Labels, Opened
    <3> QED
      BY <3>4, <3>5
  <2> QED
    BY <2>2, <2>3
<1>5. CASE SendContent(r)
  <2>1. pc[r] = "content" /\ sent[r] = Started /\ reply[r].text
    BY <1>0, <1>5 DEF SendContent, Point, Read
  <2>2. /\ pc' = [pc EXCEPT ![r] = "final"]
        /\ sent' = [sent EXCEPT ![r] = Opened(reply[r])]
        /\ reply' = [reply EXCEPT ![r] = reply[r]]
        /\ UNCHANGED <<router, call, provider, answer>>
    BY <1>0, <1>5, <2>1 DEF SendContent, Send, Goto, Opened, ContentEvent
  <2> QED
    BY <1>0, <2>2, StagesType, SendInv DEF Labels
<1>6. CASE SendFinal(r)
  <2>1. pc[r] = "final" /\ sent[r] = Opened(reply[r])
    BY <1>0, <1>6 DEF SendFinal, Point, Read
  <2>2. /\ pc' = [pc EXCEPT ![r] = "end"]
        /\ sent' = [sent EXCEPT ![r] = Closed(reply[r])]
        /\ reply' = [reply EXCEPT ![r] = reply[r]]
        /\ UNCHANGED <<router, call, provider, answer>>
    BY <1>0, <1>6, <2>1 DEF SendFinal, Send, Goto, Closed, FinalEvent
  <2> QED
    BY <1>0, <2>2, StagesType, SendInv DEF Labels
<1>7. CASE SendDone(r)
  <2>1. pc[r] = "end" /\ sent[r] = Closed(reply[r])
    BY <1>0, <1>7 DEF SendDone, Point, Read
  <2>2. /\ pc' = [pc EXCEPT ![r] = "done"]
        /\ sent' = [sent EXCEPT ![r] = Whole(reply[r])]
        /\ reply' = [reply EXCEPT ![r] = reply[r]]
        /\ UNCHANGED <<router, call, provider, answer>>
    BY <1>0, <1>7, <2>1 DEF SendDone, Send, Goto, Whole, DoneEvent
  <2> QED
    BY <1>0, <2>2, StagesType, SendInv DEF Labels
<1>8. CASE Disconnect(r)
  <2>1. sent[r] \in {<<>>, Started, Opened(reply[r]), Closed(reply[r])}
    BY <1>0, <1>8 DEF Disconnect, Point, Read
  <2>2. /\ pc' = [pc EXCEPT ![r] = "gone"]
        /\ sent' = [sent EXCEPT ![r] = sent[r]]
        /\ reply' = [reply EXCEPT ![r] = reply[r]]
        /\ UNCHANGED <<router, call, provider, answer>>
    BY <1>0, <1>8 DEF Disconnect, Goto
  <2> QED
    BY <1>0, <2>1, <2>2, SendInv DEF Labels
<1> QED
  BY <1>1, <1>2, <1>3, <1>4, <1>5, <1>6, <1>7, <1>8 DEF Step

(* Every step keeps the invariant.                                         *)
LEMMA GatewayNext == Inv /\ [Next]_vars => Inv'
<1>1. ASSUME Inv, UNCHANGED vars PROVE Inv'
  <2>1. TypeOK'
    BY <1>1 DEF Inv, TypeOK, vars
  <2>2. ASSUME NEW r \in Requests PROVE Point(r)'
    BY <1>1, Untouched DEF Inv, vars
  <2> QED
    BY <2>1, <2>2 DEF Inv
<1> QED
  BY <1>1, ArriveInv, StepInv DEF Next, Finished

(* Typing, and the point each request is at, hold always. *)
THEOREM GatewayInvariance == Spec => []Inv
<1> QED
  BY GatewayInit, GatewayNext, PTL DEF Spec

(* A sequence is a prefix of itself and of all that is appended to it.     *)
LEMMA PrefixAppend ==
    ASSUME NEW s \in Seq(Events), NEW t \in Seq(Events), NEW e \in Events, IsPrefix(s, t)
    PROVE  IsPrefix(s, Append(t, e))
<1> DEFINE u == Append(t, e)
<1>1. /\ u \in Seq(Events) /\ Len(u) = Len(t) + 1
      /\ \A i \in 1 .. Len(t) : u[i] = t[i]
  BY AppendProperties
<1>2. Len(s) \in Nat /\ Len(t) \in Nat /\ Len(s) <= Len(t)
  BY LenProperties DEF IsPrefix
<1>3. SubSeq(s, 1, Len(s)) = SubSeq(t, 1, Len(s))
  BY DEF IsPrefix
<1> HIDE DEF u
<1> DEFINE n == Len(s)
           v == SubSeq(t, 1, n)
           w == SubSeq(u, 1, n)
<1>4. n \in Nat /\ n <= Len(t) /\ n <= Len(u)
  BY <1>1, <1>2
<1> HIDE DEF n
<1>5. /\ v \in Seq(Events) /\ Len(v) = n
      /\ \A i \in 1 .. n : v[i] = t[i]
  <2>1. \A i \in 1 .. n : t[i] \in Events
    BY <1>2, <1>4, ElementOfSeq
  <2> QED
    BY <1>4, <2>1, SubSeqProperties
<1>6. /\ w \in Seq(Events) /\ Len(w) = n
      /\ \A i \in 1 .. n : w[i] = u[i]
  <2>1. \A i \in 1 .. n : u[i] \in Events
    BY <1>1, <1>4, ElementOfSeq
  <2> QED
    BY <1>4, <2>1, SubSeqProperties
<1> HIDE DEF v, w
<1>7. \A i \in 1 .. n : v[i] = w[i]
  <2>1. \A i \in 1 .. n : i \in 1 .. Len(t)
    BY <1>2, <1>4
  <2> QED
    BY <1>1, <1>5, <1>6, <2>1, Zenon
<1>8. v = w
  <2>1. Len(v) = Len(w) /\ \A i \in 1 .. Len(v) : v[i] = w[i]
    BY <1>5, <1>6, <1>7
  <2> QED
    BY <1>5, <1>6, <2>1, SeqEqual, Zenon
<1> QED
  <2>1. Len(s) <= Len(u)
    BY <1>1, <1>2
  <2>2. SubSeq(s, 1, Len(s)) = SubSeq(u, 1, Len(s))
    BY <1>3, <1>8 DEF n, v, w
  <2> QED
    BY <2>1, <2>2 DEF IsPrefix, u

(* Each is a prefix of itself. *)
LEMMA PrefixSelf == ASSUME NEW s \in Seq(Events) PROVE IsPrefix(s, s)
<1> QED
  BY LenProperties DEF IsPrefix

(* Every stage of a stream is a prefix of the whole. *)
LEMMA StagesArePrefixes ==
    ASSUME NEW e \in Replies,
           NEW s \in {<<>>, Started, Opened(e), Closed(e), Whole(e)}
    PROVE  IsPrefix(s, Whole(e))
<1>0. /\ RoleEvent \in Events /\ ContentEvent \in Events /\ DoneEvent \in Events
      /\ FinalEvent(e) \in Events
  BY EventTypes
<1>1. /\ <<>> \in Seq(Events) /\ Started \in Seq(Events) /\ Opened(e) \in Seq(Events)
      /\ Closed(e) \in Seq(Events) /\ Whole(e) \in Seq(Events)
  BY StagesType, EmptySeq
<1>2. s \in Seq(Events) /\ IsPrefix(s, s)
  BY <1>1, PrefixSelf
<1>3. IsPrefix(s, <<>>) => IsPrefix(s, Started)
  BY <1>0, <1>1, <1>2, PrefixAppend DEF Started
<1>4. IsPrefix(s, Started) => IsPrefix(s, Opened(e))
  <2>1. IsPrefix(s, Started) => IsPrefix(s, Append(Started, ContentEvent))
    BY <1>0, <1>1, <1>2, PrefixAppend, Zenon
  <2> QED
    BY <2>1, Zenon DEF Opened
<1>5. IsPrefix(s, Opened(e)) => IsPrefix(s, Closed(e))
  BY <1>0, <1>1, <1>2, PrefixAppend, Zenon DEF Closed
<1>6. IsPrefix(s, Closed(e)) => IsPrefix(s, Whole(e))
  BY <1>0, <1>1, <1>2, PrefixAppend, Zenon DEF Whole
<1> QED
  BY <1>2, <1>3, <1>4, <1>5, <1>6, Zenon

(* Appending one after the other is writing them side by side.             *)
LEMMA SideBySide ==
    ASSUME NEW s \in Seq(Events), NEW t \in Seq(Events), NEW e \in Events,
           Len(t) = Len(s) + 1, t[Len(s) + 1] = e,
           \A i \in 1 .. Len(s) : t[i] = s[i]
    PROVE  Append(s, e) = t
<1> DEFINE u == Append(s, e)
<1>1. /\ u \in Seq(Events)
      /\ Len(u) = Len(s) + 1
      /\ \A i \in 1 .. Len(s) : u[i] = s[i]
      /\ u[Len(s) + 1] = e
  BY AppendProperties
<1> HIDE DEF u
<1>2. Len(s) \in Nat
  BY LenProperties
<1>3. \A i \in 1 .. Len(u) : i \in 1 .. Len(s) \/ i = Len(s) + 1
  BY <1>1, <1>2
<1>4. Len(u) = Len(t) /\ \A i \in 1 .. Len(u) : u[i] = t[i]
  BY <1>1, <1>3
<1>5. u = t
  BY <1>1, <1>4, SeqEqual, Zenon
<1> QED
  BY <1>5 DEF u

(* Streams of up to four events. *)
LEMMA Single == ASSUME NEW a \in Events PROVE Append(<<>>, a) = <<a>>
<1> QED
  BY EmptySeq, SideBySide

(* Two events. *)
LEMMA Pair ==
    ASSUME NEW a \in Events, NEW b \in Events
    PROVE  Append(<<a>>, b) = <<a, b>>
<1> DEFINE s == <<a>>
           t == <<a, b>>
<1>1. s \in Seq(Events) /\ t \in Seq(Events)
  OBVIOUS
<1>2. Len(s) = 1 /\ Len(t) = 2
  OBVIOUS
<1>3. (\A i \in 1 .. 1 : t[i] = s[i]) /\ t[2] = b
  OBVIOUS
<1> HIDE DEF s, t
<1>4. Len(t) = Len(s) + 1 /\ t[Len(s) + 1] = b /\ \A i \in 1 .. Len(s) : t[i] = s[i]
  BY <1>2, <1>3
<1>5. Append(s, b) = t
  BY <1>1, <1>4, SideBySide, Zenon
<1> QED
  BY <1>5 DEF s, t

(* Three. *)
LEMMA Triple ==
    ASSUME NEW a \in Events, NEW b \in Events, NEW c \in Events
    PROVE  Append(<<a, b>>, c) = <<a, b, c>>
<1> DEFINE s == <<a, b>>
           t == <<a, b, c>>
<1>1. s \in Seq(Events) /\ t \in Seq(Events)
  OBVIOUS
<1>2. Len(s) = 2 /\ Len(t) = 3
  OBVIOUS
<1>3. (\A i \in 1 .. 2 : t[i] = s[i]) /\ t[3] = c
  OBVIOUS
<1> HIDE DEF s, t
<1>4. Len(t) = Len(s) + 1 /\ t[Len(s) + 1] = c /\ \A i \in 1 .. Len(s) : t[i] = s[i]
  BY <1>2, <1>3
<1>5. Append(s, c) = t
  BY <1>1, <1>4, SideBySide, Zenon
<1> QED
  BY <1>5 DEF s, t

(* Four. *)
LEMMA Quadruple ==
    ASSUME NEW a \in Events, NEW b \in Events, NEW c \in Events, NEW d \in Events
    PROVE  Append(<<a, b, c>>, d) = <<a, b, c, d>>
<1> DEFINE s == <<a, b, c>>
           t == <<a, b, c, d>>
<1>1. s \in Seq(Events) /\ t \in Seq(Events)
  OBVIOUS
<1>2. Len(s) = 3 /\ Len(t) = 4
  OBVIOUS
<1>3. (\A i \in 1 .. 3 : t[i] = s[i]) /\ t[4] = d
  OBVIOUS
<1> HIDE DEF s, t
<1>4. Len(t) = Len(s) + 1 /\ t[Len(s) + 1] = d /\ \A i \in 1 .. Len(s) : t[i] = s[i]
  BY <1>2, <1>3
<1>5. Append(s, d) = t
  BY <1>1, <1>4, SideBySide, Zenon
<1> QED
  BY <1>5 DEF s, t

(* Both ends of a stream make it whole. *)
LEMMA WholeStreamsHasBoth ==
    ASSUME NEW e \in Replies
    PROVE  Whole(e) \in WholeStreams /\ Failed \in WholeStreams
<1> DEFINE f == FinalEvent(e)
<1>0. /\ RoleEvent \in Events /\ ContentEvent \in Events /\ DoneEvent \in Events
      /\ ErrorEvent \in Events /\ f \in Events
  BY EventTypes
<1>1. f = Event("final", Finish(e)) /\ Finish(e) \in Reasons
  BY EventTypes DEF FinalEvent
<1> HIDE DEF f
<1>2. Started = <<RoleEvent>>
  BY <1>0, Single DEF Started
<1>3. Failed = <<RoleEvent, ErrorEvent>>
  BY <1>0, <1>2, Pair DEF Failed
<1>4. Failed \in WholeStreams
  BY <1>3 DEF WholeStreams, RoleEvent, ErrorEvent
<1>5. CASE e.text
  <2>1. Opened(e) = <<RoleEvent, ContentEvent>>
    BY <1>0, <1>2, <1>5, Pair DEF Opened
  <2>2. /\ Append(<<RoleEvent, ContentEvent>>, f) = <<RoleEvent, ContentEvent, f>>
        /\ Append(<<RoleEvent, ContentEvent, f>>, DoneEvent) = <<RoleEvent, ContentEvent, f, DoneEvent>>
    BY <1>0, Triple, Quadruple
  <2>3. Whole(e) = <<RoleEvent, ContentEvent, f, DoneEvent>>
    BY <2>1, <2>2 DEF Whole, Closed, f
  <2> QED
    BY <1>1, <1>4, <2>3 DEF WholeStreams, RoleEvent, ContentEvent, DoneEvent
<1>6. CASE ~e.text
  <2>1. Opened(e) = <<RoleEvent>>
    BY <1>2, <1>6 DEF Opened
  <2>2. /\ Append(<<RoleEvent>>, f) = <<RoleEvent, f>>
        /\ Append(<<RoleEvent, f>>, DoneEvent) = <<RoleEvent, f, DoneEvent>>
    BY <1>0, Pair, Triple
  <2>3. Whole(e) = <<RoleEvent, f, DoneEvent>>
    BY <2>1, <2>2 DEF Whole, Closed, f
  <2> QED
    BY <1>1, <1>4, <2>3 DEF WholeStreams, RoleEvent, DoneEvent
<1> QED
  BY <1>5, <1>6

(* What a client has read is a stage of a stream. *)
LEMMA ReadShapes ==
    ASSUME Inv, NEW r \in Requests
    PROVE  sent[r] \in {<<>>, Started, Opened(reply[r]), Closed(reply[r]), Whole(reply[r]), Failed}
<1> DEFINE e == reply[r]
<1>1. Read(r) /\ pc[r] \in Labels
  BY DEF Inv, Point, TypeOK
<1>2. pc[r] \in {"idle", "route", "complete", "role"} => sent[r] = <<>>
  BY <1>1, Zenon DEF Read
<1>3. pc[r] \in {"upstream", "content"} => sent[r] = Started
  BY <1>1, Zenon DEF Read
<1>4. /\ pc[r] = "final" => sent[r] = Opened(e)
      /\ pc[r] = "end" => sent[r] = Closed(e)
      /\ pc[r] = "done" => sent[r] \in {<<>>, Failed, Whole(e)}
      /\ pc[r] = "gone" => sent[r] \in {<<>>, Started, Opened(e), Closed(e)}
  BY <1>1, Zenon DEF Read
<1>5. pc[r] \in {"idle", "route", "complete", "role", "upstream", "content", "final",
                 "end", "done", "gone"}
  BY <1>1 DEF Labels
<1> QED
  BY <1>2, <1>3, <1>4, <1>5

(* What a client reads is the beginning of a whole stream, at every        *)
(* moment, and a stream that has ended for the gateway is whole.           *)
THEOREM StreamsAreWellFormed == Spec => []StreamsWellFormed
<1>1. Inv => StreamsWellFormed
  <2> SUFFICES ASSUME Inv, NEW r \in Requests
               PROVE  /\ \E w \in WholeStreams : IsPrefix(sent[r], w)
                      /\ pc[r] = "done" /\ call[r].stream /\ answer[r] = 200 =>
                            sent[r] \in WholeStreams
    BY DEF StreamsWellFormed
  <2> DEFINE e == reply[r]
  <2>1. e \in Replies /\ pc[r] \in Labels
    BY DEF Inv, TypeOK
  <2>2. Whole(e) \in WholeStreams /\ Failed \in WholeStreams
    BY <2>1, WholeStreamsHasBoth
  <2>3. Read(r) /\ Answered(r)
    BY DEF Inv, Point
  <2>4. sent[r] \in {<<>>, Started, Opened(e), Closed(e), Whole(e), Failed}
    BY ReadShapes
  <2>5. IsPrefix(Failed, Failed)
    BY StagesType, PrefixSelf
  <2>6. ASSUME sent[r] = Failed
        PROVE  \E w \in WholeStreams : IsPrefix(sent[r], w)
    BY <2>2, <2>5, <2>6
  <2>7. ASSUME sent[r] \in {<<>>, Started, Opened(e), Closed(e), Whole(e)}
        PROVE  \E w \in WholeStreams : IsPrefix(sent[r], w)
    <3>1. IsPrefix(sent[r], Whole(e))
      BY <2>1, <2>7, StagesArePrefixes
    <3> QED
      BY <2>2, <3>1
  <2>8. pc[r] = "done" /\ call[r].stream /\ answer[r] = 200 => sent[r] \in WholeStreams
    BY <2>2, <2>3 DEF Read, Answered
  <2> QED
    BY <2>4, <2>6, <2>7, <2>8, Zenon
<1> QED
  BY <1>1, GatewayInvariance, PTL

(* Where the events of the short streams stand. *)
LEMMA StartWhere ==
    /\ Len(Started) = 1 /\ Started[1] = RoleEvent
    /\ Len(Append(Started, ContentEvent)) = 2
    /\ Append(Started, ContentEvent)[1] = RoleEvent
    /\ Append(Started, ContentEvent)[2] = ContentEvent
    /\ Len(Failed) = 2 /\ Failed[1] = RoleEvent /\ Failed[2] = ErrorEvent
<1>0. /\ RoleEvent \in Events /\ ContentEvent \in Events /\ ErrorEvent \in Events
      /\ Started \in Seq(Events)
  BY EventTypes, StagesType
<1>1. Len(Started) = 1 /\ Started[1] = RoleEvent
  BY <1>0, EmptySeq, AppendProperties DEF Started
<1>2. ASSUME NEW v \in Events
      PROVE  LET u == Append(Started, v) IN Len(u) = 2 /\ u[1] = RoleEvent /\ u[2] = v
  <2> DEFINE u == Append(Started, v)
  <2>1. /\ Len(u) = Len(Started) + 1 /\ u[Len(Started) + 1] = v
        /\ \A i \in 1 .. Len(Started) : u[i] = Started[i]
    BY <1>0, AppendProperties
  <2> HIDE DEF u
  <2>2. Len(u) = 2 /\ u[1] = RoleEvent /\ u[2] = v
    BY <1>1, <2>1
  <2> QED
    BY <2>2 DEF u
<1> QED
  BY <1>0, <1>1, <1>2 DEF Failed

(* Where the events of a whole stream stand. *)
LEMMA FinalWhere ==
    ASSUME NEW e \in Replies
    PROVE  LET n == Len(Opened(e)) IN
           /\ n \in {1, 2} /\ Opened(e)[1] = RoleEvent
           /\ (n = 2 => Opened(e)[2] = ContentEvent)
           /\ e.text <=> n = 2
           /\ Len(Closed(e)) = n + 1 /\ Len(Whole(e)) = n + 2
           /\ \A i \in 1 .. n : Closed(e)[i] = Opened(e)[i] /\ Whole(e)[i] = Opened(e)[i]
           /\ Closed(e)[n + 1] = FinalEvent(e) /\ Whole(e)[n + 1] = FinalEvent(e)
           /\ Whole(e)[n + 2] = DoneEvent
<1> DEFINE n == Len(Opened(e))
<1>0. /\ RoleEvent \in Events /\ ContentEvent \in Events /\ DoneEvent \in Events
      /\ FinalEvent(e) \in Events
  BY EventTypes
<1>1. /\ Started \in Seq(Events) /\ Opened(e) \in Seq(Events)
      /\ Closed(e) \in Seq(Events) /\ Whole(e) \in Seq(Events)
  BY StagesType
<1>4. /\ n \in {1, 2} /\ Opened(e)[1] = RoleEvent /\ (n = 2 => Opened(e)[2] = ContentEvent)
      /\ e.text <=> n = 2
  <2>1. CASE e.text
    BY <2>1, StartWhere DEF Opened
  <2>2. CASE ~e.text
    BY <2>2, StartWhere DEF Opened
  <2> QED
    BY <2>1, <2>2
<1> HIDE DEF n
<1>5. /\ Len(Closed(e)) = n + 1 /\ Closed(e)[n + 1] = FinalEvent(e)
      /\ \A i \in 1 .. n : Closed(e)[i] = Opened(e)[i]
  BY <1>0, <1>1, AppendProperties DEF Closed, n
<1>6. /\ Len(Whole(e)) = (n + 1) + 1 /\ Whole(e)[(n + 1) + 1] = DoneEvent
      /\ \A i \in 1 .. n + 1 : Whole(e)[i] = Closed(e)[i]
  BY <1>0, <1>1, <1>5, AppendProperties DEF Whole
<1>7. (n + 1) + 1 = n + 2 /\ n + 1 \in 1 .. n + 1 /\ \A i \in 1 .. n : i \in 1 .. n + 1
  BY <1>4
<1>8. /\ /\ Len(Whole(e)) = n + 2 /\ Whole(e)[n + 2] = DoneEvent
      /\ Whole(e)[n + 1] = FinalEvent(e)
      /\ \A i \in 1 .. n : Whole(e)[i] = Opened(e)[i]
  BY <1>5, <1>6, <1>7
<1> QED
  BY <1>4, <1>5, <1>8 DEF n

(* The kinds of the events. *)
LEMMA Kinds ==
    /\ RoleEvent.kind = "role" /\ ContentEvent.kind = "content"
    /\ DoneEvent.kind = "done" /\ ErrorEvent.kind = "error"
    /\ \A e : FinalEvent(e).kind = "final" /\ FinalEvent(e).finish = Finish(e)
BY DEF RoleEvent, ContentEvent, DoneEvent, ErrorEvent, FinalEvent, Event

(* The finish reason that a client reads has the meaning of its provider's *)
(* own, and text the provider gave has come before it.                     *)
THEOREM FinishIsTheProviders == Spec => []FinishIsProviders
<1>1. Inv => FinishIsProviders
  <2> SUFFICES ASSUME Inv, NEW r \in Requests, NEW i \in 1 .. Len(sent[r]),
                      sent[r][i].kind = "final"
               PROVE  LET told == sent[r][i].finish
                          own  == reply[r].own
                      IN
                      /\ told = "stop" <=> own \in {"stop", "end_turn", ""}
                      /\ told = "tool_calls" <=> own = "tool_calls"
                      /\ told = "length" <=> own \in {"length", "max_tokens", "refusal"}
                      /\ reply[r].text = (\E j \in 1 .. i : sent[r][j].kind = "content")
    BY DEF FinishIsProviders
  <2> DEFINE e == reply[r]
             n == Len(Opened(e))
  <2>1. e \in Replies
    BY DEF Inv, TypeOK
  <2>2. sent[r] \in {<<>>, Started, Opened(e), Closed(e), Whole(e), Failed}
    BY ReadShapes
  <2>3. /\ /\ n \in {1, 2} /\ Opened(e)[1] = RoleEvent
        /\ (n = 2 => Opened(e)[2] = ContentEvent)
        /\ e.text <=> n = 2
        /\ Len(Closed(e)) = n + 1 /\ Len(Whole(e)) = n + 2
        /\ \A k \in 1 .. n : Closed(e)[k] = Opened(e)[k] /\ Whole(e)[k] = Opened(e)[k]
        /\ Closed(e)[n + 1] = FinalEvent(e) /\ Whole(e)[n + 1] = FinalEvent(e)
        /\ Whole(e)[n + 2] = DoneEvent
    BY <2>1, FinalWhere
  <2> HIDE DEF n
  <2>4. e.text \in BOOLEAN /\ Meant(e)
    BY <2>1 DEF Replies, Inv, Point
  <2>5. sent[r] \notin {<<>>, Started, Failed}
    <3>1. sent[r] # <<>>
      OBVIOUS
    <3>2. sent[r] # Started
      BY StartWhere, Kinds
    <3>3. sent[r] # Failed
      BY StartWhere, Kinds
    <3> QED
      BY <3>1, <3>2, <3>3
  <2>6. \A k \in 1 .. n : Opened(e)[k].kind = IF k = 1 THEN "role" ELSE "content"
    BY <2>3, Kinds
  <2>7. sent[r] # Opened(e)
    BY <2>6 DEF n
  <2>8. ASSUME sent[r] \in {Closed(e), Whole(e)}
        PROVE  /\ i = n + 1 /\ sent[r][i] = FinalEvent(e)
               /\ \A k \in 1 .. n : sent[r][k] = Opened(e)[k]
    <3>1. \A k \in 1 .. n : sent[r][k] = Opened(e)[k]
      BY <2>3, <2>8
    <3>2. sent[r][n + 1] = FinalEvent(e)
      BY <2>3, <2>8
    <3>3. i \in 1 .. n \/ i = n + 1 \/ (i = n + 2 /\ sent[r][i] = DoneEvent)
      BY <2>3, <2>8
    <3>4. i \notin 1 .. n
      BY <2>6, <3>1
    <3> QED
      BY <3>1, <3>2, <3>3, <3>4, Kinds
  <2>9. /\ i = n + 1 /\ sent[r][i] = FinalEvent(e)
        /\ \A k \in 1 .. n : sent[r][k] = Opened(e)[k]
    BY <2>2, <2>5, <2>7, <2>8
  <2>10. \A j \in 1 .. i : sent[r][j].kind = "content" <=> j = 2 /\ n = 2
    <3>1. \A j \in 1 .. i : j \in 1 .. n \/ j = i
      BY <2>3, <2>9
    <3>2. \A j \in 1 .. n : sent[r][j].kind = "content" <=> j = 2
      BY <2>3, <2>6, <2>9
    <3>3. sent[r][i].kind # "content"
      BY <2>9, Kinds
    <3> QED
      BY <2>3, <2>9, <3>1, <3>2, <3>3
  <2>11. e.text = (\E j \in 1 .. i : sent[r][j].kind = "content")
    <3>1. 2 \in 1 .. i /\ n = 2 <=> n = 2
      BY <2>3, <2>9
    <3>2. (\E j \in 1 .. i : sent[r][j].kind = "content") <=> n = 2
      BY <2>10, <3>1
    <3> QED
      BY <2>3, <2>4, <3>2
  <2>12. sent[r][i].finish = Finish(e)
    BY <2>9, Kinds
  <2> QED
    BY <2>4, <2>11, <2>12 DEF Meant
<1> QED
  BY <1>1, GatewayInvariance, PTL

-----------------------------------------------------------------------------
(* The gateway and its authentication together *)

(* Every step is a step of one part and leaves the other alone. *)
LEMMA PartsNext == [GNext]_gvars => [Next]_vars /\ [ANext]_avars
<1> SUFFICES ASSUME [GNext]_gvars PROVE [Next]_vars /\ [ANext]_avars
  OBVIOUS
<1>1. CASE Authenticate
  BY <1>1 DEF Authenticate
<1>2. ASSUME NEW r \in Requests, Chat(r) PROVE [Next]_vars /\ [ANext]_avars
  BY <1>2 DEF Chat, Next
<1>3. ASSUME NEW r \in Requests, Handle(r) PROVE [Next]_vars /\ [ANext]_avars
  BY <1>3 DEF Handle, Next
<1>4. CASE GFinished \/ UNCHANGED gvars
  BY <1>4 DEF GFinished, gvars
<1> QED
  BY <1>1, <1>2, <1>3, <1>4 DEF GNext

(* The composition implements both parts. *)
THEOREM ImplementsParts == GSpec => Spec /\ ASpec
<1>1. GInit => Init /\ AInit
  BY DEF GInit
<1> QED
  BY <1>1, PartsNext, PTL DEF GSpec, Spec, ASpec

(* Typing of the whole. *)
THEOREM GatewayTyping == GSpec => []GTypeOK
<1>1. Inv /\ AInv => GTypeOK
  BY DEF Inv, AInv, GTypeOK
<1> QED
  BY <1>1, ImplementsParts, GatewayInvariance, AuthInvariance, PTL

(* A verdict is final. *)
LEMMA VerdictStays ==
    ASSUME AInv, [ANext]_avars, NEW c \in Callers, verdict[c] = "in"
    PROVE  verdict'[c] = "in"
<1>1. at[c] = "decided" /\ verdict \in [Callers -> {"", "in", "401", "500"}]
  BY DEF AInv, KeysHeld, ATypeOK
<1>2. ASSUME NEW d \in Callers, NEW t, NEW v, Decide(d, t, v), at[d] # "decided"
      PROVE  verdict'[c] = "in"
  <2>1. d # c /\ verdict' = [verdict EXCEPT ![d] = v]
    BY <1>1, <1>2 DEF Decide
  <2> QED
    BY <1>1, <2>1
<1>3. ASSUME NEW d \in Callers, Verify(d), at[d] # "decided" PROVE verdict'[c] = "in"
  BY <1>2, <1>3, VerifyDecides
<1>4. ASSUME NEW d \in Callers, AStep(d) PROVE verdict'[c] = "in"
  <2>1. CASE Enter(d)
    BY <1>2, <1>3, <2>1 DEF Enter, Move
  <2>2. CASE Serve(d) \/ Store(d)
    BY <2>2 DEF Serve, Store, Move
  <2>3. CASE FetchFails(d)
    BY <1>2, <2>3 DEF FetchFails
  <2>4. CASE Close(d)
    BY <1>3, <2>4 DEF Close
  <2> QED
    BY <1>4, <2>1, <2>2, <2>3, <2>4 DEF AStep
<1>5. CASE Rotate \/ UNCHANGED avars
  BY <1>5 DEF Rotate, avars
<1> QED
  BY <1>4, <1>5 DEF ANext

(* Only callers who were let in have a handler that runs. *)
Admitted == \A r \in Requests : pc[r] # "idle" => verdict[r] = "in"

(* A request's handler starts only after its caller has been let in. *)
LEMMA AdmittedNext ==
    ASSUME Inv, AInv, Admitted, [GNext]_gvars
    PROVE  Admitted'
<1>1. [ANext]_avars
  BY PartsNext
<1>2. ASSUME NEW r \in Requests, verdict[r] = "in" PROVE verdict'[r] = "in"
  BY <1>1, <1>2, CallersAssumption, VerdictStays
<1>3. ASSUME NEW r \in Requests, pc'[r] # pc[r] PROVE verdict[r] = "in"
  <2>1. PICK d \in Requests : Chat(d) \/ Handle(d)
    BY <1>3 DEF GNext, gvars, vars, Authenticate, GFinished
  <2>2. CASE Chat(d)
    BY <1>3, <2>2 DEF Chat, MayChat, Arrive, Goto, Inv, TypeOK
  <2>3. CASE Handle(d)
    <3>1. pc[d] # "idle" /\ \E label : pc' = [pc EXCEPT ![d] = label]
      BY <2>3 DEF Handle, Step, Choose, Complete, SendRole, Upstream, SendContent,
                  SendFinal, SendDone, Disconnect, Reject, Goto
    <3> QED
      BY <1>3, <3>1 DEF Admitted, Inv, TypeOK
  <2> QED
    BY <2>1, <2>2, <2>3
<1> QED
  BY <1>2, <1>3 DEF Admitted

(* A provider is called only for a caller whom the issuer vouches for,     *)
(* outside mock mode, in every order of fetches, failures and rotations.   *)
THEOREM OnlyVouchedChat == GSpec => []ChatsAreAuthenticated
<1>1. GInit => Admitted
  BY DEF GInit, Init, Admitted
<1>2. AInv /\ Admitted => ChatsAreAuthenticated
  BY CallersAssumption DEF AInv, AdmittedByIssuer, Admitted, ChatsAreAuthenticated
<1> QED
  BY <1>1, <1>2, AdmittedNext, ImplementsParts, GatewayInvariance, AuthInvariance, PTL DEF GSpec

=============================================================================
