-------------------------- MODULE InferenceGateway --------------------------
(***************************************************************************)
(* The inference gateway: POST /v1/chat/completions, from the choice of a  *)
(* provider to the last server-sent event.                                 *)
(*                                                                         *)
(* A streamed answer has its status 200 sent before the first event; what  *)
(* goes wrong later can only be told in an event.  No provider streams yet:*)
(* stream() awaits the whole completion and yields it as one delta, and    *)
(* Ollama's raises.  The client may go away at any event, which cancels    *)
(* the generator.  One action is one await or one yield.                   *)
(***************************************************************************)
EXTENDS Naturals, Sequences, SequencesExt

CONSTANTS Requests,    \* HTTP requests; each runs once
          Models,
          Providers,   \* "nvidia", "openai", "anthropic", "ollama"
          Routers,     \* what the provider router may be: the providers that
                       \* _build_router has enabled, or NoRouter
          Streamers,   \* the providers whose stream() is a generator
          Catalog,     \* MODEL_CATALOG: Catalog[model], NoProvider if not listed
          Default,     \* INFERENCE_DEFAULT_PROVIDER
          NoProvider,
          NoRouter     \* _provider_router before the lifespan has set it

ASSUME GatewayAssumption ==
    /\ Routers \subseteq (SUBSET Providers) \cup {NoRouter}
    /\ \A S \in SUBSET Providers : NoRouter # S
    /\ Streamers \subseteq Providers
    /\ Default \in Providers
    /\ Catalog \in [Models -> Providers \cup {NoProvider}]
    /\ NoProvider \notin Providers
    /\ Models # {}

VARIABLES router,    \* the registered providers
          call,      \* what each request asks for
          pc,        \* where its handler is
          provider,  \* the provider it is routed to
          reply,     \* what the provider has answered
          answer,    \* the HTTP status, 0 if none has been sent
          sent       \* the events the client has received

vars == <<router, call, pc, provider, reply, answer, sent>>

-----------------------------------------------------------------------------
(* Types *)

(* The messages matter by role only; user stands for assistant too, which  *)
(* is treated alike, and tool for every role that is not passed on.  "odd" *)
(* is a message to be passed on with a list item whose text is no string.  *)
Roles == {"system", "user", "tool"}

Calls == [model : Models, roles : SUBSET Roles, odd : BOOLEAN, stream : BOOLEAN]

(* The finish reasons, "" for null: what the OpenAI-compatible providers   *)
(* report, what Anthropic reports, and what the adapters make of them.     *)
ChatReasons      == {"stop", "length", "tool_calls", ""}
AnthropicReasons == {"end_turn", "max_tokens", "refusal"}
Reasons          == {"stop", "length", "tool_calls"}

(* A provider's answer: whether there is text, its own reason for the end, *)
(* and the adapter's.                                                      *)
Replies == [text : BOOLEAN, own : ChatReasons \cup AnthropicReasons,
            finish : Reasons \cup {""}]
NoReply == [text |-> FALSE, own |-> "", finish |-> ""]

Event(kind, finish) == [kind |-> kind, finish |-> finish]
Events == [kind : {"role", "content", "final", "done", "error"}, finish : Reasons \cup {""}]

Labels == {"idle", "route", "complete", "role", "upstream", "content", "final",
           "end", "done", "gone"}

TypeOK ==
    /\ router \in Routers
    /\ call \in [Requests -> Calls]
    /\ pc \in [Requests -> Labels]
    /\ provider \in [Requests -> Providers \cup {NoProvider}]
    /\ reply \in [Requests -> Replies]
    /\ answer \in [Requests -> {0, 200, 422, 500, 502, 503}]
    /\ sent \in [Requests -> Seq(Events)]

-----------------------------------------------------------------------------
Unset == CHOOSE c \in Calls : c.roles = {} /\ ~c.odd /\ ~c.stream

Init ==
    /\ router \in Routers
    /\ call = [r \in Requests |-> Unset]
    /\ pc = [r \in Requests |-> "idle"]
    /\ provider = [r \in Requests |-> NoProvider]
    /\ reply = [r \in Requests |-> NoReply]
    /\ answer = [r \in Requests |-> 0]
    /\ sent = [r \in Requests |-> <<>>]

Goto(r, label) == pc' = [pc EXCEPT ![r] = label]

(* The roles the provider gets: unsupported ones are dropped, and a        *)
(* conversation left empty becomes one user message.                       *)
Kept(r) == call[r].roles \ {"tool"}

Passed(r) == IF Kept(r) = {} THEN {"user"} ELSE Kept(r)

(* Whether the texts of the messages can be joined; a TypeError if not.    *)
Joins(r) == ~(call[r].odd /\ Kept(r) # {})

Arrive(r) ==
    /\ pc[r] = "idle"
    /\ \E c \in Calls : call' = [call EXCEPT ![r] = c]
    /\ Goto(r, "route")
    /\ UNCHANGED <<router, provider, reply, answer, sent>>

(* ProviderRouter.route: the first of explicit choice, tenant's preference,*)
(* catalogue and default that is registered.                               *)
Route(explicit, preferred, model) ==
    IF explicit \in router THEN explicit
    ELSE IF preferred \in router THEN preferred
    ELSE IF Catalog[model] \in router THEN Catalog[model]
    ELSE IF Default \in router THEN Default
    ELSE NoProvider

(* The handler passes neither the X-Provider header nor a preference. *)
Routed(r) == Route(NoProvider, NoProvider, call[r].model)

Reject(r, code) ==
    /\ answer' = [answer EXCEPT ![r] = code]
    /\ Goto(r, "done")
    /\ UNCHANGED provider

(* The handler before it calls a provider: no router yet, messages that do *)
(* not convert, no provider, or one.  For a stream the status line goes out*)
(* before the generator runs.                                              *)
Choose(r) ==
    /\ pc[r] = "route"
    /\ \/ router = NoRouter /\ Reject(r, 503)
       \/ router # NoRouter /\ ~Joins(r) /\ Reject(r, 500)
       \/ router # NoRouter /\ Joins(r) /\ Routed(r) = NoProvider /\ Reject(r, 422)
       \/ /\ router # NoRouter
          /\ Joins(r)
          /\ Routed(r) # NoProvider
          /\ provider' = [provider EXCEPT ![r] = Routed(r)]
          /\ answer' = [answer EXCEPT ![r] = IF call[r].stream THEN 200 ELSE 0]
          /\ Goto(r, IF call[r].stream THEN "role" ELSE "complete")
    /\ UNCHANGED <<router, call, reply, sent>>

-----------------------------------------------------------------------------
(* The provider *)

(* Anthropic takes the system message apart and refuses a conversation     *)
(* without any other.                                                      *)
Acceptable(r) == provider[r] = "anthropic" => Passed(r) # {"system"}

(* Mutant: Anthropic's stop_reason as it came. *)
AnthropicRaw == {[text |-> TRUE, own |-> f, finish |-> f] : f \in AnthropicReasons}

(* end_turn becomes "stop" and all else "length". *)
AnthropicReplies ==
    {e \in Replies : /\ e.own \in AnthropicReasons
                     /\ e.finish = IF e.own = "end_turn" THEN "stop" ELSE "length"}

(* OpenAI's missing reason becomes "stop", its missing text "". *)
OpenAIReplies ==
    {e \in Replies : /\ e.own \in ChatReasons
                     /\ e.finish = IF e.own = "" THEN "stop" ELSE e.own}

(* NVIDIA passes on what it got, null included. *)
PlainReplies == {e \in Replies : e.own \in ChatReasons /\ e.finish = e.own}

(* Ollama replaces a reason that is missing, not one that is null. *)
Reported(r) ==
    CASE provider[r] = "anthropic" -> AnthropicReplies
      [] provider[r] = "openai"    -> OpenAIReplies
      [] provider[r] = "ollama"    -> OpenAIReplies \cup PlainReplies
      [] OTHER                     -> PlainReplies

(* complete() of a request that is not streamed: the answer, or 502 for    *)
(* whatever goes wrong (status, timeout, an unexpected body).              *)
Complete(r) ==
    /\ pc[r] = "complete"
    /\ \/ /\ Acceptable(r)
          /\ \E e \in Reported(r) : reply' = [reply EXCEPT ![r] = e]
          /\ answer' = [answer EXCEPT ![r] = 200]
       \/ /\ answer' = [answer EXCEPT ![r] = 502]
          /\ UNCHANGED reply
    /\ Goto(r, "done")
    /\ UNCHANGED <<router, call, provider, sent>>

Send(r, event) == sent' = [sent EXCEPT ![r] = Append(@, event)]

SendRole(r) ==
    /\ pc[r] = "role"
    /\ Send(r, Event("role", ""))
    /\ Goto(r, "upstream")
    /\ UNCHANGED <<router, call, provider, reply, answer>>

(* Mutant: a provider that does not answer is waited for. *)
UpstreamWaits(r) ==
    /\ pc[r] = "upstream"
    /\ provider[r] \in Streamers
    /\ Acceptable(r)
    /\ \E e \in Reported(r) :
          /\ reply' = [reply EXCEPT ![r] = e]
          /\ Goto(r, IF e.text THEN "content" ELSE "final")
    /\ UNCHANGED <<router, call, provider, answer, sent>>

(* stream() of the provider: one delta with the whole answer, or an        *)
(* exception, which the generator turns into an error event and its end.   *)
Upstream(r) ==
    /\ pc[r] = "upstream"
    /\ \/ /\ provider[r] \in Streamers
          /\ Acceptable(r)
          /\ \E e \in Reported(r) :
                /\ reply' = [reply EXCEPT ![r] = e]
                /\ Goto(r, IF e.text THEN "content" ELSE "final")
          /\ UNCHANGED sent
       \/ /\ Send(r, Event("error", ""))
          /\ Goto(r, "done")
          /\ UNCHANGED reply
    /\ UNCHANGED <<router, call, provider, answer>>

-----------------------------------------------------------------------------
(* The generator *)

SendContent(r) ==
    /\ pc[r] = "content"
    /\ Send(r, Event("content", ""))
    /\ Goto(r, "final")
    /\ UNCHANGED <<router, call, provider, reply, answer>>

(* Mutant: the reason of the delta is not looked at. *)
FinishAlwaysStop(e) == "stop"

(* The reason of the last delta that had one, "stop" if none had. *)
Finish(e) == IF e.finish = "" THEN "stop" ELSE e.finish

SendFinal(r) ==
    /\ pc[r] = "final"
    /\ Send(r, Event("final", Finish(reply[r])))
    /\ Goto(r, "end")
    /\ UNCHANGED <<router, call, provider, reply, answer>>

(* Mutant: the stream is closed with an error event. *)
SendErrorLast(r) ==
    /\ pc[r] = "end"
    /\ Send(r, Event("error", ""))
    /\ Goto(r, "done")
    /\ UNCHANGED <<router, call, provider, reply, answer>>

SendDone(r) ==
    /\ pc[r] = "end"
    /\ Send(r, Event("done", ""))
    /\ Goto(r, "done")
    /\ UNCHANGED <<router, call, provider, reply, answer>>

(* The client closes the connection and the generator is cancelled; a      *)
(* handler that does not stream is not, it runs to its end.                *)
Disconnect(r) ==
    /\ pc[r] \in {"role", "upstream", "content", "final", "end"}
    /\ Goto(r, "gone")
    /\ UNCHANGED <<router, call, provider, reply, answer, sent>>

-----------------------------------------------------------------------------
Step(r) ==
    \/ Choose(r)
    \/ Complete(r)
    \/ SendRole(r)
    \/ Upstream(r)
    \/ SendContent(r)
    \/ SendFinal(r)
    \/ SendDone(r)

Finished ==
    /\ \A r \in Requests : pc[r] \in {"done", "gone"}
    /\ UNCHANGED vars

Next ==
    \/ \E r \in Requests : Arrive(r) \/ Step(r) \/ Disconnect(r)
    \/ Finished

Spec == Init /\ [][Next]_vars

-----------------------------------------------------------------------------
(* Properties *)

(* What a client that stays may read to the end: the role, at most one     *)
(* content chunk, an empty chunk of its own with the finish reason, [DONE];*)
(* or the role and an error.                                               *)
WholeStreams ==
    {<<Event("role", ""), Event("final", f), Event("done", "")>> : f \in Reasons}
    \cup {<<Event("role", ""), Event("content", ""), Event("final", f), Event("done", "")>> :
            f \in Reasons}
    \cup {<<Event("role", ""), Event("error", "")>>}

(* At every moment a client has read the beginning of a whole stream, and  *)
(* a stream that has ended for the gateway is whole: nothing is cut off    *)
(* without an error event (_stream_response's docstring).                  *)
StreamsWellFormed ==
    \A r \in Requests :
        /\ \E w \in WholeStreams : IsPrefix(sent[r], w)
        /\ pc[r] = "done" /\ call[r].stream /\ answer[r] = 200 => sent[r] \in WholeStreams

(* A client learns from the finish reason what its provider meant by its   *)
(* own, through both conversions: an answer that was cut off is never told *)
(* as a whole one ("stop"), nor a whole one as cut off, and a call of tools*)
(* is recognised.  A reason that is missing is told as "stop", and         *)
(* Anthropic's other ends ("refusal") as cut off.  Text that the provider  *)
(* gave has been sent before (chat.py, comment on finish_reason; base.py,  *)
(* CompletionResponse).                                                    *)
FinishIsProviders ==
    \A r \in Requests : \A i \in 1 .. Len(sent[r]) :
        sent[r][i].kind = "final" =>
            LET told == sent[r][i].finish
                own  == reply[r].own
            IN  /\ told = "stop" <=> own \in {"stop", "end_turn", ""}
                /\ told = "tool_calls" <=> own = "tool_calls"
                /\ told = "length" <=> own \in {"length", "max_tokens", "refusal"}
                /\ reply[r].text = (\E j \in 1 .. i : sent[r][j].kind = "content")

=============================================================================
