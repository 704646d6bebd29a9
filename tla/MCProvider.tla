----------------------------- MODULE MCProvider -----------------------------
(***************************************************************************)
(* What a request to a model goes through, checked side by side: the       *)
(* gateway ring, a Responses session, the scopes and models providers are  *)
(* bound by, the tokens they are paid with, the decoders, the request      *)
(* builders, and the registry of the tools it offers.  The parts share no  *)
(* state; each behaviour exercises the one `part' names while the others   *)
(* stay as they began.                                                     *)
(***************************************************************************)
EXTENDS Connections, ProviderScopes, OAuthTokens, StreamDecode, RequestModel, Capabilities

CONSTANTS c1, c2

VARIABLE part

MCModes == c1 :> "Hybrid" @@ c2 :> "Stateful"
MCTransports == c1 :> {"HttpSse", "WebSocket"} @@ c2 :> {"WebSocket"}

MCRoute(wireApi, provider) == [wire |-> wireApi, provider |-> provider, model |-> "m"]
MCRoutes == {MCRoute("responses", "openai"), MCRoute("responses", "relay"), MCRoute("anthropic", "anthropic"),
             MCRoute("gemini", "gemini"), MCRoute("chat", "local")}

MCTool(name, sort, deferred) == [name |-> name, kind |-> sort, deferred |-> deferred]
MCTools == {MCTool("find", "function", TRUE), MCTool("read", "function", FALSE), MCTool("web", "web", FALSE)}

MCSymmetry == Permutations(ScopedAgents)
MCBuiltinWire == "openai" :> "responses" @@ "ollama" :> "messages"
MCInstances ==
    {[wire |-> "responses", ring |-> FALSE, prefix |-> TRUE], [wire |-> "custom", ring |-> FALSE, prefix |-> FALSE]}
\* A gateway ring of Responses endpoints, which has session scopes and no
\* conversation scopes.
MCRings == {[wire |-> "responses", ring |-> TRUE, prefix |-> FALSE]}
MCModel(name, created) == [name |-> name, created |-> created]
MCModelLists ==
    {<<>>, <<MCModel(1, 0), MCModel(2, 0)>>, <<MCModel(2, 0), MCModel(1, 0)>>,
     <<MCModel(1, 1), MCModel(2, 2)>>, <<MCModel(2, 2), MCModel(1, 1)>>}

connectionVars == <<ringVars, responsesVars, scopeVars, oauthVars>>
contentVars == <<decodeVars, requestVars, capVars>>

Init ==
    /\ part \in {"ring", "responses", "scopes", "tokens", "decode", "request", "registry"}
    /\ RingInit /\ ResponsesInit
    /\ ScopesInit /\ (part # "scopes" => choice = [transport |-> "Undecided", mode |-> "Undecided"])
    /\ OAuthInit /\ (part # "tokens" => kind = "None")
    /\ DecodeInit /\ (part # "decode" => wire = "whole")
    /\ RequestInit /\ (part # "request" => route = MCRoute("chat", "local"))
    /\ CapInit /\ (part # "registry" => canonical = [path \in SkillPaths |-> CHOOSE d \in Directories : TRUE])

ConnectionNext ==
    \/ part = "ring" /\ RingNext
       /\ UNCHANGED <<responsesVars, scopeVars, oauthVars>>
    \/ part = "responses" /\ ResponsesNext
       /\ UNCHANGED <<ringVars, scopeVars, oauthVars>>
    \/ part = "scopes" /\ ScopesNext
       /\ UNCHANGED <<ringVars, responsesVars, oauthVars>>
    \/ part = "tokens" /\ OAuthNext
       /\ UNCHANGED <<ringVars, responsesVars, scopeVars>>

ContentNext ==
    \/ part = "decode" /\ DecodeNext
       /\ UNCHANGED <<requestVars, capVars>>
    \/ part = "request" /\ RequestNext
       /\ UNCHANGED <<decodeVars, capVars>>
    \/ part = "registry" /\ CapNext
       /\ UNCHANGED <<decodeVars, requestVars>>

Next ==
    \/ ConnectionNext /\ UNCHANGED <<contentVars, part>>
    \/ ContentNext /\ UNCHANGED <<connectionVars, part>>

Spec == Init /\ [][Next]_<<connectionVars, contentVars, part>>

\* The behaviours of the scopes alone.
RingSpec == Spec /\ part = "scopes"

\* Callers that share a provider do not spoil each other's requests: an outage
\* is counted once however many calls it fails, events and response ids stay
\* with their own conversation and agent, a selection does not depend on the
\* order of a listing, and a refresh token is spent by one of them:
\* OutageCountsOnce (gateway_ring/health.rs), StreamsMixOnlyOnceAbandoned and
\* RefusedIsForgotten (responses/session.rs), AgentsKeepTheirChain and
\* SelectionIsDeterministic (mentra/src/provider.rs), OneRefreshPerToken (auth).
ConnectionsAreShared ==
    /\ part = "ring" => OutageCountsOnce
    /\ part = "responses" => StreamsMixOnlyOnceAbandoned /\ RefusedIsForgotten
    /\ part = "scopes" => AgentsKeepTheirChain /\ SelectionIsDeterministic
    /\ part = "tokens" => OneRefreshPerToken

\* What a stream said is what the response holds, and only whole calls run: see
\* AssembledIsSaid, OnlyWholeCallsRun and DecodedIsWellFormed.
ResponsesAreFaithful == part = "decode" => AssembledIsSaid /\ OnlyWholeCallsRun /\ DecodedIsWellFormed

\* What a conversation held is what the request says, on every wire and after
\* every move between them: see ConversationIsKept, ResultsAnswerCalls,
\* SealedReasoningGoesHome, CacheIsRead and OfferedToolsAreReachable.
RequestsAreFaithful ==
    part = "request" =>
        /\ ConversationIsKept /\ ResultsAnswerCalls /\ SealedReasoningGoesHome
        /\ CacheIsRead /\ OfferedToolsAreReachable

\* Tools are there while their guard is, and what the model is offered is what a
\* call would run: see ScopedToolsFollowGuards and SpecsAreCurrent.
OfferedIsRegistered == part = "registry" => ScopedToolsFollowGuards /\ SpecsAreCurrent
=============================================================================
