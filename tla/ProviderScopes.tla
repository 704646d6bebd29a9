--------------------------- MODULE ProviderScopes ---------------------------
(***************************************************************************)
(* The provider registry of a runtime (provider.rs, runtime.rs) and the    *)
(* scopes it mints: a registry hands out one shared provider, and every    *)
(* agent asks it for a conversation of its own, so that the response chain *)
(* one agent follows is not the one another agent left behind.             *)
(***************************************************************************)
EXTENDS Naturals, Sequences, SequencesExt

CONSTANTS ProviderIds, BuiltinWire,   \* the wire of the builtin with an id
          BuiltinEmbeds,              \* the builtins that come with an embedding provider
          Instances,                  \* what a host may register: wire, ring, prefix
          ScopedAgents, ModelLists,   \* listings: sequences of [name, created]
          Transports, StateModes,     \* the runtime's choices, Undecided among them
          NotSet, Undecided, Departed, MaxScopes

WireApis == {"responses", "messages", "custom"}
ProviderShapes == [wire : WireApis, ring : BOOLEAN, prefix : BOOLEAN]

ASSUME InstancesAssumption ==
    Instances \subseteq ProviderShapes /\ BuiltinWire \in [ProviderIds -> WireApis] /\ BuiltinEmbeds \subseteq ProviderIds

VARIABLES registered,     \* providers: the shape and its scope, or NotSet
          default_provider, embeddings, default_embedding,
          order,          \* history: ids in the order they first came, with what each offered
          scopes,         \* ResponsesSessionState: the connection and the chain's head
          choice,         \* responses_transport and responses_state_mode
          speaker,        \* the provider each agent holds
          crossed         \* history: requests that continued another agent's chain

scopeVars == <<registered, default_provider, embeddings, default_embedding, order, scopes, choice, speaker, crossed>>

Held == [shape : ProviderShapes, scope : 0..MaxScopes]

ScopesTypeOK ==
    /\ registered \in [ProviderIds -> Held \union {NotSet}]
    /\ default_provider \in ProviderIds \union {NotSet} /\ default_embedding \in ProviderIds \union {NotSet}
    /\ embeddings \subseteq ProviderIds
    /\ scopes \in Seq([connection : 1..MaxScopes, latest : ScopedAgents \union {NotSet, Departed}])
    /\ speaker \in [ScopedAgents -> Held \union {NotSet}]
    /\ crossed \subseteq ScopedAgents \X (ScopedAgents \union {Departed})

ScopesInit ==
    /\ registered = [id \in ProviderIds |-> NotSet] /\ default_provider = NotSet
    /\ embeddings = {} /\ default_embedding = NotSet /\ order = <<>>
    /\ scopes = <<>> /\ choice \in [transport : Transports, mode : StateModes]
    /\ speaker = [a \in ScopedAgents |-> NotSet] /\ crossed = {}

----------------------------------------------------------------------------
(* Scopes.  Only the Responses wire keeps a chain. *)

NewConnection == IF scopes = <<>> THEN 1 ELSE 1 + Len(scopes)
Room == Len(scopes) < MaxScopes

\* A provider as it is constructed: with a state of its own.
Built(shape) == [shape |-> shape, scope |-> IF shape.wire = "responses" THEN Len(scopes) + 1 ELSE 0]
WithState(shape) ==
    IF shape.wire = "responses"
    THEN Room /\ scopes' = Append(scopes, [connection |-> NewConnection, latest |-> NotSet])
    ELSE UNCHANGED scopes

\* A ring does not implement it, and a wire without a chain has no use for it;
\* a prefix wraps the scope its inner provider mints.
mints_conversation(p) == p.shape.wire = "responses" /\ ~p.shape.ring

conversation_scoped(p) ==
    IF mints_conversation(p)
    THEN [provider |-> [p EXCEPT !.scope = Len(scopes) + 1],
          scopes |-> Append(scopes, [connection |-> scopes[p.scope].connection, latest |-> NotSet])]
    ELSE [provider |-> p, scopes |-> scopes]

\* A provider that is not ours refuses; a ring asks its members.
fresh_session_scope(p) == p.shape.wire # "custom"

----------------------------------------------------------------------------
(* The registry. *)

FirstOf(old, id) == IF old = NotSet THEN id ELSE old

Registers(id, p, embeds) ==
    /\ registered' = [registered EXCEPT ![id] = p]
    /\ default_provider' = FirstOf(default_provider, id)
    /\ order' = IF \E i \in DOMAIN order : order[i] = <<id, embeds>> THEN order ELSE Append(order, <<id, embeds>>)
    /\ UNCHANGED <<choice, speaker, crossed>>

register_builtin_provider(id) ==
    LET shape == [wire |-> BuiltinWire[id], ring |-> FALSE, prefix |-> FALSE]
        embeds == id \in BuiltinEmbeds
    IN  /\ WithState(shape) /\ Registers(id, Built(shape), embeds)
        /\ embeddings' = IF embeds THEN embeddings \union {id} ELSE embeddings
        /\ default_embedding' = IF embeds THEN FirstOf(default_embedding, id) ELSE default_embedding

\* register_provider_instance, register_registered_provider and
\* register_shared_provider replace the provider and leave embeddings alone.
register_provider_instance(id, shape) ==
    /\ WithState(shape) /\ Registers(id, Built(shape), FALSE)
    /\ UNCHANGED <<embeddings, default_embedding>>

\* A scope of its own for the selected provider, given back to a runtime.
fresh_provider_session_scope(id) ==
    /\ registered[id] # NotSet /\ fresh_session_scope(registered[id])
    /\ WithState(registered[id].shape) /\ Registers(id, Built(registered[id].shape), FALSE)
    /\ UNCHANGED <<embeddings, default_embedding>>

get_provider(id) == IF id = NotSet THEN (IF default_provider = NotSet THEN NotSet ELSE registered[default_provider])
                    ELSE registered[id]

embedding_provider == IF default_embedding \in embeddings THEN default_embedding ELSE NotSet

----------------------------------------------------------------------------
(* Agents. *)

Takes(a, p) ==
    /\ mints_conversation(p) => Room
    /\ speaker' = [speaker EXCEPT ![a] = conversation_scoped(p).provider]
    /\ scopes' = conversation_scoped(p).scopes
    /\ UNCHANGED <<registered, default_provider, embeddings, default_embedding, order, choice, crossed>>

\* Agent::new, and from_loaded for an agent that is resumed.
spawn(a, id) == speaker[a] = NotSet /\ registered[id] # NotSet /\ Takes(a, registered[id])

set_model(a, id) == speaker[a] # NotSet /\ registered[id] # NotSet /\ Takes(a, registered[id])

\* build_agent: the parent's provider, not the registry's.
spawn_subagent(a, c) == speaker[a] # NotSet /\ speaker[c] = NotSet /\ Takes(c, speaker[a])

\* An agent goes; the head it left in a scope stays.
DropAgent(a) ==
    /\ speaker[a] # NotSet /\ speaker' = [speaker EXCEPT ![a] = NotSet]
    /\ scopes' = [i \in DOMAIN scopes |-> IF scopes[i].latest = a THEN [scopes[i] EXCEPT !.latest = Departed] ELSE scopes[i]]
    /\ crossed' = {c \in crossed : a \notin {c[1], c[2]}}
    /\ UNCHANGED <<registered, default_provider, embeddings, default_embedding, order, choice>>

\* The runtime's choice replaces the request's.
Settled(chosen, own) == IF chosen = Undecided THEN own ELSE chosen
select_responses_transport(p, own) ==
    Settled(choice.transport, own) # "WebSocket" \/ p.shape.wire = "responses"

\* A turn's request or the compaction's, the latter on the same provider:
\* it continues the scope's chain in a mode that chains, and its response
\* becomes the head.
Request(a, transport, mode) ==
    LET p == speaker[a]
        chains == Settled(choice.mode, mode) # "ReplayOnly"
    IN  /\ p # NotSet /\ select_responses_transport(p, transport) /\ p.shape.wire = "responses"
        /\ crossed' = IF chains /\ scopes[p.scope].latest \notin {NotSet, a}
                      THEN crossed \union {<<a, scopes[p.scope].latest>>} ELSE crossed
        /\ scopes' = [scopes EXCEPT ![p.scope].latest = a]
        /\ UNCHANGED <<registered, default_provider, embeddings, default_embedding, order, choice, speaker>>

----------------------------------------------------------------------------
(* Models. *)

Newer(m, n) == m.created > n.created \/ (m.created = n.created /\ m.name < n.name)
newest(models) == models[CHOOSE i \in DOMAIN models : \A j \in DOMAIN models : ~Newer(models[j], models[i])]

\* A named model need not be listed; created 0 is a date the listing lacks.
resolve_model(selector, models) ==
    IF selector # 0
    THEN LET found == SelectSeq(models, LAMBDA m : m.name = selector)
         IN  IF found = <<>> THEN [name |-> selector, created |-> 0] ELSE found[1]
    ELSE IF models = <<>> THEN NotSet ELSE newest(models)

ScopesNext ==
    \/ \E id \in ProviderIds :
          \/ register_builtin_provider(id) \/ fresh_provider_session_scope(id)
          \/ \E shape \in Instances : register_provider_instance(id, shape)
          \/ \E a \in ScopedAgents : spawn(a, id) \/ set_model(a, id)
    \/ \E a \in ScopedAgents :
          \/ DropAgent(a) \/ \E c \in ScopedAgents : spawn_subagent(a, c)
          \/ \E t \in Transports \ {Undecided}, m \in StateModes \ {Undecided} : Request(a, t, m)

ScopesSpec == ScopesInit /\ [][ScopesNext]_scopeVars

----------------------------------------------------------------------------

(* Two agents never read each other's chain: whatever the registry entry   *)
(* they were built from, and however their turns, compactions and          *)
(* delegations interleave, a request continues responses of its own agent  *)
(* ("The runtime mints one of these per agent, so two agents never read    *)
(* each other's chain and still share one warm socket").                   *)
AgentsKeepTheirChain == crossed = {}

(* What a selection that names nothing gives is settled by what came       *)
(* first, or by the date, and never by the order of a listing: the default *)
(* provider and the default for embeddings are the first registered that   *)
(* qualify, and the newest model is the same however it was listed.        *)
SelectionIsDeterministic ==
    /\ order # <<>> => get_provider(NotSet) = registered[order[1][1]]
    /\ LET able == SelectSeq(order, LAMBDA e : e[2])
       IN  embedding_provider = IF able = <<>> THEN NotSet ELSE able[1][1]
    /\ \A listed, relisted \in ModelLists :
          ToSet(listed) = ToSet(relisted) => resolve_model(0, listed) = resolve_model(0, relisted)
=============================================================================
