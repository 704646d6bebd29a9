---------------------------- MODULE Capabilities ----------------------------
(***************************************************************************)
(* The tools and skills a runtime offers (tool.rs, handle/tooling.rs,      *)
(* skill.rs, skill/registry.rs): a global layer of tools, layers for one   *)
(* audience or one agent owned by guards, the cached provider specs, and   *)
(* the skill roots whose presence brings the load_skill tool.              *)
(*                                                                         *)
(* The tool registry and the skill registry each have a lock; an operation *)
(* that needs both takes them one after the other.                         *)
(***************************************************************************)
EXTENDS Naturals, Sequences, SequencesExt, FiniteSets

CONSTANTS ToolNames_,    \* names tools are registered under, load_skill apart
          Owners,        \* the audiences and the agents
          Agents_,       \* those of them that are agents
          SkillPaths,    \* paths hosts register skill roots by
          MaxTools,      \* registrations in a behaviour
          NoTool,        \* an empty slot
          Global         \* the global layer

ASSUME MaxToolsAssumption == MaxTools \in Nat /\ Agents_ \subseteq Owners

LoadSkill == "load_skill"
CapNames == ToolNames_ \union {LoadSkill}

VARIABLES tools,           \* the global layer: name -> registration
          scoped,          \* the audience and agent layers: owner -> name -> registration
          provider_specs,  \* the cached specs of the global layer
          guards,          \* the scoped registrations whose guards are alive
          handlers,        \* each registration's tool: where it went, what it now describes
          generation,      \* NEXT_TOOL_REGISTRATION_GENERATION
          roots,           \* SkillRegistry.roots, strongest first
          canonical,       \* the directory each path leads to
          skillThread      \* the skill calls under way: what remains of them

capVars == <<tools, scoped, provider_specs, guards, handlers, generation, roots, canonical, skillThread>>

Registered(g, descriptor) == [generation |-> g, descriptor |-> descriptor]
Empty == [n \in CapNames |-> NoTool]
Directories == {1, 2}

CapTypeOK ==
    /\ \A n \in CapNames : tools[n] = NoTool \/ tools[n].generation \in 1..generation
    /\ \A o \in Owners, n \in CapNames : scoped[o][n] = NoTool \/ scoped[o][n].generation \in 1..generation
    /\ generation \in 0..MaxTools
    /\ \A k \in DOMAIN roots : roots[k].key \in Directories

CapInit ==
    /\ tools = Empty
    /\ scoped = [o \in Owners |-> Empty]
    /\ provider_specs = {} /\ guards = {}
    /\ handlers = <<>>
    /\ generation = 0
    /\ roots = <<>>
    /\ canonical \in [SkillPaths -> Directories]
    /\ skillThread = [adding |-> 0, withdrawing |-> 0]

-----------------------------------------------------------------------------
(* The layers. *)

\* refresh_provider_specs: the global layer's descriptors.
Specs(layer) == {<<n, layer[n].descriptor>> : n \in {m \in CapNames : layer[m] # NoTool}}

\* next_tool_registration_generation, and the handler that comes with it.
Next_registration(n, layer) ==
    /\ generation < MaxTools
    /\ generation' = generation + 1
    /\ handlers' = Append(handlers, [name |-> n, layer |-> layer, descriptor |-> 0])

\* insert_prepared: the newest global registration takes the name on every layer.
insert_prepared(n) ==
    /\ Next_registration(n, Global)
    /\ tools' = [tools EXCEPT ![n] = Registered(generation + 1, 0)]
    /\ scoped' = [o \in Owners |-> [scoped[o] EXCEPT ![n] = NoTool]]
    /\ provider_specs' = Specs(tools')

register_tool(n) ==
    /\ insert_prepared(n)
    /\ UNCHANGED <<guards, roots, canonical, skillThread>>

\* try_register_tool: refused when any layer has the name.
try_register_tool(n) ==
    /\ tools[n] = NoTool /\ \A o \in Owners : scoped[o][n] = NoTool
    /\ insert_prepared(n)
    /\ UNCHANGED <<guards, roots, canonical, skillThread>>

\* insert_audience_prepared and insert_agent_prepared: the owner's slot, and a
\* guard for the caller.
InsertScoped(o, n) ==
    /\ Next_registration(n, o)
    /\ scoped' = [scoped EXCEPT ![o][n] = Registered(generation + 1, 0)]
    /\ guards' = guards \union {[owner |-> o, name |-> n, generation |-> generation + 1]}
    /\ UNCHANGED <<tools, provider_specs, roots, canonical, skillThread>>

\* try_register_tool_for_audience: refused when the name is global or the audience's.
try_register_tool_for_audience(o, n) ==
    /\ o \notin Agents_
    /\ tools[n] = NoTool /\ scoped[o][n] = NoTool
    /\ InsertScoped(o, n)

\* register_agent_tool replaces what the agent had under the name.
register_agent_tool(o, n) == o \in Agents_ /\ InsertScoped(o, n)

\* detach_audience_registration and detach_agent_registration, from the guard's
\* unregister or its drop: only the registration the guard was given.
detach_scoped(g) ==
    IF scoped[g.owner][g.name] # NoTool /\ scoped[g.owner][g.name].generation = g.generation
    THEN [scoped EXCEPT ![g.owner][g.name] = NoTool]
    ELSE scoped

drop_guard(g) ==
    /\ scoped' = detach_scoped(g)
    /\ guards' = guards \ {g}
    /\ UNCHANGED <<tools, provider_specs, handlers, generation, roots, canonical, skillThread>>

\* unregister: the global layer's tool of that name.
detach_tool_Stale(n) ==
    /\ tools[n] # NoTool
    /\ tools' = [tools EXCEPT ![n] = NoTool]
    /\ UNCHANGED provider_specs
detach_tool(n) ==
    /\ tools[n] # NoTool
    /\ tools' = [tools EXCEPT ![n] = NoTool]
    /\ provider_specs' = Specs(tools')

unregister_tool_by_name(n) ==
    /\ detach_tool(n)
    /\ UNCHANGED <<scoped, guards, handlers, generation, roots, canonical, skillThread>>

\* External: the state a tool computes its descriptor from changes; 2 stands for
\* a descriptor that names another tool.
ToolChanges(g) ==
    /\ g \in 1..generation
    /\ \E d \in 1..2 : d > handlers[g].descriptor /\ handlers' = [handlers EXCEPT ![g].descriptor = d]
    /\ UNCHANGED <<tools, scoped, provider_specs, guards, generation, roots, canonical, skillThread>>

\* refresh_descriptors, on every layer; a descriptor that names another tool is
\* not taken.
Refreshed(r) ==
    LET fresh == handlers[r.generation].descriptor
    IN  IF fresh = 2 THEN r ELSE [r EXCEPT !.descriptor = fresh]

refresh_descriptors ==
    LET global == [n \in CapNames |-> IF tools[n] = NoTool THEN NoTool ELSE Refreshed(tools[n])]
        layers == [o \in Owners |-> [n \in CapNames |->
                      IF scoped[o][n] = NoTool THEN NoTool ELSE Refreshed(scoped[o][n])]]
    IN  /\ <<global, layers>> # <<tools, scoped>>
        /\ tools' = global /\ scoped' = layers
        /\ provider_specs' = Specs(global)
        /\ UNCHANGED <<guards, handlers, generation, roots, canonical, skillThread>>

\* visible_tool: agent, then audience, then global.
visible_tool(agent, audience, n) ==
    IF scoped[agent][n] # NoTool THEN scoped[agent][n]
    ELSE IF scoped[audience][n] # NoTool THEN scoped[audience][n]
    ELSE tools[n]

\* visible_registrations: the roster of a round.
visible_registrations(agent, audience) ==
    {<<n, visible_tool(agent, audience, n)>> :
        n \in {m \in CapNames : visible_tool(agent, audience, m) # NoTool}}

\* resolve_for_scope: what a call by name meets.
resolve_for_scope(agent, audience, n) ==
    IF visible_tool(agent, audience, n) # NoTool THEN "visible"
    ELSE IF \E o \in Owners : scoped[o][n] # NoTool THEN "hidden"
    ELSE "missing"

-----------------------------------------------------------------------------
(* The skill roots. *)

SkillRoot(p) == [registered |-> p, key |-> canonical[p]]
Matches(root, p) == root.key = canonical[p] \/ root.registered = p

\* insert: a root already there is replaced where it stands.
insert_skill_root(p) ==
    IF \E k \in DOMAIN roots : Matches(roots[k], p)
    THEN [roots EXCEPT ![SelectInSeq(roots, LAMBDA r : Matches(r, p))] = SkillRoot(p)]
    ELSE Append(roots, SkillRoot(p))

\* register_skill_roots: the roots under the skill lock, then the tool under the
\* tool lock.
register_skills_dir(p) ==
    /\ skillThread.adding = 0
    /\ roots' = insert_skill_root(p)
    /\ skillThread' = [skillThread EXCEPT !.adding = 1]
    /\ UNCHANGED <<tools, scoped, provider_specs, guards, handlers, generation, canonical>>

register_skill_tool ==
    /\ skillThread.adding = 1
    /\ insert_prepared(LoadSkill)
    /\ skillThread' = [skillThread EXCEPT !.adding = 0]
    /\ UNCHANGED <<guards, roots, canonical>>

\* unregister_skill_roots: the roots the path names; when that empties the
\* registry, the tool is withdrawn after the skill lock is released.
unregister_skills_dir(p) ==
    /\ skillThread.withdrawing = 0
    /\ LET rest == SelectSeq(roots, LAMBDA r : ~Matches(r, p))
       IN  /\ roots' = rest
           /\ skillThread' = [skillThread EXCEPT !.withdrawing = IF rest # roots /\ rest = <<>> THEN 1 ELSE 0]
    /\ UNCHANGED <<tools, scoped, provider_specs, guards, handlers, generation, canonical>>

unregister_skill_tool ==
    /\ skillThread.withdrawing = 1
    /\ IF tools[LoadSkill] # NoTool THEN detach_tool(LoadSkill) ELSE UNCHANGED <<tools, provider_specs>>
    /\ skillThread' = [skillThread EXCEPT !.withdrawing = 0]
    /\ UNCHANGED <<scoped, guards, handlers, generation, roots, canonical>>

\* External: a path comes to lead to another directory.
Retarget(p) ==
    /\ canonical' = [canonical EXCEPT ![p] = 3 - @]
    /\ UNCHANGED <<tools, scoped, provider_specs, guards, handlers, generation, roots, skillThread>>

CapNext ==
    \/ \E n \in ToolNames_ :
          \/ register_tool(n) \/ try_register_tool(n) \/ unregister_tool_by_name(n)
          \/ \E o \in Owners : try_register_tool_for_audience(o, n) \/ register_agent_tool(o, n)
    \/ \E g \in guards : drop_guard(g)
    \/ \E g \in 1..generation : ToolChanges(g)
    \/ refresh_descriptors
    \/ \E p \in SkillPaths : register_skills_dir(p) \/ unregister_skills_dir(p) \/ Retarget(p)
    \/ register_skill_tool \/ unregister_skill_tool

CapSpec == CapInit /\ [][CapNext]_capVars

-----------------------------------------------------------------------------
(* Properties. *)

\* The scoped layers and their guards, whatever is registered over them: a tool
\* in a scoped layer is the one of a living guard, and a living guard's tool is
\* in its layer unless a later registration took its name there or everywhere.
ScopedToolsFollowGuards ==
    /\ \A o \in Owners, n \in CapNames : scoped[o][n] # NoTool =>
          [owner |-> o, name |-> n, generation |-> scoped[o][n].generation] \in guards
    /\ \A g \in guards :
          \/ /\ scoped[g.owner][g.name] # NoTool
             /\ scoped[g.owner][g.name].generation = g.generation
          \/ \E h \in g.generation + 1 .. generation :
                handlers[h].name = g.name /\ handlers[h].layer \in {Global, g.owner}

\* What the runtime tells providers is what it would run: the cached specs are
\* the global layer's descriptors, and a name that an older scoped tool and a
\* newer global one share leads everybody to the newer.
SpecsAreCurrent ==
    /\ provider_specs = Specs(tools)
    /\ \A o \in Owners, n \in CapNames :
          (scoped[o][n] # NoTool /\ tools[n] # NoTool) => scoped[o][n].generation > tools[n].generation

\* Runtime::unregister_skills_dir: with no skill call under way load_skill is
\* there exactly when a root is.
SkillToolFollowsRoots ==
    skillThread = [adding |-> 0, withdrawing |-> 0] => (tools[LoadSkill] # NoTool <=> roots # <<>>)
=============================================================================
