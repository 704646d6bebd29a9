----------------------------- MODULE Delegation -----------------------------
(***************************************************************************)
(* Delegated work as the parent agent sees it: the `task` intrinsic, which *)
(* runs a disposable subagent inside one tool call, and host tools, which  *)
(* spawn a child from a template, keep it and run it for another turn.     *)
(* The parent's transcript is the tree of module Transcript: it shows who  *)
(* was asked for what, in which place, and what a compaction makes of it.  *)
(*                                                                         *)
(* The calls of a round run one after the other (neither tool is parallel).*)
(* A delegation entry is tagged with its child.  A record that cannot be   *)
(* saved is in the transcript all the same (module Journal).               *)
(***************************************************************************)
EXTENDS Transcript

CONSTANTS TaskCalls,       \* the calls of Calls that go to `task`; the others to a host tool
          KeptChild,       \* the child a host tool keeps between its calls
          Fresh,           \* sequence: the children `task` spawns, in order
          NoChild,
          MaxTurns,        \* bound: turns started
          MaxTalk          \* bound: entries of the transcript at the start of a round

ASSUME ChildrenAssumption == /\ {Fresh[i] : i \in DOMAIN Fresh} \cup {KeptChild} \subseteq Tags
                             /\ \A i \in DOMAIN Fresh : Fresh[i] # KeptChild

VARIABLES talk,         \* the parent's AgentTranscript
          turn,         \* the turn under way
          subagents,    \* AgentSnapshot::subagents
          announced,    \* what the event stream last said of each child
          spawned       \* children `task` has spawned

delegationVars == <<talk, turn, subagents, announced, spawned>>

Statuses == {"running", "finished", "failed"}

\* at: between turns, before a request, in a round's calls, in a child's run.
Turn == [at : {"idle", "model", "calls", "child"}, todo : SUBSET Calls, made : SUBSET Calls,
         call : Calls \cup {NoParent}, child : Tags \cup {NoChild}, baseline : AgentTranscript,
         turns : 0..MaxTurns]

DelegationTypeOK ==
    /\ talk \in AgentTranscript
    /\ turn \in Turn
    /\ subagents \in Seq([id : Tags, status : Statuses])
    /\ announced \in [Tags -> Statuses \cup {"unknown"}]
    /\ spawned \in 0..Len(Fresh)

DelegationInit ==
    /\ talk = EmptyTranscript
    /\ turn = [at |-> "idle", todo |-> {}, made |-> {}, call |-> NoParent, child |-> NoChild,
               baseline |-> EmptyTranscript, turns |-> 0]
    /\ subagents = <<>>
    /\ announced = [c \in Tags |-> "unknown"]
    /\ spawned = 0

-----------------------------------------------------------------------------
(* The parent's list of subagents.                                         *)

Known(id) == {i \in DOMAIN subagents : subagents[i].id = id}

\* register_subagent: one entry for each child, back to Running when the
\* child runs again.
register_subagent(id) ==
    IF Known(id) = {} THEN Append(subagents, [id |-> id, status |-> "running"])
    ELSE [i \in DOMAIN subagents |->
             IF i \in Known(id) THEN [id |-> id, status |-> "running"] ELSE subagents[i]]

\* finish_subagent: the first entry of that id, when there is one.
finish_subagent(id, status) ==
    [i \in DOMAIN subagents |->
        IF i \in Known(id) /\ \A j \in Known(id) : i <= j
        THEN [id |-> id, status |-> status] ELSE subagents[i]]

\* Both announce what they did (SubagentSpawned or Resumed, SubagentFinished).
Registered(id) ==
    /\ subagents' = register_subagent(id)
    /\ announced' = [announced EXCEPT ![id] = "running"]

Finished(id, status) ==
    /\ subagents' = finish_subagent(id, status)
    /\ announced' = [announced EXCEPT ![id] = IF Known(id) = {} THEN @ ELSE status]

\* Templates a host tool may hold: made from this agent of this runtime or
\* not, with a model override whose provider is registered or not.
Templates == [own_agent : BOOLEAN, own_runtime : BOOLEAN, provider_found : BOOLEAN]

verify_source(template) == template.own_agent /\ template.own_runtime

\* spawn_subagent_from: verify_source, then build_agent.
spawn_subagent_from(template) == verify_source(template) /\ template.provider_found

-----------------------------------------------------------------------------
(* The parent's turn.                                                      *)

StartTurn ==
    /\ turn.at = "idle" /\ turn.turns < MaxTurns
    /\ talk' = Push(talk, UserTurn({}))
    /\ turn' = [turn EXCEPT !.at = "model", !.baseline = talk, !.turns = @ + 1]
    /\ UNCHANGED <<subagents, announced, spawned>>

\* The model answers with calls, or with a text that ends the turn.
CommitAnswer(uses) ==
    /\ turn.at = "model" /\ Len(talk.items) < MaxTalk
    /\ talk' = Push(talk, AssistantTurn({}, uses))
    /\ turn' = [turn EXCEPT !.at = IF uses = {} THEN "idle" ELSE "calls",
                            !.todo = uses, !.made = uses]
    /\ UNCHANGED <<subagents, announced, spawned>>

Settle(call) == [turn EXCEPT !.at = "calls", !.todo = @ \ {call}, !.call = NoParent, !.child = NoChild]

\* A prompt that does not parse, an agent that cannot be created.
RefuseTask(call) ==
    /\ turn.at = "calls" /\ call \in turn.todo \cap TaskCalls
    /\ turn' = Settle(call)
    /\ UNCHANGED <<talk, subagents, announced, spawned>>

\* execute_task up to the child's run.
BeginTask(call) ==
    /\ turn.at = "calls" /\ call \in turn.todo \cap TaskCalls
    /\ spawned < Len(Fresh)
    /\ LET child == Fresh[spawned + 1] IN
       /\ talk' = Push(talk, DelegationRequest({child}))
       /\ Registered(child)
       /\ turn' = [turn EXCEPT !.at = "child", !.call = call, !.child = child]
    /\ spawned' = spawned + 1

\* execute_task after it; the task refresh only changes the answer's text.
EndTask(status) ==
    /\ turn.at = "child" /\ turn.call \in TaskCalls
    /\ talk' = Push(talk, DelegationResult({turn.child}))
    /\ Finished(turn.child, status)
    /\ turn' = Settle(turn.call)
    /\ UNCHANGED spawned

\* A host tool spawns its child, or takes the one it kept, and runs it.
BeginKept(call, template) ==
    /\ turn.at = "calls" /\ call \in turn.todo \ TaskCalls
    /\ IF Known(KeptChild) # {} \/ spawn_subagent_from(template)
       THEN /\ talk' = Push(talk, DelegationRequest({KeptChild}))
            /\ Registered(KeptChild)
            /\ turn' = [turn EXCEPT !.at = "child", !.call = call, !.child = KeptChild]
       ELSE turn' = Settle(call) /\ UNCHANGED <<talk, subagents, announced>>
    /\ UNCHANGED spawned

EndKept(status) ==
    /\ turn.at = "child" /\ turn.call \notin TaskCalls
    /\ talk' = Push(talk, DelegationResult({turn.child}))
    /\ Finished(turn.child, status)
    /\ turn' = Settle(turn.call)
    /\ UNCHANGED spawned

\* The round's results are committed as one message; the run goes on or stops.
CommitResults ==
    /\ turn.at = "calls" /\ turn.todo = {}
    /\ talk' = Push(talk, ToolExchange(turn.made))
    /\ \E at \in {"model", "idle"} : turn' = [turn EXCEPT !.at = at, !.made = {}]
    /\ UNCHANGED <<subagents, announced, spawned>>

\* The run fails between two calls or before a request: the transcript goes
\* back to where the run began, the list of subagents does not.
FailTurn ==
    /\ turn.at \in {"model", "calls"}
    /\ talk' = [turn.baseline EXCEPT !.next = talk.next]
    /\ turn' = [turn EXCEPT !.at = "idle", !.todo = {}, !.made = {}]
    /\ UNCHANGED <<subagents, announced, spawned>>

\* The outcomes of the selections of a compaction: the newest entries of a
\* kind, at least the last user turn (a faster form of CompactionOutcomes).
Newest(items, kind, least) ==
    LET at == SelectSeq([i \in DOMAIN items |-> i], LAMBDA i : items[i].msg.kind = kind)
    IN  {SubSeq(at, n, Len(at)) : n \in 1..(Len(at) + IF at = <<>> THEN 1 ELSE 1 - least)}

\* auto_compact_if_needed before a request.
CompactTalk ==
    /\ turn.at = "model"
    /\ CanCompact(talk.items)
    /\ \A i \in DOMAIN talk.items : talk.items[i].msg.kind # "summary"
    /\ LET prefix == SubSeq(talk.items, 1, TailStart(talk.items) - 1)
       IN  \E turns \in Newest(prefix, "user", 1), results \in Newest(prefix, "delegation_result", 0) :
               talk' = Compacted(talk, turns, results)
    /\ UNCHANGED <<turn, subagents, announced, spawned>>

DelegationNext ==
    \/ StartTurn \/ CommitResults \/ FailTurn \/ CompactTalk
    \/ \E uses \in SUBSET Calls : CommitAnswer(uses)
    \/ \E call \in Calls : \/ RefuseTask(call) \/ BeginTask(call)
                           \/ \E template \in Templates : BeginKept(call, template)
    \/ \E status \in Statuses \ {"running"} : EndTask(status) \/ EndKept(status)

DelegationSpec == DelegationInit /\ [][DelegationNext]_delegationVars

-----------------------------------------------------------------------------
(* Properties.                                                             *)

Tagged(i, kind, child) == talk.items[i].msg.kind = kind /\ child \in talk.items[i].msg.tags

\* A child is one entry however often it runs, the entry reads running only
\* while the child runs, observers of the event stream know the same of it,
\* and a request in the transcript has its result after it once the child is
\* done, through failed turns, kept children and compactions.
DelegationsAreSettled ==
    /\ \A i, j \in DOMAIN subagents : subagents[i].id = subagents[j].id => i = j
    /\ \A i \in DOMAIN subagents :
          /\ subagents[i].status = "running" <=> turn.child = subagents[i].id
          /\ announced[subagents[i].id] = subagents[i].status
    /\ \A i \in DOMAIN talk.items, c \in Tags \ {turn.child} :
          Tagged(i, "delegation_request", c) =>
              \E j \in DOMAIN talk.items : j > i /\ Tagged(j, "delegation_result", c)

\* What the comment in compact says of a tool call and its result: "those
\* must travel together".  An exchange in the transcript follows the
\* assistant entry whose calls it answers.
ResultsTravelWithCalls ==
    \A i \in DOMAIN talk.items : \A call \in talk.items[i].msg.results :
        \E j \in 1..(i - 1) : call \in talk.items[j].msg.uses
=============================================================================
