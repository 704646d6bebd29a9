-------------------------- MODULE ToolOrchestrator --------------------------
(***************************************************************************)
(* ToolRuntime of mentra/src/tool/orchestrator.rs: the tool side of one    *)
(* run.  Each round hands it the calls of one assistant message; it cuts   *)
(* them into batches, admits every call (hooks, schema, authorizer), runs *)
(* reads concurrently and everything else alone, reviews each result and   *)
(* answers every call.                                                     *)
(*                                                                         *)
(* A call is what its input makes of it: whether it mutates, whether it    *)
(* fits the tool's schema, and whether a hook rewrote it.  Host code       *)
(* (hooks, authorizer, tools) may answer anything.                         *)
(***************************************************************************)
EXTENDS Naturals, Sequences

CONSTANTS MaxCalls,     \* calls the model makes in the run, in one or more rounds
          ToolBudget,   \* RunOptions::tool_budget
          Tools,        \* the kinds of tool the model may name
          MaxFaults     \* hooks that fail, tasks that panic, hook events or run rows not written

ASSUME CallAssumption ==
    /\ MaxCalls \in Nat \ {0} /\ ToolBudget \in Nat /\ MaxFaults \in Nat
    /\ Tools \subseteq {"tool", "terminal", "hidden", "missing"}

VARIABLES
    pc,         \* what execute_calls awaits
    calls,      \* the calls of the round, as rewritten so far
    starts,     \* the schedule: the positions at which a batch begins
    batch, at,  \* the current batch, first to last position, and the position reached
    running,    \* tasks of the JoinSet
    execs,      \* the CompletedToolExecutions of the batch, by position
    results,    \* the answers collected for the round
    toolCalls,  \* ToolRuntime::tool_calls
    endTurn,
    cancelled,  \* RunOptions::check_limits fails
    authorizer, \* the runtime has a ToolAuthorizer
    made,       \* calls the model has made so far
    faults,
    ran, executed, asked    \* history of the round and the run

progress == <<pc, starts, batch, at>>
outcome  == <<results, endTurn>>
host     == <<cancelled, authorizer>>
history  == <<ran, executed, asked>>
vars     == <<progress, calls, running, execs, outcome, toolCalls, host, made, faults, history>>

Call    == [tool : Tools, mutates : BOOLEAN, fits : BOOLEAN, rewritten : BOOLEAN]
Ids     == 1..MaxCalls

\* Inputs only matter for an ordinary tool: the schedule, the lane check and
\* the schema check of the others ignore them.
Plain(c)  == c.tool # "tool" => c.fits /\ ~c.mutates
Requests  == {c \in Call : Plain(c) /\ ~c.rewritten}

NoBatch == [lane |-> "none", first |-> 0, last |-> 0]

Execution(tag, ends, terminated) == [tag |-> tag, ends |-> ends, terminated |-> terminated]
NotRun(tag) == Execution(tag, FALSE, FALSE)
NoExecs == [i \in Ids |-> NotRun("none")]
NotAsked == [i \in Ids |-> [mutates |-> FALSE, category |-> "none"]]

Init ==
    /\ pc = "idle" /\ calls = <<>> /\ starts = {} /\ batch = NoBatch /\ at = 0
    /\ running = {} /\ execs = NoExecs /\ results = <<>>
    /\ toolCalls = 0 /\ endTurn = FALSE
    /\ cancelled = FALSE /\ authorizer \in BOOLEAN /\ made = 0 /\ faults = 0
    /\ ran = {} /\ executed = 0 /\ asked = NotAsked

-----------------------------------------------------------------------------
(* Scheduling.                                                             *)

\* Tools nobody resolves and terminal tools are scheduled alone whatever
\* their input says.
Category(c) ==
    IF c.tool # "tool" \/ c.mutates THEN "exclusive" ELSE "parallel"

\* Consecutive parallel calls share a batch; every other call is one.
Schedule(cs) ==
    {i \in DOMAIN cs : i = 1 \/ Category(cs[i]) = "exclusive" \/ Category(cs[i - 1]) = "exclusive"}

\* The runner hands over the calls of a committed assistant message.
BeginRound ==
    /\ pc = "idle"
    /\ \E n \in 1..(MaxCalls - made) : calls' \in [1..n -> Requests] /\ made' = made + n
    /\ starts' = Schedule(calls') /\ batch' = NoBatch /\ pc' = "batch"
    /\ results' = <<>> /\ endTurn' = FALSE
    /\ execs' = NoExecs /\ ran' = {} /\ asked' = NotAsked
    /\ UNCHANGED <<at, running, toolCalls, host, faults, executed>>

\* execute_calls returns Err: the JoinSet is dropped and its tasks aborted.
Fail == pc' = "failed" /\ running' = {}

More == batch.last < Len(calls)

\* A batch is charged to the tool budget as a whole, before any of it runs.
TakeBatch ==
    /\ pc = "batch" /\ More
    /\ \E first, last \in DOMAIN calls :
          /\ first = batch.last + 1 /\ first <= last
          /\ \A i \in first + 1..last : i \notin starts
          /\ last < Len(calls) => last + 1 \in starts
          /\ IF cancelled \/ toolCalls + (last + 1 - first) > ToolBudget
             THEN /\ Fail
                  /\ UNCHANGED <<batch, at, execs, toolCalls>>
             ELSE /\ pc' = "note" /\ at' = first
                  /\ batch' = [lane |-> Category(calls[first]), first |-> first, last |-> last]
                  /\ toolCalls' = toolCalls + (last + 1 - first)
                  /\ execs' = NoExecs /\ UNCHANGED running
    /\ UNCHANGED <<calls, starts, outcome, host, made, faults, history>>

-----------------------------------------------------------------------------
(* Admission: the one order both lanes share.                              *)

\* The loop over the batch goes on; a parallel batch then joins its tasks.
Advance ==
    IF at < batch.last
    THEN at' = at + 1 /\ pc' = "note"
    ELSE at' = batch.first /\ pc' = IF batch.lane = "parallel" THEN "join" ELSE "review"

Answer(e) == execs' = [execs EXCEPT ![at] = e] /\ Advance /\ UNCHANGED running

\* A hook or the authorizer itself failed, or a limit was hit while asking:
\* the parallel lane gives up the batch, the serial lane answers the call.
AdmissionFails ==
    IF batch.lane = "parallel"
    THEN Fail /\ UNCHANGED <<at, execs>>
    ELSE Answer(NotRun("refused"))

Fault == faults < MaxFaults /\ faults' = faults + 1

NoteStarted ==
    /\ pc = "note"
    /\ \/ Fault /\ Fail /\ UNCHANGED <<at, execs>>
       \/ /\ calls[at].tool \in {"hidden", "missing"}
          /\ Answer(NotRun("unavailable")) /\ UNCHANGED faults
       \/ /\ calls[at].tool \notin {"hidden", "missing"}
          /\ pc' = "hooks" /\ UNCHANGED <<at, execs, running, faults>>
    /\ UNCHANGED <<calls, starts, batch, outcome, toolCalls, host, made, history>>

\* A rewritten input may have any shape; one that is not JSON is a denial.
Rewrite(c) == {d \in Call : Plain(d) /\ d.rewritten /\ d.tool = c.tool}

\* A hook turned a read into something that must not run beside others.
LaneChanged(c) ==
    c.rewritten /\ batch.lane = "parallel" /\ Category(c) # "parallel"

SchemaViolation(c) == c.tool # "terminal" /\ ~c.fits

\* What follows the hooks without an await: the lane and schema checks.
Classify(c) ==
    IF LaneChanged(c) \/ SchemaViolation(c)
    THEN Answer(NotRun("refused"))
    ELSE pc' = "authorize" /\ UNCHANGED <<at, running, execs>>

\* The pre-execution hooks, then the mixed ones, each able to rewrite the call
\* or refuse it; the checks judge what they left.
ApplyHooks ==
    /\ pc = "hooks"
    /\ \/ Classify(calls[at]) /\ UNCHANGED <<calls, faults>>
       \/ /\ \E c \in Rewrite(calls[at]) : calls' = [calls EXCEPT ![at] = c] /\ Classify(c)
          /\ UNCHANGED faults
       \/ Answer(NotRun("refused")) /\ UNCHANGED <<calls, faults>>
       \/ Fault /\ AdmissionFails /\ UNCHANGED calls
    /\ UNCHANGED <<starts, batch, outcome, toolCalls, host, made, history>>

AuthorizationCategory_Scheduled(c) == batch.lane

\* The authorizer is asked about the call that will run.
AuthorizationCategory(c) == IF c.rewritten THEN Category(c) ELSE batch.lane

AskAuthorizer ==
    /\ pc = "authorize"
    /\ LET c == calls[at]
       IN \/ /\ ~authorizer
             /\ pc' = "start" /\ UNCHANGED <<at, running, execs, faults, asked>>
          \/ /\ authorizer    \* the preview cannot be built
             /\ Answer(NotRun("refused")) /\ UNCHANGED <<faults, asked>>
          \/ /\ authorizer /\ ((cancelled /\ UNCHANGED faults) \/ Fault)
             /\ AdmissionFails /\ UNCHANGED asked
          \/ /\ authorizer /\ ~cancelled
             /\ asked' = [asked EXCEPT ![at] = [mutates |-> c.mutates, category |-> AuthorizationCategory(c)]]
             /\ pc' = "asking" /\ UNCHANGED <<at, running, execs, faults>>
    /\ UNCHANGED <<calls, starts, batch, outcome, toolCalls, host, made,
                   ran, executed>>

\* The select over the answer, the authorizer's timeout and the run limits.
\* Every answer but Allow, a timeout included, is a refusal.
Authorized ==
    /\ pc = "asking"
    /\ \/ pc' = "start" /\ UNCHANGED <<at, running, execs, faults>>
       \/ Fault /\ AdmissionFails
    /\ UNCHANGED <<calls, starts, batch, outcome, toolCalls, host, made, history>>

NotAuthorized ==
    /\ pc = "asking"
    /\ \/ Answer(NotRun("refused")) /\ UNCHANGED faults
       \/ Fault /\ AdmissionFails
       \/ cancelled /\ AdmissionFails /\ UNCHANGED faults
    /\ UNCHANGED <<calls, starts, batch, outcome, toolCalls, host, made, history>>

-----------------------------------------------------------------------------
(* Execution.                                                              *)

StartCall ==
    /\ pc = "start"
    /\ \/ /\ Fault /\ Answer(NotRun("refused")) /\ UNCHANGED <<ran, executed>>
       \/ /\ ran' = ran \union {at} /\ executed' = executed + 1 /\ UNCHANGED <<faults, execs>>
          /\ IF batch.lane = "parallel"
             THEN running' = running \union {at} /\ Advance
             ELSE pc' = "executing" /\ UNCHANGED <<at, running>>
    /\ UNCHANGED <<calls, starts, batch, outcome, toolCalls, host, made,
                   asked>>

\* An exclusive tool returns or times out.  It may have asked for idleness,
\* and only its success can terminate the round.
ExclusiveReturns ==
    /\ pc = "executing"
    /\ \E tag \in {"ok", "failed"}, idle, terminate \in BOOLEAN :
         /\ terminate => tag = "ok"
         /\ Answer(Execution(tag, idle \/ terminate, terminate))
    /\ UNCHANGED <<calls, starts, batch, outcome, toolCalls, host, made, faults, history>>

\* Tasks are joined as they finish; asking for termination from the parallel
\* lane is a misuse and ends nothing.
JoinNext ==
    /\ pc = "join"
    /\ \E i \in running, tag \in {"ok", "failed", "misuse"} :
         /\ running' = running \ {i}
         /\ execs' = [execs EXCEPT ![i] = NotRun(tag)]
    /\ UNCHANGED <<progress, calls, outcome, toolCalls, host, made, faults, history>>

\* A limit is seen between two joins, or a task panicked.
JoinAborts ==
    /\ pc = "join"
    /\ (cancelled /\ UNCHANGED faults) \/ (running # {} /\ Fault)
    /\ Fail
    /\ UNCHANGED <<calls, starts, batch, at, execs, outcome, toolCalls, host, made, history>>

JoinEnds_AfterATask ==
    /\ pc = "join" /\ running = {} /\ ~cancelled /\ ran \intersect batch.first..batch.last # {}
    /\ pc' = "review"
    /\ UNCHANGED <<calls, starts, batch, at, running, execs, outcome, toolCalls, host, made,
                   faults, history>>

JoinEnds ==
    /\ pc = "join" /\ running = {} /\ ~cancelled
    /\ pc' = "review"
    /\ UNCHANGED <<calls, starts, batch, at, running, execs, outcome, toolCalls, host, made,
                   faults, history>>

-----------------------------------------------------------------------------
(* Review and return.                                                      *)

Skipped == [k \in 1..(Len(calls) - batch.last) |-> [id |-> batch.last + k, tag |-> "skipped", terminated |-> FALSE]]

Terminated == \E i \in Ids : execs[i].terminated

\* The batch is reviewed: a terminating call leaves the other batches unrun,
\* each of their calls answered.
AfterBatch_DropsRest(rs) ==
    IF Terminated THEN results' = rs /\ pc' = "done" ELSE results' = rs /\ pc' = "batch"

AfterBatch(rs) ==
    IF Terminated THEN results' = rs \o Skipped /\ pc' = "done" ELSE results' = rs /\ pc' = "batch"

\* One result of the batch, in call order.  The hooks that judge it (the mixed
\* ones a call that ran, the post-execution ones any) may replace what it says or
\* fail.
ReviewResult ==
    /\ pc = "review"
    /\ LET e == execs[at]
           rs == Append(results, [id |-> at, tag |-> e.tag, terminated |-> e.terminated])
       IN \/ /\ IF at < batch.last
                THEN at' = at + 1 /\ results' = rs /\ UNCHANGED pc
                ELSE AfterBatch(rs) /\ UNCHANGED at
             /\ endTurn' = (endTurn \/ e.ends)
             /\ UNCHANGED <<running, faults>>
          \/ /\ Fault /\ Fail
             /\ UNCHANGED <<at, outcome>>
    /\ UNCHANGED <<calls, starts, batch, execs, toolCalls, host, made, history>>

AllBatchesDone ==
    /\ pc = "batch" /\ ~More /\ pc' = "done"
    /\ UNCHANGED <<calls, starts, batch, at, running, execs, outcome, toolCalls, host, made,
                   faults, history>>

\* The runner commits the results and ends the turn or asks the model again.
Return ==
    /\ pc = "done" /\ pc' = IF endTurn THEN "ended" ELSE "idle"
    /\ UNCHANGED <<calls, starts, batch, at, running, execs, outcome, toolCalls, host, made,
                   faults, history>>

-----------------------------------------------------------------------------
(* The host, at any time.                                                  *)

Cancel ==
    /\ ~cancelled /\ cancelled' = TRUE
    /\ UNCHANGED <<progress, calls, running, execs, outcome, toolCalls, authorizer, made, faults,
                   history>>

Runtime ==
    \/ TakeBatch \/ NoteStarted \/ ApplyHooks
    \/ AskAuthorizer \/ Authorized \/ NotAuthorized \/ StartCall
    \/ ExclusiveReturns \/ JoinNext \/ JoinAborts \/ JoinEnds
    \/ ReviewResult \/ AllBatchesDone \/ Return

Next == BeginRound \/ Runtime \/ Cancel

Spec == Init /\ [][Next]_vars

\* The runner polls the round until it returns.  The authorizer and the tools
\* answer or are timed out (ToolAuthorizer::timeout, execution_timeout).
FairSpec == Spec /\ WF_vars(Runtime)

-----------------------------------------------------------------------------
(* Properties.                                                             *)

Ran == {"ok", "failed", "misuse"}
Tags == Ran \union {"refused", "unavailable", "skipped"}
Executions == [tag : Tags \union {"none"}, ends : BOOLEAN, terminated : BOOLEAN]

\* The variables have their types.
TypeOK ==
    /\ pc \in {"idle", "batch", "note", "hooks", "authorize", "asking", "start",
               "executing", "join", "review", "done", "ended", "failed"}
    /\ calls \in Seq(Call) /\ Len(calls) <= MaxCalls /\ starts \subseteq Ids /\ running \subseteq Ids
    /\ batch \in [lane : {"none", "parallel", "exclusive"}, first : Nat, last : Nat] /\ at \in Nat
    /\ execs \in [Ids -> Executions]
    /\ results \in Seq([id : Ids, tag : Tags, terminated : BOOLEAN])
    /\ toolCalls \in Nat /\ executed \in Nat /\ made \in 0..MaxCalls /\ faults \in Nat
    /\ cancelled \in BOOLEAN /\ authorizer \in BOOLEAN /\ endTurn \in BOOLEAN
    /\ ran \subseteq Ids
    /\ asked \in [Ids -> [mutates : BOOLEAN, category : {"none", "parallel", "exclusive"}]]

\* A round that returns has answered every call exactly once, in the order
\* the model made them, however the parallel tasks finished and whatever was
\* refused or skipped; and the answer says truly whether the call ran.
EveryCallAnswered ==
    pc = "done" =>
        /\ Len(results) = Len(calls)
        /\ \A i \in DOMAIN results :
             results[i].id = i /\ (results[i].tag \in Ran <=> i \in ran)

\* An exclusive tool has the agent to itself, and nothing that mutates is
\* ever among the concurrent tasks, whatever a hook rewrote.
MutationRunsAlone ==
    /\ pc = "executing" => running = {}
    /\ \A i \in running : Category(calls[i]) = "parallel"

\* The calls that started never exceed the budget, over all rounds.
ToolBudgetHolds == executed <= ToolBudget

\* What the authorizer was asked about is what runs: the input is the one the
\* hooks left, and the category is the one it is run under.
AskedIsRun ==
    authorizer => \A i \in ran :
        /\ asked[i].mutates = calls[i].mutates
        /\ asked[i].category = Category(calls[i])

\* Only a call that ran alone ends the turn, and once one terminated the
\* round no later call of it starts.
TerminationIsFinal ==
    /\ \A i \in Ids : execs[i].ends => batch.lane = "exclusive"
    /\ \A i \in DOMAIN results : results[i].terminated => \A j \in ran : j <= results[i].id

\* A call runs as it was approved, alone if it must, within the budget and not
\* after the turn was ended: see the four above.
CallsRunAsAsked == TypeOK /\ MutationRunsAlone /\ ToolBudgetHolds /\ AskedIsRun /\ TerminationIsFinal

\* Every round comes to an end.
RoundEnds == pc = "batch" ~> pc \in {"idle", "ended", "failed"}
=============================================================================
