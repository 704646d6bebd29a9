----------------------------- MODULE RunBounds -----------------------------
(***************************************************************************)
(* What bounds a run and the runs it delegates to (runtime/control/run.rs, *)
(* as agent/runner.rs uses it): cancellation, a graceful stop, a deadline, *)
(* and a token budget that a run shares with its children; the slot in     *)
(* which a run says why it ended early; the waits between retries.         *)
(***************************************************************************)
EXTENDS Integers, Sequences, FiniteSets

CONSTANTS FirstRun, Delegated,   \* a run and the runs derived from its options
          TokenLimit, MaxUsage,      \* token_budget; tokens of one response
          RetryBudget, RequestBudget, RoundLimit,
          BaseDelay, MaxDelay, AfterCap,  \* ProviderRetry
          FactorBits, DurationMax,        \* width of the factor; largest Duration
          RetryAfters,           \* what a provider may ask for, 0 for nothing
          Unset

ASSUME BoundsAssumption ==
    /\ {TokenLimit, MaxUsage, RetryBudget, RequestBudget, RoundLimit, BaseDelay, MaxDelay, AfterCap, FactorBits, DurationMax}
          \subseteq Nat
    /\ FactorBits > 0 /\ BaseDelay <= MaxDelay /\ MaxDelay <= DurationMax
    /\ Unset \notin {"StopRequested", "TokenBudget", "Stopped", "Budget"}

Runs == {FirstRun} \union Delegated

VARIABLES tokens,     \* the counters: options of a family share one
          signals,    \* cancellation, stop and the deadline
          opts,       \* each run's options: its counter and its early_end slot
          slots,      \* what each slot holds
          runner,     \* each run
          spent       \* history: tokens the providers reported

boundsVars == <<tokens, signals, opts, slots, runner, spent>>

NotRun == [pc |-> "off", rounds |-> 0, model_requests |-> 0, attempt |-> 0, delay |-> 0, end |-> Unset]

BoundsTypeOK ==
    /\ tokens \in [Runs -> Nat] /\ spent \in Nat
    /\ signals \in [cancelled : BOOLEAN, stop : BOOLEAN, late : BOOLEAN]
    /\ opts \in [Runs -> [counter : Runs, slot : Runs, model_budget : Nat \union {Unset}]]
    /\ slots \in [Runs -> {Unset, "StopRequested", "TokenBudget"}]
    /\ \A r \in Runs : runner[r].pc \in {"off", "boundary", "preparing", "request", "failed", "sleeping", "streaming", "tools", "over"}

\* RunOptions::default has a counter and a slot of its own and no model
\* budget; the host gave the first run one.
BoundsInit ==
    /\ tokens = [r \in Runs |-> 0] /\ spent = 0
    /\ signals = [cancelled |-> FALSE, stop |-> FALSE, late |-> FALSE]
    /\ opts = [r \in Runs |-> [counter |-> r, slot |-> r, model_budget |-> IF r = FirstRun THEN RequestBudget ELSE Unset]]
    /\ slots = [r \in Runs |-> Unset]
    /\ runner = [r \in Runs |-> IF r = FirstRun THEN [NotRun EXCEPT !.pc = "boundary"] ELSE NotRun]

----------------------------------------------------------------------------
(* ProviderRetry. *)

LeastOf(a, b) == IF a <= b THEN a ELSE b
MostOf(a, b) == IF a >= b THEN a ELSE b

scheduled_delay(attempt) ==
    LET shift == LeastOf(IF attempt = 0 THEN 0 ELSE attempt - 1, FactorBits - 1)
        factor == 2 ^ shift
    IN  LeastOf(IF BaseDelay * factor > DurationMax THEN MaxDelay ELSE BaseDelay * factor, MaxDelay)

delay_for(attempt, retry_after) ==
    IF retry_after = 0 THEN scheduled_delay(attempt)
    ELSE MostOf(scheduled_delay(attempt), LeastOf(retry_after, AfterCap))

----------------------------------------------------------------------------
(* RunOptions. *)

reported_tokens(r) == tokens[opts[r].counter]
token_budget_exceeded(r) == reported_tokens(r) >= TokenLimit
record_tokens(r, n) ==
    /\ tokens' = [tokens EXCEPT ![opts[r].counter] = @ + n]
    /\ spent' = spent + n

\* A child that reports in its parent's slot.
child_SharesSlot(parent, r) == [opts[parent] EXCEPT !.model_budget = Unset]

child(parent, r) == [counter |-> opts[parent].counter, slot |-> r, model_budget |-> Unset]

\* The first answer stays.
record_early_end(r, why) ==
    slots' = [slots EXCEPT ![opts[r].slot] = IF @ = Unset THEN why ELSE @]

model_budget_spent(r) ==
    opts[r].model_budget # Unset /\ runner[r].model_requests >= opts[r].model_budget

check_limits == ~signals.cancelled /\ ~signals.late

Over(r, how) == runner' = [runner EXCEPT ![r].pc = "over", ![r].end = how]

\* The host, or time.
cancel ==
    /\ ~signals.cancelled /\ signals' = [signals EXCEPT !.cancelled = TRUE]
    /\ UNCHANGED <<tokens, opts, slots, runner, spent>>
stop ==
    /\ ~signals.stop /\ signals' = [signals EXCEPT !.stop = TRUE]
    /\ UNCHANGED <<tokens, opts, slots, runner, spent>>
DeadlinePasses ==
    /\ ~signals.late /\ signals' = [signals EXCEPT !.late = TRUE]
    /\ UNCHANGED <<tokens, opts, slots, runner, spent>>

----------------------------------------------------------------------------
(* The runner. *)

\* The top of the loop, and next_request_is_available: limits, then a stop,
\* then the budget, then the rounds.
Boundary(r) ==
    /\ runner[r].pc = "boundary"
    /\ UNCHANGED <<tokens, signals, opts, spent>>
    /\ IF ~check_limits THEN Over(r, "Limits") /\ UNCHANGED slots
       ELSE IF signals.stop THEN record_early_end(r, "StopRequested") /\ Over(r, "Stopped")
       ELSE IF token_budget_exceeded(r) THEN record_early_end(r, "TokenBudget") /\ Over(r, "Budget")
       ELSE /\ UNCHANGED slots
            /\ IF runner[r].rounds >= RoundLimit THEN Over(r, "MaxRounds")
               ELSE IF model_budget_spent(r) THEN Over(r, "ModelBudget")
               ELSE runner' = [runner EXCEPT ![r].pc = "preparing", ![r].rounds = @ + 1, ![r].attempt = 0]

\* stream_turn may compact first, and the summary's usage counts too.
Prepare(r, usage) ==
    /\ runner[r].pc = "preparing"
    /\ record_tokens(r, usage) /\ runner' = [runner EXCEPT ![r].pc = "request"]
    /\ UNCHANGED <<signals, opts, slots>>

\* open_model_stream: one attempt.
OpenStream(r, ok) ==
    /\ runner[r].pc = "request"
    /\ IF ~check_limits THEN Over(r, "Limits")
       ELSE runner' = [runner EXCEPT ![r].attempt = @ + 1, ![r].model_requests = @ + 1,
                                     ![r].pc = IF ok THEN "streaming" ELSE "failed"]
    /\ UNCHANGED <<tokens, signals, opts, slots, spent>>

\* A failure: another attempt after a wait, while the budgets last.
RetryOrFail(r, transient, retry_after) ==
    /\ runner[r].pc = "failed"
    /\ IF ~transient \/ runner[r].attempt > RetryBudget THEN Over(r, "Failed")
       ELSE IF model_budget_spent(r) THEN Over(r, "ModelBudget")
       ELSE runner' = [runner EXCEPT ![r].pc = "sleeping", ![r].delay = delay_for(runner[r].attempt, retry_after)]
    /\ UNCHANGED <<tokens, signals, opts, slots, spent>>

\* bounds.sleep ends with the wait, a cancellation or the deadline.
Wake(r) ==
    /\ runner[r].pc = "sleeping"
    /\ IF check_limits THEN runner' = [runner EXCEPT ![r].pc = "request", ![r].delay = 0] ELSE Over(r, "Limits")
    /\ UNCHANGED <<tokens, signals, opts, slots, spent>>

\* The stream breaks, or a limit is met while it is read.
StreamFails(r) ==
    /\ runner[r].pc = "streaming" /\ Over(r, IF check_limits THEN "Failed" ELSE "Limits")
    /\ UNCHANGED <<tokens, signals, opts, slots, spent>>

\* The response is committed: its usage is recorded, and the run goes on with
\* the tools the model called or the input that is pending, or is done.
Respond(r, usage, calls) ==
    /\ runner[r].pc = "streaming"
    /\ record_tokens(r, usage)
    /\ IF calls THEN runner' = [runner EXCEPT ![r].pc = "tools"] ELSE Over(r, "Done")
    /\ UNCHANGED <<signals, opts, slots>>

\* A tool delegates: the run it starts has options derived from this one's.
Delegate(r, c) ==
    /\ runner[r].pc = "tools" /\ runner[c].pc = "off"
    /\ opts' = [opts EXCEPT ![c] = child(r, c)]
    /\ runner' = [runner EXCEPT ![c].pc = "boundary"]
    /\ UNCHANGED <<tokens, signals, slots, spent>>

ToolsDone(r) ==
    /\ runner[r].pc = "tools"
    /\ runner' = [runner EXCEPT ![r].pc = "boundary"]
    /\ UNCHANGED <<tokens, signals, opts, slots, spent>>

BoundsNext ==
    \/ cancel \/ stop \/ DeadlinePasses
    \/ \E r \in Runs :
          \/ Boundary(r) \/ StreamFails(r) \/ Wake(r) \/ ToolsDone(r)
          \/ \E n \in 0..MaxUsage : Prepare(r, n)
          \/ \E b \in BOOLEAN : OpenStream(r, b)
          \/ \E b \in BOOLEAN, s \in RetryAfters : RetryOrFail(r, b, s)
          \/ \E n \in 1..MaxUsage, b \in BOOLEAN : Respond(r, n, b)
          \/ \E c \in Delegated : Delegate(r, c)

BoundsSpec == BoundsInit /\ [][BoundsNext]_boundsVars

----------------------------------------------------------------------------

(* What a run says of its end is its own doing: a reason in the slot its   *)
(* caller reads was put there by that run ending so, and a run that was    *)
(* ended by a bound says so ("sharing one would let a child's ending be    *)
(* read as the parent's").                                                 *)
EarlyEndIsOwn ==
    \A r \in Runs :
        /\ slots[r] = "StopRequested" <=> runner[r].end = "Stopped"
        /\ slots[r] = "TokenBudget" <=> runner[r].end = "Budget"

(* Parent and children together trip one bound: what is spent passes the   *)
(* budget by at most one compaction and one response of each run that was  *)
(* in a round when it was reached ("parent and child together trip one     *)
(* shared bound rather than each getting an independent one").             *)
BudgetIsShared ==
    spent <= IF TokenLimit = 0 THEN 0 ELSE (TokenLimit - 1) + Cardinality(Runs) * 2 * MaxUsage

(* Waiting longer never turns into waiting less: the schedule's delays     *)
(* rise to max_delay and stay there for every attempt, past the width of   *)
(* the factor too, and what a server asks for is honoured up to its cap.   *)
ScheduleNeverFalls ==
    \A r \in Runs : runner[r].pc = "sleeping" =>
        /\ \A n \in 1..runner[r].attempt - 1 : runner[r].delay >= scheduled_delay(n)
        /\ runner[r].delay <= MostOf(MaxDelay, AfterCap)

----------------------------------------------------------------------------
(***************************************************************************)
(* Typed runs: run_to_output and run_to_reserved_output generate a tool    *)
(* whose input is the answer, register it for the agent, open a gate that  *)
(* admits it, run the agent, and take the answer out of the last committed *)
(* tool results.                                                           *)
(*                                                                         *)
(* A generated name is the number of its run (names are never reused).  A  *)
(* call is the tool it names and the value it passes; the model may call   *)
(* the tool of an earlier run, whose name is in its transcript.  Ordinary  *)
(* tools and the runner are as far as they matter here: rounds of calls    *)
(* that end with a terminating one (module ToolOrchestrator).              *)
(***************************************************************************)

CONSTANTS AnswerValues,   \* inputs of a terminal call
          MaxTypedRuns,   \* bound: typed runs
          MaxAnswerCalls, \* bound: calls in a round
          MaxAnswerRounds \* bound: rounds of a run

Ordinary == 0             \* the name of the agent's ordinary tools

VARIABLES typed,      \* the typed run under way
          gate,       \* terminal_tool_gate: the registration it admits, or none
          offered,    \* generated tools registered for the agent
          last,       \* the last item of the transcript: its tool results, if any
          answer      \* what the last typed run returned

terminalVars == <<typed, gate, offered, last, answer>>

Names == Ordinary..MaxTypedRuns
Call == [name : Names, value : AnswerValues]
NoGate == [run |-> 0, keeps_tools |-> FALSE]

\* A result: the call, and whether it left a detail (ordinary tools may too).
Result == [name : Names, value : AnswerValues, how : {"error", "skipped", "detail"}]

TerminalTypeOK ==
    /\ typed \in [run : 0..MaxTypedRuns, at : {"idle", "model", "calls", "over"}, keeps_tools : BOOLEAN,
                  validated : BOOLEAN, todo : Seq(Call), done : Seq(Result), rounds : 0..MaxAnswerRounds,
                  accepted : Nat \X Nat, failed : BOOLEAN]
    /\ gate \in [run : 0..MaxTypedRuns, keeps_tools : BOOLEAN]
    /\ offered \subseteq 1..MaxTypedRuns
    /\ last \in Seq(Result)
    /\ answer \in [run : 0..MaxTypedRuns, value : AnswerValues] \cup {[run |-> 0, value |-> 0]}

TerminalInit ==
    /\ typed = [run |-> 0, at |-> "idle", keeps_tools |-> FALSE, validated |-> FALSE, todo |-> <<>>,
                done |-> <<>>, rounds |-> 0, accepted |-> <<0, 0>>, failed |-> FALSE]
    /\ gate = NoGate
    /\ offered = {}
    /\ last = <<>>
    /\ answer = [run |-> 0, value |-> 0]

-----------------------------------------------------------------------------
(* The gate.                                                               *)

\* Agent::tools: a shaping run offers its terminal tool alone.
tools == IF gate.run # 0 /\ ~gate.keeps_tools THEN offered \cap {gate.run}
         ELSE {Ordinary} \cup offered

\* resolve_tool: a call is looked up by its name; a shaping run's other
\* calls still find their tools.
resolve_tool(name) == name = Ordinary \/ name \in offered

-----------------------------------------------------------------------------
(* run_to_terminal_tool.                                                   *)

\* Registers the tool, opens the gate, and starts the run with its message.
StartTyped(keeps_tools, validated) ==
    /\ typed.at = "idle" /\ typed.run < MaxTypedRuns
    /\ typed' = [typed EXCEPT !.run = @ + 1, !.at = "model", !.keeps_tools = keeps_tools,
                              !.validated = validated, !.rounds = 0, !.accepted = <<0, 0>>,
                              !.failed = FALSE]
    /\ offered' = offered \cup {typed.run + 1}
    /\ gate' = [run |-> typed.run + 1, keeps_tools |-> keeps_tools]
    /\ last' = <<>>
    /\ UNCHANGED answer

\* The model makes some calls; the validator cell remembers <<round, call>>.
ModelCalls(calls) ==
    /\ typed.at = "model" /\ typed.rounds < MaxAnswerRounds
    /\ typed' = [typed EXCEPT !.at = "calls", !.todo = calls, !.done = <<>>, !.rounds = @ + 1]
    /\ last' = <<>>
    /\ UNCHANGED <<gate, offered, answer>>

\* The model answers with prose, or a bound ends the run between rounds.
RunEnds_(prose) ==
    /\ typed.at = "model"
    /\ typed' = [typed EXCEPT !.at = "over"]
    /\ last' = IF prose THEN <<>> ELSE last
    /\ UNCHANGED <<gate, offered, answer>>

\* The run fails, and its rounds leave the transcript.
RunFails ==
    /\ typed.at \in {"model", "calls"}
    /\ typed' = [typed EXCEPT !.at = "over", !.failed = TRUE, !.todo = <<>>]
    /\ last' = <<>>
    /\ UNCHANGED <<gate, offered, answer>>

\* The call being executed: its round and its place (a tool_use id).
Here == <<typed.rounds, Len(typed.done) + 1>>

\* TerminalOutputTool::execute_mut_output: the validator accepts, and its
\* call is remembered, or it rejects; other tools just answer.
execute_mut_output(accepts) ==
    /\ typed.at = "calls" /\ typed.todo # <<>>
    /\ LET call == Head(typed.todo)
           terminal == call.name # Ordinary
           ok == resolve_tool(call.name) /\ (terminal /\ typed.validated => accepts)
           ends == terminal /\ ok
           result == [name |-> call.name, value |-> call.value,
                      how |-> IF ok THEN "detail" ELSE "error"]
           skipped == [i \in DOMAIN Tail(typed.todo) |->
                         [name |-> Tail(typed.todo)[i].name, value |-> Tail(typed.todo)[i].value,
                          how |-> "skipped"]]
       IN  typed' = [typed EXCEPT
                        !.todo = IF ends THEN <<>> ELSE Tail(@),
                        !.done = Append(@, result) \o (IF ends THEN skipped ELSE <<>>),
                        !.accepted = IF ends /\ typed.validated THEN Here ELSE @]
    /\ UNCHANGED <<gate, offered, last, answer>>

\* The round's results are committed; a terminating one ends the run.
CommitRound ==
    /\ typed.at = "calls" /\ typed.todo = <<>>
    /\ last' = typed.done
    /\ typed' = [typed EXCEPT !.done = <<>>,
                    !.at = IF \E i \in DOMAIN typed.done :
                                typed.done[i].how = "detail" /\ typed.done[i].name # Ordinary
                           THEN "over" ELSE "model"]
    /\ UNCHANGED <<gate, offered, answer>>

\* terminal_result: the results of the last item that answer a call of this
\* run's tool, the accepted one when there is a validator, with a detail.
terminal_result ==
    {i \in DOMAIN last : /\ last[i].name = typed.run /\ last[i].how = "detail"
                         /\ typed.validated => typed.accepted = <<typed.rounds, i>>}

\* Drop of TerminalToolGuard: the gate of this registration, then the tool.
TerminalToolGuard_drop ==
    /\ gate' = IF gate.run = typed.run THEN NoGate ELSE gate
    /\ offered' = offered \ {typed.run}

\* The value, or an error that says there is none; the guard goes either way.
ReturnOutput ==
    /\ typed.at = "over"
    /\ answer' = IF typed.failed \/ terminal_result = {} THEN [run |-> 0, value |-> 0]
                 ELSE LET i == CHOOSE i \in terminal_result : \A j \in terminal_result : i <= j
                      IN  [run |-> typed.run, value |-> last[i].value]
    /\ typed' = [typed EXCEPT !.at = "idle"]
    /\ TerminalToolGuard_drop
    /\ UNCHANGED last

\* The future is dropped: the guard goes, nothing is returned.
DropTyped ==
    /\ typed.at # "idle"
    /\ typed' = [typed EXCEPT !.at = "idle", !.todo = <<>>, !.done = <<>>]
    /\ answer' = [run |-> 0, value |-> 0]
    /\ TerminalToolGuard_drop
    /\ UNCHANGED last

TerminalNext ==
    \/ \E keeps_tools, validated \in BOOLEAN : StartTyped(keeps_tools, validated)
    \/ \E n \in 1..MaxAnswerCalls : \E calls \in [1..n -> Call] : ModelCalls(calls)
    \/ \E prose \in BOOLEAN : RunEnds_(prose)
    \/ \E accepts \in BOOLEAN : execute_mut_output(accepts)
    \/ RunFails \/ CommitRound \/ ReturnOutput \/ DropTyped

TerminalSpec == TerminalInit /\ [][TerminalNext]_terminalVars

-----------------------------------------------------------------------------
(* Properties.                                                             *)

\* A typed run returns a value only when its own last round ended on it: the
\* first call of this run's tool that was not rejected, the one the validator
\* accepted when there is one; never the answer of an earlier run still in
\* the transcript.  Between runs no generated tool is offered or admitted.
OutputIsThisRuns ==
    /\ typed.at = "over" /\ ~typed.failed /\ terminal_result # {} =>
          \A i \in terminal_result :
             /\ last[i].name = typed.run
             /\ typed.validated => typed.accepted = <<typed.rounds, i>>
             /\ \A j \in DOMAIN last :
                   /\ j > i => last[j].how = "skipped"
                   /\ j < i => last[j].name = Ordinary \/ last[j].how = "error"
    /\ typed.at = "idle" => gate = NoGate /\ offered = {}
    /\ typed.at # "idle" => gate.run = typed.run /\ tools \cap offered = {typed.run}
=============================================================================
