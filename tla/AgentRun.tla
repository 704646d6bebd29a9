------------------------------ MODULE AgentRun ------------------------------
(***************************************************************************)
(* One agent driving its runs: Agent::drive_run opens a run in the memory, *)
(* TurnRunner::run loops over rounds (inject what waits, ask the model,    *)
(* commit its message, run its tools, commit their results), and drive_run *)
(* settles the run: finish and acknowledge, or requeue and roll back.      *)
(*                                                                         *)
(* Around it, in any order: a host queues or clears steers and follow-ups, *)
(* trips the stop or the cancellation token; teammates send letters and    *)
(* background commands leave notes, both through the store; work a tool    *)
(* started leaves answers in memory; a store write fails; the process dies *)
(* and is restarted.                                                       *)
(*                                                                         *)
(* A step ends at a durable write or at an await, so a crash or a host call*)
(* can fall between any two of them.  The text of a message is a tag.      *)
(***************************************************************************)
EXTENDS AgentMemory, SequencesExt

CONSTANTS Steers, FollowUps,      \* numbered in the order the host queues them
          Letters, Notes, Answers,
          MaxRounds, ModelBudget, RetryBudget,
          Metered,                \* the run has a token budget
          Strategy,               \* the run has a RoundStrategy
          Compacts,               \* transcripts can outgrow the context window
          Malformed,              \* the model can emit tool input that does not parse
          MaxRuns, MaxFaults, MaxCrashes    \* bounds

ASSUME TagAssumption ==
    /\ Steers \union FollowUps \union Letters \union Notes \union Answers \subseteq Tags
    /\ Tags \subseteq Nat

VARIABLES mem, disk,          \* the agent's memory and the stored copy
          pc,                 \* where drive_run and TurnRunner::run stand
          run,                \* their local variables
          steer, followUp,    \* [queue, inflight] of each steering queue
          letters, notes,     \* delivery states in the store
          answers,            \* DeferredQueue
          signals,            \* tripped tokens of the run's options
          row,                \* the run's checkpoint row in the store
          outcome,            \* how the last run ended, for its caller
          runs, faults, crashes,    \* spent of each bound
          seen,               \* history: tags a model request has carried
          called,             \* history: calls the model has made
          acted,              \* history: calls that ran in the run last opened
          given,              \* history: steers and follow-ups queued and not cleared
          start               \* history: transcript and mark the run opened on

bounds == <<runs, faults, crashes>>
history == <<seen, called, acted, given, start>>
inbox == <<letters, notes>>
steering == <<steer, followUp>>
vars == <<mem, disk, pc, run, steer, followUp, letters, notes, answers, signals,
          row, outcome, runs, faults, crashes, seen, called, acted, given, start>>

NewRun == [rounds |-> 0, requests |-> 0, attempt |-> 0, spent |-> FALSE, overflowed |-> FALSE,
           early |-> FALSE, todo |-> {}, uses |-> {}, speaks |-> FALSE, invalid |-> FALSE,
           endTurn |-> FALSE, tools |-> FALSE, continues |-> FALSE]

EmptyQueue == [queue |-> <<>>, inflight |-> <<>>]
NoSignals == [stop |-> FALSE, cancel |-> FALSE]

TagsIn(t) == UNION {e.msg.tags : e \in EntriesIn(t.items)}
UsesIn(t) == UNION {e.msg.uses : e \in EntriesIn(t.items)}

Init ==
    /\ mem = NewMemory /\ disk = NewMemory
    /\ pc = "idle" /\ run = NewRun
    /\ steer = EmptyQueue /\ followUp = EmptyQueue
    /\ letters = [l \in Letters |-> "unsent"] /\ notes = [n \in Notes |-> "unsent"]
    /\ answers = <<>> /\ signals = NoSignals
    /\ row = "none" /\ outcome = "none"
    /\ runs = 0 /\ faults = 0 /\ crashes = 0
    /\ seen = {} /\ called = {} /\ acted = {} /\ given = {}
    /\ start = [transcript |-> EmptyTranscript, interrupted |-> FALSE]

-----------------------------------------------------------------------------
(* Writes, and what a failing one does.                                    *)

Goto(label) == pc' = label /\ UNCHANGED faults

\* A store write that returns an error, and where the error leads.
Fault(label) ==
    /\ faults < MaxFaults
    /\ faults' = faults + 1
    /\ pc' = label

\* A memory operation and its save.  The memory is changed either way.
Save(m, label, failed) ==
    /\ mem' = m
    /\ \/ disk' = m /\ Goto(label)
       \/ disk' = disk /\ Fault(failed)

\* The same, followed by persist_agent_record.
SaveAndRecord(m, label) ==
    \/ Save(m, label, "fail")
    \/ mem' = m /\ disk' = m /\ Fault("fail")

\* Delivery states of the inbox: UPDATE ... WHERE delivery_state = from.
Move(box, from, to) == [l \in DOMAIN box |-> IF box[l] = from THEN to ELSE box[l]]
Claimed(box) == {l \in DOMAIN box : box[l] = "pending"}

-----------------------------------------------------------------------------
(* The steering queues.                                                    *)

Pending(q) == q.queue # <<>>

\* QueueMode::OneAtATime takes the head, QueueMode::All everything; the host
\* may set either at any time.
Drained(q) ==
    {[queue |-> SubSeq(q.queue, k + 1, Len(q.queue)),
      inflight |-> q.inflight \o SubSeq(q.queue, 1, k)] : k \in {1, Len(q.queue)}}

Requeued_Appended(q) == [queue |-> q.queue \o q.inflight, inflight |-> <<>>]

\* prepend: the inflight entries go back in front, in order.
Requeued(q) == [queue |-> q.inflight \o q.queue, inflight |-> <<>>]

\* What draining put into the transcript.
Flat(before, after) == {after.inflight[i] : i \in Len(before.inflight) + 1 .. Len(after.inflight)}

-----------------------------------------------------------------------------
(* The limits of a run.                                                    *)

CheckLimits == signals.cancel
EndsEarly == signals.stop \/ run.spent

\* next_request_is_available: where the runner goes, `label` if it may ask.
NextRequestIsAvailable(label) ==
    CASE CheckLimits -> "fail"
      [] ~CheckLimits /\ EndsEarly -> "finish"
      [] ~CheckLimits /\ ~EndsEarly /\ (run.rounds >= MaxRounds \/ run.requests >= ModelBudget) -> "fail"
      [] OTHER -> label

GotoIfAvailable(label) ==
    /\ pc' = NextRequestIsAvailable(label)
    /\ run' = [run EXCEPT !.early = (pc' = "finish")]
    /\ UNCHANGED faults

-----------------------------------------------------------------------------
(* Opening a run.                                                          *)

Open(m, failedSteer, openedSteer, continues) ==
    /\ runs' = runs + 1
    /\ run' = [NewRun EXCEPT !.continues = continues] /\ signals' = NoSignals
    /\ \/ /\ Fault("idle") /\ outcome' = "failed"    \* before the checkpoint row
          /\ steer' = failedSteer
          /\ UNCHANGED <<mem, disk, row, acted, start>>
       \/ /\ row' = "running" /\ mem' = m
          /\ acted' = {}
          /\ start' = [transcript |-> mem.transcript, interrupted |-> mem.interrupted]
          /\ \/ disk' = m /\ Goto("top") /\ outcome' = "none" /\ steer' = openedSteer
             \/ disk' = disk /\ Fault("idle") /\ outcome' = "failed" /\ steer' = failedSteer
    /\ UNCHANGED <<followUp, inbox, answers, crashes, seen, called, given>>

CanOpen == pc = "idle" /\ runs < MaxRuns

StartRun == CanOpen /\ Open(BeginRun(mem, UserTurn({})), steer, steer, FALSE)

\* resume_with_options: the resumable message again.
Resume ==
    /\ CanOpen
    /\ mem.resumable # None
    /\ Open(BeginRun(mem, mem.resumable), steer, steer, FALSE)

ContinueInterrupted ==
    /\ CanOpen
    /\ mem.interrupted
    /\ Open(BeginContinuation(mem), steer, steer, TRUE)

\* run_queued requeues once more when run() failed.
RunQueued ==
    /\ CanOpen
    /\ Pending(steer)
    /\ \E drained \in Drained(steer) :
           Open(BeginRun(mem, UserTurn(Flat(steer, drained))), Requeued(drained), drained, FALSE)

-----------------------------------------------------------------------------
(* The head of a round: the loop's checks, then what stream_turn injects.  *)

\* The run ends well, early, at this boundary.
EndEarly ==
    /\ pc = "top" /\ ~CheckLimits /\ EndsEarly
    /\ Goto("finish")
    /\ run' = [run EXCEPT !.early = TRUE]
    /\ UNCHANGED <<mem, disk, steering, inbox, answers, signals, row, outcome, runs, crashes, history>>

\* A limit fails the run.
LimitReached ==
    /\ pc = "top"
    /\ \/ CheckLimits
       \/ ~EndsEarly /\ (run.rounds >= MaxRounds \/ run.requests >= ModelBudget)
    /\ Goto("fail")
    /\ UNCHANGED <<mem, disk, run, steering, inbox, answers, signals, row, outcome, runs, crashes, history>>

\* update_run_state, then inject_team_inbox claims the letters.
ClaimLetters ==
    /\ pc = "top" /\ ~CheckLimits /\ ~EndsEarly
    /\ run.rounds < MaxRounds /\ run.requests < ModelBudget
    /\ \/ /\ run' = [run EXCEPT !.rounds = @ + 1, !.todo = Claimed(letters), !.attempt = 0,
                                !.overflowed = FALSE]
          /\ letters' = Move(letters, "pending", "inflight")
          /\ Goto(IF Claimed(letters) = {} THEN "notes" ELSE "letters")
       \/ Fault("fail") /\ UNCHANGED <<run, letters>>
    /\ UNCHANGED <<mem, disk, steering, notes, answers, signals, row, outcome, runs, crashes, history>>

InjectLetter ==
    /\ pc = "letters"
    /\ \E l \in run.todo :
         /\ Save(AppendItem(mem, DelegationRequest({l})),
                 IF run.todo = {l} THEN "notes" ELSE "letters", "fail")
         /\ run' = [run EXCEPT !.todo = @ \ {l}]
    /\ UNCHANGED <<steering, inbox, answers, signals, row, outcome, runs, crashes, history>>

ClaimNotes_Acks ==
    /\ pc = "notes"
    /\ notes' = Move(notes, "pending", "acked")
    /\ run' = [run EXCEPT !.todo = Claimed(notes)]
    /\ Goto(IF Claimed(notes) = {} THEN "answers" ELSE "noteContext")
    /\ UNCHANGED <<mem, disk, steering, letters, answers, signals, row, outcome, runs, crashes, history>>

\* drain_notifications; an error reads as no notification.
ClaimNotes ==
    /\ pc = "notes"
    /\ \/ /\ notes' = Move(notes, "pending", "inflight")
          /\ run' = [run EXCEPT !.todo = Claimed(notes)]
          /\ Goto(IF Claimed(notes) = {} THEN "answers" ELSE "noteContext")
       \/ Fault("answers") /\ UNCHANGED <<notes, run>>
    /\ UNCHANGED <<mem, disk, steering, letters, answers, signals, row, outcome, runs, crashes, history>>

InjectNotes ==
    /\ pc = "noteContext"
    /\ Save(AppendItem(mem, CanonicalContext(run.todo)), "answers", "fail")
    /\ run' = [run EXCEPT !.todo = {}]
    /\ UNCHANGED <<steering, inbox, answers, signals, row, outcome, runs, crashes, history>>

\* apply_deferred takes the whole queue before it appends the first answer.
ApplyDeferred ==
    /\ pc = "answers"
    /\ answers' = <<>>
    /\ run' = [run EXCEPT !.todo = Range(answers)]
    /\ Goto(IF answers = <<>> THEN "compact" ELSE "deferred")
    /\ UNCHANGED <<mem, disk, steering, inbox, signals, row, outcome, runs, crashes, history>>

InjectAnswer ==
    /\ pc = "deferred"
    /\ LET a == CHOOSE x \in run.todo : \A y \in run.todo : x <= y
       IN  /\ Save(AppendItem(mem, CanonicalContext({a})),
                   IF run.todo = {a} THEN "compact" ELSE "deferred", "fail")
           /\ run' = [run EXCEPT !.todo = @ \ {a}]
    /\ UNCHANGED <<steering, inbox, answers, signals, row, outcome, runs, crashes, history>>

\* The usage a provider reports may bring the run to its token budget.
Reported(r) == {[r EXCEPT !.spent = s] : s \in {r.spent, r.spent \/ Metered}}

Compact(r, label, failed) ==
    /\ Compacts
    /\ CanCompact(mem.transcript.items)
    /\ \E compacted \in CompactionOutcomes(mem.transcript) :
           Save(ApplyCompaction(mem, compacted), label, failed)
    /\ run' \in Reported(r)

\* auto_compact_if_needed.  A save that fails is swallowed with the memory
\* already compacted; only a limit fails the run.
AutoCompact ==
    /\ pc = "compact"
    /\ \/ Goto("request") /\ UNCHANGED <<mem, disk, run>>
       \/ Fault("fail") /\ UNCHANGED <<mem, disk, run>>    \* refresh_tasks_from_disk
       \/ CheckLimits /\ Compacts /\ Goto("fail") /\ UNCHANGED <<mem, disk, run>>
       \/ Compact(run, "request", "request")
    /\ UNCHANGED <<steering, inbox, answers, signals, row, outcome, runs, crashes, history>>

-----------------------------------------------------------------------------
(* Asking the model: open_model_stream and the rest of stream_turn.        *)

Attempt(r) == [r EXCEPT !.attempt = @ + 1, !.requests = @ + 1]

RequestBase ==
    /\ pc = "request" /\ ~CheckLimits
    /\ seen' = seen \union TagsIn(mem.transcript)
    /\ UNCHANGED <<mem, disk, steering, inbox, answers, signals, row, outcome, runs, crashes,
                   called, acted, given, start>>

StreamOpens ==
    /\ RequestBase
    /\ run' = Attempt(run)
    /\ Goto("opened")

TransientError_Unbudgeted ==
    /\ RequestBase
    /\ run' = Attempt(run)
    /\ Goto(IF run'.attempt <= RetryBudget THEN "request" ELSE "fail")

\* The error is transient and the attempt within retry_budget: again after a
\* delay, unless the request was the model budget's last.
TransientError ==
    /\ RequestBase
    /\ run' = Attempt(run)
    /\ Goto(IF run'.attempt <= RetryBudget /\ run'.requests < ModelBudget
            THEN "request" ELSE "fail")

\* The first overflow of a round compacts and opens the stream once more.
ContextOverflow ==
    /\ RequestBase /\ Compacts
    /\ run' = Attempt(run)
    /\ Goto(IF run.overflowed THEN "fail" ELSE "overflow")

\* A limit tripped before or during the request, a hook refused it, or the
\* provider's error is final.
RequestFails ==
    /\ pc = "request"
    /\ run' = IF CheckLimits THEN run ELSE Attempt(run)
    /\ Goto("fail")
    /\ UNCHANGED <<mem, disk, steering, inbox, answers, signals, row, outcome, runs, crashes, history>>

\* compact_after_context_overflow; the engine may decline or fail.
CompactAfterOverflow ==
    /\ pc = "overflow"
    /\ LET again == [run EXCEPT !.overflowed = TRUE, !.attempt = 0]
       IN  \/ Compact(again, "request", "fail")
           \/ Goto("request") /\ run' = again /\ UNCHANGED <<mem, disk>>
           \/ Goto("fail") /\ run' = again /\ UNCHANGED <<mem, disk>>
    /\ UNCHANGED <<steering, inbox, answers, signals, row, outcome, runs, crashes, history>>

StartStreaming ==
    /\ pc = "opened"
    /\ Save(UpdatePendingTurn(mem), "streaming", "fail")
    /\ UNCHANGED <<run, steering, inbox, answers, signals, row, outcome, runs, crashes, history>>

\* The stream, a limit or the store ends the turn before it is complete.
StreamFails ==
    /\ pc = "streaming"
    /\ Goto("fail")
    /\ UNCHANGED <<mem, disk, run, steering, inbox, answers, signals, row, outcome, runs, crashes, history>>

StreamEnds ==
    /\ pc = "streaming"
    /\ \E uses \in SUBSET (Calls \ called), speaks \in BOOLEAN, invalid \in {FALSE, Malformed} :
         /\ run' = [run EXCEPT !.uses = uses, !.speaks = speaks, !.invalid = invalid]
         /\ called' = called \union uses
    /\ Goto("commit")
    /\ UNCHANGED <<mem, disk, steering, inbox, answers, signals, row, outcome, runs, crashes,
                   seen, acted, given, start>>

\* commit_assistant_message, then the branch on what the turn holds.  An
\* invalid tool use is no part of the message.
CommitAssistant ==
    /\ pc = "commit"
    /\ Save(IF run.speaks \/ run.uses # {}
            THEN CommitAssistantMessage(mem, AssistantTurn({}, run.uses))
            ELSE ClearPendingTurn(mem),
            IF run.invalid THEN "feedback" ELSE IF run.uses # {} THEN "execute" ELSE "steer", "fail")
    /\ run' \in Reported([run EXCEPT !.tools = FALSE])
    /\ UNCHANGED <<steering, inbox, answers, signals, row, outcome, runs, crashes, history>>

InvalidToolInputFeedback ==
    /\ pc = "feedback"
    /\ SaveAndRecord(AppendItem(mem, UserTurn({})), "top")
    /\ UNCHANGED <<run, steering, inbox, answers, signals, row, outcome, runs, crashes, history>>

-----------------------------------------------------------------------------
(* The calls of a round.                                                   *)

ExecuteCall ==
    /\ pc = "execute"
    /\ \E c \in run.uses \ acted : acted' = acted \union {c}
    /\ UNCHANGED <<mem, disk, pc, run, steering, inbox, answers, signals, row, outcome, bounds,
                   seen, called, given, start>>

\* A limit, the tool budget or a store error ends execute_calls.
ExecutionFails ==
    /\ pc = "execute"
    /\ Goto("fail")
    /\ UNCHANGED <<mem, disk, run, steering, inbox, answers, signals, row, outcome, runs, crashes, history>>

\* Every call has a result: of its execution, or of being refused.
ExecutionEnds ==
    /\ pc = "execute"
    /\ \E endTurn \in BOOLEAN :
         /\ SaveAndRecord(AppendItem(mem, ToolExchange(run.uses)),
                          IF endTurn THEN "finish" ELSE "steer")
         /\ run' = [run EXCEPT !.tools = TRUE, !.endTurn = endTurn]
    /\ UNCHANGED <<steering, inbox, answers, signals, row, outcome, runs, crashes, history>>

-----------------------------------------------------------------------------
(* The boundary after a round.                                             *)

AfterSteer == IF run.tools THEN "strategy" ELSE "followUp"

CheckSteer ==
    /\ pc = "steer"
    /\ \/ Pending(steer) /\ GotoIfAvailable("drainSteer")
       \/ ~Pending(steer) /\ Goto(AfterSteer) /\ UNCHANGED run
    /\ UNCHANGED <<mem, disk, steering, inbox, answers, signals, row, outcome, runs, crashes, history>>

DrainSteer_Waits ==
    /\ pc = "drainSteer"
    /\ Pending(steer)
    /\ steer' \in Drained(steer)
    /\ Save(AppendItem(mem, UserTurn(Flat(steer, steer'))), "top", "fail")
    /\ UNCHANGED <<run, followUp, inbox, answers, signals, row, outcome, runs, crashes, history>>

\* The host may have cleared the queue since CheckSteer.
DrainSteer ==
    /\ pc = "drainSteer"
    /\ \/ /\ ~Pending(steer) /\ Goto(AfterSteer)
          /\ UNCHANGED <<mem, disk, steer>>
       \/ /\ Pending(steer)
          /\ steer' \in Drained(steer)
          /\ LET m == AppendItem(mem, UserTurn(Flat(steer, steer')))
             IN  IF run.tools THEN Save(m, "top", "fail") ELSE SaveAndRecord(m, "top")
    /\ UNCHANGED <<run, followUp, inbox, answers, signals, row, outcome, runs, crashes, history>>

CheckFollowUp ==
    /\ pc = "followUp"
    /\ \/ Pending(followUp) /\ GotoIfAvailable("drainFollowUp")
       \/ ~Pending(followUp) /\ Goto("strategy") /\ UNCHANGED run
    /\ UNCHANGED <<mem, disk, steering, inbox, answers, signals, row, outcome, runs, crashes, history>>

DrainFollowUp ==
    /\ pc = "drainFollowUp"
    /\ \/ /\ ~Pending(followUp) /\ Goto("strategy")
          /\ UNCHANGED <<mem, disk, followUp>>
       \/ /\ Pending(followUp)
          /\ followUp' \in Drained(followUp)
          /\ SaveAndRecord(AppendItem(mem, UserTurn(Flat(followUp, followUp'))), "top")
    /\ UNCHANGED <<run, steer, inbox, answers, signals, row, outcome, runs, crashes, history>>

\* RoundDecision::Continue, Inject and Stop.  Without a strategy, Continue.
RoundContinue ==
    /\ pc = "strategy"
    /\ \/ Goto(IF run.tools THEN "top" ELSE "defer")
       \/ Strategy /\ Fault("fail")    \* apply_round_adjustment
    /\ UNCHANGED <<mem, disk, run, steering, inbox, answers, signals, row, outcome, runs, crashes, history>>

RoundInject ==
    /\ pc = "strategy" /\ Strategy
    /\ LET m == AppendItem(mem, UserTurn({}))
       IN  IF run.tools THEN Save(m, "top", "fail") ELSE SaveAndRecord(m, "top")
    /\ UNCHANGED <<run, steering, inbox, answers, signals, row, outcome, runs, crashes, history>>

RoundStop ==
    /\ pc = "strategy" /\ Strategy
    /\ Goto("finish")
    /\ UNCHANGED <<mem, disk, run, steering, inbox, answers, signals, row, outcome, runs, crashes, history>>

\* has_deferred: the run does not return on an answer the model has not seen.
CheckDeferred ==
    /\ pc = "defer"
    /\ \/ answers # <<>> /\ GotoIfAvailable("top")
       \/ answers # <<>> /\ NextRequestIsAvailable("top") = "top" /\ Fault("fail") /\ UNCHANGED run
       \/ answers = <<>> /\ Goto("finish") /\ UNCHANGED run
    /\ UNCHANGED <<mem, disk, steering, inbox, answers, signals, row, outcome, runs, crashes, history>>

-----------------------------------------------------------------------------
(* The run returned Ok: finish_run, the record and the checkpoint row, then*)
(* what it consumed is let go.                                             *)

FinishMemory ==
    /\ pc = "finish"
    /\ Save(FinishRun(mem), "finished", "unfinished")
    /\ UNCHANGED <<run, steering, inbox, answers, signals, row, outcome, runs, crashes, history>>

FinishCheckpoint ==
    /\ pc = "finished"
    /\ \/ /\ row' = "finished" /\ Goto("ackLetters")
          /\ steer' = [steer EXCEPT !.inflight = <<>>]
          /\ followUp' = [followUp EXCEPT !.inflight = <<>>]
       \/ Fault("unfinished") /\ UNCHANGED <<row, steering>>
    /\ UNCHANGED <<mem, disk, run, inbox, answers, signals, outcome, runs, crashes, history>>

\* An acknowledgement that fails is ignored.
AckLetters ==
    /\ pc = "ackLetters"
    /\ \/ letters' = Move(letters, "inflight", "acked") /\ Goto("ackNotes")
       \/ Fault("ackNotes") /\ UNCHANGED letters
    /\ UNCHANGED <<mem, disk, run, steering, notes, answers, signals, row, outcome, runs, crashes, history>>

\* A run whose last message is not the model's is an error to its caller.
AckNotes ==
    /\ pc = "ackNotes"
    /\ \/ notes' = Move(notes, "inflight", "acked") /\ Goto("idle")
       \/ Fault("idle") /\ UNCHANGED notes
    /\ outcome' = IF IsLastAssistant(mem.transcript.items, Len(mem.transcript.items))
                  THEN "finished" ELSE "empty"
    /\ UNCHANGED <<mem, disk, run, steering, letters, answers, signals, row, runs, crashes, history>>

\* handle_finalization_error: everything is handed back, the transcript stays.
HandleFinalizationError ==
    /\ pc = "unfinished"
    /\ steer' = Requeued(steer) /\ followUp' = Requeued(followUp)
    /\ \E failing \in SUBSET {"letters", "notes", "row"} :
         /\ faults + Cardinality(failing) <= MaxFaults
         /\ faults' = faults + Cardinality(failing)
         /\ letters' = IF "letters" \in failing THEN letters ELSE Move(letters, "inflight", "pending")
         /\ notes' = IF "notes" \in failing THEN notes ELSE Move(notes, "inflight", "pending")
         /\ row' = IF "row" \in failing THEN row ELSE "failed"
    /\ outcome' = "failed" /\ pc' = "idle"
    /\ UNCHANGED <<mem, disk, run, answers, signals, runs, crashes, history>>

-----------------------------------------------------------------------------
(* The run returned an error: hand back, restore, roll back, in this order,*)
(* each error ending the sequence.                                         *)

RequeueInflight ==
    /\ pc = "fail"
    /\ steer' = Requeued(steer) /\ followUp' = Requeued(followUp)
    /\ \/ letters' = Move(letters, "inflight", "pending") /\ Goto("requeueNotes") /\ UNCHANGED outcome
       \/ Fault("idle") /\ outcome' = "failed" /\ UNCHANGED letters
    /\ UNCHANGED <<mem, disk, run, notes, answers, signals, row, runs, crashes, history>>

\* A requeue of the notes that fails is ignored.
RequeueNotes ==
    /\ pc = "requeueNotes"
    /\ \/ notes' = Move(notes, "inflight", "pending") /\ Goto("rollback")
       \/ Fault("rollback") /\ UNCHANGED notes
    /\ UNCHANGED <<mem, disk, run, steering, letters, answers, signals, row, outcome, runs, crashes, history>>

\* restore_task_state may fail before the memory is touched.
RollbackMemory ==
    /\ pc = "rollback"
    /\ \/ Save(RollbackFailedRun(mem), "failed", "idle")
       \/ Fault("idle") /\ UNCHANGED <<mem, disk>>
    /\ outcome' = "failed"
    /\ acted' = IF disk' = mem' THEN {} ELSE acted
    /\ UNCHANGED <<run, steering, inbox, answers, signals, row, runs, crashes, seen, called, given, start>>

FailCheckpoint ==
    /\ pc = "failed"
    /\ \/ row' = "failed" /\ Goto("idle")
       \/ Fault("idle") /\ UNCHANGED row
    /\ UNCHANGED <<mem, disk, run, steering, inbox, answers, signals, outcome, runs, crashes, history>>

-----------------------------------------------------------------------------
(* The host, the team, the background commands and the tools' late answers.*)

Up == pc # "down"
Running == pc \notin {"idle", "down"}

Enqueue(q, s) == [q EXCEPT !.queue = Append(@, s)]

\* Entries are queued in the order of their numbers, each once.
Unqueued(entries) == {s \in entries : s \notin given /\ \A g \in given \intersect entries : g < s}

Steer ==
    /\ Up
    /\ \E s \in Unqueued(Steers) : steer' = Enqueue(steer, s) /\ given' = given \union {s}
    /\ UNCHANGED <<mem, disk, pc, run, followUp, inbox, answers, signals, row, outcome, bounds,
                   seen, called, acted, start>>

QueueFollowUp ==
    /\ Up
    /\ \E s \in Unqueued(FollowUps) : followUp' = Enqueue(followUp, s) /\ given' = given \union {s}
    /\ UNCHANGED <<mem, disk, pc, run, steer, inbox, answers, signals, row, outcome, bounds,
                   seen, called, acted, start>>

ClearSteer ==
    /\ Up /\ Pending(steer)
    /\ steer' = [steer EXCEPT !.queue = <<>>]
    /\ given' = given \ Range(steer.queue)
    /\ UNCHANGED <<mem, disk, pc, run, followUp, inbox, answers, signals, row, outcome, bounds,
                   seen, called, acted, start>>

ClearFollowUp ==
    /\ Up /\ Pending(followUp)
    /\ followUp' = [followUp EXCEPT !.queue = <<>>]
    /\ given' = given \ Range(followUp.queue)
    /\ UNCHANGED <<mem, disk, pc, run, steer, inbox, answers, signals, row, outcome, bounds,
                   seen, called, acted, start>>

\* The stop token, and the cancellation token or the deadline.
Signal ==
    /\ Running
    /\ \E s \in {"stop", "cancel"} : ~signals[s] /\ signals' = [signals EXCEPT ![s] = TRUE]
    /\ UNCHANGED <<mem, disk, pc, run, steering, inbox, answers, row, outcome, bounds, history>>

SendLetter ==
    /\ \E l \in Letters : letters[l] = "unsent" /\ letters' = [letters EXCEPT ![l] = "pending"]
    /\ UNCHANGED <<mem, disk, pc, run, steering, notes, answers, signals, row, outcome, bounds, history>>

LeaveNote ==
    /\ Up
    /\ \E n \in Notes : notes[n] = "unsent" /\ notes' = [notes EXCEPT ![n] = "pending"]
    /\ UNCHANGED <<mem, disk, pc, run, steering, letters, answers, signals, row, outcome, bounds, history>>

\* Work started by a call that ran answers once.
Answer ==
    /\ Up /\ acted # {}
    /\ \E a \in Answers :
         /\ a \notin Range(answers) \union run.todo \union TagsIn(mem.transcript) \union seen
         /\ \A b \in Range(answers) : b < a
         /\ answers' = Append(answers, a)
    /\ UNCHANGED <<mem, disk, pc, run, steering, inbox, signals, row, outcome, bounds, history>>

Crash ==
    /\ Up /\ crashes < MaxCrashes
    /\ crashes' = crashes + 1
    /\ mem' = disk /\ pc' = "down" /\ run' = NewRun
    /\ steer' = EmptyQueue /\ followUp' = EmptyQueue /\ answers' = <<>>
    /\ signals' = NoSignals /\ outcome' = "none" /\ given' = {}
    /\ UNCHANGED <<disk, inbox, row, runs, faults, seen, called, acted, start>>

\* prepare_recovery returns claimed rows, then the agent is loaded.
Restart ==
    /\ pc = "down"
    /\ pc' = "idle"
    /\ letters' = Move(letters, "inflight", "pending")
    /\ notes' = Move(notes, "inflight", "pending")
    /\ mem' = IF NeedsRecovery(disk) THEN Recover(disk) ELSE disk
    /\ disk' = mem'
    /\ UNCHANGED <<run, steering, answers, signals, row, outcome, bounds, history>>

-----------------------------------------------------------------------------
Round ==
    \/ EndEarly \/ LimitReached \/ ClaimLetters \/ InjectLetter \/ ClaimNotes \/ InjectNotes
    \/ ApplyDeferred \/ InjectAnswer \/ AutoCompact
    \/ StreamOpens \/ TransientError \/ ContextOverflow \/ RequestFails \/ CompactAfterOverflow
    \/ StartStreaming \/ StreamFails \/ StreamEnds \/ CommitAssistant \/ InvalidToolInputFeedback
    \/ ExecuteCall \/ ExecutionFails \/ ExecutionEnds

Boundary ==
    \/ CheckSteer \/ DrainSteer \/ CheckFollowUp \/ DrainFollowUp
    \/ RoundContinue \/ RoundInject \/ RoundStop \/ CheckDeferred

Settle ==
    \/ FinishMemory \/ FinishCheckpoint \/ AckLetters \/ AckNotes \/ HandleFinalizationError
    \/ RequeueInflight \/ RequeueNotes \/ RollbackMemory \/ FailCheckpoint

Host ==
    \/ StartRun \/ Resume \/ ContinueInterrupted \/ RunQueued
    \/ Steer \/ QueueFollowUp \/ ClearSteer \/ ClearFollowUp \/ Signal

Environment == SendLetter \/ LeaveNote \/ Answer \/ Crash \/ Restart

Next == Round \/ Boundary \/ Settle \/ Host \/ Environment

Spec == Init /\ [][Next]_vars

\* The runner is polled until its run returns: every provider call, tool and
\* store call it awaits comes back.  Nothing is assumed of the host.
FairSpec == Spec /\ WF_vars(Round \/ Boundary \/ Settle)

-----------------------------------------------------------------------------
(* Properties.                                                             *)

Labels == {"idle", "down", "top", "letters", "notes", "noteContext", "answers", "deferred",
           "compact", "request", "overflow", "opened", "streaming", "commit", "feedback",
           "execute", "steer", "drainSteer", "followUp", "drainFollowUp", "strategy", "defer",
           "finish", "finished", "unfinished", "ackLetters", "ackNotes",
           "fail", "requeueNotes", "rollback", "failed"}
Delivery == {"unsent", "pending", "inflight", "acked"}

\* The variables have their types.
TypeOK ==
    /\ mem \in AgentMemoryState /\ disk \in AgentMemoryState
    /\ pc \in Labels
    /\ run.rounds \in 0..MaxRounds /\ run.todo \subseteq Tags /\ run.uses \subseteq Calls
    /\ \A q \in {steer, followUp} : q.queue \in Seq(Tags) /\ q.inflight \in Seq(Tags)
    /\ letters \in [Letters -> Delivery] /\ notes \in [Notes -> Delivery]
    /\ answers \in Seq(Answers)
    /\ row \in {"none", "running", "finished", "failed"}
    /\ outcome \in {"none", "finished", "empty", "failed"}

Increasing(seq) == \A i, j \in DOMAIN seq : i < j => seq[i] < seq[j]

\* Queued input keeps the order the host gave it in, through draining one or
\* all, failures that hand it back, clears and new entries in between: what
\* is inflight was queued before what still waits (steering.rs, prepend).
SteerOrder ==
    /\ Increasing(steer.inflight \o steer.queue)
    /\ Increasing(followUp.inflight \o followUp.queue)

\* Input the host queued and did not clear is, at every step, waiting,
\* inflight or in the transcript, whatever fails: the rollback of a run takes
\* it out of the transcript only after requeue_inflight_steering put it back.
NoSteerLost ==
    given \subseteq Range(steer.queue) \union Range(steer.inflight)
              \union Range(followUp.queue) \union Range(followUp.inflight)
              \union TagsIn(mem.transcript)

\* A letter or note the store will not deliver again is in the stored
\* transcript: it is acknowledged only after finish_run was saved, and every
\* run that fails or dies hands it back.  (After a failed store write it may not:
\* requeue_notifications drops the error and the next run acknowledges the row.)
AckedIsDurable ==
    faults = 0 =>
    /\ \A l \in Letters : letters[l] = "acked" => l \in TagsIn(disk.transcript)
    /\ \A n \in Notes : notes[n] = "acked" => n \in TagsIn(disk.transcript)

\* Between runs nothing is claimed and forgotten: every exit of drive_run
\* either acknowledges or requeues all it took (no store write failing).
NothingStranded ==
    pc = "idle" /\ faults = 0 =>
        /\ steer.inflight = <<>> /\ followUp.inflight = <<>>
        /\ \A l \in Letters : letters[l] # "inflight"
        /\ \A n \in Notes : notes[n] # "inflight"

\* A run that failed leaves the memory as it found it, whatever it committed,
\* injected or compacted on the way (rollback_failed_run).
RollbackRestores ==
    pc = "failed" \/ (pc = "idle" /\ outcome = "failed" /\ faults = 0) =>
        /\ mem.transcript = start.transcript
        /\ mem.interrupted = start.interrupted
        /\ mem.run = None /\ ~mem.pending

\* While a run is open, a call that ran is in the stored transcript, so a
\* crash cannot make the effect of a tool unknown to the model.
ActedIsStored == Running /\ pc # "failed" => acted \subseteq UsesIn(disk.transcript)

Answered(t) == UNION {e.msg.results : e \in EntriesIn(t.items)}

\* After a crash and a restart every call that ran is answered in the
\* transcript, and the turn it belongs to is not offered for replay.
ActedIsNotReplayed ==
    [][pc = "down" /\ pc' = "idle" /\ acted # {} =>
           acted \subseteq Answered(mem'.transcript) /\ mem'.resumable = None]_vars

\* Every run returns to its caller: retries, overflow resends, injections and
\* steering keep it going only as far as its rounds and budgets allow.
RunEnds == Running ~> ~Running

\* RunOptions::model_budget bounds the requests of a run, retries and failed
\* attempts counted; the one resend after a context overflow, which stream_turn
\* makes without asking the budget, is all that can exceed it.
ModelBudgetHolds == run.requests <= ModelBudget + (IF Compacts THEN 1 ELSE 0)

\* Agent::continue_interrupted: "A continuation that fails rolls back to the
\* turn it set out to continue, which stays continuable."
FailedContinuationStays ==
    pc = "idle" /\ run.continues /\ outcome \in {"failed", "empty"} => mem.interrupted
=============================================================================
