----------------------------- MODULE ToolProofs -----------------------------
(***************************************************************************)
(* The tool side of a run, for every number of calls, every budget and any *)
(* hooks, authorizers and tools: each round answers every call once, in    *)
(* order and truly, and what runs is what was asked for, alone if it must  *)
(* be, within the budget and not after a terminating call.                 *)
(***************************************************************************)
EXTENDS ToolOrchestrator, SequenceTheorems, TLAPS

-----------------------------------------------------------------------------
(* The inductive invariant.                                                *)

Admitting == pc \in {"note", "hooks", "authorize", "asking", "start", "executing"}
InBatch == Admitting \/ pc \in {"join", "review"}
Settled(i) == i \in batch.first..batch.last /\ (Admitting => i < at)

\* The current batch is a stretch of the calls, of one call if exclusive, and
\* the loop is inside it.
BatchIsWhole ==
    /\ batch.last <= Len(calls)
    /\ InBatch => /\ 1 <= batch.first /\ batch.first <= at /\ at <= batch.last
                  /\ batch.lane # "none" /\ (batch.lane = "exclusive" => batch.first = batch.last)
    /\ pc = "executing" => batch.lane = "exclusive"
    /\ pc = "join" => at = batch.first /\ batch.lane = "parallel"

\* Every call the loop has passed was answered or is running, no other was.
CallsAreSettled ==
    /\ ~Admitting /\ pc # "join" => running = {}
    /\ \A i \in running : batch.lane = "parallel" /\ Settled(i)
    /\ InBatch => \A i \in Ids : execs[i].tag # "none" <=> Settled(i) /\ i \notin running
    /\ \A i \in Ids : execs[i].ends \/ execs[i].terminated => batch.lane = "exclusive" /\ execs[i].tag # "none"

\* What ran is what an execution or a running task stands for.
RanIsRecorded ==
    /\ \A i \in ran : i <= Len(calls)
    /\ pc = "batch" \/ InBatch => \A i \in ran : i <= batch.last
    /\ InBatch => \A i \in batch.first..batch.last :
          i \in ran <=> i \in running \/ execs[i].tag \in Ran \/ (pc = "executing" /\ i = at)

\* The results are those of the calls before, in order.
ResultsAreTrue ==
    /\ pc = "batch" => Len(results) = batch.last
    /\ Admitting \/ pc = "join" => Len(results) = batch.first - 1
    /\ pc = "review" => Len(results) = at - 1
    /\ pc = "done" => Len(results) = Len(calls)
    /\ pc \in {"batch", "done"} \/ InBatch =>
         \A i \in 1..Len(results) : results[i].id = i /\ (results[i].tag \in Ran <=> i \in ran)
    /\ pc = "batch" \/ InBatch => \A i \in 1..Len(results) : ~results[i].terminated

\* The calls not yet admitted are as the schedule saw them.
ScheduleStands ==
    /\ pc = "batch" \/ InBatch => \A i \in 1..Len(calls) : i > batch.last =>
          /\ ~calls[i].rewritten
          /\ i \notin starts => Category(calls[i]) = "parallel"
          /\ i < Len(calls) /\ Category(calls[i]) = "exclusive" => i + 1 \in starts
    /\ Admitting => \A i \in batch.first..batch.last :
          i > at \/ (i = at /\ pc \in {"note", "hooks"}) => ~calls[i].rewritten /\ Category(calls[i]) = batch.lane

\* A call that passed the checks keeps to its lane, and the authorizer was
\* asked about it as it is.
AdmittedAsIs ==
    /\ pc \in {"authorize", "asking", "start", "executing"} =>
         /\ calls[at].rewritten \/ Category(calls[at]) = batch.lane
         /\ batch.lane = "parallel" => Category(calls[at]) = "parallel"
    /\ authorizer /\ pc \in {"asking", "start", "executing"} =>
         asked[at] = [mutates |-> calls[at].mutates, category |-> Category(calls[at])]

\* A batch was charged before it runs.
BatchIsCharged ==
    /\ executed <= toolCalls /\ toolCalls <= ToolBudget
    /\ Admitting /\ pc # "executing" => executed + (batch.last + 1 - at) <= toolCalls

ToolInv ==
    /\ TypeOK /\ BatchIsWhole /\ CallsAreSettled /\ RanIsRecorded /\ ResultsAreTrue /\ ScheduleStands
    /\ AdmittedAsIs /\ BatchIsCharged /\ MutationRunsAlone /\ AskedIsRun /\ TerminationIsFinal

-----------------------------------------------------------------------------
(* What every step of the loop rests on.                                   *)

\* The state of the round that only the steps around the loop change.
round == <<starts, batch, results, endTurn, toolCalls, authorizer, made>>

Counting == faults' \in Nat /\ cancelled' \in BOOLEAN

\* A round that fails drops its tasks and keeps what it has: execute_calls
\* returning Err wherever it does.
LEMMA FailKeeps ==
    ASSUME ToolInv, Fail, UNCHANGED <<round, calls, at, execs, ran, executed, asked>>, Counting
    PROVE  ToolInv'
<1>1. TypeOK'
  BY DEF ToolInv, TypeOK, Fail, round, Counting
<1>2. BatchIsWhole' /\ CallsAreSettled' /\ RanIsRecorded' /\ ResultsAreTrue' /\ ScheduleStands'
  BY DEF ToolInv, Fail, round, BatchIsWhole, CallsAreSettled, RanIsRecorded, ResultsAreTrue, ScheduleStands,
         InBatch, Admitting
<1>3. AdmittedAsIs' /\ BatchIsCharged' /\ MutationRunsAlone' /\ AskedIsRun' /\ TerminationIsFinal'
  BY DEF ToolInv, Fail, round, AdmittedAsIs, BatchIsCharged, MutationRunsAlone, AskedIsRun, TerminationIsFinal,
         Admitting
<1> QED  BY <1>1, <1>2, <1>3 DEF ToolInv

\* The call being admitted is in the batch and nothing was done with it yet.
LEMMA AtIsNew ==
    ASSUME ToolInv, pc \in {"note", "hooks", "authorize", "asking", "start"}
    PROVE  /\ at \in Nat /\ at \in Ids /\ Len(calls) \in Nat /\ batch.first \in Nat /\ batch.last \in Nat
           /\ 1 <= batch.first /\ batch.first <= at /\ at <= batch.last /\ batch.last <= Len(calls)
           /\ at \notin running /\ at \notin ran /\ execs[at].tag = "none"
<1>b. /\ at \in Nat /\ batch.first \in Nat /\ batch.last \in Nat /\ Len(calls) \in Nat /\ at \in Ids
      /\ 1 <= batch.first /\ batch.first <= at /\ at <= batch.last /\ batch.last <= Len(calls)
  BY CallAssumption DEF ToolInv, TypeOK, BatchIsWhole, InBatch, Admitting, Ids
<1>1. Admitting /\ InBatch /\ ~Settled(at) /\ pc # "executing"
  BY <1>b DEF Admitting, InBatch, Settled
<1>2. at \notin running /\ execs[at].tag = "none"
  BY <1>b, <1>1 DEF ToolInv, CallsAreSettled
<1> QED  BY <1>b, <1>1, <1>2 DEF ToolInv, RanIsRecorded, Ran

\* A call the loop refuses, whatever a hook made of it, is answered without
\* having run, and the loop goes on (ToolAdmission::Refused).
LEMMA AnswerKeeps ==
    ASSUME ToolInv, NEW tag \in {"refused", "unavailable"}, Answer(NotRun(tag)),
           pc \in {"note", "hooks", "authorize", "asking", "start"},
           calls' \in Seq(Call), Len(calls') = Len(calls),
           \A i \in 1..Len(calls) : i # at => calls'[i] = calls[i],
           UNCHANGED <<round, ran, executed, asked>>, Counting
    PROVE  ToolInv'
<1> DEFINE e == NotRun(tag)
<1>e. e \in Executions /\ e.tag = tag /\ ~e.ends /\ ~e.terminated /\ tag # "none" /\ tag \notin Ran
  BY DEF NotRun, Execution, Executions, Tags, Ran
<1> HIDE DEF e
<1>b. /\ at \in Nat /\ at \in Ids /\ Len(calls) \in Nat /\ batch.first \in Nat /\ batch.last \in Nat
      /\ 1 <= batch.first /\ batch.first <= at /\ at <= batch.last /\ batch.last <= Len(calls)
  BY AtIsNew
<1>x. execs' = [execs EXCEPT ![at] = e] /\ running' = running /\ Advance
  BY DEF Answer, e
<1>1. TypeOK'
  BY <1>b, <1>e, <1>x DEF ToolInv, TypeOK, round, Counting, Advance
<1>n. at \notin running /\ at \notin ran /\ execs[at].tag = "none"
  BY AtIsNew
<1>2. BatchIsWhole'
  BY <1>b, <1>x DEF ToolInv, TypeOK, BatchIsWhole, round, Advance, InBatch, Admitting
<1>f. \A i \in Ids : execs'[i] = IF i = at THEN e ELSE execs[i]
  BY <1>x, <1>b DEF ToolInv, TypeOK
<1>s. /\ \A i \in Ids : Settled(i)' <=> Settled(i) \/ i = at
      /\ InBatch' /\ InBatch
  BY <1>b, <1>x DEF Settled, InBatch, Admitting, Advance, round, ToolInv, BatchIsWhole, Ids
<1>3. CallsAreSettled'
  BY <1>e, <1>b, <1>x, <1>f, <1>s, <1>n, <1>2
     DEF ToolInv, TypeOK, CallsAreSettled, BatchIsWhole, round, InBatch, Admitting, Advance
<1>4. RanIsRecorded'
  BY <1>e, <1>b, <1>x, <1>f, <1>n, <1>s DEF ToolInv, TypeOK, RanIsRecorded, round, Ids, Advance, InBatch, Admitting
<1>5. ResultsAreTrue'
  BY <1>b, <1>x DEF ToolInv, TypeOK, ResultsAreTrue, BatchIsWhole, round, Advance, InBatch, Admitting
<1>6. ScheduleStands'
  <2>1. pc' \in {"note", "join", "review"} /\ (pc' = "note" => at' = at + 1) /\ Admitting /\ batch' = batch /\ starts' = starts
    BY <1>x DEF Advance, round, Admitting
  <2>2. ASSUME NEW i \in 1..Len(calls), i > batch.last
        PROVE  /\ ~calls'[i].rewritten
               /\ i \notin starts => Category(calls'[i]) = "parallel"
               /\ i < Len(calls) /\ Category(calls'[i]) = "exclusive" => i + 1 \in starts
    BY <1>b, <2>1, <2>2 DEF ToolInv, ScheduleStands, InBatch
  <2>3. ASSUME pc' = "note", NEW i \in batch.first..batch.last, i >= at + 1
        PROVE  ~calls'[i].rewritten /\ Category(calls'[i]) = batch.lane
    BY <1>b, <2>1, <2>3 DEF ToolInv, ScheduleStands
  <2> QED  BY <1>b, <2>1, <2>2, <2>3 DEF ScheduleStands, Admitting
<1>7. AdmittedAsIs' /\ BatchIsCharged'
  <2>1. AdmittedAsIs'
    BY <1>x DEF AdmittedAsIs, Advance
  <2>2. executed + (batch.last + 1 - at) <= toolCalls /\ executed \in Nat /\ toolCalls \in Nat
    BY DEF ToolInv, TypeOK, BatchIsCharged, Admitting
  <2> QED  BY <1>b, <1>x, <2>1, <2>2 DEF ToolInv, BatchIsCharged, round, Advance, Admitting
<1>8. MutationRunsAlone' /\ AskedIsRun'
  <2>1. \A i \in running : i \in 1..Len(calls) /\ i # at
    BY <1>b, <1>n DEF ToolInv, CallsAreSettled, Settled
  <2>2. MutationRunsAlone'
    BY <1>x, <2>1 DEF ToolInv, MutationRunsAlone, Advance
  <2>3. \A i \in ran : i \in 1..Len(calls) /\ i \in Ids /\ i # at
    BY <1>n DEF ToolInv, TypeOK, RanIsRecorded, Ids
  <2> QED  BY <2>2, <2>3 DEF ToolInv, AskedIsRun, round
<1>9. TerminationIsFinal'
  BY <1>e, <1>x, <1>f DEF ToolInv, TypeOK, TerminationIsFinal, round
<1> QED  BY <1>1, <1>2, <1>3, <1>4, <1>5, <1>6, <1>7, <1>8, <1>9 DEF ToolInv

\* A call that passes one stage of its admission goes to the next: the stages
\* change nothing but the call, and what the authorizer was asked about it.
LEMMA PassKeeps ==
    ASSUME ToolInv, pc \in {"note", "hooks", "authorize", "asking"},
           pc' \in {"hooks", "authorize", "asking", "start"},
           calls' \in Seq(Call), Len(calls') = Len(calls),
           \A i \in 1..Len(calls) : i # at => calls'[i] = calls[i],
           pc' = "hooks" => pc = "note" /\ calls' = calls,
           asked' \in [Ids -> [mutates : BOOLEAN, category : {"none", "parallel", "exclusive"}]],
           \A i \in Ids : i # at => asked'[i] = asked[i],
           AdmittedAsIs',
           UNCHANGED <<round, at, running, execs, ran, executed>>, Counting
    PROVE  ToolInv'
<1>b. Admitting /\ Admitting' /\ InBatch /\ InBatch' /\ pc # "executing" /\ pc' # "executing"
  BY DEF Admitting, InBatch
<1>1. TypeOK'
  BY DEF ToolInv, TypeOK, round, Counting
<1>2. BatchIsWhole' /\ CallsAreSettled' /\ RanIsRecorded' /\ ResultsAreTrue' /\ BatchIsCharged'
  BY <1>b DEF ToolInv, round, BatchIsWhole, CallsAreSettled, RanIsRecorded, ResultsAreTrue, BatchIsCharged, Settled
<1>3. ScheduleStands'
  <2>1. ASSUME NEW i \in 1..Len(calls), i > batch.last
        PROVE  /\ ~calls'[i].rewritten
               /\ i \notin starts => Category(calls'[i]) = "parallel"
               /\ i < Len(calls) /\ Category(calls'[i]) = "exclusive" => i + 1 \in starts
    BY <1>b, <2>1, AtIsNew DEF ToolInv, ScheduleStands, InBatch
  <2>2. ASSUME NEW i \in batch.first..batch.last, i > at \/ (i = at /\ pc' \in {"note", "hooks"})
        PROVE  ~calls'[i].rewritten /\ Category(calls'[i]) = batch.lane
    BY <1>b, <2>2, AtIsNew DEF ToolInv, ScheduleStands
  <2> QED  BY <1>b, <2>1, <2>2 DEF ScheduleStands, round
<1>4. MutationRunsAlone'
  <2>1. \A i \in running : i \in 1..Len(calls) /\ i # at
    BY <1>b, AtIsNew DEF ToolInv, CallsAreSettled, Settled
  <2> QED  BY <1>b, <2>1 DEF ToolInv, MutationRunsAlone
<1>5. AskedIsRun'
  <2>1. \A i \in ran : i \in 1..Len(calls) /\ i \in Ids /\ i # at
    BY AtIsNew DEF ToolInv, TypeOK, RanIsRecorded, Ids
  <2> QED  BY <2>1 DEF ToolInv, AskedIsRun, round
<1>6. TerminationIsFinal'
  BY DEF ToolInv, TerminationIsFinal, round
<1> QED  BY <1>1, <1>2, <1>3, <1>4, <1>5, <1>6 DEF ToolInv

\* A hook or authorizer that failed: the batch is given up or the call refused.
LEMMA AdmissionFailsKeeps ==
    ASSUME ToolInv, AdmissionFails, pc \in {"note", "hooks", "authorize", "asking", "start"},
           UNCHANGED <<round, calls, ran, executed, asked>>, Counting
    PROVE  ToolInv'
<1>1. CASE batch.lane = "parallel"
  BY <1>1, FailKeeps DEF AdmissionFails, round
<1>2. CASE batch.lane # "parallel"
  <2>1. calls' \in Seq(Call) /\ Len(calls') = Len(calls)
    BY DEF ToolInv, TypeOK
  <2> QED  BY <1>2, <2>1, AnswerKeeps DEF AdmissionFails
<1> QED  BY <1>1, <1>2

-----------------------------------------------------------------------------
(* The steps.                                                              *)

\* The call is announced; one to no tool of the agent is answered at once.
LEMMA NoteStartedKeeps == ToolInv /\ NoteStarted => ToolInv'
<1> SUFFICES ASSUME ToolInv, NoteStarted PROVE ToolInv'
  OBVIOUS
<1>t. calls \in Seq(Call) /\ calls' = calls /\ pc = "note" /\ UNCHANGED <<round, ran, executed, asked>>
  BY DEF ToolInv, TypeOK, NoteStarted, round, outcome, host, history
<1>c. Counting
  BY DEF ToolInv, TypeOK, NoteStarted, Counting, Fault, host
<1>1. CASE Fail /\ UNCHANGED <<at, execs>>
  BY <1>1, <1>t, <1>c, FailKeeps
<1>2. CASE Answer(NotRun("unavailable"))
  BY <1>2, <1>t, <1>c, AnswerKeeps
<1>3. CASE pc' = "hooks" /\ UNCHANGED <<at, execs, running, faults>>
  <2>1. AdmittedAsIs'
    BY <1>3 DEF AdmittedAsIs
  <2>2. asked' \in [Ids -> [mutates : BOOLEAN, category : {"none", "parallel", "exclusive"}]]
    BY <1>t DEF ToolInv, TypeOK
  <2> QED  BY <1>3, <1>t, <1>c, <2>1, <2>2, PassKeeps
<1> QED  BY <1>1, <1>2, <1>3 DEF NoteStarted

\* The hooks leave the call, rewrite it, refuse it or fail, and the checks judge
\* what they left.
LEMMA ApplyHooksKeeps == ToolInv /\ ApplyHooks => ToolInv'
<1> SUFFICES ASSUME ToolInv, ApplyHooks PROVE ToolInv'
  OBVIOUS
<1>t. calls \in Seq(Call) /\ pc = "hooks" /\ UNCHANGED <<round, ran, executed, asked>>
  BY DEF ToolInv, TypeOK, ApplyHooks, round, outcome, host, history
<1>c. Counting
  BY DEF ToolInv, TypeOK, ApplyHooks, Counting, Fault, host
<1>a. asked' \in [Ids -> [mutates : BOOLEAN, category : {"none", "parallel", "exclusive"}]]
  BY <1>t DEF ToolInv, TypeOK
<1>b. /\ at \in 1..Len(calls) /\ ~calls[at].rewritten /\ Category(calls[at]) = batch.lane
      /\ batch.lane # "none"
  BY <1>t, AtIsNew DEF ToolInv, ScheduleStands, Admitting, BatchIsWhole, InBatch
<1>1. ASSUME NEW c \in Call, calls' \in Seq(Call), Len(calls') = Len(calls), calls'[at] = c,
             c.rewritten \/ c = calls[at],
             \A i \in 1..Len(calls) : i # at => calls'[i] = calls[i], Classify(c)
      PROVE  ToolInv'
  <2>1. CASE Answer(NotRun("refused"))
    BY <1>1, <2>1, <1>t, <1>c, AnswerKeeps
  <2>2. CASE pc' = "authorize" /\ UNCHANGED <<at, running, execs>> /\ ~LaneChanged(c)
    <3>1. AdmittedAsIs'
      BY <1>1, <2>2, <1>t, <1>b DEF AdmittedAsIs, LaneChanged, round, Category
    <3> QED  BY <1>1, <2>2, <3>1, <1>t, <1>c, <1>a, PassKeeps
  <2> QED  BY <1>1, <2>1, <2>2 DEF Classify
<1>2. CASE Classify(calls[at]) /\ UNCHANGED calls
  BY <1>2, <1>1, <1>b, <1>t
<1>3. ASSUME NEW c \in Rewrite(calls[at]), calls' = [calls EXCEPT ![at] = c], Classify(c)
      PROVE  ToolInv'
  <2>1. c \in Call /\ c.rewritten
    BY DEF Rewrite
  <2>2. calls' \in Seq(Call) /\ Len(calls') = Len(calls)
    BY <1>3, <1>b, <1>t, <2>1
  <2> QED  BY <1>1, <1>3, <2>1, <2>2, <1>b, <1>t
<1>4. CASE Answer(NotRun("refused")) /\ UNCHANGED calls
  BY <1>4, <1>t, <1>c, AnswerKeeps
<1>5. CASE AdmissionFails /\ UNCHANGED calls
  BY <1>5, <1>t, <1>c, AdmissionFailsKeeps
<1> QED  BY <1>2, <1>3, <1>4, <1>5 DEF ApplyHooks

\* The authorizer is asked about the call as it is now, or nobody is.
LEMMA AskAuthorizerKeeps == ToolInv /\ AskAuthorizer => ToolInv'
<1> SUFFICES ASSUME ToolInv, AskAuthorizer PROVE ToolInv'
  OBVIOUS
<1>t. calls \in Seq(Call) /\ calls' = calls /\ pc = "authorize" /\ UNCHANGED <<round, ran, executed>>
  BY DEF ToolInv, TypeOK, AskAuthorizer, round, outcome, host
<1>c. Counting
  BY DEF ToolInv, TypeOK, AskAuthorizer, Counting, Fault, host
<1>b. at \in 1..Len(calls) /\ at \in Ids /\ calls[at] \in Call /\ asked \in [Ids -> [mutates : BOOLEAN, category : {"none", "parallel", "exclusive"}]]
  BY <1>t, AtIsNew DEF ToolInv, TypeOK
<1>1. CASE ~authorizer /\ pc' = "start" /\ UNCHANGED <<at, running, execs, asked>>
  <2>1. AdmittedAsIs'
    BY <1>1, <1>t DEF ToolInv, AdmittedAsIs, round
  <2> QED  BY <1>1, <2>1, <1>t, <1>c, <1>b, PassKeeps
<1>2. CASE Answer(NotRun("refused")) /\ UNCHANGED asked
  BY <1>2, <1>t, <1>c, AnswerKeeps
<1>3. CASE AdmissionFails /\ UNCHANGED asked
  BY <1>3, <1>t, <1>c, AdmissionFailsKeeps
<1>4. CASE /\ asked' = [asked EXCEPT ![at] = [mutates |-> calls[at].mutates, category |-> AuthorizationCategory(calls[at])]]
           /\ pc' = "asking" /\ UNCHANGED <<at, running, execs>>
  <2>1. AuthorizationCategory(calls[at]) = Category(calls[at])
    BY <1>t DEF ToolInv, AdmittedAsIs, AuthorizationCategory
  <2>2. AdmittedAsIs'
    BY <1>4, <1>t, <1>b, <2>1 DEF ToolInv, AdmittedAsIs, round
  <2>3. asked' \in [Ids -> [mutates : BOOLEAN, category : {"none", "parallel", "exclusive"}]]
    BY <1>4, <1>b, <2>1 DEF Category, Call
  <2> QED  BY <1>4, <2>2, <2>3, <1>t, <1>c, <1>b, PassKeeps
<1> QED  BY <1>1, <1>2, <1>3, <1>4 DEF AskAuthorizer

\* The authorizer's answer, its timeout or a limit met while waiting for it.
LEMMA AnswerOfAuthorizerKeeps == ToolInv /\ (Authorized \/ NotAuthorized) => ToolInv'
<1> SUFFICES ASSUME ToolInv, Authorized \/ NotAuthorized PROVE ToolInv'
  OBVIOUS
<1>t. calls \in Seq(Call) /\ calls' = calls /\ pc = "asking" /\ UNCHANGED <<round, ran, executed, asked>>
  BY DEF ToolInv, TypeOK, Authorized, NotAuthorized, round, outcome, host, history
<1>c. Counting
  BY DEF ToolInv, TypeOK, Authorized, NotAuthorized, Counting, Fault, host
<1>1. CASE pc' = "start" /\ UNCHANGED <<at, running, execs>>
  <2>1. AdmittedAsIs'
    BY <1>1, <1>t DEF ToolInv, AdmittedAsIs, round
  <2>2. asked' \in [Ids -> [mutates : BOOLEAN, category : {"none", "parallel", "exclusive"}]]
    BY <1>t DEF ToolInv, TypeOK
  <2> QED  BY <1>1, <2>1, <2>2, <1>t, <1>c, PassKeeps
<1>2. CASE Answer(NotRun("refused"))
  BY <1>2, <1>t, <1>c, AnswerKeeps
<1>3. CASE AdmissionFails
  BY <1>3, <1>t, <1>c, AdmissionFailsKeeps
<1> QED  BY <1>1, <1>2, <1>3 DEF Authorized, NotAuthorized

\* A call starts: a task of the batch, or the agent is handed to it.
LEMMA StartCallKeeps == ToolInv /\ StartCall => ToolInv'
<1> SUFFICES ASSUME ToolInv, StartCall PROVE ToolInv'
  OBVIOUS
<1>t. calls \in Seq(Call) /\ calls' = calls /\ pc = "start" /\ UNCHANGED <<round, asked>>
  BY DEF ToolInv, TypeOK, StartCall, round, outcome, host
<1>c. Counting
  BY DEF ToolInv, TypeOK, StartCall, Counting, Fault, host
<1>b. /\ at \in Nat /\ at \in Ids /\ Len(calls) \in Nat /\ batch.first \in Nat /\ batch.last \in Nat
      /\ 1 <= batch.first /\ batch.first <= at /\ at <= batch.last /\ batch.last <= Len(calls)
      /\ at \notin running /\ at \notin ran /\ execs[at].tag = "none"
  BY <1>t, AtIsNew
<1>l. /\ batch.lane \in {"parallel", "exclusive"} /\ (batch.lane = "exclusive" => batch.first = batch.last)
      /\ batch.lane = "parallel" => Category(calls[at]) = "parallel"
      /\ authorizer => asked[at] = [mutates |-> calls[at].mutates, category |-> Category(calls[at])]
  BY <1>t DEF ToolInv, TypeOK, BatchIsWhole, AdmittedAsIs, InBatch, Admitting
<1>1. CASE Answer(NotRun("refused")) /\ UNCHANGED <<ran, executed>>
  BY <1>1, <1>t, <1>c, AnswerKeeps
<1>2. ASSUME ran' = ran \union {at}, executed' = executed + 1, UNCHANGED execs,
             IF batch.lane = "parallel" THEN running' = running \union {at} /\ Advance
             ELSE pc' = "executing" /\ UNCHANGED <<at, running>>
      PROVE  ToolInv'
  <2>2. /\ batch.lane = "parallel" => running' = running \union {at} /\ pc' \in {"note", "join"}
        /\ batch.lane = "exclusive" => running' = running /\ pc' = "executing" /\ at' = at
        /\ pc' = "note" => at' = at + 1 /\ at < batch.last
        /\ pc' = "join" => at' = batch.first /\ at = batch.last
        /\ pc' \in {"note", "join", "executing"} /\ batch' = batch /\ Admitting /\ InBatch /\ InBatch'
    BY <1>2, <1>t, <1>b, <1>l DEF Advance, round, Admitting, InBatch
  <2>1. TypeOK'
    <3>1. at' \in Nat /\ running' \subseteq Ids /\ ran' \subseteq Ids /\ executed' \in Nat
      <4>1. running \subseteq Ids /\ ran \subseteq Ids /\ executed \in Nat
        BY DEF ToolInv, TypeOK
      <4>2. at' \in Nat
        BY <2>2, <1>b, <1>l
      <4>3. running' = running \union {at} \/ running' = running
        BY <2>2, <1>l
      <4>4. at \in Ids
        BY <1>b
      <4>5. running' \subseteq Ids
        BY <4>1, <4>3, <4>4
      <4>6. ran' = ran \union {at} /\ executed' = executed + 1
        BY <1>2
      <4> QED  BY <4>1, <4>2, <4>4, <4>5, <4>6
    <3> QED  BY <3>1, <1>2, <2>2, <1>t, <1>c DEF ToolInv, TypeOK, round, Counting
  <2>3. BatchIsWhole'
    BY <2>2, <1>t, <1>b, <1>l DEF ToolInv, BatchIsWhole
  <2>4. \A i \in Ids : Settled(i)' <=> Settled(i) \/ (i = at /\ batch.lane = "parallel")
    BY <2>2, <1>b, <1>l DEF Settled, Admitting, Ids
  <2>5. CallsAreSettled'
    BY <1>2, <2>2, <2>4, <1>b, <1>l DEF ToolInv, TypeOK, CallsAreSettled, Admitting
  <2>6. RanIsRecorded'
    BY <1>2, <2>2, <1>b, <1>l, <1>t DEF ToolInv, RanIsRecorded
  <2>7. ResultsAreTrue'
    <3>1. \A i \in 1..Len(results) : results[i].id = i /\ (results[i].tag \in Ran <=> i \in ran) /\ ~results[i].terminated
      BY <2>2 DEF ToolInv, ResultsAreTrue
    <3>2. Len(results) = batch.first - 1 /\ results' = results
      BY <2>2, <1>t DEF ToolInv, ResultsAreTrue, round
    <3>3. ASSUME NEW i \in 1..Len(results) PROVE results[i].tag \in Ran <=> i \in ran'
      <4>1. i # at
        BY <3>2, <1>b
      <4> QED  BY <3>1, <4>1, <1>2
    <3>4. pc' \notin {"batch", "review", "done"} /\ batch' = batch
      BY <2>2
    <3> QED  BY <3>1, <3>2, <3>3, <3>4 DEF ResultsAreTrue
  <2>8. ScheduleStands'
    <3>1. UNCHANGED <<starts, calls, batch>> /\ (pc' = "note" => at' = at + 1) /\ (pc' = "executing" => at' = at)
      BY <2>2, <1>t, <1>l DEF round
    <3>2. Admitting' => \A i \in batch.first..batch.last :
              i > at' \/ (i = at' /\ pc' \in {"note", "hooks"}) => ~calls[i].rewritten /\ Category(calls[i]) = batch.lane
      BY <2>2, <3>1, <1>b DEF ToolInv, ScheduleStands, Admitting
    <3> QED  BY <2>2, <3>1, <3>2 DEF ToolInv, ScheduleStands
  <2>9. AdmittedAsIs'
    <3>1. CASE pc' = "executing"
      BY <3>1, <2>2, <1>t, <1>l DEF ToolInv, AdmittedAsIs, round
    <3> QED  BY <3>1, <2>2 DEF AdmittedAsIs
  <2>10. BatchIsCharged'
    BY <1>2, <2>2, <1>t, <1>b DEF ToolInv, TypeOK, BatchIsCharged, round, Admitting
  <2>11. MutationRunsAlone'
    <3>1. batch.lane = "exclusive" => running = {}
      BY DEF ToolInv, CallsAreSettled
    <3> QED  BY <3>1, <2>2, <1>t, <1>l DEF ToolInv, MutationRunsAlone
  <2>12. AskedIsRun'
    BY <1>2, <1>t, <1>l, <1>b DEF ToolInv, AskedIsRun, round
  <2>13. TerminationIsFinal'
    BY <1>2, <1>t, <2>2 DEF ToolInv, TerminationIsFinal, ResultsAreTrue, TypeOK, round
  <2> QED  BY <2>1, <2>3, <2>5, <2>6, <2>7, <2>8, <2>9, <2>10, <2>11, <2>12, <2>13 DEF ToolInv
<1> QED  BY <1>1, <1>2 DEF StartCall

\* An exclusive tool returns, and the batch of one is complete.
LEMMA ExclusiveReturnsKeeps == ToolInv /\ ExclusiveReturns => ToolInv'
<1> SUFFICES ASSUME ToolInv, ExclusiveReturns PROVE ToolInv'
  OBVIOUS
<1>t. /\ calls' = calls /\ pc = "executing" /\ UNCHANGED <<round, asked, ran, executed, faults, cancelled>>
      /\ Admitting /\ InBatch
  BY DEF ToolInv, ExclusiveReturns, round, outcome, host, history, Admitting, InBatch
<1>b. /\ at \in Nat /\ at \in Ids /\ Len(calls) \in Nat /\ batch.first = at /\ batch.last = at
      /\ 1 <= at /\ at <= Len(calls) /\ batch.lane = "exclusive" /\ running = {}
  <2>1. /\ at \in Nat /\ Len(calls) \in Nat /\ batch.first = at /\ batch.last = at
        /\ 1 <= at /\ at <= Len(calls) /\ batch.lane = "exclusive" /\ Len(calls) <= MaxCalls
    BY <1>t DEF ToolInv, TypeOK, BatchIsWhole
  <2>2. running = {}
    BY <2>1 DEF ToolInv, CallsAreSettled
  <2> QED  BY <2>1, <2>2, CallAssumption DEF Ids
<1>1. PICK e \in Executions : e.tag \in {"ok", "failed"} /\ Answer(e)
  BY DEF ExclusiveReturns, Execution, Executions, Tags, Ran
<1>2. execs' = [execs EXCEPT ![at] = e] /\ running' = {} /\ pc' = "review" /\ at' = at /\ batch' = batch
  BY <1>1, <1>b, <1>t DEF Answer, Advance, round
<1>3. TypeOK'
  BY <1>t, <1>b, <1>2 DEF ToolInv, TypeOK, round
<1>4. ~Admitting' /\ InBatch'
  BY <1>2 DEF Admitting, InBatch
<1>f. \A i \in Ids : execs'[i] = IF i = at THEN e ELSE execs[i]
  BY <1>2 DEF ToolInv, TypeOK
<1>5. BatchIsWhole'
  BY <1>2, <1>t, <1>b DEF ToolInv, BatchIsWhole
<1>6. CallsAreSettled'
  <2>1. \A i \in Ids : (Settled(i)' <=> i = at) /\ ~Settled(i)
    BY <1>2, <1>4, <1>t, <1>b DEF Settled, Ids
  <2> QED  BY <2>1, <1>1, <1>2, <1>4, <1>f, <1>t, <1>b DEF ToolInv, CallsAreSettled
<1>7. RanIsRecorded'
  BY <1>1, <1>2, <1>4, <1>f, <1>t, <1>b DEF ToolInv, RanIsRecorded, Ran
<1>8. ResultsAreTrue'
  BY <1>2, <1>4, <1>t, <1>b DEF ToolInv, ResultsAreTrue, round
<1>9. ScheduleStands' /\ AdmittedAsIs' /\ BatchIsCharged'
  BY <1>2, <1>4, <1>t, <1>b DEF ToolInv, ScheduleStands, AdmittedAsIs, BatchIsCharged, round
<1>10. MutationRunsAlone' /\ AskedIsRun' /\ TerminationIsFinal'
  BY <1>2, <1>t, <1>b DEF ToolInv, MutationRunsAlone, AskedIsRun, TerminationIsFinal, round
<1> QED  BY <1>3, <1>5, <1>6, <1>7, <1>8, <1>9, <1>10 DEF ToolInv

\* A task is joined.
LEMMA JoinNextKeeps == ToolInv /\ JoinNext => ToolInv'
<1> SUFFICES ASSUME ToolInv, JoinNext PROVE ToolInv'
  OBVIOUS
<1>t. /\ calls' = calls /\ pc = "join" /\ pc' = "join" /\ at' = at /\ batch' = batch
      /\ UNCHANGED <<round, asked, ran, executed, faults, cancelled>>
      /\ ~Admitting /\ ~Admitting' /\ InBatch /\ InBatch'
  BY DEF ToolInv, JoinNext, progress, round, outcome, host, history, Admitting, InBatch
<1>1. PICK i \in running, tag \in {"ok", "failed", "misuse"} :
          running' = running \ {i} /\ execs' = [execs EXCEPT ![i] = NotRun(tag)]
  BY DEF JoinNext
<1> DEFINE e == NotRun(tag)
<1>e. e \in Executions /\ e.tag = tag /\ ~e.ends /\ ~e.terminated /\ tag \in Ran /\ tag # "none"
  BY DEF NotRun, Execution, Executions, Tags, Ran
<1>x. execs' = [execs EXCEPT ![i] = e]
  BY <1>1
<1> HIDE DEF e
<1>b. i \in Ids /\ Settled(i) /\ i \in ran
  BY <1>t DEF ToolInv, TypeOK, CallsAreSettled, RanIsRecorded, Settled
<1>f. \A j \in Ids : execs'[j] = IF j = i THEN e ELSE execs[j]
  BY <1>x, <1>b DEF ToolInv, TypeOK
<1>2. TypeOK'
  BY <1>t, <1>b, <1>1, <1>x, <1>e DEF ToolInv, TypeOK, round
<1>3. BatchIsWhole' /\ ResultsAreTrue' /\ ScheduleStands' /\ AdmittedAsIs' /\ BatchIsCharged'
  BY <1>t DEF ToolInv, BatchIsWhole, ResultsAreTrue, ScheduleStands, AdmittedAsIs, BatchIsCharged, round
<1>4. CallsAreSettled'
  <2>1. \A j \in Ids : Settled(j)' <=> Settled(j)
    BY <1>t DEF Settled
  <2>2. running' \subseteq running /\ running \subseteq Ids
    BY <1>1 DEF ToolInv, TypeOK
  <2> QED  BY <2>1, <2>2, <1>t, <1>1, <1>b, <1>e, <1>f DEF ToolInv, CallsAreSettled
<1>5. RanIsRecorded'
  <2>1. ASSUME NEW j \in batch.first..batch.last
        PROVE  j \in ran <=> j \in running' \/ execs'[j].tag \in Ran
    <3>1. j \in Ids
      <4>1. /\ batch.first \in Nat /\ batch.last \in Nat /\ Len(calls) \in Nat /\ 1 <= batch.first
            /\ batch.last <= Len(calls) /\ Len(calls) <= MaxCalls
        BY <1>t DEF ToolInv, TypeOK, BatchIsWhole
      <4> QED  BY <4>1, CallAssumption DEF Ids
    <3> QED  BY <3>1, <1>t, <1>1, <1>b, <1>e, <1>f DEF ToolInv, RanIsRecorded
  <2> QED  BY <2>1, <1>t DEF ToolInv, RanIsRecorded
<1>6. MutationRunsAlone' /\ AskedIsRun' /\ TerminationIsFinal'
  BY <1>t, <1>1, <1>f, <1>e DEF ToolInv, MutationRunsAlone, AskedIsRun, TerminationIsFinal, round
<1> QED  BY <1>2, <1>3, <1>4, <1>5, <1>6 DEF ToolInv

\* The batch is joined, or given up.
LEMMA JoinOverKeeps == ToolInv /\ (JoinAborts \/ JoinEnds) => ToolInv'
<1>1. ToolInv /\ JoinAborts => ToolInv'
  <2> SUFFICES ASSUME ToolInv, JoinAborts PROVE ToolInv'
    OBVIOUS
  <2>1. Counting
    BY DEF ToolInv, TypeOK, JoinAborts, Counting, Fault, host
  <2> QED  BY <2>1, FailKeeps DEF JoinAborts, round, outcome, host, history
<1>2. ASSUME ToolInv, JoinEnds PROVE ToolInv'
  <2>t. /\ pc = "join" /\ pc' = "review" /\ running = {} /\ batch' = batch /\ at' = at
        /\ UNCHANGED <<round, calls, running, execs, asked, ran, executed, faults, cancelled>>
        /\ ~Admitting /\ ~Admitting' /\ InBatch /\ InBatch'
    BY <1>2 DEF JoinEnds, round, outcome, host, history, Admitting, InBatch
  <2>1. TypeOK'
    BY <1>2, <2>t DEF ToolInv, TypeOK, round
  <2>2. BatchIsWhole' /\ ScheduleStands' /\ AdmittedAsIs' /\ BatchIsCharged'
    BY <1>2, <2>t DEF ToolInv, BatchIsWhole, ScheduleStands, AdmittedAsIs, BatchIsCharged, round
  <2>3. CallsAreSettled' /\ RanIsRecorded'
    BY <1>2, <2>t DEF ToolInv, CallsAreSettled, RanIsRecorded, Settled
  <2>4. ResultsAreTrue'
    BY <1>2, <2>t DEF ToolInv, ResultsAreTrue, BatchIsWhole, round
  <2>5. MutationRunsAlone' /\ AskedIsRun' /\ TerminationIsFinal'
    BY <1>2, <2>t DEF ToolInv, MutationRunsAlone, AskedIsRun, TerminationIsFinal, round
  <2> QED  BY <2>1, <2>2, <2>3, <2>4, <2>5 DEF ToolInv
<1> QED  BY <1>1, <1>2

\* A function on 1..n is a sequence of length n.
LEMMA FunctionIsSeq ==
    ASSUME NEW S, NEW n \in Nat, NEW f \in [1..n -> S]
    PROVE  f \in Seq(S) /\ Len(f) = n
  OBVIOUS

\* What the loop over the batches has in hand when it reviews a result.
LEMMA ReviewState ==
    ASSUME ToolInv, pc = "review",
           NEW r, r = [id |-> at, tag |-> execs[at].tag, terminated |-> execs[at].terminated]
    PROVE  /\ at \in Nat /\ at \in Ids /\ batch.first \in Nat /\ batch.last \in Nat /\ Len(calls) \in Nat
           /\ 1 <= batch.first /\ batch.first <= at /\ at <= batch.last /\ batch.last <= Len(calls)
           /\ running = {} /\ Len(results) = at - 1
           /\ r \in [id : Ids, tag : Tags, terminated : BOOLEAN] /\ (r.tag \in Ran <=> at \in ran)
           /\ \A i \in Ids : execs[i].terminated => i = at /\ at = batch.last
           /\ Append(results, r) \in Seq([id : Ids, tag : Tags, terminated : BOOLEAN])
           /\ Len(Append(results, r)) = at /\ Append(results, r)[at] = r
           /\ \A i \in 1..at - 1 : Append(results, r)[i] = results[i]
<1>1. ~Admitting /\ InBatch
  BY DEF Admitting, InBatch
<1>2. /\ at \in Nat /\ batch.first \in Nat /\ batch.last \in Nat /\ Len(calls) \in Nat /\ Len(calls) <= MaxCalls
      /\ 1 <= batch.first /\ batch.first <= at /\ at <= batch.last /\ batch.last <= Len(calls)
      /\ batch.lane = "exclusive" => batch.first = batch.last
  BY <1>1 DEF ToolInv, TypeOK, BatchIsWhole
<1>3. at \in Ids
  BY <1>2, CallAssumption DEF Ids
<1>4. running = {} /\ Len(results) = at - 1
  BY <1>1 DEF ToolInv, CallsAreSettled, ResultsAreTrue
<1>5. execs[at] \in Executions /\ execs[at].tag # "none"
  BY <1>1, <1>2, <1>3, <1>4 DEF ToolInv, TypeOK, CallsAreSettled, Settled
<1>6. r \in [id : Ids, tag : Tags, terminated : BOOLEAN]
  BY <1>3, <1>5 DEF Executions
<1>7. r.tag \in Ran <=> at \in ran
  BY <1>1, <1>2, <1>4 DEF ToolInv, RanIsRecorded
<1>8. ASSUME NEW i \in Ids, execs[i].terminated
      PROVE  i = at /\ at = batch.last
  <2>1. batch.first = batch.last
    BY <1>8, <1>2 DEF ToolInv, CallsAreSettled
  <2>2. i \in batch.first..batch.last
    BY <1>8, <1>1, <1>4 DEF ToolInv, CallsAreSettled, Settled
  <2> QED  BY <2>1, <2>2, <1>2
<1>9. results \in Seq([id : Ids, tag : Tags, terminated : BOOLEAN])
  BY DEF ToolInv, TypeOK
<1>10. /\ Append(results, r) \in Seq([id : Ids, tag : Tags, terminated : BOOLEAN])
       /\ Len(Append(results, r)) = Len(results) + 1 /\ Append(results, r)[Len(results) + 1] = r
       /\ \A i \in 1..Len(results) : Append(results, r)[i] = results[i]
  BY <1>6, <1>9, AppendProperties
<1>11. Len(results) + 1 = at
  BY <1>2, <1>4
<1> QED  BY <1>2, <1>3, <1>4, <1>6, <1>7, <1>8, <1>10, <1>11

\* A result is reviewed; after the last of a batch the loop goes on, or ends
\* with an answer for every call that a terminating one left unrun.
LEMMA ReviewResultKeeps == ToolInv /\ ReviewResult => ToolInv'
<1> SUFFICES ASSUME ToolInv, ReviewResult PROVE ToolInv'
  OBVIOUS
<1> DEFINE r == [id |-> at, tag |-> execs[at].tag, terminated |-> execs[at].terminated]
           rs == Append(results, r)
<1>t. /\ pc = "review" /\ batch' = batch
      /\ UNCHANGED <<calls, starts, batch, execs, toolCalls, cancelled, authorizer, made, ran, executed, asked>>
  BY DEF ReviewResult, host, history
<1>r. /\ at \in Nat /\ at \in Ids /\ batch.first \in Nat /\ batch.last \in Nat /\ Len(calls) \in Nat
      /\ 1 <= batch.first /\ batch.first <= at /\ at <= batch.last /\ batch.last <= Len(calls)
      /\ running = {} /\ Len(results) = at - 1
      /\ r \in [id : Ids, tag : Tags, terminated : BOOLEAN] /\ (r.tag \in Ran <=> at \in ran)
      /\ \A i \in Ids : execs[i].terminated => i = at /\ at = batch.last
      /\ rs \in Seq([id : Ids, tag : Tags, terminated : BOOLEAN])
      /\ Len(rs) = at /\ rs[at] = r
      /\ \A i \in 1..at - 1 : rs[i] = results[i]
  BY <1>t, ReviewState
<1>i. r.id = at /\ r.terminated = execs[at].terminated
  OBVIOUS
<1>b. ~Admitting /\ InBatch
  BY <1>t DEF Admitting, InBatch
<1>c. Counting
  BY DEF ToolInv, TypeOK, ReviewResult, Counting, Fault, host
<1>1. CASE Fail /\ UNCHANGED <<at, outcome>>
  BY <1>1, <1>t, <1>c, FailKeeps DEF round, outcome
<1>2. CASE /\ IF at < batch.last THEN at' = at + 1 /\ results' = rs /\ UNCHANGED pc
              ELSE AfterBatch(rs) /\ UNCHANGED at
           /\ endTurn' = (endTurn \/ execs[at].ends) /\ UNCHANGED <<running, faults>>
  <2> HIDE DEF r, rs
  <2>e. endTurn' \in BOOLEAN
    BY <1>2, <1>r DEF ToolInv, TypeOK, Executions
  <2>o. \A i \in 1..at : rs[i].id = i /\ (rs[i].tag \in Ran <=> i \in ran)
    <3>1. \A i \in 1..at - 1 : results[i].id = i /\ (results[i].tag \in Ran <=> i \in ran)
      BY <1>r, <1>b DEF ToolInv, ResultsAreTrue
    <3>2. at \in Nat /\ rs[at] = r /\ (\A i \in 1..at - 1 : rs[i] = results[i]) /\ (r.tag \in Ran <=> at \in ran)
      BY <1>r
    <3> QED  BY <3>1, <3>2, <1>i
  <2>n. \A i \in 1..at - 1 : ~rs[i].terminated
    BY <1>r, <1>b DEF ToolInv, ResultsAreTrue
  <2>h. \A i \in ran : i <= batch.last
    BY <1>b DEF ToolInv, RanIsRecorded
  <2>1. ASSUME pc' \in {"review", "batch"}, at' \in Nat, results' = rs, \A i \in 1..at : ~rs[i].terminated,
               pc' = "review" => at' = at + 1 /\ at < batch.last,
               pc' = "batch" => at = batch.last
        PROVE  ToolInv'
    <3>1. TypeOK'
      BY <2>1, <2>e, <1>2, <1>r, <1>t, <1>c DEF ToolInv, TypeOK, Counting
    <3>2. ~Admitting' /\ (InBatch' <=> pc' = "review")
      BY <2>1 DEF Admitting, InBatch
    <3>u. UNCHANGED <<calls, batch, execs, running, ran>> /\ running = {}
      BY <1>2, <1>r, <1>t
    <3>3. BatchIsWhole'
      <4>1. pc' = "review" => at' = at + 1 /\ 1 <= batch.first /\ batch.first <= at' /\ at' <= batch.last
        BY <2>1, <1>r
      <4>2. batch.lane # "none" /\ (batch.lane = "exclusive" => batch.first = batch.last)
        BY <1>b DEF ToolInv, BatchIsWhole
      <4>3. pc' # "executing" /\ pc' # "join" /\ batch.last <= Len(calls)
        BY <2>1, <1>r
      <4> QED  BY <4>1, <4>2, <4>3, <3>2, <3>u DEF BatchIsWhole
    <3>k. CallsAreSettled'
      <4>1. \A i \in Ids : Settled(i)' <=> Settled(i)
        BY <3>2, <3>u, <1>b DEF Settled
      <4> QED  BY <4>1, <3>2, <3>u, <1>b DEF ToolInv, CallsAreSettled
    <3>m. RanIsRecorded'
      <4>1. \A i \in batch.first..batch.last : i \in ran <=> i \in running \/ execs[i].tag \in Ran
        BY <1>b, <1>t DEF ToolInv, RanIsRecorded
      <4>2. \A i \in ran : i <= Len(calls)
        BY DEF ToolInv, RanIsRecorded
      <4>3. pc' # "executing"
        BY <2>1
      <4> QED  BY <4>1, <4>2, <4>3, <2>h, <3>2, <3>u DEF RanIsRecorded
    <3>4. ResultsAreTrue'
      <4>1. Len(results') = at /\ (pc' = "batch" => at = batch'.last) /\ (pc' = "review" => at = at' - 1)
        <5>1. at \in Nat /\ Len(rs) = at
          BY <1>r
        <5>2. results' = rs /\ batch' = batch /\ (pc' = "batch" => at = batch.last) /\ (pc' = "review" => at' = at + 1)
          BY <2>1, <3>u
        <5> QED  BY <5>1, <5>2
      <4>2. pc' # "done" /\ pc' # "join" /\ results' = rs
        BY <2>1
      <4>3. \A i \in 1..at : ~rs[i].terminated
        BY <2>1
      <4> QED  BY <4>1, <4>2, <4>3, <2>o, <3>2, <3>u DEF ResultsAreTrue
    <3>5. ScheduleStands' /\ AdmittedAsIs' /\ BatchIsCharged'
      BY <2>1, <3>2, <1>b, <1>t DEF ToolInv, ScheduleStands, AdmittedAsIs, BatchIsCharged
    <3>6. MutationRunsAlone' /\ AskedIsRun'
      BY <3>u, <1>t DEF ToolInv, MutationRunsAlone, AskedIsRun
    <3>7. TerminationIsFinal'
      <4>1. DOMAIN results' = 1..at
        BY <2>1, <1>r
      <4> QED  BY <4>1, <2>1, <3>u DEF ToolInv, TerminationIsFinal
    <3> QED  BY <3>1, <3>3, <3>k, <3>m, <3>4, <3>5, <3>6, <3>7 DEF ToolInv
  <2>2. CASE at < batch.last
    <3>1. at' = at + 1 /\ results' = rs /\ pc' = "review"
      BY <2>2, <1>2, <1>t
    <3>2. at + 1 \in Nat /\ ~execs[at].terminated
      BY <2>2, <1>r
    <3>3. \A i \in 1..at : ~rs[i].terminated
      BY <3>2, <2>n, <1>r, <1>i
    <3> QED  BY <3>1, <3>2, <3>3, <2>1, <2>2
  <2>3. CASE ~(at < batch.last) /\ ~Terminated
    <3>1. at' = at /\ results' = rs /\ pc' = "batch"
      BY <2>3, <1>2 DEF AfterBatch
    <3>2. at = batch.last /\ at \in Nat /\ at \in Ids
      BY <2>3, <1>r
    <3>3. ~execs[at].terminated
      BY <2>3, <3>2 DEF Terminated
    <3>4. \A i \in 1..at : ~rs[i].terminated
      BY <3>2, <3>3, <2>n, <1>r, <1>i
    <3> QED  BY <3>1, <3>2, <3>4, <2>1
  <2>4. CASE ~(at < batch.last) /\ Terminated
    <3> DEFINE n == Len(calls) - batch.last
    <3>1. at = batch.last /\ at' = at /\ pc' = "done" /\ results' = rs \o Skipped
      BY <2>4, <1>2, <1>r DEF AfterBatch
    <3>2. /\ Skipped \in Seq([id : Ids, tag : Tags, terminated : BOOLEAN]) /\ Len(Skipped) = Len(calls) - at
          /\ \A k \in 1..(Len(calls) - at) : Skipped[k].id = at + k /\ Skipped[k].tag = "skipped" /\ ~Skipped[k].terminated
      <4>1. n \in Nat /\ at + n <= MaxCalls /\ MaxCalls \in Nat /\ n = Len(calls) - at
        BY <3>1, <1>r, CallAssumption DEF ToolInv, TypeOK
      <4>s. Skipped = [k \in 1..n |-> [id |-> batch.last + k, tag |-> "skipped", terminated |-> FALSE]]
        BY DEF Skipped
      <4> HIDE DEF n
      <4>2. ASSUME NEW k \in 1..n PROVE batch.last + k \in Ids
        <5>1. at \in Nat /\ batch.last = at
          BY <3>1, <1>r
        <5> QED  BY <4>1, <5>1 DEF Ids
      <4>3. "skipped" \in Tags
        BY DEF Tags
      <4>4. Skipped \in [1..n -> [id : Ids, tag : Tags, terminated : BOOLEAN]]
        BY <4>2, <4>3, <4>s
      <4>5. Skipped \in Seq([id : Ids, tag : Tags, terminated : BOOLEAN]) /\ Len(Skipped) = n
        BY <4>1, <4>4, FunctionIsSeq
      <4> QED  BY <4>1, <4>5, <4>s, <3>1
    <3>3. /\ results' \in Seq([id : Ids, tag : Tags, terminated : BOOLEAN]) /\ Len(results') = Len(calls)
          /\ \A i \in 1..Len(calls) : results'[i] = IF i <= at THEN rs[i] ELSE Skipped[i - at]
      <4> DEFINE S == [id : Ids, tag : Tags, terminated : BOOLEAN]
      <4>1. rs \in Seq(S) /\ Skipped \in Seq(S) /\ Len(rs) = at /\ Len(Skipped) = Len(calls) - at
        BY <3>2, <1>r
      <4> HIDE DEF S
      <4>2. /\ rs \o Skipped \in Seq(S) /\ Len(rs \o Skipped) = Len(rs) + Len(Skipped)
            /\ \A i \in 1..Len(rs) + Len(Skipped) :
                  (rs \o Skipped)[i] = IF i <= Len(rs) THEN rs[i] ELSE Skipped[i - Len(rs)]
        BY <4>1, ConcatProperties
      <4>3. Len(rs) + Len(Skipped) = Len(calls)
        BY <4>1, <1>r
      <4> QED  BY <4>1, <4>2, <4>3, <3>1 DEF S
    <3>4. TypeOK'
      BY <3>1, <3>3, <2>e, <1>2, <1>r, <1>t, <1>c DEF ToolInv, TypeOK, Counting
    <3>5. ~Admitting' /\ ~InBatch'
      BY <3>1 DEF Admitting, InBatch
    <3>6. BatchIsWhole' /\ CallsAreSettled' /\ RanIsRecorded'
      BY <3>1, <3>5, <1>2, <1>r, <1>t DEF ToolInv, BatchIsWhole, CallsAreSettled, RanIsRecorded
    <3>7. \A i \in 1..Len(calls) : /\ results'[i].id = i /\ (results'[i].tag \in Ran <=> i \in ran)
                                   /\ results'[i].terminated => i = at
      <4>1. ASSUME NEW i \in 1..at PROVE rs[i].terminated => i = at
        <5>1. at \in Nat
          BY <1>r
        <5> QED  BY <5>1, <2>n
      <4>2. ASSUME NEW i \in 1..Len(calls), i > at
            PROVE  /\ Skipped[i - at].id = i /\ Skipped[i - at].tag \notin Ran /\ ~Skipped[i - at].terminated
                   /\ i \notin ran
        <5>1. i - at \in 1..(Len(calls) - at)
          BY <4>2, <1>r
        <5>2. at + (i - at) = i /\ i \notin ran
          BY <4>2, <3>1, <2>h, <1>r
        <5> QED  BY <5>1, <5>2, <3>2 DEF Ran
      <4>3. ASSUME NEW i \in 1..Len(calls)
            PROVE  /\ results'[i].id = i /\ (results'[i].tag \in Ran <=> i \in ran)
                   /\ results'[i].terminated => i = at
        <5>1. CASE i <= at
          <6>1. i \in 1..at /\ results'[i] = rs[i]
            BY <5>1, <3>3, <1>r
          <6> QED  BY <6>1, <4>1, <2>o
        <5>2. CASE i > at
          <6>1. results'[i] = Skipped[i - at]
            BY <5>2, <3>3, <1>r
          <6> QED  BY <6>1, <5>2, <4>2
        <5>3. i \in Nat /\ at \in Nat
          BY <1>r
        <5> QED  BY <5>1, <5>2, <5>3
      <4> QED  BY <4>3
    <3>8. ResultsAreTrue'
      BY <3>1, <3>3, <3>5, <3>7, <1>t DEF ResultsAreTrue
    <3>9. ScheduleStands' /\ AdmittedAsIs' /\ BatchIsCharged'
      BY <3>1, <3>5, <1>t DEF ToolInv, ScheduleStands, AdmittedAsIs, BatchIsCharged
    <3>10. MutationRunsAlone' /\ AskedIsRun'
      BY <3>1, <1>2, <1>r, <1>t DEF ToolInv, MutationRunsAlone, AskedIsRun
    <3>11. TerminationIsFinal'
      <4>1. DOMAIN results' = 1..Len(calls)
        BY <3>3
      <4>2. \A i \in DOMAIN results' : results'[i].terminated => \A j \in ran : j <= results'[i].id
        BY <4>1, <3>1, <3>7, <2>h
      <4> QED  BY <4>2, <1>t DEF ToolInv, TerminationIsFinal
    <3> QED  BY <3>4, <3>6, <3>8, <3>9, <3>10, <3>11 DEF ToolInv
  <2> QED  BY <2>2, <2>3, <2>4
<1> QED  BY <1>1, <1>2 DEF ReviewResult

\* A batch is taken and charged, or the limits refuse it.
LEMMA TakeBatchKeeps == ToolInv /\ TakeBatch => ToolInv'
<1> SUFFICES ASSUME ToolInv, TakeBatch PROVE ToolInv'
  OBVIOUS
<1>t. /\ pc = "batch" /\ ~Admitting /\ ~InBatch
      /\ UNCHANGED <<calls, starts, results, endTurn, authorizer, cancelled, made, faults, ran, executed, asked>>
  BY DEF TakeBatch, outcome, host, history, Admitting, InBatch
<1>c. Counting
  BY <1>t DEF ToolInv, TypeOK, Counting
<1>1. PICK first \in DOMAIN calls, last \in DOMAIN calls :
          /\ first = batch.last + 1 /\ first <= last
          /\ \A i \in first + 1..last : i \notin starts
          /\ IF cancelled \/ toolCalls + (last + 1 - first) > ToolBudget
             THEN Fail /\ UNCHANGED <<batch, at, execs, toolCalls>>
             ELSE /\ pc' = "note" /\ at' = first
                  /\ batch' = [lane |-> Category(calls[first]), first |-> first, last |-> last]
                  /\ toolCalls' = toolCalls + (last + 1 - first)
                  /\ execs' = NoExecs /\ UNCHANGED running
  BY DEF TakeBatch
<1>2. CASE Fail /\ UNCHANGED <<batch, at, execs, toolCalls>>
  BY <1>2, <1>t, <1>c, FailKeeps DEF round
<1>3. CASE /\ pc' = "note" /\ at' = first /\ toolCalls + (last + 1 - first) <= ToolBudget
           /\ batch' = [lane |-> Category(calls[first]), first |-> first, last |-> last]
           /\ toolCalls' = toolCalls + (last + 1 - first)
           /\ execs' = NoExecs /\ UNCHANGED running
  <2>b. /\ calls \in Seq(Call) /\ Len(calls) \in Nat /\ first \in 1..Len(calls) /\ last \in 1..Len(calls)
        /\ batch.last \in Nat /\ first = batch.last + 1 /\ first <= last
    <3>1. calls \in Seq(Call) /\ batch.last \in Nat
      BY DEF ToolInv, TypeOK
    <3>2. DOMAIN calls = 1..Len(calls) /\ Len(calls) \in Nat
      BY <3>1
    <3> QED  BY <3>1, <3>2, <1>1
  <2>l. /\ batch'.first = first /\ batch'.last = last /\ batch'.lane = Category(calls[first])
        /\ batch'.lane \in {"parallel", "exclusive"} /\ Admitting' /\ InBatch' /\ at' = first
    BY <1>3 DEF Category, Admitting, InBatch
  <2>x. \A i \in Ids : execs'[i].tag = "none" /\ ~execs'[i].ends /\ ~execs'[i].terminated
    BY <1>3 DEF NoExecs, NotRun, Execution
  <2>y. NoExecs \in [Ids -> Executions]
    BY DEF NoExecs, NotRun, Execution, Executions
  <2>e. running = {} /\ running' = {}
    BY <1>3, <1>t DEF ToolInv, CallsAreSettled
  <2>1. TypeOK'
    <3>1. batch' \in [lane : {"none", "parallel", "exclusive"}, first : Nat, last : Nat] /\ at' \in Nat
      <4>1. first \in Nat /\ last \in Nat
        BY <2>b
      <4>2. Category(calls[first]) \in {"none", "parallel", "exclusive"}
        BY DEF Category
      <4> QED  BY <4>1, <4>2, <1>3
    <3>2. toolCalls' \in Nat
      <4>1. toolCalls \in Nat
        BY DEF ToolInv, TypeOK
      <4>2. last + 1 - first \in Nat
        BY <2>b
      <4>3. toolCalls' = toolCalls + (last + 1 - first)
        BY <1>3
      <4> QED  BY <4>1, <4>2, <4>3
    <3> QED  BY <3>1, <3>2, <1>3, <1>t, <1>c, <2>y DEF ToolInv, TypeOK, Counting
  <2>s. \A i \in 1..Len(calls) : i > batch.last =>
          /\ ~calls[i].rewritten
          /\ i \notin starts => Category(calls[i]) = "parallel"
          /\ i < Len(calls) /\ Category(calls[i]) = "exclusive" => i + 1 \in starts
    BY <1>t DEF ToolInv, ScheduleStands
  <2>2. batch'.lane = "exclusive" => first = last
    <3>1. CASE first < last
      <4>1. first + 1 \in first + 1..last /\ first < Len(calls) /\ first > batch.last
        BY <3>1, <2>b
      <4>2. first + 1 \notin starts
        BY <1>1, <4>1
      <4> QED  BY <4>1, <4>2, <2>s, <2>l, <2>b
    <3> QED  BY <3>1, <2>b
  <2>3. BatchIsWhole'
    BY <1>3, <1>t, <2>b, <2>l, <2>2 DEF BatchIsWhole
  <2>4. CallsAreSettled'
    <3>1. \A i \in Ids : ~Settled(i)'
      BY <2>b, <2>l DEF Settled, Ids
    <3> QED  BY <3>1, <2>x, <2>e, <2>l DEF CallsAreSettled
  <2>5. RanIsRecorded'
    <3>1. \A i \in ran : i \in Nat /\ i <= batch.last /\ i <= Len(calls)
      BY <1>t DEF ToolInv, TypeOK, RanIsRecorded, Ids
    <3>2. \A i \in first..last : i \in Ids /\ i \notin ran
      <4>1. Len(calls) <= MaxCalls /\ MaxCalls \in Nat
        BY CallAssumption DEF ToolInv, TypeOK
      <4> QED  BY <4>1, <3>1, <2>b DEF Ids
    <3>3. \A i \in ran : i <= last
      BY <3>1, <2>b
    <3>4. pc' # "executing" /\ "none" \notin Ran /\ UNCHANGED <<ran, calls>>
      BY <1>3, <1>t DEF Ran
    <3>5. batch'.first = first /\ batch'.last = last /\ running' = {}
      BY <2>l, <2>e
    <3> QED  BY <3>1, <3>2, <3>3, <3>4, <3>5, <2>x DEF RanIsRecorded
  <2>6. ResultsAreTrue'
    <3>1. /\ Len(results) = batch.last
          /\ \A i \in 1..Len(results) : /\ results[i].id = i /\ (results[i].tag \in Ran <=> i \in ran)
                                        /\ ~results[i].terminated
      BY <1>t DEF ToolInv, ResultsAreTrue
    <3>2. batch'.first - 1 = batch.last /\ pc' = "note" /\ UNCHANGED <<results, ran>>
      BY <1>3, <1>t, <2>b, <2>l
    <3> QED  BY <3>1, <3>2 DEF ResultsAreTrue
  <2>7. ScheduleStands'
    <3>1. ASSUME NEW i \in first..last PROVE ~calls[i].rewritten /\ Category(calls[i]) = Category(calls[first])
      <4>1. i \in 1..Len(calls) /\ i > batch.last
        BY <2>b
      <4>2. CASE i = first
        BY <4>1, <4>2, <2>s
      <4>3. CASE i \in first + 1..last
        <5>1. Category(calls[i]) = "parallel"
          BY <1>1, <4>1, <4>3, <2>s
        <5>2. Category(calls[first]) = "parallel"
          BY <2>2, <2>l, <4>3, <2>b
        <5> QED  BY <4>1, <5>1, <5>2, <2>s
      <4> QED  BY <4>2, <4>3, <2>b
    <3> QED  BY <3>1, <1>t, <2>s, <2>b, <2>l DEF ScheduleStands
  <2>8. AdmittedAsIs' /\ MutationRunsAlone' /\ AskedIsRun'
    BY <1>3, <1>t, <2>e DEF ToolInv, AdmittedAsIs, MutationRunsAlone, AskedIsRun
  <2>9. BatchIsCharged'
    <3>1. executed \in Nat /\ toolCalls \in Nat /\ executed <= toolCalls /\ executed' = executed
      BY <1>t DEF ToolInv, TypeOK, BatchIsCharged
    <3>2. executed' + (last + 1 - first) <= toolCalls' /\ toolCalls' <= ToolBudget /\ executed' <= toolCalls'
      <4>1. last + 1 - first \in Nat /\ ToolBudget \in Nat
        BY <2>b, CallAssumption
      <4>2. toolCalls' = toolCalls + (last + 1 - first) /\ toolCalls + (last + 1 - first) <= ToolBudget
        BY <1>3
      <4> QED  BY <3>1, <4>1, <4>2
    <3> QED  BY <3>2, <2>l DEF BatchIsCharged
  <2>10. TerminationIsFinal'
    BY <1>t, <2>x DEF ToolInv, TerminationIsFinal
  <2> QED  BY <2>1, <2>3, <2>4, <2>5, <2>6, <2>7, <2>8, <2>9, <2>10 DEF ToolInv
<1>4. toolCalls + (last + 1 - first) \in Int /\ ToolBudget \in Int
  <2>1. toolCalls \in Nat /\ calls \in Seq(Call)
    BY DEF ToolInv, TypeOK
  <2>2. first \in Nat /\ last \in Nat
    BY <2>1
  <2> QED  BY <2>1, <2>2, CallAssumption
<1> QED  BY <1>1, <1>2, <1>3, <1>4

\* A round begins with no batch, so all its calls are as the schedule saw them.
LEMMA BeginRoundKeeps == ToolInv /\ BeginRound => ToolInv'
<1> SUFFICES ASSUME ToolInv, BeginRound PROVE ToolInv'
  OBVIOUS
<1>t. /\ pc = "idle" /\ pc' = "batch" /\ starts' = Schedule(calls') /\ batch' = NoBatch /\ results' = <<>>
      /\ endTurn' = FALSE /\ execs' = NoExecs /\ ran' = {} /\ asked' = NotAsked
      /\ UNCHANGED <<at, running, toolCalls, cancelled, authorizer, faults, executed>>
      /\ ~Admitting /\ ~Admitting' /\ ~InBatch'
  BY DEF BeginRound, host, Admitting, InBatch
<1>1. PICK n \in 1..(MaxCalls - made) : calls' \in [1..n -> Requests] /\ made' = made + n
  BY DEF BeginRound
<1>2. n \in Nat /\ n <= MaxCalls /\ made' \in 0..MaxCalls
  BY <1>1, CallAssumption DEF ToolInv, TypeOK
<1>3. calls' \in [1..n -> Call] /\ \A i \in 1..n : ~calls'[i].rewritten
  BY <1>1 DEF Requests
<1>4. calls' \in Seq(Call) /\ Len(calls') = n
  BY <1>2, <1>3, FunctionIsSeq
<1>b. batch'.last = 0 /\ batch'.lane = "none" /\ batch' \in [lane : {"none", "parallel", "exclusive"}, first : Nat, last : Nat]
  BY <1>t DEF NoBatch
<1>x. /\ NoExecs \in [Ids -> Executions]
      /\ \A i \in Ids : NoExecs[i].tag = "none" /\ ~NoExecs[i].ends /\ ~NoExecs[i].terminated
  BY DEF NoExecs, NotRun, Execution, Executions
<1>s. /\ starts' \subseteq 1..n /\ starts' \subseteq Ids
      /\ \A i \in 1..n : /\ i \notin starts' => Category(calls'[i]) = "parallel"
                         /\ i < n /\ Category(calls'[i]) = "exclusive" => i + 1 \in starts'
  <2>1. DOMAIN calls' = 1..n /\ 1..n \subseteq Ids
    BY <1>3, <1>2, CallAssumption DEF Ids
  <2>2. starts' = {i \in 1..n : i = 1 \/ Category(calls'[i]) = "exclusive" \/ Category(calls'[i - 1]) = "exclusive"}
    BY <1>t, <2>1 DEF Schedule
  <2>3. ASSUME NEW i \in 1..n, i < n, Category(calls'[i]) = "exclusive" PROVE i + 1 \in starts'
    <3>1. i + 1 \in 1..n /\ (i + 1) - 1 = i
      BY <1>2, <2>3
    <3> QED  BY <3>1, <2>2, <2>3
  <2>4. ASSUME NEW i \in 1..n, i \notin starts' PROVE Category(calls'[i]) = "parallel"
    BY <2>2, <2>4 DEF Category
  <2> QED  BY <2>1, <2>2, <2>3, <2>4
<1>5. TypeOK'
  <2>1. results' \in Seq([id : Ids, tag : Tags, terminated : BOOLEAN]) /\ Len(results') = 0
    BY <1>t
  <2>2. asked' \in [Ids -> [mutates : BOOLEAN, category : {"none", "parallel", "exclusive"}]]
    BY <1>t DEF NotAsked
  <2> QED  BY <2>1, <2>2, <1>t, <1>2, <1>4, <1>b, <1>x, <1>s DEF ToolInv, TypeOK
<1>6. BatchIsWhole'
  BY <1>t, <1>b, <1>2, <1>4 DEF BatchIsWhole
<1>7. CallsAreSettled'
  <2>1. running' = {}
    BY <1>t DEF ToolInv, CallsAreSettled
  <2> QED  BY <2>1, <1>t, <1>x DEF CallsAreSettled
<1>8. RanIsRecorded' /\ ResultsAreTrue' /\ AskedIsRun' /\ AdmittedAsIs'
  <2>1. Len(results') = 0 /\ 1..0 = {}
    BY <1>t
  <2>2. ResultsAreTrue'
    BY <2>1, <1>t, <1>b DEF ResultsAreTrue
  <2> QED  BY <2>2, <1>t, <1>b DEF RanIsRecorded, AskedIsRun, AdmittedAsIs
<1>9. ScheduleStands'
  BY <1>t, <1>3, <1>4, <1>s DEF ScheduleStands
<1>10. BatchIsCharged' /\ MutationRunsAlone'
  BY <1>t DEF ToolInv, BatchIsCharged, MutationRunsAlone, CallsAreSettled
<1>11. TerminationIsFinal'
  BY <1>t, <1>x DEF TerminationIsFinal
<1> QED  BY <1>5, <1>6, <1>7, <1>8, <1>9, <1>10, <1>11 DEF ToolInv

\* The round returns, the runner takes its results, or the host cancels.
LEMMA AroundTheLoop == ToolInv /\ (AllBatchesDone \/ Return \/ Cancel) => ToolInv'
<1> SUFFICES ASSUME ToolInv, AllBatchesDone \/ Return \/ Cancel PROVE ToolInv'
  OBVIOUS
<1>t. UNCHANGED <<calls, starts, batch, at, running, execs, results, endTurn, toolCalls, authorizer, made, faults, ran, executed, asked>>
  BY DEF AllBatchesDone, Return, Cancel, progress, outcome, host, history
<1>1. CASE Cancel
  <2>1. pc' = pc /\ cancelled' \in BOOLEAN
    BY <1>1 DEF Cancel, progress
  <2>2. TypeOK'
    BY <1>t, <2>1 DEF ToolInv, TypeOK
  <2>a. (Admitting' <=> Admitting) /\ (InBatch' <=> InBatch) /\ \A i \in Ids : Settled(i)' <=> Settled(i)
    BY <1>t, <2>1 DEF InBatch, Admitting, Settled
  <2>3. BatchIsWhole' /\ RanIsRecorded' /\ ResultsAreTrue' /\ ScheduleStands'
    BY <1>t, <2>1, <2>a DEF ToolInv, BatchIsWhole, RanIsRecorded, ResultsAreTrue, ScheduleStands
  <2>5. CallsAreSettled'
    BY <1>t, <2>1, <2>a DEF ToolInv, TypeOK, CallsAreSettled
  <2>4. AdmittedAsIs' /\ BatchIsCharged' /\ MutationRunsAlone' /\ AskedIsRun' /\ TerminationIsFinal'
    BY <1>t, <2>1 DEF ToolInv, AdmittedAsIs, BatchIsCharged, MutationRunsAlone, AskedIsRun, TerminationIsFinal, Admitting
  <2> QED  BY <2>2, <2>3, <2>4, <2>5 DEF ToolInv
<1>2. CASE AllBatchesDone \/ Return
  <2>1. /\ pc \in {"batch", "done"} /\ pc' \in {"done", "ended", "idle"} /\ cancelled' = cancelled
        /\ pc' = "done" => pc = "batch" /\ ~More
    BY <1>2 DEF AllBatchesDone, Return, host
  <2>2. TypeOK'
    BY <1>t, <2>1 DEF ToolInv, TypeOK
  <2>3. ~Admitting /\ ~Admitting' /\ ~InBatch'
    BY <2>1 DEF Admitting, InBatch
  <2>4. BatchIsWhole' /\ CallsAreSettled' /\ RanIsRecorded' /\ ScheduleStands'
    BY <1>t, <2>1, <2>3 DEF ToolInv, BatchIsWhole, CallsAreSettled, RanIsRecorded, ScheduleStands
  <2>5. ResultsAreTrue'
    <3>1. pc' = "done" => Len(results) = Len(calls)
      <4>1. batch.last \in Nat /\ Len(calls) \in Nat /\ batch.last <= Len(calls)
        BY DEF ToolInv, TypeOK, BatchIsWhole
      <4>2. pc' = "done" => Len(results) = batch.last /\ ~(batch.last < Len(calls))
        BY <2>1 DEF ToolInv, ResultsAreTrue, More
      <4> QED  BY <4>1, <4>2
    <3> QED  BY <1>t, <2>1, <2>3, <3>1 DEF ToolInv, ResultsAreTrue
  <2>6. AdmittedAsIs' /\ BatchIsCharged' /\ MutationRunsAlone' /\ AskedIsRun' /\ TerminationIsFinal'
    BY <1>t, <2>1, <2>3 DEF ToolInv, AdmittedAsIs, BatchIsCharged, MutationRunsAlone, AskedIsRun, TerminationIsFinal
  <2> QED  BY <2>2, <2>4, <2>5, <2>6 DEF ToolInv
<1> QED  BY <1>1, <1>2

-----------------------------------------------------------------------------
(* The theorems.                                                           *)

\* A run begins with nothing asked and nothing run.
LEMMA InitKeeps == Init => ToolInv
<1> SUFFICES ASSUME Init PROVE ToolInv
  OBVIOUS
<1>i. /\ pc = "idle" /\ calls = <<>> /\ starts = {} /\ batch = NoBatch /\ at = 0 /\ running = {}
      /\ execs = NoExecs /\ results = <<>> /\ toolCalls = 0 /\ executed = 0 /\ ran = {}
      /\ ~Admitting /\ ~InBatch
  BY DEF Init, Admitting, InBatch
<1>x. /\ NoExecs \in [Ids -> Executions]
      /\ \A i \in Ids : ~NoExecs[i].ends /\ ~NoExecs[i].terminated
  BY DEF NoExecs, NotRun, Execution, Executions
<1>n. NotAsked \in [Ids -> [mutates : BOOLEAN, category : {"none", "parallel", "exclusive"}]]
  BY DEF NotAsked
<1>1. TypeOK
  <2>1. calls \in Seq(Call) /\ Len(calls) = 0 /\ results \in Seq([id : Ids, tag : Tags, terminated : BOOLEAN])
    BY <1>i
  <2>2. batch \in [lane : {"none", "parallel", "exclusive"}, first : Nat, last : Nat]
    BY <1>i DEF NoBatch
  <2>3. made \in 0..MaxCalls /\ 0 <= MaxCalls /\ faults \in Nat /\ asked = NotAsked
    BY CallAssumption DEF Init
  <2>4. cancelled \in BOOLEAN /\ authorizer \in BOOLEAN /\ endTurn \in BOOLEAN
    BY DEF Init
  <2> QED  BY <1>i, <1>x, <1>n, <2>1, <2>2, <2>3, <2>4 DEF TypeOK
<1>2. BatchIsWhole /\ CallsAreSettled /\ RanIsRecorded /\ ResultsAreTrue /\ ScheduleStands
  <2>1. batch.last = 0 /\ Len(calls) = 0
    BY <1>i DEF NoBatch
  <2>2. BatchIsWhole
    BY <2>1, <1>i DEF BatchIsWhole
  <2>3. CallsAreSettled
    BY <1>i, <1>x DEF CallsAreSettled
  <2>4. RanIsRecorded
    BY <1>i DEF RanIsRecorded
  <2>5. ResultsAreTrue /\ ScheduleStands
    BY <1>i DEF ResultsAreTrue, ScheduleStands
  <2> QED  BY <2>2, <2>3, <2>4, <2>5
<1>3. AdmittedAsIs /\ BatchIsCharged /\ MutationRunsAlone /\ AskedIsRun /\ TerminationIsFinal
  <2>1. AdmittedAsIs /\ MutationRunsAlone /\ AskedIsRun
    BY <1>i DEF AdmittedAsIs, MutationRunsAlone, AskedIsRun
  <2>2. BatchIsCharged
    BY <1>i, CallAssumption DEF BatchIsCharged
  <2>3. TerminationIsFinal
    <3>1. DOMAIN results = {}
      BY <1>i
    <3> QED  BY <3>1, <1>i, <1>x DEF TerminationIsFinal
  <2> QED  BY <2>1, <2>2, <2>3
<1> QED  BY <1>1, <1>2, <1>3 DEF ToolInv

\* Every step of the round, of the runner and of the host keeps the invariant.
LEMMA NextKeeps == ToolInv /\ [Next]_vars => ToolInv'
<1> SUFFICES ASSUME ToolInv, [Next]_vars PROVE ToolInv'
  OBVIOUS
<1>1. CASE BeginRound
  BY <1>1, BeginRoundKeeps
<1>2. CASE TakeBatch
  BY <1>2, TakeBatchKeeps
<1>3. CASE NoteStarted
  BY <1>3, NoteStartedKeeps
<1>4. CASE ApplyHooks
  BY <1>4, ApplyHooksKeeps
<1>5. CASE AskAuthorizer
  BY <1>5, AskAuthorizerKeeps
<1>6. CASE Authorized \/ NotAuthorized
  BY <1>6, AnswerOfAuthorizerKeeps
<1>7. CASE StartCall
  BY <1>7, StartCallKeeps
<1>8. CASE ExclusiveReturns
  BY <1>8, ExclusiveReturnsKeeps
<1>9. CASE JoinNext
  BY <1>9, JoinNextKeeps
<1>10. CASE JoinAborts \/ JoinEnds
  BY <1>10, JoinOverKeeps
<1>11. CASE ReviewResult
  BY <1>11, ReviewResultKeeps
<1>12. CASE AllBatchesDone \/ Return \/ Cancel
  BY <1>12, AroundTheLoop
<1>13. CASE UNCHANGED vars
  <2>1. UNCHANGED <<pc, starts, batch, at, calls, running, execs, results, endTurn, toolCalls, cancelled, authorizer,
                    made, faults, ran, executed, asked>>
    BY <1>13 DEF vars, progress, outcome, host, history
  <2>2. TypeOK'
    BY <2>1 DEF ToolInv, TypeOK
  <2>a. (Admitting' <=> Admitting) /\ (InBatch' <=> InBatch) /\ \A i \in Ids : Settled(i)' <=> Settled(i)
    BY <2>1 DEF InBatch, Admitting, Settled
  <2>3. BatchIsWhole' /\ RanIsRecorded' /\ ResultsAreTrue' /\ ScheduleStands'
    BY <2>1, <2>a DEF ToolInv, BatchIsWhole, RanIsRecorded, ResultsAreTrue, ScheduleStands
  <2>5. CallsAreSettled'
    BY <2>1, <2>a DEF ToolInv, TypeOK, CallsAreSettled
  <2>4. AdmittedAsIs' /\ BatchIsCharged' /\ MutationRunsAlone' /\ AskedIsRun' /\ TerminationIsFinal'
    BY <2>1 DEF ToolInv, AdmittedAsIs, BatchIsCharged, MutationRunsAlone, AskedIsRun, TerminationIsFinal, Admitting
  <2> QED  BY <2>2, <2>3, <2>4, <2>5 DEF ToolInv
<1> QED
  BY <1>1, <1>2, <1>3, <1>4, <1>5, <1>6, <1>7, <1>8, <1>9, <1>10, <1>11, <1>12, <1>13 DEF Next, Runtime

\* The inductive invariant holds throughout every run.
LEMMA AlwaysToolInv == Spec => []ToolInv
<1> QED  BY InitKeeps, NextKeeps, PTL DEF Spec

\* Whatever the hooks, the authorizer and the tools do, and however many calls
\* there are: a round that returns answered each call once, in order, and truly
\* (execute_calls, orchestrator.rs).
THEOREM CallsAreAlwaysAnswered == Spec => []EveryCallAnswered
<1>1. ToolInv => EveryCallAnswered
  <2> SUFFICES ASSUME ToolInv, pc = "done"
               PROVE  /\ Len(results) = Len(calls)
                      /\ \A i \in DOMAIN results : results[i].id = i /\ (results[i].tag \in Ran <=> i \in ran)
    BY DEF EveryCallAnswered
  <2>1. results \in Seq([id : Ids, tag : Tags, terminated : BOOLEAN])
    BY DEF ToolInv, TypeOK
  <2>2. DOMAIN results = 1..Len(results)
    BY <2>1
  <2> QED  BY <2>2 DEF ToolInv, ResultsAreTrue
<1> QED  BY <1>1, AlwaysToolInv, PTL

\* Whatever the hooks rewrite: what runs was approved as it is, runs alone if it
\* must, is within the tool budget of the run and does not follow a call that
\* ended the round (admission, lanes and charge of orchestrator.rs).
THEOREM RunsAreAlwaysAsAsked == Spec => []CallsRunAsAsked
<1>1. ToolInv => CallsRunAsAsked
  <2>1. ToolInv => executed <= ToolBudget
    BY CallAssumption DEF ToolInv, TypeOK, BatchIsCharged
  <2> QED  BY <2>1 DEF ToolInv, CallsRunAsAsked, ToolBudgetHolds
<1> QED  BY <1>1, AlwaysToolInv, PTL
=============================================================================
