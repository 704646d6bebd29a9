----------------------------- MODULE Background -----------------------------
(***************************************************************************)
(* Background commands (mentra/src/background.rs): the manager's in-memory *)
(* task lists, the background_jobs table of the store, and the tokio task  *)
(* that carries a command to its end.                                      *)
(*                                                                         *)
(* A job is one started command.  Its outcome reaches the agent as a       *)
(* notification on the job's row: pending, inflight while a run holds it,  *)
(* acked.  A row is keyed by the agent and the id "bg-N", and N counts     *)
(* from zero again in every process.                                       *)
(***************************************************************************)
EXTENDS Naturals, Sequences, FiniteSets, SequencesExt

CONSTANTS
  MaxAgents,   \* agent records, hence agent ids 1..MaxAgents
  MaxJobs,     \* commands started over the whole behaviour
  TaskLimit    \* RuntimePolicy::background_task_limit

ASSUME BackgroundAssumption ==
  /\ MaxAgents \in Nat \ {0}
  /\ MaxJobs \in Nat
  /\ TaskLimit \in Nat

AgentIds == 1..MaxAgents
Jobs == 1..MaxJobs

VARIABLES
  rows,      \* the table: agent id -> bg number -> row
  tasks,     \* AgentBackgroundState::tasks, per agent
  counter,   \* next_task_id of this process
  jobs       \* the commands started so far, in order, and how far each is

bgVars == <<rows, tasks, counter, jobs>>

NoRow == [status |-> "none", note |-> "acked", job |-> 0]

(* "finished" stands for Finished and Failed: the notice differs in text.  *)
RowStatus == {"none", "running", "finished", "interrupted"}
NoteStates == {"pending", "inflight", "acked"}

(* "closing": finish_task has not written the row yet; "saved", "unsaved": *)
(* it has, or could not; "rung": the observer has been called; "lost": the *)
(* process died first.                                                     *)
JobStages == {"running", "closing", "saved", "unsaved", "rung", "lost"}

BackgroundTypeOK ==
  /\ rows \in [AgentIds -> [Jobs -> [status : RowStatus, note : NoteStates, job : 0..MaxJobs]]]
  /\ counter \in 0..MaxJobs
  /\ jobs \in Seq([agent : AgentIds, id : Jobs, stage : JobStages])
  /\ Len(jobs) <= MaxJobs
  /\ \A a \in AgentIds : tasks[a] \in Seq([id : Jobs, status : RowStatus])

BackgroundInit ==
  /\ rows = [a \in AgentIds |-> [n \in Jobs |-> NoRow]]
  /\ tasks = [a \in AgentIds |-> <<>>]
  /\ counter = 0
  /\ jobs = <<>>

---------------------------------------------------------------------------
(* The store's notification queries. *)

has_deliverable_notifications(a) == \E n \in Jobs : rows[a][n].note = "pending"

Noted(a, state) == {n \in Jobs : rows[a][n].note = state}

MoveNotes(table, a, from, to) ==
  [table EXCEPT ![a] =
     [n \in Jobs |-> IF @[n].note = from THEN [@[n] EXCEPT !.note = to] ELSE @[n]]]

drain_notifications(table, a)   == MoveNotes(table, a, "pending", "inflight")
acknowledge_notifications(table, a) == MoveNotes(table, a, "inflight", "acked")
requeue_notifications(table, a) == MoveNotes(table, a, "inflight", "pending")

---------------------------------------------------------------------------
(* The manager. *)

running_task_count(a) == Len(SelectSeq(tasks[a], LAMBDA t : t.status = "running"))

(* background_run: the limit is checked against the task list, then the    *)
(* row is written, the list extended and the command spawned.              *)
start_task(a) ==
  LET n == counter + 1 IN
  /\ Len(jobs) < MaxJobs
  /\ running_task_count(a) < TaskLimit
  /\ counter' = n
  /\ rows' = [rows EXCEPT ![a][n] =
                [status |-> "running", note |-> "acked", job |-> Len(jobs) + 1]]
  /\ tasks' = [tasks EXCEPT ![a] = Append(@, [id |-> n, status |-> "running"])]
  /\ jobs' = Append(jobs, [agent |-> a, id |-> n, stage |-> "running"])

(* The first task of that id is overwritten; with none, one is appended.   *)
Replaced(list, n) ==
  LET at == SelectInSeq(list, LAMBDA t : t.id = n)
      done == [id |-> n, status |-> "finished"]
  IN  IF at = 0 THEN Append(list, done) ELSE [list EXCEPT ![at] = done]

(* finish_task, under the manager's lock. *)
CloseJob(j) ==
  /\ j \in DOMAIN jobs /\ jobs[j].stage = "running"
  /\ tasks' = [tasks EXCEPT ![jobs[j].agent] = Replaced(@, jobs[j].id)]
  /\ jobs' = [jobs EXCEPT ![j].stage = "closing"]
  /\ UNCHANGED <<rows, counter>>

(* finish_task, after the lock: the upsert's error is dropped.             *)
SaveJob(j, ok) ==
  /\ j \in DOMAIN jobs /\ jobs[j].stage = "closing"
  /\ jobs' = [jobs EXCEPT ![j].stage = IF ok THEN "saved" ELSE "unsaved"]
  /\ rows' = IF ok
             THEN [rows EXCEPT ![jobs[j].agent][jobs[j].id] =
                     [status |-> "finished", note |-> "pending", job |-> j]]
             ELSE rows
  /\ UNCHANGED <<tasks, counter>>

(* publish_observer: the teammate's wake is the composing module's part.   *)
RingJob(j) ==
  /\ j \in DOMAIN jobs /\ jobs[j].stage \in {"saved", "unsaved"}
  /\ jobs' = [jobs EXCEPT ![j].stage = "rung"]
  /\ UNCHANGED <<rows, tasks, counter>>

(* The process dies: commands and lists are gone, the table stays.         *)
LoseJobs ==
  /\ jobs' = [j \in DOMAIN jobs |->
                IF jobs[j].stage = "rung" THEN jobs[j] ELSE [jobs[j] EXCEPT !.stage = "lost"]]
  /\ tasks' = [a \in AgentIds |-> <<>>]
  /\ counter' = 0
  /\ UNCHANGED rows

(* prepare_recovery's part of the table: what a run held is deliverable    *)
(* again, and a command that was running is reported as interrupted.       *)
RecoveredRow(row) ==
  CASE row.status = "running" -> [row EXCEPT !.status = "interrupted", !.note = "pending"]
    [] row.status # "running" /\ row.note = "inflight" -> [row EXCEPT !.note = "pending"]
    [] OTHER -> row

RecoveredRows == [a \in AgentIds |-> [n \in Jobs |-> RecoveredRow(rows[a][n])]]

(* register_agent reloads an agent's list from the table. *)
LoadedTasks(a) ==
  LET stored == {n \in Jobs : rows[a][n].status # "none"}
      order  == SetToSortSeq(stored, <)
  IN  [k \in DOMAIN order |-> [id |-> order[k], status |-> rows[a][order[k]].status]]
=============================================================================
