----------------------------- MODULE TaskBoard -----------------------------
(***************************************************************************)
(* The persisted task board (runtime/task.rs, task/graph.rs, task/store.rs,*)
(* task_board.rs, agent/task_state.rs): tasks with statuses, owners and    *)
(* dependencies, edited by a lead, by teammates and by the host, each edit *)
(* one transaction of the task store.                                      *)
(*                                                                         *)
(* A run captures the board when it begins and puts it back when it fails. *)
(***************************************************************************)
EXTENDS Naturals, FiniteSets

CONSTANTS TaskIds,       \* ids a behaviour may use: 1..n
          Teammates,     \* agents that are teammates
          LeadAgent,     \* the lead
          Nobody,        \* no owner; no change of owner
          Rejected,      \* an edit that fails: nothing is stored
          NoRun,         \* no run under way
          Runners,       \* bound: the agents whose runs capture the board
          MaxCaptured,   \* bound: a run begins only on a board of at most so many tasks
          Ownable        \* bound: the tasks whose owner may be set

ASSUME TaskIdsAssumption == TaskIds \subseteq Nat \ {0}

VARIABLES board,      \* the stored tasks
          captured,   \* what each agent's run captured when it began
          looked,     \* teammates that have looked for work and own none
          reopened    \* history: a completed task was given another status

taskVars == <<board, captured, looked, reopened>>

TaskStatuses == {"pending", "in_progress", "completed"}
TaskItems == [status : TaskStatuses \union {"absent"}, blocks : SUBSET TaskIds,
              blocked_by : SUBSET TaskIds, owner : Teammates \union {Nobody}]
NoTask == [status |-> "absent", blocks |-> {}, blocked_by |-> {}, owner |-> Nobody]
TaskAgents == Teammates \union {LeadAgent}

Exists(b, t) == b[t].status # "absent"

TaskTypeOK ==
    /\ board \in [TaskIds -> TaskItems]
    /\ captured \in [Runners -> [TaskIds -> TaskItems] \union {NoRun}]
    /\ looked \in SUBSET Teammates
    /\ reopened \in BOOLEAN

TaskInit ==
    /\ board = [t \in TaskIds |-> NoTask]
    /\ captured = [a \in Runners |-> NoRun]
    /\ looked = {}
    /\ reopened = FALSE

-----------------------------------------------------------------------------
(* The dependency graph. *)

\* path_exists: a search along "blocks".
path_exists(b, start, goal) ==
    LET reached[n \in 0..Cardinality(TaskIds)] ==
            IF n = 0 THEN {start} ELSE reached[n - 1] \union UNION {b[t].blocks : t \in reached[n - 1]}
    IN  goal \in reached[Cardinality(TaskIds)]

\* add_dependency: refused for a task itself, a missing one, a cycle, and for a
\* dependent that is not pending when the blocker is not completed.
add_dependency(b, blocker, dependent) ==
    IF \/ blocker = dependent \/ ~Exists(b, blocker) \/ ~Exists(b, dependent)
       \/ dependent \notin b[blocker].blocks /\ path_exists(b, dependent, blocker)
       \/ b[blocker].status # "completed" /\ b[dependent].status # "pending"
    THEN Rejected
    ELSE [t \in TaskIds |->
            IF t = blocker THEN [b[t] EXCEPT !.blocks = @ \union {dependent}]
            ELSE IF t = dependent /\ b[blocker].status # "completed"
                 THEN [b[t] EXCEPT !.blocked_by = @ \union {blocker}]
            ELSE b[t]]

remove_dependency(b, blocker, dependent) ==
    IF ~Exists(b, blocker) \/ ~Exists(b, dependent) THEN Rejected
    ELSE [b EXCEPT ![blocker].blocks = @ \ {dependent}, ![dependent].blocked_by = @ \ {blocker}]

\* validate_unblocked_status: only a pending task may have blockers.
validate_unblocked_status(item) == item.status = "pending" \/ item.blocked_by = {}

\* apply_status_change: completing a task frees what it blocks, reopening one
\* blocks it again, but for dependents that are completed. A completion is checked
\* against the status the task had, any other against the one it gets.
Dependents(b, t) == {u \in b[t].blocks : b[u].status # "completed"}
apply_status_change_KeepsBlocked(b, t, next) ==
    IF ~validate_unblocked_status(IF next = "completed" THEN b[t] ELSE [b[t] EXCEPT !.status = next])
    THEN Rejected
    ELSE [b EXCEPT ![t].status = next]
apply_status_change(b, t, next) ==
    IF ~validate_unblocked_status(IF next = "completed" THEN b[t] ELSE [b[t] EXCEPT !.status = next])
    THEN Rejected
    ELSE [u \in TaskIds |->
            IF u = t THEN [b[u] EXCEPT !.status = next]
            ELSE IF u \notin Dependents(b, t) \/ next = b[t].status THEN b[u]
            ELSE IF next = "completed" THEN [b[u] EXCEPT !.blocked_by = @ \ {t}]
            ELSE IF b[t].status = "completed" THEN [b[u] EXCEPT !.blocked_by = @ \union {t}]
            ELSE b[u]]

-----------------------------------------------------------------------------
(* The operations, each on the board as the store has it. *)

\* The edits of one list of an update; 0 is an empty list.
AddBlocker(b, x, t) == IF b = Rejected \/ x = 0 THEN b ELSE add_dependency(b, x, t)
RemoveBlocker(b, x, t) == IF b = Rejected \/ x = 0 THEN b ELSE remove_dependency(b, x, t)

\* mutate_store_tasks: a rejected edit stores nothing.
Store(b) == b # Rejected /\ board' = b

\* task_create: the next id; refused when a blocker cannot be added.
Created(b, t, x, owner) == AddBlocker([b EXCEPT ![t] = [NoTask EXCEPT !.status = "pending", !.owner = owner]], x, t)

task_create(x, owner) ==
    /\ \E t \in TaskIds :
          /\ \A u \in TaskIds : Exists(board, u) <=> u < t
          /\ Store(Created(board, t, x, owner))
    /\ UNCHANGED <<captured, looked, reopened>>

\* validate_update_access: a teammate edits its own tasks, not their
\* dependencies, and does not give them away.
validate_update_access(a, t, owner, edges) ==
    \/ a = LeadAgent
    \/ /\ board[t].owner = a
       /\ edges = <<0, 0, 0, 0>>
       /\ owner \subseteq {a}

\* task_update: the owner (a set: empty when none is given), then the
\* dependencies, then the status.
Updated(b, t, owner, edges, status) ==
    LET owned == [b EXCEPT ![t].owner = IF owner = {} THEN @ ELSE CHOOSE o \in owner : TRUE]
        b1 == AddBlocker(owned, edges[1], t)
        b2 == RemoveBlocker(b1, edges[2], t)
        b3 == IF edges[3] = 0 THEN b2 ELSE AddBlocker(b2, t, edges[3])
        b4 == IF edges[4] = 0 THEN b3 ELSE RemoveBlocker(b3, t, edges[4])
    IN  IF b4 = Rejected THEN Rejected ELSE apply_status_change(b4, t, status)

task_update(a, t, owner, edges, status) ==
    /\ Exists(board, t)
    /\ validate_update_access(a, t, owner, edges)
    /\ Store(Updated(board, t, owner, edges, status))
    /\ reopened' = (reopened \/ (board[t].status = "completed" /\ status # "completed"))
    /\ UNCHANGED <<captured, looked>>

\* is_claimable, validate_claimable.
is_claimable(item) == item.status = "pending" /\ item.blocked_by = {} /\ item.owner = Nobody

task_claim(a, t) ==
    /\ t \in Ownable /\ is_claimable(board[t])
    /\ board' = [board EXCEPT ![t].owner = a]
    /\ UNCHANGED <<captured, looked, reopened>>

-----------------------------------------------------------------------------
(* Agents. *)

\* owns_unfinished_tasks.
owns_unfinished_tasks(a) ==
    \E t \in TaskIds : board[t].owner = a /\ board[t].status \in {"pending", "in_progress"}

\* try_claim_ready_task: an idle teammate looks at the board, and, owning no
\* unfinished task, claims the first that is ready.
LookForWork(a) ==
    /\ a \notin looked /\ ~owns_unfinished_tasks(a)
    /\ looked' = looked \union {a}
    /\ UNCHANGED <<board, captured, reopened>>

try_claim_ready_task(a) ==
    /\ a \in looked /\ looked' = looked \ {a}
    /\ IF \E t \in TaskIds : is_claimable(board[t])
       THEN \E t \in TaskIds :
               /\ t \in Ownable /\ is_claimable(board[t])
               /\ \A u \in TaskIds : is_claimable(board[u]) => t <= u
               /\ board' = [board EXCEPT ![t].owner = a]
       ELSE UNCHANGED board
    /\ UNCHANGED <<captured, reopened>>

\* capture_task_disk_state, when a run begins; restore_task_state, when it fails:
\* the board as it was, whatever others did meanwhile.
BeginRun(a) ==
    /\ captured[a] = NoRun
    /\ Cardinality({t \in TaskIds : Exists(board, t)}) <= MaxCaptured
    /\ captured' = [captured EXCEPT ![a] = board]
    /\ UNCHANGED <<board, looked, reopened>>

EndRun(a) ==
    /\ captured[a] # NoRun
    /\ board' \in {board, captured[a]}
    /\ captured' = [captured EXCEPT ![a] = NoRun]
    /\ UNCHANGED <<looked, reopened>>

NoEdges == <<0, 0, 0, 0>>
TaskEdges == UNION {{<<x, 0, 0, 0>>, <<0, x, 0, 0>>, <<0, 0, x, 0>>, <<0, 0, 0, x>>, <<x, 0, x, 0>>} : x \in TaskIds}

TaskNext ==
    \/ \E x \in TaskIds \union {0} : task_create(x, Nobody)
    \/ \E a \in TaskAgents, t \in TaskIds, s \in TaskStatuses :
          \/ task_update(a, t, {}, NoEdges, s)
          \/ \E e \in TaskEdges : s \in {board[t].status, "completed"} /\ task_update(a, t, {}, e, s)
          \/ t \in Ownable /\ \E o \in {Nobody} \union Teammates : task_update(a, t, {o}, NoEdges, s)
    \/ \E a \in Teammates : LookForWork(a) \/ try_claim_ready_task(a) \/ \E t \in TaskIds : task_claim(a, t)
    \/ \E a \in Runners : BeginRun(a) \/ EndRun(a)

TaskSpec == TaskInit /\ [][TaskNext]_taskVars

-----------------------------------------------------------------------------
(* Properties. *)

\* What the board says of dependencies, edge by edge: a blocker of a task has the
\* task among those it blocks, and until a completed task is reopened the blockers
\* of an unfinished task are exactly the unfinished tasks that block it, and a task
\* in progress has none. Creations, edits, completions, refused edits and the
\* boards failed runs put back keep it so.
BlockersAreReal ==
    \A t \in TaskIds :
        /\ \A x \in board[t].blocked_by : t \in board[x].blocks
        /\ ~reopened /\ board[t].status # "completed" =>
              /\ board[t].blocked_by = {x \in TaskIds : t \in board[x].blocks /\ board[x].status # "completed"}
              /\ board[t].status = "in_progress" => board[t].blocked_by = {}

\* add_dependency's cycle check, over every sequence of edits: no task waits for
\* itself, however many tasks lie between.
TaskGraphIsAcyclic ==
    \A t \in TaskIds : \A u \in board[t].blocks : ~path_exists(board, u, t)

\* What validate_unblocked_status refuses: a completed task with blockers.
CompletedIsUnblocked ==
    \A t \in TaskIds : board[t].status = "completed" => board[t].blocked_by = {}
=============================================================================
