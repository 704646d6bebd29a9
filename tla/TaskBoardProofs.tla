-------------------------- MODULE TaskBoardProofs --------------------------
(***************************************************************************)
(* Proof that the task board's blockers are real, for every set of tasks   *)
(* and agents and whatever boards failed runs put back.  The invariant     *)
(* adds that only tasks that exist block and are blocked, that none blocks *)
(* itself, and that the boards captured by runs are as sound as the one    *)
(* stored: each edit is shown to take a sound board to a sound one.        *)
(***************************************************************************)
EXTENDS TaskBoard, TLAPS

Boards == [TaskIds -> TaskItems]

\* A board as the edits leave it, edge by edge; `loose' when a completed task was
\* reopened.
Sound(b, loose) ==
    /\ b \in Boards
    /\ \A t, u \in TaskIds :
          /\ u \in b[t].blocks => u # t /\ b[t].status # "absent" /\ b[u].status # "absent"
          /\ u \in b[t].blocked_by => t \in b[u].blocks
          /\ ~loose /\ b[t].status # "completed" =>
                /\ t \in b[u].blocks /\ b[u].status # "completed" => u \in b[t].blocked_by
                /\ u \in b[t].blocked_by => b[u].status # "completed" /\ b[t].status # "in_progress"

TaskInv ==
    /\ Sound(board, reopened)
    /\ captured \in [Runners -> Boards \union {NoRun}]
    /\ \A a \in Runners : captured[a] # NoRun => Sound(captured[a], reopened)
    /\ reopened \in BOOLEAN

\* The result of an edit: refused, or sound.
Fine(b, loose) == b = Rejected \/ Sound(b, loose)

\* The result of an edit of the dependencies: the statuses stay.
Relinked(b, new, loose) ==
    new = Rejected \/ (Sound(new, loose) /\ \A t \in TaskIds : new[t].status = b[t].status)

\* What a reader of the board relies on follows from it.
LEMMA SoundIsReal == TaskInv => BlockersAreReal
<1> SUFFICES ASSUME Sound(board, reopened), NEW t \in TaskIds
             PROVE  /\ \A x \in board[t].blocked_by : t \in board[x].blocks
                    /\ ~reopened /\ board[t].status # "completed" =>
                          /\ board[t].blocked_by =
                                {x \in TaskIds : t \in board[x].blocks /\ board[x].status # "completed"}
                          /\ board[t].status = "in_progress" => board[t].blocked_by = {}
  BY DEF TaskInv, BlockersAreReal
<1>1. board[t].blocked_by \subseteq TaskIds
  BY DEF Sound, Boards, TaskItems
<1> QED
  BY <1>1 DEF Sound

-----------------------------------------------------------------------------
(* The edits.                                                              *)

\* TaskGraph::add_dependency keeps a board sound.
LEMMA AddDependencySound ==
    ASSUME NEW loose \in BOOLEAN, NEW b, Sound(b, loose), NEW x \in TaskIds, NEW y \in TaskIds
    PROVE  Relinked(b, add_dependency(b, x, y), loose)
<1> DEFINE new == [t \in TaskIds |->
            IF t = x THEN [b[t] EXCEPT !.blocks = @ \union {y}]
            ELSE IF t = y /\ b[x].status # "completed"
                 THEN [b[t] EXCEPT !.blocked_by = @ \union {x}]
            ELSE b[t]]
<1>1. SUFFICES ASSUME x # y, Exists(b, x), Exists(b, y),
                      b[x].status = "completed" \/ b[y].status = "pending"
               PROVE  Sound(new, loose) /\ \A t \in TaskIds : new[t].status = b[t].status
  BY DEF add_dependency, Relinked
<1>2. new \in Boards
  BY DEF Sound, Boards, TaskItems
<1>3. \A t, u \in TaskIds :
         /\ new[t].status = b[t].status
         /\ u \in new[t].blocks <=> u \in b[t].blocks \/ (t = x /\ u = y)
         /\ u \in new[t].blocked_by <=> u \in b[t].blocked_by \/ (t = y /\ u = x /\ b[x].status # "completed")
  BY <1>1 DEF Sound, Boards, TaskItems
<1> HIDE DEF new
<1> QED
  BY <1>1, <1>2, <1>3 DEF Sound, Exists

\* TaskGraph::remove_dependency keeps a board sound.
LEMMA RemoveDependencySound ==
    ASSUME NEW loose \in BOOLEAN, NEW b, Sound(b, loose), NEW x \in TaskIds, NEW y \in TaskIds
    PROVE  Relinked(b, remove_dependency(b, x, y), loose)
<1> DEFINE new == remove_dependency(b, x, y)
<1>1. SUFFICES ASSUME Exists(b, x) /\ Exists(b, y)
               PROVE  Sound(new, loose) /\ \A t \in TaskIds : new[t].status = b[t].status
  BY DEF remove_dependency, Relinked
<1>2. new \in Boards
  BY <1>1 DEF Sound, Boards, TaskItems, remove_dependency
<1>3. \A t, u \in TaskIds :
         /\ new[t].status = b[t].status
         /\ u \in new[t].blocks <=> u \in b[t].blocks /\ ~(t = x /\ u = y)
         /\ u \in new[t].blocked_by <=> u \in b[t].blocked_by /\ ~(t = y /\ u = x)
  BY <1>1 DEF Sound, Boards, TaskItems, remove_dependency
<1> HIDE DEF new
<1> QED
  BY <1>1, <1>2, <1>3 DEF Sound, Exists

\* TaskGraph::apply_status_change keeps a board sound, or makes it loose by
\* reopening a completed task.
LEMMA StatusChangeSound ==
    ASSUME NEW loose \in BOOLEAN, NEW b, Sound(b, loose), NEW t \in TaskIds, Exists(b, t),
           NEW next \in TaskStatuses
    PROVE  Fine(apply_status_change(b, t, next), loose \/ (b[t].status = "completed" /\ next # "completed"))
<1> DEFINE new == [u \in TaskIds |->
            IF u = t THEN [b[u] EXCEPT !.status = next]
            ELSE IF u \notin Dependents(b, t) \/ next = b[t].status THEN b[u]
            ELSE IF next = "completed" THEN [b[u] EXCEPT !.blocked_by = @ \ {t}]
            ELSE IF b[t].status = "completed" THEN [b[u] EXCEPT !.blocked_by = @ \union {t}]
            ELSE b[u]]
           looser == loose \/ (b[t].status = "completed" /\ next # "completed")
<1>1. SUFFICES ASSUME validate_unblocked_status(IF next = "completed" THEN b[t] ELSE [b[t] EXCEPT !.status = next])
               PROVE  Sound(new, looser)
  BY DEF apply_status_change, Fine
<1>2. new \in Boards
  <2>1. ASSUME NEW item \in TaskItems
        PROVE  /\ [item EXCEPT !.status = next] \in TaskItems
               /\ [item EXCEPT !.blocked_by = @ \ {t}] \in TaskItems
               /\ [item EXCEPT !.blocked_by = @ \union {t}] \in TaskItems
    BY DEF TaskItems
  <2>2. \A u \in TaskIds : b[u] \in TaskItems
    BY DEF Sound, Boards
  <2>3. \A u \in TaskIds : new[u] \in TaskItems
    BY <2>1, <2>2
  <2> QED
    BY <2>3 DEF Boards
<1>3. \A u, v \in TaskIds :
         /\ new[u].status = IF u = t THEN next ELSE b[u].status
         /\ v \in new[u].blocks <=> v \in b[u].blocks
         /\ v \in new[u].blocked_by <=>
               IF v = t /\ u # t /\ u \in b[t].blocks /\ b[u].status # "completed" /\ next # b[t].status
                  /\ "completed" \in {next, b[t].status}
               THEN next # "completed" ELSE v \in b[u].blocked_by
  BY DEF Sound, Boards, TaskItems, Dependents
<1>4. b[t].blocked_by = {} \/ (IF next = "completed" THEN b[t].status ELSE next) = "pending"
  BY <1>1 DEF validate_unblocked_status, Sound, Boards, TaskItems
<1> HIDE DEF new
<1>5. b[t].status # "absent" /\ next # "absent"
  BY DEF Exists, TaskStatuses
<1>6. ASSUME NEW u \in TaskIds, NEW v \in TaskIds
      PROVE  /\ v \in new[u].blocks => v # u /\ new[u].status # "absent" /\ new[v].status # "absent"
             /\ v \in new[u].blocked_by => u \in new[v].blocks
  BY <1>3, <1>5 DEF Sound
<1>7. ASSUME NEW u \in TaskIds, NEW v \in TaskIds, ~looser, new[u].status # "completed"
      PROVE  /\ u \in new[v].blocks /\ new[v].status # "completed" => v \in new[u].blocked_by
             /\ v \in new[u].blocked_by => new[v].status # "completed" /\ new[u].status # "in_progress"
  BY <1>3, <1>4, <1>5, <1>7 DEF Sound
<1> QED
  BY <1>2, <1>6, <1>7 DEF Sound

\* The lists of an update, an empty one among them, after an edit that was not
\* refused or was.
LEMMA BlockerEditsSound ==
    ASSUME NEW loose \in BOOLEAN, NEW b, NEW b1, Relinked(b, b1, loose),
           NEW x \in TaskIds \union {0}, NEW y \in TaskIds \union {0}, x = 0 \/ y # 0
    PROVE  Relinked(b, AddBlocker(b1, x, y), loose) /\ Relinked(b, RemoveBlocker(b1, x, y), loose)
<1>1. CASE b1 = Rejected \/ x = 0
  BY <1>1 DEF AddBlocker, RemoveBlocker
<1>2. CASE b1 # Rejected /\ x # 0
  <2>1. Sound(b1, loose) /\ \A t \in TaskIds : b1[t].status = b[t].status
    BY <1>2 DEF Relinked
  <2>2. x \in TaskIds /\ y \in TaskIds
    BY <1>2
  <2>3. Relinked(b1, add_dependency(b1, x, y), loose) /\ Relinked(b1, remove_dependency(b1, x, y), loose)
    BY <2>1, <2>2, AddDependencySound, RemoveDependencySound
  <2>4. AddBlocker(b1, x, y) = add_dependency(b1, x, y) /\ RemoveBlocker(b1, x, y) = remove_dependency(b1, x, y)
    BY <1>2 DEF AddBlocker, RemoveBlocker
  <2> QED
    BY <2>1, <2>3, <2>4 DEF Relinked
<1> QED
  BY <1>1, <1>2

\* Giving a task an owner leaves its edges and its status alone.
LEMMA OwnerSound ==
    ASSUME NEW loose \in BOOLEAN, NEW b, Sound(b, loose), NEW t \in TaskIds, NEW o \in Teammates \union {Nobody}
    PROVE  /\ Sound([b EXCEPT ![t].owner = o], loose)
           /\ Relinked(b, [b EXCEPT ![t].owner = o], loose)
<1> DEFINE new == [b EXCEPT ![t].owner = o]
<1>1. new \in Boards
  BY DEF Sound, Boards, TaskItems
<1>2. \A u \in TaskIds :
         new[u].status = b[u].status /\ new[u].blocks = b[u].blocks /\ new[u].blocked_by = b[u].blocked_by
  BY DEF Sound, Boards, TaskItems
<1> HIDE DEF new
<1>3. Sound(new, loose) /\ Relinked(b, new, loose)
  BY <1>1, <1>2 DEF Sound, Relinked
<1> QED
  BY <1>3 DEF new

\* A new task has no edges but those it is created with.
LEMMA CreatedSound ==
    ASSUME NEW loose \in BOOLEAN, NEW b, Sound(b, loose), NEW t \in TaskIds, ~Exists(b, t),
           NEW x \in TaskIds \union {0}
    PROVE  Fine(Created(b, t, x, Nobody), loose)
<1> DEFINE new == [b EXCEPT ![t] = [NoTask EXCEPT !.status = "pending", !.owner = Nobody]]
<1>1. new \in Boards
  BY DEF Sound, Boards, TaskItems, TaskStatuses, NoTask
<1>2. /\ new[t].status = "pending" /\ new[t].blocks = {} /\ new[t].blocked_by = {}
      /\ \A u \in TaskIds \ {t} : new[u] = b[u]
  BY DEF Sound, Boards, NoTask
<1> HIDE DEF new
<1>3. \A u \in TaskIds : t \notin b[u].blocks /\ t \notin b[u].blocked_by
  BY DEF Sound, Exists
<1>4. Sound(new, loose)
  BY <1>1, <1>2, <1>3 DEF Sound
<1>5. Relinked(new, new, loose)
  BY <1>4 DEF Relinked
<1>6. Relinked(new, AddBlocker(new, x, t), loose)
  BY <1>5, BlockerEditsSound, TaskIdsAssumption
<1>7. Created(b, t, x, Nobody) = AddBlocker(new, x, t)
  BY DEF Created, new
<1> QED
  BY <1>6, <1>7 DEF Fine, Relinked

\* task_update: owner, dependencies and status together.
LEMMA UpdatedSound ==
    ASSUME NEW loose \in BOOLEAN, NEW b, Sound(b, loose), NEW t \in TaskIds, Exists(b, t),
           NEW owner \in SUBSET (Teammates \union {Nobody}),
           NEW edges \in {NoEdges} \union TaskEdges, NEW status \in TaskStatuses
    PROVE  Fine(Updated(b, t, owner, edges, status), loose \/ (b[t].status = "completed" /\ status # "completed"))
<1> DEFINE owned == [b EXCEPT ![t].owner = IF owner = {} THEN @ ELSE CHOOSE o \in owner : TRUE]
           b1 == AddBlocker(owned, edges[1], t)
           b2 == RemoveBlocker(b1, edges[2], t)
           b3 == IF edges[3] = 0 THEN b2 ELSE AddBlocker(b2, t, edges[3])
           b4 == IF edges[4] = 0 THEN b3 ELSE RemoveBlocker(b3, t, edges[4])
<1>1. /\ edges[1] \in TaskIds \union {0} /\ edges[2] \in TaskIds \union {0}
      /\ edges[3] \in TaskIds \union {0} /\ edges[4] \in TaskIds \union {0}
  BY DEF NoEdges, TaskEdges
<1>2. t # 0 /\ t \in TaskIds \union {0}
  BY TaskIdsAssumption
<1>3. Relinked(b, owned, loose)
  <2> DEFINE o == IF owner = {} THEN b[t].owner ELSE CHOOSE o \in owner : TRUE
  <2>1. o \in Teammates \union {Nobody}
    BY DEF Sound, Boards, TaskItems
  <2> HIDE DEF o
  <2>2. Relinked(b, [b EXCEPT ![t].owner = o], loose)
    BY <2>1, OwnerSound
  <2> QED
    BY <2>2 DEF o
<1> HIDE DEF owned
<1>4. Relinked(b, b1, loose)
  BY <1>1, <1>2, <1>3, BlockerEditsSound
<1> HIDE DEF b1
<1>5. Relinked(b, b2, loose)
  BY <1>1, <1>2, <1>4, BlockerEditsSound
<1> HIDE DEF b2
<1>6. Relinked(b, b3, loose)
  BY <1>1, <1>2, <1>5, BlockerEditsSound
<1> HIDE DEF b3
<1>7. Relinked(b, b4, loose)
  BY <1>1, <1>2, <1>6, BlockerEditsSound
<1> HIDE DEF b4
<1>8. Updated(b, t, owner, edges, status) = IF b4 = Rejected THEN Rejected ELSE apply_status_change(b4, t, status)
  BY DEF Updated, b4, b3, b2, b1, owned
<1>9. CASE b4 # Rejected
  <2>1. Sound(b4, loose) /\ Exists(b4, t) /\ b4[t].status = b[t].status
    BY <1>7, <1>9 DEF Relinked, Exists
  <2>2. Fine(apply_status_change(b4, t, status), loose \/ (b4[t].status = "completed" /\ status # "completed"))
    BY <2>1, StatusChangeSound
  <2> QED
    BY <1>8, <1>9, <2>1, <2>2
<1> QED
  BY <1>8, <1>9 DEF Fine

-----------------------------------------------------------------------------
(* The steps.                                                              *)

\* The board starts empty.
LEMMA TaskInvInit == TaskInit => TaskInv
<1> SUFFICES ASSUME TaskInit PROVE TaskInv
  OBVIOUS
<1>1. board \in Boards /\ \A t \in TaskIds : board[t].blocks = {} /\ board[t].blocked_by = {}
  BY DEF TaskInit, Boards, TaskItems, NoTask
<1>2. Sound(board, reopened)
  BY <1>1 DEF Sound
<1> QED
  BY <1>2 DEF TaskInit, TaskInv

\* A board that was sound is still, once a task was reopened.
LEMMA SoundStays ==
    ASSUME NEW b, NEW loose \in BOOLEAN, NEW looser \in BOOLEAN, Sound(b, loose), loose => looser
    PROVE  Sound(b, looser)
BY DEF Sound

\* A step that stores an edit of the board.
LEMMA EditKeepsInv ==
    ASSUME TaskInv, NEW b, Fine(b, reopened'), Store(b), captured' = captured,
           reopened' \in BOOLEAN, reopened => reopened'
    PROVE  TaskInv'
<1>1. Sound(board', reopened')
  BY DEF Fine, Store
<1>2. \A a \in Runners : captured[a] # NoRun => Sound(captured[a], reopened')
  BY SoundStays DEF TaskInv
<1> QED
  BY <1>1, <1>2 DEF TaskInv

\* task_create and task_update.
LEMMA EditsKeepInv ==
    ASSUME TaskInv,
           \/ \E x \in TaskIds \union {0} : task_create(x, Nobody)
           \/ \E a \in TaskAgents, t \in TaskIds, s \in TaskStatuses :
                 \/ task_update(a, t, {}, NoEdges, s)
                 \/ \E e \in TaskEdges : s \in {board[t].status, "completed"} /\ task_update(a, t, {}, e, s)
                 \/ t \in Ownable /\ \E o \in {Nobody} \union Teammates : task_update(a, t, {o}, NoEdges, s)
    PROVE  TaskInv'
<1>0. Sound(board, reopened) /\ reopened \in BOOLEAN
  BY DEF TaskInv
<1>1. ASSUME NEW x \in TaskIds \union {0}, task_create(x, Nobody) PROVE TaskInv'
  <2>1. PICK t \in TaskIds :
           /\ \A u \in TaskIds : Exists(board, u) <=> u < t
           /\ Store(Created(board, t, x, Nobody))
    BY <1>1 DEF task_create
  <2>2. ~Exists(board, t)
    BY <2>1, TaskIdsAssumption
  <2>3. Fine(Created(board, t, x, Nobody), reopened)
    BY <1>0, <2>2, CreatedSound
  <2>4. captured' = captured /\ reopened' = reopened
    BY <1>1 DEF task_create
  <2> QED
    BY <1>0, <2>1, <2>3, <2>4, EditKeepsInv
<1>2. ASSUME NEW a \in TaskAgents, NEW t \in TaskIds, NEW s \in TaskStatuses,
             NEW owner \in SUBSET (Teammates \union {Nobody}), NEW e \in {NoEdges} \union TaskEdges,
             task_update(a, t, owner, e, s)
      PROVE  TaskInv'
  <2>1. /\ Exists(board, t) /\ captured' = captured /\ Store(Updated(board, t, owner, e, s))
        /\ reopened' = (reopened \/ (board[t].status = "completed" /\ s # "completed"))
    BY <1>2 DEF task_update
  <2>2. Fine(Updated(board, t, owner, e, s), reopened')
    BY <1>0, <2>1, UpdatedSound
  <2>3. reopened' \in BOOLEAN /\ (reopened => reopened')
    BY <1>0, <2>1
  <2> QED
    BY <2>1, <2>2, <2>3, EditKeepsInv
<1> QED
  BY <1>1, <1>2

\* task_claim and try_claim_ready_task set an owner, or leave the board alone.
LEMMA ClaimKeepsInv ==
    ASSUME TaskInv, captured' = captured, reopened' = reopened,
           board' = board \/ \E t \in TaskIds, a \in Teammates : board' = [board EXCEPT ![t].owner = a]
    PROVE  TaskInv'
<1>0. Sound(board, reopened) /\ reopened \in BOOLEAN
  BY DEF TaskInv
<1>1. Sound(board', reopened)
  BY <1>0, OwnerSound
<1> QED
  BY <1>1 DEF TaskInv

\* BeginRun captures the board as it is; EndRun may put a captured one back.
LEMMA RunsKeepInv ==
    ASSUME TaskInv, NEW a \in Runners, BeginRun(a) \/ EndRun(a)
    PROVE  TaskInv'
BY DEF TaskInv, BeginRun, EndRun, Sound

\* Every step keeps the invariant.
LEMMA TaskInvStep == TaskInv /\ [TaskNext]_taskVars => TaskInv'
<1> SUFFICES ASSUME TaskInv, [TaskNext]_taskVars PROVE TaskInv'
  OBVIOUS
<1>1. CASE UNCHANGED taskVars
  BY <1>1 DEF taskVars, TaskInv
<1>2. CASE \E a \in Teammates : LookForWork(a) \/ try_claim_ready_task(a) \/ \E t \in TaskIds : task_claim(a, t)
  <2>1. captured' = captured /\ reopened' = reopened
    BY <1>2 DEF LookForWork, try_claim_ready_task, task_claim
  <2>2. board' = board \/ \E t \in TaskIds, a \in Teammates : board' = [board EXCEPT ![t].owner = a]
    BY <1>2 DEF LookForWork, try_claim_ready_task, task_claim
  <2> QED
    BY <2>1, <2>2, ClaimKeepsInv
<1>3. CASE \E a \in Runners : BeginRun(a) \/ EndRun(a)
  BY <1>3, RunsKeepInv
<1>4. CASE \/ \E x \in TaskIds \union {0} : task_create(x, Nobody)
           \/ \E a \in TaskAgents, t \in TaskIds, s \in TaskStatuses :
                 \/ task_update(a, t, {}, NoEdges, s)
                 \/ \E e \in TaskEdges : s \in {board[t].status, "completed"} /\ task_update(a, t, {}, e, s)
                 \/ t \in Ownable /\ \E o \in {Nobody} \union Teammates : task_update(a, t, {o}, NoEdges, s)
  BY <1>4, EditsKeepInv
<1> QED
  BY <1>1, <1>2, <1>3, <1>4 DEF TaskNext

\* The task board, for every number of tasks and agents: blockers are edges of
\* the graph, and until a completed task is reopened they are exactly the
\* unfinished tasks that block, whatever edits are refused and whatever boards
\* failed runs put back.
THEOREM BlockersAreAlwaysReal == TaskSpec => []BlockersAreReal
BY TaskInvInit, TaskInvStep, SoundIsReal, PTL DEF TaskSpec
=============================================================================
