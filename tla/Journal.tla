------------------------------- MODULE Journal -------------------------------
(***************************************************************************)
(* The durable memory of one agent (AgentMemory): the committed transcript,*)
(* the bookkeeping of the open run, and the copy of both that the store    *)
(* holds.  Every operation changes the memory and then saves it; a save may*)
(* fail, which leaves the memory changed and the stored copy behind.  A    *)
(* crash loses the memory, and recovery settles the run the stored copy    *)
(* was left with.                                                          *)
(*                                                                         *)
(* Each step applies one method of AgentMemory with its persist().         *)
(***************************************************************************)
EXTENDS AgentMemory

CONSTANT MaxRevision    \* bound: operations on one journal

VARIABLES mem,      \* AgentMemory.state while the process is up
          disk,     \* the state the store holds
          up,       \* the agent is loaded in a live process
          draft,    \* a compaction under way: its base and its outcome
          overlapped \* history: a run was opened before the last was settled

journal == <<mem, disk, up, draft, overlapped>>

Draft == [revision : Nat, base : AgentTranscript, outcome : AgentTranscript]

-----------------------------------------------------------------------------
(* Saving.                                                                 *)

Bump_Nothing(m) == m

Bump(m) == [m EXCEPT !.revision = @ + 1]

\* persist(): the revision moves even when the save then fails.
Persist(m, saved) ==
    /\ mem' = Bump(m)
    /\ disk' = IF saved THEN mem' ELSE disk

-----------------------------------------------------------------------------
(* The journal as a component: any caller, any failure of a save, a crash  *)
(* at any point.                                                           *)

UserMessages == {UserTurn({})}
AssistantMessages == {AssistantTurn({}, uses) : uses \in SUBSET Calls}
ToolMessages == {ToolExchange(answers) : answers \in SUBSET Calls \ {{}}}

\* A transcript an older version recovered, ending in calls nobody answered.
LegacyMemory(uses) ==
    [NewMemory EXCEPT !.transcript =
        Push(Push(EmptyTranscript, UserTurn({})), AssistantTurn({}, uses))]

Init ==
    /\ \/ up = TRUE /\ disk = NewMemory
       \/ up = FALSE /\ disk \in {LegacyMemory(uses) : uses \in SUBSET Calls}
    /\ mem = disk
    /\ draft = None
    /\ overlapped = FALSE

CanStep == up /\ mem.revision < MaxRevision

\* One operation followed by its persist().
Apply(m) ==
    /\ CanStep
    /\ \E saved \in BOOLEAN : Persist(m, saved)
    /\ UNCHANGED <<up, draft>>

Step(m) == Apply(m) /\ UNCHANGED overlapped

\* Nothing in begin_run refuses to open a run over one that a failed save or
\* a failed requeue left open.
Open(m) == Apply(m) /\ overlapped' = (overlapped \/ mem.run # None)

StartRun == \E msg \in UserMessages : Open(BeginRun(mem, msg))
ContinueRun == mem.interrupted /\ Open(BeginContinuation(mem))
AppendStep == \E msg \in UserMessages \union ToolMessages : Step(AppendItem(mem, msg))
StreamStep == mem.run # None /\ (Step(UpdatePendingTurn(mem)) \/ Step(ClearPendingTurn(mem)))
CommitStep ==
    mem.run # None /\ \E msg \in AssistantMessages : Step(CommitAssistantMessage(mem, msg))
RollbackStep == Step(RollbackFailedRun(mem))
FinishStep == mem.run # None /\ Step(FinishRun(mem))
BranchStep ==
    \E id \in Ids(mem.transcript) :
        CanBranch(mem.transcript, id) /\ Step(BranchJournal(mem, id))

StartCompaction_LateRevision ==
    /\ CanStep
    /\ draft = None
    /\ CanCompact(mem.transcript.items)
    /\ \E outcome \in CompactionOutcomes(mem.transcript) :
           draft' = [revision |-> mem.revision + 1, base |-> mem.transcript, outcome |-> outcome]
    /\ UNCHANGED <<mem, disk, up, overlapped>>

StartCompaction ==
    /\ CanStep
    /\ draft = None
    /\ CanCompact(mem.transcript.items)
    /\ \E outcome \in CompactionOutcomes(mem.transcript) :
           draft' = [revision |-> mem.revision, base |-> mem.transcript, outcome |-> outcome]
    /\ UNCHANGED <<mem, disk, up, overlapped>>

\* try_apply_compaction: a draft of another revision is dropped.
FinishCompaction ==
    /\ CanStep
    /\ draft # None
    /\ draft' = None
    /\ IF mem.revision = draft.revision
       THEN \E saved \in BOOLEAN : Persist(ApplyCompaction(mem, draft.outcome), saved)
       ELSE UNCHANGED <<mem, disk>>
    /\ UNCHANGED <<up, overlapped>>

Crash ==
    /\ up
    /\ up' = FALSE
    /\ draft' = None
    /\ mem' = disk
    /\ UNCHANGED <<disk, overlapped>>

\* Loading the agent.  A save that fails leaves it unloaded, which is no step.
Load ==
    /\ ~up
    /\ disk.revision < MaxRevision
    /\ \/ NeedsRecovery(disk) /\ up' = TRUE /\ Persist(Recover(disk), TRUE)
       \/ ~NeedsRecovery(disk) /\ up' = TRUE /\ UNCHANGED <<mem, disk>>
    /\ UNCHANGED <<draft, overlapped>>

Next ==
    \/ StartRun \/ ContinueRun \/ AppendStep \/ StreamStep \/ CommitStep
    \/ RollbackStep \/ FinishStep \/ BranchStep
    \/ StartCompaction \/ FinishCompaction
    \/ Crash \/ Load

Spec == Init /\ [][Next]_journal

-----------------------------------------------------------------------------
(* Properties.                                                             *)

\* The variables have their types.
TypeOK ==
    /\ mem \in AgentMemoryState
    /\ disk \in AgentMemoryState
    /\ up \in BOOLEAN
    /\ draft \in Draft \union {None}
    /\ overlapped \in BOOLEAN

\* An agent marked interrupted (has_interrupted_turn) can be continued, in
\* memory and from the store, after any mix of failed saves, crashes,
\* recoveries, failed continuations and compactions.
InterruptedIsContinuable ==
    ~overlapped => \A m \in {mem, disk} : m.interrupted => Continuable(Fallback(m).items)

\* A half-streamed turn never outlives its run: whatever ended the run also
\* dropped the pending turn, in memory and in the store.
PendingOnlyInRun == \A m \in {mem, disk} : m.pending => m.run # None

\* The stored copy is never ahead of the memory, and a stored copy of the
\* same revision is the memory.
StoreFollowsMemory ==
    /\ disk.revision <= mem.revision
    /\ disk.revision = mem.revision => disk = mem

\* A compaction that passes the revision check replaces the very transcript
\* it summarised: no entry appended while it ran is dropped.
CompactionIsFresh ==
    draft # None /\ draft.revision = mem.revision => draft.base = mem.transcript
=============================================================================
