----------------------------- MODULE AgentMemory -----------------------------
(***************************************************************************)
(* The memory of one agent: the committed transcript and the bookkeeping of*)
(* the open run.  The operators on a state m are the methods of AgentMemory*)
(* without their trailing persist(): Journal, AgentRun and the stores say  *)
(* what a save does and how it may fail.                                   *)
(***************************************************************************)
EXTENDS Transcript

CONSTANT None    \* Option::None

ASSUME NoneAssumption ==
    /\ None \notin Message
    /\ None \notin [baseline : AgentTranscript, committed : BOOLEAN]

RunMemoryState == [baseline : AgentTranscript, committed : BOOLEAN]

AgentMemoryState ==
    [transcript : AgentTranscript, pending : BOOLEAN, resumable : Message \union {None},
     revision : Nat, run : RunMemoryState \union {None}, interrupted : BOOLEAN]

NewMemory ==
    [transcript |-> EmptyTranscript, pending |-> FALSE, resumable |-> None,
     revision |-> 0, run |-> None, interrupted |-> FALSE]

-----------------------------------------------------------------------------
(* Where a transcript stands with respect to its last turn.                *)

IsLastAssistant(items, i) ==
    /\ i \in DOMAIN items
    /\ items[i].msg.kind = "assistant"
    /\ \A j \in DOMAIN items : j > i => items[j].msg.kind # "assistant"

\* The calls of the last assistant message no later message answers.
Unresolved(items) ==
    {c \in Calls : \E i \in DOMAIN items :
        /\ IsLastAssistant(items, i)
        /\ c \in items[i].msg.uses
        /\ \A j \in DOMAIN items : j > i => c \notin items[j].msg.results}

TurnFinished(items) == IsLastAssistant(items, Len(items)) /\ Unresolved(items) = {}

-----------------------------------------------------------------------------
(* The operations of AgentMemory.                                          *)

OpenRun(m) == [baseline |-> m.transcript, committed |-> FALSE]

BeginRun(m, msg) ==
    [m EXCEPT !.run = OpenRun(m), !.pending = FALSE, !.resumable = msg,
              !.transcript = Push(@, msg)]

BeginContinuation(m) == [m EXCEPT !.run = OpenRun(m), !.pending = FALSE]

AppendItem(m, msg) == [m EXCEPT !.transcript = Push(@, msg)]

UpdatePendingTurn(m) == [m EXCEPT !.pending = TRUE]

ClearPendingTurn(m) == [m EXCEPT !.pending = FALSE]

CommitAssistantMessage(m, msg) ==
    [m EXCEPT !.transcript = Push(@, msg), !.pending = FALSE,
              !.run = IF @ = None THEN None ELSE [@ EXCEPT !.committed = TRUE]]

RollbackFailedRun(m) ==
    [m EXCEPT !.transcript = IF m.run = None THEN @ ELSE m.run.baseline,
              !.run = None, !.pending = FALSE]

FinishRun(m) ==
    [m EXCEPT !.pending = FALSE, !.run = None, !.resumable = None, !.interrupted = FALSE]

CloseInterruptedTurn_Unanswered(m) == [m EXCEPT !.interrupted = TRUE]

CloseInterruptedTurn(m) ==
    LET open == Unresolved(m.transcript.items)
    IN  [m EXCEPT !.transcript = IF open = {} THEN @ ELSE Push(@, ToolExchange(open)),
                  !.interrupted = TRUE]

\* Whether recover() changes anything, and so saves.
NeedsRecovery(m) == m.run # None \/ Unresolved(m.transcript.items) # {}

Recover(m) ==
    IF m.run = None THEN CloseInterruptedTurn(m)
    ELSE LET closed == [m EXCEPT !.run = None, !.pending = FALSE]
             kept == [closed EXCEPT !.resumable = None]
         IN  IF ~m.run.committed THEN [closed EXCEPT !.transcript = m.run.baseline]
             ELSE IF TurnFinished(m.transcript.items) THEN [kept EXCEPT !.interrupted = FALSE]
             ELSE CloseInterruptedTurn(kept)

BranchJournal(m, id) ==
    [m EXCEPT !.transcript = BranchFrom(@, id), !.interrupted = FALSE]

ApplyCompaction(m, outcome) == [m EXCEPT !.transcript = outcome]

-----------------------------------------------------------------------------
(* What callers rely on.                                                   *)

\* A transcript the model can be asked to continue: every call of the last
\* assistant message is answered and the model has not spoken since.
Continuable(items) == Unresolved(items) = {} /\ ~TurnFinished(items)

\* What a failure, or a crash before the model commits, rolls back to.
Fallback(m) == IF m.run = None THEN m.transcript ELSE m.run.baseline
=============================================================================
