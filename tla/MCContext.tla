----------------------------- MODULE MCContext -----------------------------
(***************************************************************************)
(* What an agent's run works with, checked side by side: its transcript,   *)
(* what of it is sent, summarised or delegated, its bounds, its typed      *)
(* answer, the board of tasks, the commands it runs, the text it is shown  *)
(* and the skills it loads.  The parts share no state; each behaviour      *)
(* exercises the one `part' names while the others stay as they began.     *)
(***************************************************************************)
EXTENDS TranscriptTree, Compaction, Delegation, RunBounds, TaskBoard, BoundedProcess, TextForms

VARIABLE part

MCFresh == <<"c1", "c2">>

MCResult(size, text, marker, step) == [bytes |-> size, text |-> text, marker |-> marker, width |-> step]
MCResults ==
    {MCResult(0, TRUE, 3, 1), MCResult(3, TRUE, 3, 1), MCResult(7, TRUE, 3, 1), MCResult(8, TRUE, 5, 2),
     MCResult(6, FALSE, 3, 1)}
MCHistories == UNION {[1..n -> MCResults] : n \in 0..3}
MCBudgets == [max_bytes : {0, 1, 4, 6, 9, 13}, recent : {0, 1, 2}, max_preview_bytes : {0, 6}]

MCTexts == UNION {[1..n -> {1, 3, 5}] : n \in 0..3} \union {<<1, 1, 1, 1, 1>>, <<1, 2, 1, 2, 1, 2>>}

\* What a writer puts after "description:", and the spellings of a flag.
MCAbouts == UNION {[1..n -> {"x", "dq", "sq", "bs", "nl", "ctl", "hash", "sp", "colon"}] : n \in 0..2}
MCFlags == {<<"true">>, <<"false">>, <<"dq", "true", "dq">>, <<"false", "sp", "hash", "x">>,
            <<"sp", "true", "tab">>}
MCLineEnds == {<<"nl">>, <<"cr", "nl">>}
MCDrafts ==
    [about : MCAbouts, name : BOOLEAN, bom : BOOLEAN, eol : MCLineEnds, flag : {"none"},
     value : {<<"true">>}, body : {NoValue, <<"---", "nl", "x">>}]
    \union
    [about : {<<"x">>}, name : BOOLEAN, bom : BOOLEAN, eol : MCLineEnds,
     flag : {"disable-model-invocation", "disable_model_invocation"}, value : MCFlags, body : {<<>>}]
MCFolders == <<"d", "e">>

Init ==
    /\ part \in {"tree", "projection", "summary", "delegation", "answer", "bounds",
                 "tasks", "process", "output", "skills"}
    /\ TreeInit /\ (part # "tree" => transcript = Legacy(0))
    /\ ProjectionInit /\ (part # "projection" => canonical = <<>> /\ setting = [keep |-> 0])
    /\ CompactionInit /\ (part # "summary" => compaction.mode = "LocalOnly" /\ ~supports)
    /\ DelegationInit /\ TerminalInit /\ BoundsInit /\ TaskInit /\ ProcessInit
    /\ OutputInit /\ (part # "output" => text_ = <<>> /\ limit = [bytes |-> 0, lines |-> 0])
    /\ IF part = "skills" THEN FrontInit
       ELSE /\ draft = CHOOSE d \in Drafts : TRUE
            /\ second = "bare" /\ loaded = [entries |-> {}, why |-> "unread"]

transcriptVars == <<treeVars, projectionVars, compactionVars, delegationVars>>
runVars == <<terminalVars, boundsVars, taskVars>>
textVars == <<processVars, outputVars, frontVars>>

TranscriptNext ==
    \/ part = "tree" /\ TreeNext
       /\ UNCHANGED <<projectionVars, compactionVars, delegationVars>>
    \/ part = "projection" /\ ProjectionNext
       /\ UNCHANGED <<treeVars, compactionVars, delegationVars>>
    \/ part = "summary" /\ CompactionNext
       /\ UNCHANGED <<treeVars, projectionVars, delegationVars>>
    \/ part = "delegation" /\ DelegationNext
       /\ UNCHANGED <<treeVars, projectionVars, compactionVars>>

RunNext ==
    \/ part = "answer" /\ TerminalNext
       /\ UNCHANGED <<boundsVars, taskVars>>
    \/ part = "bounds" /\ BoundsNext
       /\ UNCHANGED <<terminalVars, taskVars>>
    \/ part = "tasks" /\ TaskNext
       /\ UNCHANGED <<terminalVars, boundsVars>>

TextNext ==
    \/ part = "process" /\ ProcessNext
       /\ UNCHANGED <<outputVars, frontVars>>
    \/ part = "output" /\ OutputNext
       /\ UNCHANGED <<processVars, frontVars>>
    \/ part = "skills" /\ FrontNext
       /\ UNCHANGED <<processVars, outputVars>>

Next ==
    \/ TranscriptNext /\ UNCHANGED <<runVars, textVars, part>>
    \/ RunNext /\ UNCHANGED <<transcriptVars, textVars, part>>
    \/ TextNext /\ UNCHANGED <<transcriptVars, runVars, part>>

Spec == Init /\ [][Next]_<<transcriptVars, runVars, textVars, part>>

\* The behaviours of the delegated calls alone.
TailSpec == Spec /\ part = "delegation"

\* The transcript stays a tree whose branches can be gone back to: see
\* TreeIsWellFormed and BranchingBackRestores (transcript.rs).
TranscriptIsATree == part = "tree" => TreeIsWellFormed /\ BranchingBackRestores

\* What the model is shown fits the budget and spends it, and what a summary
\* replaces is still named by it: BudgetIsHardAndSpent and ElisionShortens
\* (the projection of compaction.rs), FilesAreCarried (compaction.rs).
WindowIsSpentWell ==
    /\ part = "projection" => BudgetIsHardAndSpent /\ ElisionShortens
    /\ part = "summary" => FilesAreCarried


\* What one run does stays its own: the reason it ended early, the tokens it
\* counts against the shared budget, its typed answer, the children it waits
\* for: EarlyEndIsOwn, BudgetIsShared and ScheduleNeverFalls (control/run.rs),
\* OutputIsThisRuns (agent/terminal_output.rs), DelegationsAreSettled (agent/subagent.rs).
RunsKeepApart ==
    /\ part = "bounds" => EarlyEndIsOwn /\ BudgetIsShared /\ ScheduleNeverFalls
    /\ part = "answer" => OutputIsThisRuns
    /\ part = "delegation" => DelegationsAreSettled

\* What is cut is counted, and what is written into a skill is read back:
\* CaptureIsExact and WindowsAddUp (tool output), WrittenIsRead (skill.rs).
TextIsExact ==
    /\ part = "output" => CaptureIsExact /\ WindowsAddUp
    /\ part = "skills" => WrittenIsRead
=============================================================================
