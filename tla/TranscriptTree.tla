--------------------------- MODULE TranscriptTree ---------------------------
(***************************************************************************)
(* The transcript tree under every sequence of appends, branches, reloads  *)
(* from a store and compactions.  The starting transcript may be one an    *)
(* older version wrote, whose entries carry no parent links.               *)
(***************************************************************************)
EXTENDS Transcript

CONSTANTS AppendKinds,      \* kinds of entries appended
          MaxEntries,       \* bound: entries ever created
          MaxCompactions    \* bound: compactions applied

VARIABLES transcript,       \* AgentTranscript
          compactions       \* compactions applied so far

treeVars == <<transcript, compactions>>

\* An append is told apart only by what compaction looks at.
Appendable ==
    {m \in {UserTurn({}), AssistantTurn({}, {}), ToolExchange({}), DelegationResult({})} :
        m.kind \in AppendKinds}

\* A legacy transcript: n messages, linked while they are loaded.
Legacy(n) ==
    FromParts([i \in 1..n |-> [id |-> i, parent |-> NoParent, msg |-> UserTurn({})]], {}, n + 1)

TreeInit ==
    /\ transcript \in {Legacy(n) : n \in 0..2}
    /\ compactions = 0

Append_(msg) ==
    /\ transcript.next <= MaxEntries
    /\ transcript' = Push(transcript, msg)
    /\ UNCHANGED compactions

Branch(id) ==
    /\ CanBranch(transcript, id)
    /\ transcript' = BranchFrom(transcript, id)
    /\ UNCHANGED compactions

Reload ==
    /\ transcript' = FromParts(transcript.items, transcript.archive, transcript.next)
    /\ UNCHANGED compactions

Compact ==
    /\ compactions < MaxCompactions
    /\ transcript.next <= MaxEntries
    /\ CanCompact(transcript.items)
    /\ transcript' \in CompactionOutcomes(transcript)
    /\ compactions' = compactions + 1

TreeNext ==
    \/ \E msg \in Appendable : Append_(msg)
    \/ \E id \in Ids(transcript) : Branch(id)
    \/ Reload
    \/ Compact

TreeSpec == TreeInit /\ [][TreeNext]_treeVars

-----------------------------------------------------------------------------
(* Properties.                                                             *)

\* The variables have their types.
TreeTypeOK ==
    /\ transcript \in AgentTranscript
    /\ compactions \in 0..MaxCompactions

\* An entry id names one entry of the tree, however branches, reloads and
\* compactions moved entries between the active path and the archive.
UniqueIds ==
    /\ \A a, b \in Entries(transcript) : a.id = b.id => a = b
    /\ \A i, j \in DOMAIN transcript.items : transcript.items[i].id = transcript.items[j].id => i = j
    /\ EntriesIn(transcript.items) \intersect transcript.archive = {}

\* The active path is a root-to-leaf chain, which link_active_path and
\* branch_from rely on: an entry's parent is the entry before it.
\* (A compaction's replacement keeps old parents: EveryEntryReachable.)
ActivePathIsChain ==
    compactions = 0 => \A i \in DOMAIN transcript.items :
        transcript.items[i].parent = IF i = 1 THEN NoParent ELSE transcript.items[i - 1].id

\* Every entry, active or abandoned, can be branched to: its parent chain
\* reaches a root, so branch_from never reports BrokenChain.
EveryEntryReachable ==
    \A id \in Ids(transcript) : CanBranch(transcript, id)

\* The same for a transcript no compaction has rewritten.
ReachableUntilCompacted == compactions = 0 => EveryEntryReachable

\* The transcript stays a tree of entries through every sequence of appends,
\* branches, reloads and compactions: ids are unique and, until a compaction
\* rewrites the path, the path is a chain and every entry can be branched to.
TreeIsWellFormed == UniqueIds /\ ActivePathIsChain /\ ReachableUntilCompacted

\* "Try something else" and "actually, go back" are inverse: branching away
\* to any entry and back to the old leaf restores the same active path.
BranchingBackRestores ==
    compactions = 0 /\ transcript.items # <<>> =>
        \A id \in Ids(transcript) :
            LET away == BranchFrom(transcript, id)
            IN  CanBranch(away, Leaf(transcript)) => BranchFrom(away, Leaf(transcript)) = transcript

LastUserTurn(items) ==
    {items[i] : i \in {i \in DOMAIN items :
        items[i].msg.kind = "user" /\ \A j \in DOMAIN items : items[j].msg.kind = "user" => j <= i}}

\* Of every step: no append, branch or reload deletes an entry or rewrites its parent, and
\* compaction never summarises away the newest instruction of the user, nor
\* a plain entry the model has yet to answer: both are in the replacement.
CompactionKeepsInstruction ==
    IF compactions' = compactions THEN Entries(transcript) \subseteq Entries(transcript')
    ELSE
      /\ \A e \in LastUserTurn(transcript.items) :
             \E f \in EntriesIn(transcript'.items) : f.id = e.id /\ f.msg = e.msg
      /\ transcript.items[Len(transcript.items)].msg.kind # "tool" =>
             Leaf(transcript') = Leaf(transcript)
=============================================================================
