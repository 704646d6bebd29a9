----------------------------- MODULE Transcript -----------------------------
(***************************************************************************)
(* The conversation of one agent: a tree of entries with one active path   *)
(* (AgentTranscript).  Pure operators; TranscriptTree gives them a state   *)
(* machine of their own and Journal builds the durable run journal on them.*)
(*                                                                         *)
(* An EntryId is a process-wide unique string, stamped in creation order.  *)
(* Here it is a number, and `next` the one the tree hands out next.  The   *)
(* order entries are archived in is immaterial (only Children shows it),   *)
(* so the archive is a set.  A message is reduced to its transcript kind,  *)
(* the tool calls it makes, the tool calls it answers and the set of tags  *)
(* naming the content it carries.                                          *)
(*                                                                         *)
(* A definition Name_Defect is Name with a plausible defect in it: the     *)
(* mutants of PROJECT.json put it in Name's place to show that a property  *)
(* notices.  Nothing else uses it.                                         *)
(***************************************************************************)
EXTENDS Integers, Sequences, FiniteSets

CONSTANTS Calls,   \* tool_use ids a model may emit
          Tags     \* identities of message contents

NoParent == 0

Kinds == {"user", "assistant", "tool", "context",
          "delegation_request", "delegation_result", "summary"}

Message == [kind : Kinds, uses : SUBSET Calls, results : SUBSET Calls, tags : SUBSET Tags]
Entry == [id : Nat, parent : Nat, msg : Message]
AgentTranscript == [items : Seq(Entry), archive : SUBSET Entry, next : Nat]

-----------------------------------------------------------------------------
(* Constructors of the entries the runtime writes.                         *)

UserTurn(tags) == [kind |-> "user", uses |-> {}, results |-> {}, tags |-> tags]
AssistantTurn(tags, uses) == [kind |-> "assistant", uses |-> uses, results |-> {}, tags |-> tags]
ToolExchange(answers) == [kind |-> "tool", uses |-> {}, results |-> answers, tags |-> {}]
CanonicalContext(tags) == [kind |-> "context", uses |-> {}, results |-> {}, tags |-> tags]
DelegationRequest(tags) == [kind |-> "delegation_request", uses |-> {}, results |-> {}, tags |-> tags]
DelegationResult(tags) == [kind |-> "delegation_result", uses |-> {}, results |-> {}, tags |-> tags]
CompactionSummary == [kind |-> "summary", uses |-> {}, results |-> {}, tags |-> {}]

\* Every kind but the assistant's own is projected as a user message.
Role(msg) == IF msg.kind = "assistant" THEN "assistant" ELSE "user"

-----------------------------------------------------------------------------
(* Looking at the tree.                                                    *)

EmptyTranscript == [items |-> <<>>, archive |-> {}, next |-> 1]

EntriesIn(s) == {s[i] : i \in DOMAIN s}
Entries(t) == EntriesIn(t.items) \union t.archive
Ids(t) == {e.id : e \in Entries(t)}
Size(t) == Len(t.items) + Cardinality(t.archive)

EntryOf(t, id) == CHOOSE e \in Entries(t) : e.id = id

Leaf(t) == IF t.items = <<>> THEN NoParent ELSE t.items[Len(t.items)].id

-----------------------------------------------------------------------------
(* Changing the tree.                                                      *)

\* Appends an entry as a child of the current leaf.
Push(t, msg) ==
    [t EXCEPT !.items = Append(@, [id |-> t.next, parent |-> Leaf(t), msg |-> msg]),
              !.next = @ + 1]

\* Fills in the parent links the active path implies, and only missing ones.
LinkActivePath(items) ==
    [i \in DOMAIN items |->
        IF i > 1 /\ items[i].parent = NoParent
        THEN [items[i] EXCEPT !.parent = items[i - 1].id]
        ELSE items[i]]

FromParts(items, archive, next) ==
    [items |-> LinkActivePath(items), archive |-> archive, next |-> next]

\* The entries from the root down to id, by at most Size(t) parent links.
PathTo(t, id) ==
    LET walk[n \in Nat] ==
            IF n = 0 THEN <<EntryOf(t, id)>>
            ELSE LET rest == walk[n - 1]
                 IN  IF rest[1].parent \in Ids(t) THEN <<EntryOf(t, rest[1].parent)>> \o rest ELSE rest
    IN  walk[Size(t) - 1]

\* path_to succeeds when the walk reaches a root through existing entries.
IsPath(t, path) == path \in Seq(Entries(t)) /\ path # <<>> /\ path[1].parent = NoParent

\* Whether branch_from(id) succeeds (an unknown entry or a broken chain fails).
CanBranch(t, id) ==
    /\ id \in Ids(t)
    /\ (\A i \in DOMAIN t.items : t.items[i].id # id) => IsPath(t, PathTo(t, id))

BranchFrom_KeepsArchived(t, id) ==
    IF \E i \in DOMAIN t.items : t.items[i].id = id
    THEN LET at == CHOOSE i \in DOMAIN t.items : t.items[i].id = id
         IN  [t EXCEPT !.items = SubSeq(@, 1, at),
                       !.archive = @ \union EntriesIn(SubSeq(t.items, at + 1, Len(t.items)))]
    ELSE [t EXCEPT !.items = PathTo(t, id), !.archive = Entries(t)]

\* Shortens the active path to end in id, or returns to an abandoned branch.
BranchFrom(t, id) ==
    IF \E i \in DOMAIN t.items : t.items[i].id = id
    THEN LET at == CHOOSE i \in DOMAIN t.items : t.items[i].id = id
         IN  [t EXCEPT !.items = SubSeq(@, 1, at),
                       !.archive = @ \union EntriesIn(SubSeq(t.items, at + 1, Len(t.items)))]
    ELSE LET path == PathTo(t, id)
         IN  [t EXCEPT !.items = path, !.archive = Entries(t) \ EntriesIn(path)]

-----------------------------------------------------------------------------
(* Compaction: what StandardCompactionEngine replaces the transcript with. *)

\* Start of the tail that must survive: the last entry, and with a tool
\* exchange the assistant turn right before it.
RequiredTailStart(items) ==
    LET last == Len(items)
    IN  IF last > 1 /\ items[last].msg.kind = "tool" /\ items[last - 1].msg.kind = "assistant"
        THEN last - 1 ELSE last


\* A tail that is the whole transcript is summarised as a unit when it is a
\* tool call with its result, and not at all otherwise.
TailStart(items) ==
    IF RequiredTailStart(items) = 1 /\ items[Len(items)].msg.kind = "tool"
    THEN Len(items) + 1 ELSE RequiredTailStart(items)

CanCompact(items) == items # <<>> /\ TailStart(items) > 1

\* Selections of the most recent entries of one kind, in transcript order:
\* n increasing positions with no later entry of the kind left out.
RecentPositions(items, kind, n) ==
    {f \in [1..n -> DOMAIN items] :
        /\ \A i, j \in 1..n : i < j => f[i] < f[j]
        /\ \A i \in 1..n : items[f[i]].msg.kind = kind
        /\ n > 0 => \A h \in DOMAIN items :
               items[h].msg.kind = kind /\ h > f[1] => \E i \in 1..n : f[i] = h}

Pick(items, f) == [i \in DOMAIN f |-> items[f[i]]]

\* The replacement: preserved user turns, preserved delegation results, the
\* summary, the tail.  Preserved entries keep their ids and parent links, and
\* the archive is dropped.
Compacted(t, turns, delegations) ==
    LET prefix == SubSeq(t.items, 1, TailStart(t.items) - 1)
        summary == [id |-> t.next, parent |-> NoParent, msg |-> CompactionSummary]
    IN  FromParts(Pick(prefix, turns) \o Pick(prefix, delegations) \o <<summary>>
                    \o SubSeq(t.items, TailStart(t.items), Len(t.items)), {}, t.next + 1)

\* Every outcome the engine's token budgets can lead to: the newest user turn
\* of the prefix is always preserved, older ones while the budget lasts.
CompactionOutcomes(t) ==
    LET prefix == SubSeq(t.items, 1, TailStart(t.items) - 1)
        Kept(kind, least) == UNION {RecentPositions(prefix, kind, n) : n \in least..Len(prefix)}
        least == IF \E i \in DOMAIN prefix : prefix[i].msg.kind = "user" THEN 1 ELSE 0
    IN  {Compacted(t, f, g) : f \in Kept("user", least), g \in Kept("delegation_result", 0)}
=============================================================================
